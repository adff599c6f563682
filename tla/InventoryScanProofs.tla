------------------------ MODULE InventoryScanProofs ------------------------
(***************************************************************************)
(* What a scan that lists and then gets may claim, proved for all worlds,  *)
(* numbers of resources, changes by others and calls that fail.            *)
(***************************************************************************)
EXTENDS InventoryScan, FoldProofs, SequenceTheorems

-----------------------------------------------------------------------------
(* The invariant                                                           *)

\* The world stays one of its kind, and the past has what it is now.
WorldInv ==
  /\ service \in DOMAIN Kinds /\ named \in BOOLEAN
  /\ WorldOK(service, world)
  /\ past = [k \in DOMAIN world |-> past[k]]
  /\ \A k \in DOMAIN world : world[k] \in past[k] /\ past[k] \subseteq Values(k)

Identities == {"user", "group", "role"}

\* The operations on a listed resource of each kind.
Requests ==
  [bucket |-> BucketChecks, trail |-> {"get_trail_status"}, detector |-> {"get_detector"},
   function |-> {"get_function_url_config"},
   user |-> {"list_access_keys", "list_inline", "list_attached"},
   group |-> {"list_inline", "list_attached"},
   role |-> {"list_inline", "list_attached", "get_role"},
   dockerfile |-> {"read"}, manifest |-> {"read"}]

Requested == UNION {Requests[kind] : kind \in DOMAIN Requests}

\* Calls are about resources of the world that runs.
CallOK(c) ==
  /\ c = Call(c.op, c.key, c.arg, c.by) /\ c.key = <<c.key[1], c.key[2]>>
  /\ \/ /\ service \notin Kubectl /\ c.op = "list" /\ c = List(c.key[1], c.key[2])
        /\ c.key[1] \in Kinds[service] /\ c.key[2] \in ToSet(Pages(c.key[1]))
     \/ /\ c.op = "kubectl" /\ c = Kube(c.key[1])
        /\ service \in Kubectl /\ c.key[1] \in Kinds[service] \ {"context"}
     \/ c = Probe
     \/ c = CurrentContext /\ service = "cluster"
     \/ c = Get("get_account_summary", Root) /\ service = "iam"
     \/ /\ c = Get(c.op, c.key) /\ c.key \in DOMAIN world
        /\ c.key[1] \in DOMAIN Requests /\ c.op \in Requests[c.key[1]]
     \/ /\ c = Inspect(c.arg) /\ service = "daemon"
        /\ Containers(c.arg) \subseteq DOMAIN world
     \/ /\ c.by = c.key /\ c.key \in DOMAIN world /\ c.key[1] \in Identities
        /\ c.op = Inline[c.key[1]]
     \/ /\ c.by = c.key /\ c.key \in DOMAIN world /\ c.key[1] = "user"
        /\ c.op = "get_access_key_last_used"
     \/ /\ c.op \in {"get_policy", "get_policy_version"} /\ c.key[1] = "policy"
        /\ c.by \in DOMAIN world /\ c.by[1] \in Identities /\ c.key \in DOMAIN world
        /\ c.op = "get_policy" => c.arg = {}

\* The call whose answer leads to call c.
Parent(c) ==
  CASE c.op = "list" -> List(c.key[1], "1")
    [] c.op \in Requested -> List(c.key[1], Last(Pages(c.key[1])))
    [] c.op = "inspect" -> List("container", "1")
    [] c.op = "get_access_key_last_used" -> Get("list_access_keys", c.key)
    [] c.op \in {"get_user_policy", "get_group_policy", "get_role_policy"} ->
         Get("list_inline", c.key)
    [] c.op = "get_policy" -> Get("list_attached", c.by)
    [] c.op = "get_policy_version" -> Call("get_policy", c.key, {}, c.by)

\* The calls about one resource, and those that a page of a list leads to.
RequestCalls(key) == {Get(op, key) : op \in Requests[key[1]]}

ListCalls(kind, page, names) ==
  IF page # Last(Pages(kind)) THEN {List(kind, "2")}
  ELSE IF kind \in DOMAIN Requests THEN UNION {RequestCalls(<<kind, name>>) : name \in names}
  ELSE IF kind = "container" /\ names # {} THEN {Inspect(names)} ELSE {}

\* The calls that the answer to call c leads to.
Offspring(c, known) ==
  LET shown == known[c].show
  IN  CASE c.op = "list" ->
             ListCalls(c.key[1], c.key[2], {r.name : r \in Listed(known, c.key[1])})
        [] c.op = "list_access_keys" ->
             {Call("get_access_key_last_used", c.key, {k.name}, c.by) :
                k \in {j \in shown.keys : j.is.active}}
        [] c.op = "list_inline" ->
             {Call(Inline[c.key[1]], c.key, {d.name}, c.by) : d \in shown.inline}
        [] c.op = "list_attached" ->
             {Call("get_policy", <<"policy", p>>, {}, c.by) : p \in shown.attached}
        [] c.op = "get_policy" -> {Call("get_policy_version", c.key, {shown.default}, c.by)}
        [] OTHER -> {}

\* What a scan asks first.
FirstCalls ==
  IF service = "iam"
  THEN {Get("get_account_summary", Root)} \union {List(kind, "1") : kind \in Identities}
  ELSE IF service = "cluster"
  THEN {Probe, Kube("pods"), Kube("services")} \union (IF named THEN {} ELSE {CurrentContext})
  ELSE IF service = "admission"
  THEN {Probe} \union {Kube(kind) : kind \in Kinds[service] \ {"context"}}
  ELSE (IF service = "daemon" THEN {Probe} ELSE {})
       \union {List(kind, "1") : kind \in Kinds[service]}

Asked == DOMAIN replies \union ToSet(agenda)

\* Every call is one of the first or follows from its parent's answer.
Tree ==
  /\ \A c \in Asked : CallOK(c)
  /\ \A c \in Asked \ FirstCalls :
       Got(replies, Parent(c)) /\ c \in Offspring(Parent(c), replies)

Once == ListsAll(agenda, ToSet(agenda)) /\ ToSet(agenda) \intersect DOMAIN replies = {}

\* The calls that come before everything else, and end the scan when they fail.
Guards == {Probe, CurrentContext}

Order ==
  /\ DOMAIN replies = {} => agenda = First
  /\ Probe \in FirstCalls /\ DOMAIN replies # {} => Probe \in DOMAIN replies
  /\ CurrentContext \in FirstCalls =>
       CurrentContext \in DOMAIN replies \/ DOMAIN replies \subseteq {Probe}
  /\ DOMAIN replies = {Probe} => agenda = <<>> \/ agenda = Tail(First)
  /\ Unavailable(replies) => agenda = <<>> /\ DOMAIN replies \subseteq Guards

\* Whether an essential call failed, after which nothing is asked.
Ended == \E c \in DOMAIN replies : Essential(c) /\ ~Got(replies, c)

Complete ==
  pc # "raised" /\ ~Ended =>
    /\ FirstCalls \subseteq Asked
    /\ \A c \in DOMAIN replies : Got(replies, c) => Offspring(c, replies) \subseteq Asked

\* The states a resource has been in while it was there.
Seen(k) == past[k] \ {Gone}

TrueList(kind, page, show) ==
  /\ IsFiniteSet(show)
  /\ \A r \in show : LET k == <<kind, r.name>>
                     IN  k \in DOMAIN world /\ PageOf(k) = page /\ r.is \in Seen(k)
  /\ \A k \in DOMAIN world :
       k[1] = kind /\ PageOf(k) = page => Gone \in past[k] \/ \E r \in show : r.name = k[2]

\* What an answer shows was so at some time of the scan.
TrueAnswer(c, show) ==
  /\ c.op = "list" => TrueList(c.key[1], c.key[2], show)
  /\ c.op = "kubectl" => /\ show.from \in Clusters /\ <<c.key[1], show.from>> \in DOMAIN world
                         /\ show.is \in Seen(<<c.key[1], show.from>>)
  /\ c.op = "inspect" =>
       /\ IsFiniteSet(show)
       /\ \A r \in show : r.name \in c.arg /\ r.is \in Seen(<<"container", r.name>>)
       /\ \A id \in c.arg : \E r \in show : r.name = id
  /\ c.op \in OfPart =>
       \E v \in Seen(c.key) : \E d \in Parts(c, v) : d.name \in c.arg /\ show = d.is
  /\ c.op \notin OfPart \union {"list", "kubectl", "probe", "inspect"} => show \in Seen(c.key)

\* And what was not found was not there, or had no URL.
TrueMiss(c) ==
  c.op = "get_function_url_config" => \E v \in past[c.key] : v = Gone \/ v.url = "none"

Truth ==
  \A c \in DOMAIN replies :
    /\ replies[c].how \in {"answered", "missing", "denied", "lost"}
    /\ Got(replies, c) => TrueAnswer(c, replies[c].show)
    /\ replies[c].how = "missing" => TrueMiss(c)
    /\ service \in Aws /\ replies[c].how = "lost" => pc = "raised"

Said ==
  /\ pc \in {"asking", "done", "raised"}
  /\ pc # "asking" => agenda = <<>>
  /\ findings = IF pc = "done" THEN Findings ELSE {}

ScanInv == WorldInv /\ Tree /\ Once /\ Order /\ Complete /\ Truth /\ Said

-----------------------------------------------------------------------------
(* Calls                                                                   *)

\* A call has the parts it was made of.
LEMMA CallParts ==
  ASSUME NEW op, NEW key, NEW arg, NEW by
  PROVE  /\ Call(op, key, arg, by).op = op /\ Call(op, key, arg, by).key = key
         /\ Call(op, key, arg, by).arg = arg /\ Call(op, key, arg, by).by = by
BY DEF Call

\* The requests that each kind of resource gets.
LEMMA RequestsMade ==
  /\ DOMAIN Requests = {"bucket", "trail", "detector", "function", "user", "group", "role",
                        "dockerfile", "manifest"}
  /\ Requests["bucket"] = BucketChecks
  /\ Requests["trail"] = {"get_trail_status"} /\ Requests["detector"] = {"get_detector"}
  /\ Requests["function"] = {"get_function_url_config"}
  /\ Requests["user"] = {"list_access_keys", "list_inline", "list_attached"}
  /\ Requests["group"] = {"list_inline", "list_attached"}
  /\ Requests["role"] = {"list_inline", "list_attached", "get_role"}
  /\ Requests["dockerfile"] = {"read"} /\ Requests["manifest"] = {"read"}
BY DEF Requests

\* The operations that are asked of one listed resource.
LEMMA RequestedOps ==
  Requested = BucketChecks \union
    {"get_trail_status", "get_detector", "get_function_url_config", "list_access_keys",
     "list_inline", "list_attached", "get_role", "read"}
BY RequestsMade DEF Requested

\* The kinds of each service.
LEMMA KindsOfServices ==
  /\ DOMAIN Kinds = {"s3", "cloudtrail", "guardduty", "ec2", "rds", "lambda", "iam", "daemon",
                     "dockerfile", "manifest", "cluster", "admission"}
  /\ Kinds["s3"] = {"bucket"} /\ Kinds["cloudtrail"] = {"trail"}
  /\ Kinds["guardduty"] = {"detector"} /\ Kinds["ec2"] = {"securityGroup"}
  /\ Kinds["rds"] = {"database"} /\ Kinds["lambda"] = {"function"}
  /\ Kinds["iam"] = {"root", "user", "group", "role", "policy"}
  /\ Kinds["daemon"] = {"container"} /\ Kinds["dockerfile"] = {"dockerfile"}
  /\ Kinds["manifest"] = {"manifest"} /\ Kinds["cluster"] = {"context", "pods", "services"}
  /\ Kinds["admission"] =
       {"context", "namespaces", "pods", "validatingwebhooks", "mutatingwebhooks"}
BY DEF Kinds

\* A list has one page or two.
LEMMA PagesOf ==
  ASSUME NEW kind
  PROVE  \/ Pages(kind) = <<"1">> /\ ToSet(Pages(kind)) = {"1"} /\ Last(Pages(kind)) = "1"
         \/ /\ kind \in {"database", "function", "user"}
            /\ Pages(kind) = <<"1", "2">> /\ ToSet(Pages(kind)) = {"1", "2"}
            /\ Last(Pages(kind)) = "2"
<1>1. ToSet(<<"1">>) = {"1"} /\ Last(<<"1">>) = "1"
  BY DEF ToSet, Last
<1>2. ToSet(<<"1", "2">>) = {"1", "2"} /\ Last(<<"1", "2">>) = "2"
  BY DEF ToSet, Last
<1> QED BY <1>1, <1>2 DEF Pages

\* A list with one element put in front.
LEMMA Prefixed ==
  ASSUME NEW S, NEW a \in S, NEW list \in Seq(S)
  PROVE  /\ <<a>> \o list # <<>> /\ Head(<<a>> \o list) = a /\ Tail(<<a>> \o list) = list
         /\ a \in ToSet(<<a>> \o list)
<1> DEFINE one == <<a>> all == one \o list
<1>1. one \in Seq(S) /\ Len(one) = 1 /\ one[1] = a
  OBVIOUS
<1> HIDE DEF one
<1>2. /\ all \in Seq(S) /\ Len(all) = 1 + Len(list) /\ Len(list) \in Nat
      /\ \A i \in 1..Len(all) : all[i] = IF i = 1 THEN a ELSE list[i - 1]
  <2>1. /\ all \in Seq(S) /\ Len(all) = Len(one) + Len(list)
        /\ \A i \in 1..Len(one) + Len(list) :
             all[i] = IF i <= Len(one) THEN one[i] ELSE list[i - Len(one)]
    <3>1. one \in Seq(S)
      BY <1>1
    <3> QED BY <3>1, ConcatProperties, Zenon
  <2>2. Len(list) \in Nat
    OBVIOUS
  <2> HIDE DEF all
  <2>3. \A i \in 1..Len(all) : all[i] = IF i <= Len(one) THEN one[i] ELSE list[i - Len(one)]
    BY <2>1, Zenon
  <2>4. Len(all) = 1 + Len(list) /\ all \in Seq(S) /\ Len(list) \in Nat
    BY <1>1, <2>1, <2>2
  <2>5. \A i \in 1..Len(all) : i <= Len(one) <=> i = 1
    BY <1>1, <2>4
  <2> QED BY <1>1, <2>3, <2>4, <2>5
<1> HIDE DEF all
<1>3. 1 \in 1..Len(all) /\ all # <<>>
  BY <1>2
<1>4. Head(all) = a /\ a \in ToSet(all)
  BY <1>2, <1>3 DEF ToSet
<1>5. Tail(all) = list
  <2>1. /\ Tail(all) \in Seq(S) /\ Len(Tail(all)) = Len(list)
        /\ \A i \in 1..Len(list) : Tail(all)[i] = all[i + 1]
    BY <1>2, <1>3, HeadTailProperties
  <2>2. \A i \in 1..Len(list) : i + 1 \in 1..Len(all) /\ i + 1 # 1 /\ (i + 1) - 1 = i
    BY <1>2
  <2>3. \A i \in 1..Len(list) : Tail(all)[i] = list[i]
    BY <1>2, <2>1, <2>2
  <2> HIDE DEF one
  <2> QED BY <2>1, <2>3, SeqEqual
<1> QED BY <1>3, <1>4, <1>5 DEF all, one

\* A list of four or five different elements.
LEMMA LongerLists ==
  /\ \A a, b, c, d :
       (a # b /\ a # c /\ a # d /\ b # c /\ b # d /\ c # d) =>
         ListsAll(<<a, b, c, d>>, {a, b, c, d})
  /\ \A a, b, c, d, e :
       (/\ a # b /\ a # c /\ a # d /\ a # e /\ b # c /\ b # d /\ b # e /\ c # d /\ c # e /\ d # e)
         => ListsAll(<<a, b, c, d, e>>, {a, b, c, d, e})
BY DEF ListsAll, ToSet, IsInjective

\* The reads of the admission scanner, each once.
LEMMA AdmissionLists ==
  ListsAll([i \in DOMAIN AdmissionReads |-> Kube(AdmissionReads[i])],
           {Kube(kind) : kind \in Kinds["admission"] \ {"context"}})
<1> DEFINE kinds == Kinds["admission"] \ {"context"}
           f == [kind \in kinds |-> Kube(kind)]
<1>1. kinds = {"namespaces", "pods", "validatingwebhooks", "mutatingwebhooks"}
  BY KindsOfServices
<1>2. ListsAll(AdmissionReads, kinds)
  BY <1>1 DEF ListsAll, AdmissionReads, ToSet, IsInjective
<1>3. \A x, y \in kinds : f[x] = f[y] => x = y
  BY DEF Kube, Get, Call
<1>4. ListsAll([i \in DOMAIN AdmissionReads |-> f[AdmissionReads[i]]], {f[x] : x \in kinds})
  <2>1. DOMAIN f = kinds
    OBVIOUS
  <2> HIDE DEF f, kinds
  <2> QED BY <1>2, <1>3, <2>1, MappedList
<1>5. \A i \in DOMAIN AdmissionReads : AdmissionReads[i] \in kinds
  BY <1>2 DEF ListsAll, ToSet
<1> HIDE DEF kinds
<1>6. [i \in DOMAIN AdmissionReads |-> f[AdmissionReads[i]]]
      = [i \in DOMAIN AdmissionReads |-> Kube(AdmissionReads[i])]
  BY <1>5
<1>7. {f[x] : x \in kinds} = {Kube(kind) : kind \in kinds}
  OBVIOUS
<1> QED BY <1>4, <1>6, <1>7 DEF kinds

\* The first calls are listed once each; the probe comes before the context, and the
\* context before the rest.
LEMMA FirstListed ==
  ASSUME service \in DOMAIN Kinds, named \in BOOLEAN
  PROVE  /\ ListsAll(First, FirstCalls)
         /\ Probe \in FirstCalls => First # <<>> /\ Head(First) = Probe
         /\ CurrentContext \in FirstCalls =>
              Tail(First) # <<>> /\ Head(Tail(First)) = CurrentContext
<1> USE DEF Get, List, Call
<1>1. CASE service \in Aws \ {"iam"}
  <2>1. \E kind : First = <<List(kind, "1")>> /\ Kinds[service] = {kind}
    BY <1>1, KindsOfServices DEF Aws, First, AwsFirst
  <2>2. PICK kind : First = <<List(kind, "1")>> /\ Kinds[service] = {kind}
    BY <2>1
  <2>3. /\ FirstCalls = {List(kind, "1")}
        /\ Probe \notin FirstCalls /\ CurrentContext \notin FirstCalls
    BY <1>1, <2>2 DEF Aws, FirstCalls, Probe, CurrentContext
  <2> QED BY <2>2, <2>3, ShortLists
<1>2. CASE service \in {"dockerfile", "manifest"}
  <2>1. First = <<List(service, "1")>> /\ FirstCalls = {List(service, "1")}
    <3>1. Kinds[service] = {service}
      BY <1>2, KindsOfServices
    <3>2. CASE service = "dockerfile"
      BY <3>1, <3>2 DEF First, WorkloadFirst, FirstCalls, Aws
    <3>3. CASE service = "manifest"
      BY <3>1, <3>3 DEF First, WorkloadFirst, FirstCalls, Aws
    <3> QED BY <1>2, <3>2, <3>3
  <2>2. Probe \notin FirstCalls /\ CurrentContext \notin FirstCalls
    BY <2>1 DEF Probe, CurrentContext
  <2> QED BY <2>1, <2>2, ShortLists
<1>3. CASE service = "iam"
  <2>1. First = <<Get("get_account_summary", Root), List("user", "1"), List("group", "1"),
                  List("role", "1")>>
    BY <1>3 DEF First, AwsFirst, Aws
  <2>2. FirstCalls = {Get("get_account_summary", Root), List("user", "1"), List("group", "1"),
                      List("role", "1")}
    BY <1>3 DEF FirstCalls, Identities
  <2>3. ListsAll(First, FirstCalls)
    <3> QED BY <2>1, <2>2, LongerLists
  <2>4. Probe \notin FirstCalls /\ CurrentContext \notin FirstCalls
    BY <2>2 DEF Probe, CurrentContext
  <2> QED BY <2>3, <2>4
<1>4. CASE service = "daemon"
  <2>1. First = <<Probe, List("container", "1")>>
    BY <1>4 DEF First, WorkloadFirst, Aws
  <2>2. FirstCalls = {Probe, List("container", "1")}
    BY <1>4, KindsOfServices DEF FirstCalls
  <2>3. Probe # List("container", "1") /\ CurrentContext \notin FirstCalls
    BY <2>2 DEF Probe, CurrentContext
  <2>4. First # <<>> /\ Head(First) = Probe
    BY <2>1
  <2> QED BY <2>1, <2>2, <2>3, <2>4, ShortLists
<1>5. CASE service = "admission"
  <2> DEFINE reads == [i \in DOMAIN AdmissionReads |-> Kube(AdmissionReads[i])]
             calls == {Kube(kind) : kind \in Kinds["admission"] \ {"context"}}
  <2>1. First = <<Probe>> \o reads /\ FirstCalls = {Probe} \union calls
    BY <1>5 DEF First, WorkloadFirst, Aws, FirstCalls
  <2>2. Probe \notin calls /\ CurrentContext \notin FirstCalls
    BY <2>1 DEF Probe, CurrentContext, Kube
  <2>3. ListsAll(reads, calls)
    BY AdmissionLists
  <2> HIDE DEF reads, calls
  <2>4. ListsAll(First, FirstCalls)
    BY <2>1, <2>2, <2>3, ShortLists, JoinedLists
  <2>5. reads \in Seq({Probe} \union calls)
    BY <2>3 DEF ListsAll
  <2>6. First # <<>> /\ Head(First) = Probe
    BY <2>1, <2>5, Prefixed
  <2> QED BY <2>2, <2>4, <2>6
<1>6. CASE service = "cluster"
  <2> DEFINE reads == <<Kube("pods"), Kube("services")>>
             calls == {Kube("pods"), Kube("services")}
             asks == <<CurrentContext>> \o reads
  <2>1. First = (<<Probe>> \o (IF named THEN <<>> ELSE <<CurrentContext>>)) \o reads
    BY <1>6 DEF First, WorkloadFirst, Aws
  <2>2. FirstCalls = ({Probe} \union (IF named THEN {} ELSE {CurrentContext})) \union calls
    BY <1>6 DEF FirstCalls
  <2>3. Probe \notin calls /\ CurrentContext \notin calls /\ Probe # CurrentContext
    BY DEF Probe, CurrentContext, Kube
  <2>4. Kube("pods") # Kube("services")
    BY DEF Kube
  <2>5. ListsAll(reads, calls)
    BY <2>4, ShortLists
  <2> HIDE DEF reads, calls
  <2>6. CASE named
    <3>1. First = <<Probe>> \o reads /\ FirstCalls = {Probe} \union calls
      BY <2>1, <2>2, <2>6
    <3>2. ListsAll(First, FirstCalls)
      BY <2>3, <2>5, <3>1, ShortLists, JoinedLists
    <3>3. reads \in Seq({Probe} \union calls)
      BY <2>5 DEF ListsAll
    <3>4. First # <<>> /\ Head(First) = Probe
      BY <3>1, <3>3, Prefixed
    <3> QED BY <2>3, <3>1, <3>2, <3>4
  <2>7. CASE ~named
    <3> DEFINE S == {Probe, CurrentContext} \union calls
    <3>1. First = (<<Probe>> \o <<CurrentContext>>) \o reads /\ FirstCalls = S
      BY <2>1, <2>2, <2>7
    <3>2. /\ <<Probe>> \in Seq(S) /\ <<CurrentContext>> \in Seq(S) /\ reads \in Seq(S)
          /\ Probe \in S /\ CurrentContext \in S
      BY <2>5 DEF ListsAll
    <3> HIDE DEF S
    <3>3. First = <<Probe>> \o asks /\ asks \in Seq(S)
      BY <3>1, <3>2, ConcatAssociative, ConcatProperties
    <3>4. asks # <<>> /\ Head(asks) = CurrentContext
      BY <3>2, Prefixed
    <3>5. First # <<>> /\ Head(First) = Probe /\ Tail(First) = asks
      BY <3>2, <3>3, Prefixed
    <3>6. ListsAll(asks, {CurrentContext} \union calls)
      BY <2>3, <2>5, ShortLists, JoinedLists
    <3>7. ListsAll(<<Probe>> \o asks, {Probe} \union ({CurrentContext} \union calls))
      <4> HIDE DEF asks
      <4> QED BY <2>3, <3>6, ShortLists, JoinedLists
    <3>8. S = {Probe} \union ({CurrentContext} \union calls)
      BY DEF S
    <3> HIDE DEF asks
    <3> QED BY <3>1, <3>3, <3>4, <3>5, <3>7, <3>8
  <2> QED BY <2>6, <2>7
<1> QED BY <1>1, <1>2, <1>3, <1>4, <1>5, <1>6, KindsOfServices DEF Aws

-----------------------------------------------------------------------------
(* What follows from an answer                                             *)

TrueReplies(known) == \A c \in DOMAIN known : Got(known, c) => TrueAnswer(c, known[c].show)

\* A list that was read to its end is finite, and about resources that were there.
LEMMA ListedResources ==
  ASSUME NEW known, TrueReplies(known), NEW kind
  PROVE  /\ IsFiniteSet(Listed(known, kind))
         /\ \A r \in Listed(known, kind) :
              <<kind, r.name>> \in DOMAIN world /\ r.is \in Seen(<<kind, r.name>>)
<1> DEFINE pages == {List(kind, p) : p \in ToSet(Pages(kind))}
<1>1. CASE ~\A c \in pages : Got(known, c)
  BY <1>1, FS_EmptySet DEF Listed
<1>2. CASE \A c \in pages : Got(known, c)
  <2>1. Listed(known, kind) = UNION {known[c].show : c \in pages}
    BY <1>2 DEF Listed
  <2>2. \A p : List(kind, p).op = "list" /\ List(kind, p).key = <<kind, p>>
    BY DEF List, Get, Call
  <2>3. \A c \in pages : TrueList(kind, c.key[2], known[c].show)
    <3>1. \A c \in pages : c.op = "list" /\ c.key[1] = kind /\ TrueAnswer(c, known[c].show)
      BY <1>2, <2>2 DEF TrueReplies, Got
    <3>2. ASSUME NEW c \in pages
          PROVE  TrueList(kind, c.key[2], known[c].show)
      BY <3>1 DEF TrueAnswer
    <3> QED BY <3>2
  <2>4. \A c \in pages : IsFiniteSet(known[c].show)
    BY <2>3 DEF TrueList
  <2>5. IsFiniteSet(Listed(known, kind))
    <3>1. CASE Pages(kind) = <<"1">> /\ ToSet(Pages(kind)) = {"1"}
      <4>1. pages = {List(kind, "1")}
        BY <3>1
      <4>2. Listed(known, kind) = known[List(kind, "1")].show
        BY <2>1, <4>1
      <4> QED BY <2>4, <4>1, <4>2
    <3>2. CASE ToSet(Pages(kind)) = {"1", "2"}
      <4>1. pages = {List(kind, "1"), List(kind, "2")}
        BY <3>2
      <4>2. Listed(known, kind) = known[List(kind, "1")].show \union known[List(kind, "2")].show
        BY <2>1, <4>1
      <4> QED BY <2>4, <4>1, <4>2, FS_Union
    <3> QED BY <3>1, <3>2, PagesOf
  <2>6. \A r \in Listed(known, kind) :
          <<kind, r.name>> \in DOMAIN world /\ r.is \in Seen(<<kind, r.name>>)
    <3> HIDE DEF pages
    <3> QED BY <2>1, <2>3 DEF TrueList
  <2> QED BY <2>5, <2>6
<1> QED BY <1>1, <1>2

\* The elements of a finite set, in one order.
LEMMA InOrderLists ==
  ASSUME NEW S, IsFiniteSet(S)
  PROVE  ListsAll(InOrder(S), S)
BY AppendAll DEF InOrder

\* The names that a finite list gives.
LEMMA FiniteNames ==
  ASSUME NEW S, IsFiniteSet(S)
  PROVE  IsFiniteSet({r.name : r \in S})
<1> DEFINE f == [r \in S |-> r.name]
<1>1. IsFiniteSet({f[r] : r \in DOMAIN f})
  <2>1. DOMAIN f = S /\ f = [r \in DOMAIN f |-> f[r]]
    OBVIOUS
  <2> HIDE DEF f
  <2> QED BY <2>1, FiniteImage
<1>2. {f[r] : r \in DOMAIN f} = {r.name : r \in S}
  OBVIOUS
<1> QED BY <1>1, <1>2

\* One list of calls for each resource, without a call in two of them.
LEMMA PerResourceLists ==
  ASSUME NEW kind, NEW name
  PROVE  /\ kind \in DOMAIN Requests \ {"dockerfile", "manifest"} =>
              ListsAll(PerResource(<<kind, name>>), RequestCalls(<<kind, name>>))
         /\ kind \notin DOMAIN Requests => PerResource(<<kind, name>>) = <<>>
<1> DEFINE key == <<kind, name>>
           gets == {Get(op, key) : op \in Requests[kind]}
<1>0. /\ key[1] = kind
      /\ \A x, y : Get(x, key) = Get(y, key) => x = y
  BY DEF Get, Call
<1>9. RequestCalls(key) = gets
  BY DEF RequestCalls
<1> HIDE DEF key
<1>1. CASE kind = "bucket"
  <2>1. gets = {Get("public_access_block", key), Get("default_encryption", key),
                Get("versioning", key), Get("access_logging", key), Get("public_policy", key)}
    BY <1>1, RequestsMade DEF BucketChecks
  <2>2. PerResource(key) =
          <<Get("public_access_block", key), Get("default_encryption", key),
            Get("versioning", key), Get("access_logging", key), Get("public_policy", key)>>
    BY <1>0, <1>1 DEF PerResource
  <2> QED BY <1>0, <1>9, <1>1, <2>1, <2>2, LongerLists, RequestsMade DEF key
<1>2. CASE kind \in {"trail", "detector", "function"}
  <2>1. \E op : PerResource(key) = <<Get(op, key)>> /\ Requests[kind] = {op}
    BY <1>0, <1>2, RequestsMade DEF PerResource
  <2>2. PICK op : PerResource(key) = <<Get(op, key)>> /\ Requests[kind] = {op}
    BY <2>1
  <2>3. gets = {Get(op, key)}
    BY <2>2
  <2> QED BY <1>2, <1>9, <2>2, <2>3, ShortLists, RequestsMade DEF key
<1> DEFINE policies == <<Get("list_inline", key), Get("list_attached", key)>>
           pair == {Get("list_inline", key), Get("list_attached", key)}
<1>3. ListsAll(policies, pair)
  BY <1>0, ShortLists
<1> HIDE DEF policies, pair
<1>4. CASE kind = "user"
  <2>1. PerResource(key) = <<Get("list_access_keys", key)>> \o policies
    BY <1>0, <1>4 DEF PerResource, policies
  <2>2. gets = {Get("list_access_keys", key)} \union pair
    BY <1>4, RequestsMade DEF pair
  <2>3. {Get("list_access_keys", key)} \cap pair = {}
    BY <1>0 DEF pair
  <2>4. ListsAll(PerResource(key), gets)
    <3>1. \A x : ListsAll(<<x>>, {x})
      BY ShortLists
    <3>2. ListsAll(<<Get("list_access_keys", key)>> \o policies,
                   {Get("list_access_keys", key)} \union pair)
      BY <1>3, <2>3, <3>1, JoinedLists
    <3> QED BY <2>1, <2>2, <3>2
  <2> QED BY <1>4, <1>9, <2>4, RequestsMade DEF key
<1>5. CASE kind = "group"
  <2>1. PerResource(key) = policies
    BY <1>0, <1>5 DEF PerResource, policies
  <2>2. gets = pair
    BY <1>5, RequestsMade DEF pair
  <2> QED BY <1>3, <1>5, <1>9, <2>1, <2>2, RequestsMade DEF key
<1>6. CASE kind = "role"
  <2>1. PerResource(key) = policies \o <<Get("get_role", key)>>
    BY <1>0, <1>6 DEF PerResource, policies
  <2>2. gets = pair \union {Get("get_role", key)}
    BY <1>6, RequestsMade DEF pair
  <2>3. pair \cap {Get("get_role", key)} = {}
    BY <1>0 DEF pair
  <2>4. ListsAll(PerResource(key), gets)
    <3>1. \A x : ListsAll(<<x>>, {x})
      BY ShortLists
    <3>2. ListsAll(policies \o <<Get("get_role", key)>>, pair \union {Get("get_role", key)})
      BY <1>3, <2>3, <3>1, JoinedLists
    <3> QED BY <2>1, <2>2, <3>2
  <2> QED BY <1>6, <1>9, <2>4, RequestsMade DEF key
<1>7. CASE kind \notin DOMAIN Requests
  BY <1>0, <1>7, RequestsMade DEF PerResource, key
<1>8. CASE kind \in {"dockerfile", "manifest"}
  BY <1>8, RequestsMade
<1> QED BY <1>1, <1>2, <1>4, <1>5, <1>6, <1>7, <1>8, RequestsMade

\* The calls about all the resources of a kind that gets requests.
LEMMA ResourceCallsListed ==
  ASSUME NEW kind, kind \in DOMAIN Requests \ {"dockerfile", "manifest"},
         NEW names, IsFiniteSet({<<kind, name>> : name \in names})
  PROVE  ListsAll(FlattenSeq(Each({<<kind, name>> : name \in names}, PerResource)),
                  UNION {RequestCalls(<<kind, name>>) : name \in names})
<1> DEFINE keys == {<<kind, name>> : name \in names}
           seq == InOrder(keys)
           seqs == [i \in DOMAIN seq |-> PerResource(seq[i])]
           Of(key) == RequestCalls(key)
           sets == [i \in DOMAIN seq |-> Of(seq[i])]
           all == UNION {RequestCalls(<<kind, name>>) : name \in names}
<1>1. ListsAll(seq, keys)
  BY InOrderLists
<1>2. seqs = Each(keys, PerResource)
  BY DEF Each
<1>3. \A key \in keys : ListsAll(PerResource(key), Of(key))
  BY PerResourceLists
<1>4. \A x, y \in keys : x # y => Of(x) \cap Of(y) = {}
  BY DEF RequestCalls, Get, Call
<1>5. UNION {Of(key) : key \in keys} = all
  <2> HIDE DEF Of
  <2>1. {Of(key) : key \in keys} = {Of(<<kind, name>>) : name \in names}
    OBVIOUS
  <2>2. all = UNION {Of(<<kind, name>>) : name \in names}
    BY DEF Of
  <2> QED BY <2>1, <2>2
<1> HIDE DEF keys, seq, Of
<1>6. seq \in Seq(keys) /\ \A i, j \in DOMAIN seq : seq[i] = seq[j] => i = j
  BY <1>1 DEF ListsAll, IsInjective
<1>7. /\ DOMAIN seq = 1..Len(seq) /\ Len(seq) \in Nat /\ \A i \in DOMAIN seq : seq[i] \in keys
      /\ keys = {seq[i] : i \in DOMAIN seq}
  BY <1>1, <1>6 DEF ListsAll, ToSet
<1>8. /\ DOMAIN seqs = 1..Len(seqs) /\ Len(seqs) = Len(seq)
      /\ seqs = <<>> \/ Len(seqs) > 0
  <2>1. seqs \in Seq({PerResource(key) : key \in keys}) /\ DOMAIN seqs = DOMAIN seq
    BY <1>7
  <2> HIDE DEF seqs
  <2> QED BY <1>7, <2>1
<1>9. \A i \in DOMAIN seqs : ListsAll(seqs[i], sets[i])
  BY <1>3, <1>7
<1>10. \A i, j \in DOMAIN seqs : i # j => sets[i] \cap sets[j] = {}
  BY <1>4, <1>6, <1>7
<1>11. UNION {sets[i] : i \in DOMAIN seqs} = all
  <2>1. {sets[i] : i \in DOMAIN seqs} = {Of(key) : key \in keys}
    BY <1>7
  <2> QED BY <1>5, <2>1
<1>12. ListsAll(FlattenSeq(seqs), UNION {sets[i] : i \in DOMAIN seqs})
  <2>1. Len(seqs) \in Nat
    BY <1>7, <1>8
  <2> HIDE DEF seqs, sets
  <2> QED BY <1>8, <1>9, <1>10, <2>1, FlattenedLists
<1> QED BY <1>2, <1>11, <1>12 DEF keys

\* Nothing is asked about the resources of the other kinds.
LEMMA NoResourceCalls ==
  ASSUME NEW kind, kind \notin DOMAIN Requests,
         NEW names, IsFiniteSet({<<kind, name>> : name \in names})
  PROVE  ListsAll(FlattenSeq(Each({<<kind, name>> : name \in names}, PerResource)), {})
<1> DEFINE keys == {<<kind, name>> : name \in names}
           seq == InOrder(keys)
           seqs == [i \in DOMAIN seq |-> PerResource(seq[i])]
           sets == [i \in DOMAIN seq |-> {}]
<1>1. ListsAll(seq, keys)
  BY InOrderLists
<1>2. seqs = Each(keys, PerResource)
  BY DEF Each
<1>3. \A key \in keys : PerResource(key) = <<>>
  BY PerResourceLists
<1> HIDE DEF keys, seq
<1>4. /\ DOMAIN seq = 1..Len(seq) /\ Len(seq) \in Nat /\ \A i \in DOMAIN seq : seq[i] \in keys
  BY <1>1 DEF ListsAll
<1>5. /\ DOMAIN seqs = 1..Len(seqs) /\ Len(seqs) = Len(seq)
      /\ seqs = <<>> \/ Len(seqs) > 0
  <2>1. seqs \in Seq({PerResource(key) : key \in keys}) /\ DOMAIN seqs = DOMAIN seq
    BY <1>4
  <2> HIDE DEF seqs
  <2> QED BY <1>4, <2>1
<1>6. \A i \in DOMAIN seqs : ListsAll(seqs[i], sets[i])
  BY <1>3, <1>4, ShortLists
<1>7. ListsAll(FlattenSeq(seqs), UNION {sets[i] : i \in DOMAIN seqs})
  <2>1. \A i, j \in DOMAIN seqs : i # j => sets[i] \cap sets[j] = {}
    BY <1>5
  <2> HIDE DEF seqs, sets
  <2> QED BY <1>5, <1>4, <1>6, <2>1, FlattenedLists
<1>8. UNION {sets[i] : i \in DOMAIN seqs} = {}
  OBVIOUS
<1> QED BY <1>2, <1>7, <1>8 DEF keys

\* One call for each of a resource's parts.
LEMMA CallsListed ==
  ASSUME NEW S, IsFiniteSet(S), NEW f, DOMAIN f = S,
         \A x, y \in S : f[x] = f[y] => x = y
  PROVE  ListsAll([i \in DOMAIN InOrder(S) |-> f[InOrder(S)[i]]], {f[x] : x \in S})
BY InOrderLists, MappedList

DocumentOps == {"get_user_policy", "get_group_policy", "get_role_policy"}

\* What a call's operation says about the rest of it.
LEMMA CallShape ==
  ASSUME NEW c, CallOK(c)
  PROVE  /\ c = Call(c.op, c.key, c.arg, c.by) /\ c.key = <<c.key[1], c.key[2]>>
         /\ c.op = "list" =>
              /\ service \notin Kubectl /\ c = List(c.key[1], c.key[2])
              /\ c.key[1] \in Kinds[service] /\ c.key[2] \in ToSet(Pages(c.key[1]))
         /\ c.op = "kubectl" => /\ service \in Kubectl /\ c = Kube(c.key[1])
                                /\ c.key[1] \in Kinds[service] \ {"context"}
         /\ c.op = "probe" => c = Probe
         /\ c.op = "current-context" => c = CurrentContext /\ service = "cluster"
         /\ c.op = "get_account_summary" =>
              c = Get("get_account_summary", Root) /\ c.key = Root /\ service = "iam"
         /\ c.op \in Requested =>
              /\ c = Get(c.op, c.key) /\ c.key \in DOMAIN world
              /\ c.key[1] \in DOMAIN Requests /\ c.op \in Requests[c.key[1]]
         /\ c.op = "inspect" => /\ c = Inspect(c.arg) /\ service = "daemon"
                                /\ Containers(c.arg) \subseteq DOMAIN world
         /\ c.op \in DocumentOps =>
              c.by = c.key /\ c.key \in DOMAIN world /\ c.key[1] \in Identities
              /\ c.op = Inline[c.key[1]]
         /\ c.op = "get_access_key_last_used" =>
              c.by = c.key /\ c.key \in DOMAIN world /\ c.key[1] = "user"
         /\ c.op \in {"get_policy", "get_policy_version"} =>
              /\ c.key[1] = "policy" /\ c.by \in DOMAIN world /\ c.by[1] \in Identities
              /\ c.key \in DOMAIN world
         /\ c.op = "get_policy" => c.arg = {}
         /\ c.op \in Requested \union DocumentOps \union
              {"list", "kubectl", "probe", "current-context", "get_account_summary", "inspect",
               "get_access_key_last_used", "get_policy", "get_policy_version"}
<1>1. /\ Probe.op = "probe" /\ CurrentContext.op = "current-context"
      /\ \A kind : Kube(kind).op = "kubectl"
      /\ \A ids : Inspect(ids).op = "inspect"
      /\ \A op, key : Get(op, key).op = op /\ Get(op, key).key = key
  BY DEF Probe, CurrentContext, Kube, Inspect, Get, Call
<1>2. Inline["user"] = "get_user_policy" /\ Inline["group"] = "get_group_policy"
      /\ Inline["role"] = "get_role_policy"
  BY DEF Inline
<1>3. \A kind \in DOMAIN Requests : Requests[kind] \subseteq Requested
  BY DEF Requested
<1> QED
  BY <1>1, <1>2, <1>3, RequestedOps DEF CallOK, Identities, DocumentOps, BucketChecks

\* The documents and keys of an identity are finitely many, with different names.
LEMMA SeenStates ==
  ASSUME WorldInv, NEW k \in DOMAIN world, NEW v \in Seen(k)
  PROVE  StateOK(world, k, v) /\ k[1] \in Kinds[service] /\ k = <<k[1], k[2]>> /\ k[2] # "any"
BY DEF WorldInv, WorldOK, Seen

\* What the scanners ask next is what is listed as the answer's offspring, each call once.
LEMMA FollowListed ==
  ASSUME WorldInv, NEW known, TrueReplies(known), NEW c, CallOK(c), Got(known, c)
  PROVE  ListsAll(Follow(c, known), Offspring(c, known))
<1> DEFINE kind == c.key[1]
           shown == known[c].show
           names == {r.name : r \in Listed(known, kind)}
           keys == {<<kind, r.name>> : r \in Listed(known, kind)}
<1>1. TrueAnswer(c, shown)
  BY DEF TrueReplies, Got
<1>2. keys = {<<kind, name>> : name \in names}
  OBVIOUS
<1>3. IsFiniteSet(keys)
  <2> DEFINE S == Listed(known, kind)
             f == [r \in S |-> <<kind, r.name>>]
  <2>1. IsFiniteSet(S)
    BY ListedResources
  <2> HIDE DEF S
  <2>2. /\ DOMAIN f = S /\ f = [r \in DOMAIN f |-> f[r]]
        /\ {f[r] : r \in DOMAIN f} = {<<kind, r.name>> : r \in S}
    OBVIOUS
  <2>3. IsFiniteSet({f[r] : r \in DOMAIN f})
    <3> HIDE DEF f
    <3> QED BY <2>1, <2>2, FiniteImage
  <2> QED BY <2>2, <2>3 DEF S
<1>4. service \in DOMAIN Kinds
  BY DEF WorldInv
<1>5. "list" \notin Requested /\ "list" \notin DocumentOps
  BY RequestedOps DEF BucketChecks, DocumentOps
<1>6. CASE service \in Aws
  <2>1. Follow(c, known) = AwsFollow(c, known)
    BY <1>6 DEF Follow
  <2>2. kind \in Kinds[service] => kind \notin {"container", "dockerfile", "manifest"}
    BY <1>6, KindsOfServices DEF Aws
  <2>3. CASE c.op = "list" /\ c.key[2] # Last(Pages(kind))
    <3>1. Follow(c, known) = <<List(kind, "2")>>
      BY <2>1, <2>3 DEF AwsFollow, NextPage
    <3>2. Offspring(c, known) = {List(kind, "2")}
      BY <2>3 DEF Offspring, ListCalls
    <3> QED BY <3>1, <3>2, ShortLists
  <2>4. CASE c.op = "list" /\ c.key[2] = Last(Pages(kind))
    <3>1. Follow(c, known) = FlattenSeq(Each(keys, PerResource))
      BY <2>1, <2>4 DEF AwsFollow
    <3>2. kind \notin {"container", "dockerfile", "manifest"}
      BY <2>2, <2>4, CallShape
    <3>3. CASE kind \in DOMAIN Requests
      <4>1. Offspring(c, known) = UNION {RequestCalls(<<kind, name>>) : name \in names}
        BY <2>4, <3>3 DEF Offspring, ListCalls
      <4>3. IsFiniteSet({<<kind, name>> : name \in names})
        BY <1>2, <1>3
      <4> HIDE DEF kind, names, keys
      <4>2. ListsAll(FlattenSeq(Each({<<kind, name>> : name \in names}, PerResource)),
                     UNION {RequestCalls(<<kind, name>>) : name \in names})
        BY <3>2, <3>3, <4>3, ResourceCallsListed
      <4> QED BY <1>2, <3>1, <4>1, <4>2
    <3>4. CASE kind \notin DOMAIN Requests
      <4>1. Offspring(c, known) = {}
        BY <2>4, <3>2, <3>4 DEF Offspring, ListCalls
      <4> HIDE DEF kind, names, keys
      <4>2. ListsAll(FlattenSeq(Each({<<kind, name>> : name \in names}, PerResource)), {})
        BY <1>2, <1>3, <3>4, NoResourceCalls
      <4> QED BY <1>2, <3>1, <4>1, <4>2
    <3> QED BY <3>3, <3>4
  <2>5. CASE c.op = "list_access_keys"
    <3> DEFINE S == {k \in shown.keys : k.is.active}
               f == [k \in S |-> Call("get_access_key_last_used", c.key, {k.name}, c.by)]
    <3>1. c.key \in DOMAIN world /\ kind = "user" /\ shown \in Seen(c.key)
      BY <1>1, <2>5, CallShape, RequestedOps, RequestsMade DEF TrueAnswer, OfPart, BucketChecks
    <3>2. ByName(shown.keys)
      BY <3>1, SeenStates DEF StateOK
    <3>3. IsFiniteSet(S)
      BY <3>2, FS_Subset DEF ByName
    <3>4. \A x, y \in S : f[x] = f[y] => x = y
      BY <3>2 DEF ByName, Call
    <3>5. Follow(c, known) = [i \in DOMAIN InOrder(S) |->
            Call("get_access_key_last_used", c.key, {InOrder(S)[i].name}, c.by)]
      BY <2>1, <2>5 DEF AwsFollow, Each
    <3>6. \A i \in DOMAIN InOrder(S) : InOrder(S)[i] \in S
      <4> HIDE DEF S
      <4> QED BY <3>3, InOrderLists DEF ListsAll, ToSet
    <3>7. Offspring(c, known) = {f[k] : k \in S}
      BY <2>5 DEF Offspring
    <3>8. Follow(c, known) = [i \in DOMAIN InOrder(S) |-> f[InOrder(S)[i]]]
      <4> HIDE DEF S
      <4> QED BY <3>5, <3>6
    <3>9. DOMAIN f = S
      OBVIOUS
    <3> HIDE DEF S, f
    <3> QED BY <3>3, <3>4, <3>7, <3>8, <3>9, CallsListed
  <2>6. CASE c.op = "list_inline"
    <3> DEFINE S == shown.inline
               f == [d \in S |-> Call(Inline[kind], c.key, {d.name}, c.by)]
    <3>1. c.key \in DOMAIN world /\ kind \in Identities /\ shown \in Seen(c.key)
      BY <1>1, <2>6, CallShape, RequestedOps, RequestsMade
         DEF TrueAnswer, OfPart, Identities, BucketChecks
    <3>2. ByName(S)
      BY <3>1, SeenStates DEF StateOK, Identities
    <3>3. IsFiniteSet(S)
      BY <3>2, FS_Subset DEF ByName
    <3>4. \A x, y \in S : f[x] = f[y] => x = y
      BY <3>2 DEF ByName, Call
    <3>5. Follow(c, known) = [i \in DOMAIN InOrder(S) |->
            Call(Inline[kind], c.key, {InOrder(S)[i].name}, c.by)]
      BY <2>1, <2>6 DEF AwsFollow, Each
    <3>6. \A i \in DOMAIN InOrder(S) : InOrder(S)[i] \in S
      <4> HIDE DEF S
      <4> QED BY <3>3, InOrderLists DEF ListsAll, ToSet
    <3>7. Offspring(c, known) = {f[k] : k \in S}
      BY <2>6 DEF Offspring
    <3>8. Follow(c, known) = [i \in DOMAIN InOrder(S) |-> f[InOrder(S)[i]]]
      <4> HIDE DEF S
      <4> QED BY <3>5, <3>6
    <3>9. DOMAIN f = S
      OBVIOUS
    <3> HIDE DEF S, f
    <3> QED BY <3>3, <3>4, <3>7, <3>8, <3>9, CallsListed
  <2>7. CASE c.op = "list_attached"
    <3> DEFINE S == shown.attached
               f == [p \in S |-> Call("get_policy", <<"policy", p>>, {}, c.by)]
    <3>1. c.key \in DOMAIN world /\ kind \in Identities /\ shown \in Seen(c.key)
      BY <1>1, <2>7, CallShape, RequestedOps, RequestsMade
         DEF TrueAnswer, OfPart, Identities, BucketChecks
    <3>3. IsFiniteSet(S)
      BY <3>1, SeenStates DEF StateOK, Identities
    <3>4. \A x, y \in S : f[x] = f[y] => x = y
      BY DEF Call
    <3>5. Follow(c, known) = [i \in DOMAIN InOrder(S) |->
            Call("get_policy", <<"policy", InOrder(S)[i]>>, {}, c.by)]
      BY <2>1, <2>7 DEF AwsFollow, Each
    <3>6. \A i \in DOMAIN InOrder(S) : InOrder(S)[i] \in S
      <4> HIDE DEF S
      <4> QED BY <3>3, InOrderLists DEF ListsAll, ToSet
    <3>7. Offspring(c, known) = {f[k] : k \in S}
      BY <2>7 DEF Offspring
    <3>8. Follow(c, known) = [i \in DOMAIN InOrder(S) |-> f[InOrder(S)[i]]]
      <4> HIDE DEF S
      <4> QED BY <3>5, <3>6
    <3>9. DOMAIN f = S
      OBVIOUS
    <3> HIDE DEF S, f
    <3> QED BY <3>3, <3>4, <3>7, <3>8, <3>9, CallsListed
  <2>8. CASE c.op = "get_policy"
    <3>1. Follow(c, known) = <<Call("get_policy_version", c.key, {shown.default}, c.by)>>
      BY <2>1, <2>8 DEF AwsFollow
    <3>2. Offspring(c, known) = {Call("get_policy_version", c.key, {shown.default}, c.by)}
      BY <2>8 DEF Offspring
    <3> QED BY <3>1, <3>2, ShortLists
  <2>9. CASE c.op \notin {"list", "list_access_keys", "list_inline", "list_attached", "get_policy"}
    <3>1. Follow(c, known) = <<>> /\ Offspring(c, known) = {}
      BY <2>1, <2>9 DEF AwsFollow, Offspring
    <3> QED BY <3>1, ShortLists
  <2> QED BY <2>3, <2>4, <2>5, <2>6, <2>7, <2>8, <2>9
<1>7. CASE service \notin Aws
  <2>1. Follow(c, known) = WorkloadFollow(c, known)
    BY <1>7 DEF Follow
  <2>2. CASE c.op # "list"
    <3>1. c.op \notin {"list_access_keys", "list_inline", "list_attached", "get_policy"}
      <4>1. \A k \in DOMAIN world : k[1] \notin Identities
        BY <1>4, <1>7, KindsOfServices DEF WorldInv, WorldOK, Aws, Identities
      <4> QED BY <4>1, CallShape, RequestedOps, RequestsMade DEF Identities, BucketChecks
    <3>2. Follow(c, known) = <<>> /\ Offspring(c, known) = {}
      BY <2>1, <2>2, <3>1 DEF WorkloadFollow, Offspring
    <3> QED BY <3>2, ShortLists
  <2>3. CASE c.op = "list"
    <3>1. kind \in {"container", "dockerfile", "manifest"} /\ c = List(kind, c.key[2])
          /\ c.key[2] \in ToSet(Pages(kind))
      BY <1>4, <1>7, <2>3, CallShape, KindsOfServices DEF Aws, Kubectl
    <3>2. /\ ToSet(Pages(kind)) = {"1"} /\ Last(Pages(kind)) = "1"
          /\ c.key[2] = "1" /\ c = List(kind, "1")
      BY <3>1, PagesOf
    <3>3. Listed(known, kind) = shown
      BY <3>2 DEF Listed
    <3>4. Follow(c, known) = IF names = {} THEN <<>>
            ELSE IF kind = "container" THEN <<Inspect(names)>>
            ELSE Each({<<kind, name>> : name \in names}, LAMBDA key : Get("read", key))
      BY <2>1, <2>3, <3>3 DEF WorkloadFollow
    <3>5. CASE kind = "container"
      <4>1. Offspring(c, known) = IF names = {} THEN {} ELSE {Inspect(names)}
        BY <2>3, <3>2, <3>5, RequestsMade DEF Offspring, ListCalls
      <4> HIDE DEF names
      <4>2. Follow(c, known) = IF names = {} THEN <<>> ELSE <<Inspect(names)>>
        BY <3>4, <3>5
      <4> QED BY <4>1, <4>2, ShortLists
    <3>6. CASE kind \in {"dockerfile", "manifest"}
      <4> DEFINE f == [key \in keys |-> Get("read", key)]
      <4>1. Offspring(c, known) = UNION {RequestCalls(<<kind, name>>) : name \in names}
        BY <2>3, <3>2, <3>6, RequestsMade DEF Offspring, ListCalls
      <4>2. Requests[kind] = {"read"}
        BY <3>6, RequestsMade
      <4>3. Offspring(c, known) = {f[key] : key \in keys}
        <5> HIDE DEF kind, names
        <5>1. \A name \in names : RequestCalls(<<kind, name>>) = {Get("read", <<kind, name>>)}
          BY <4>2 DEF RequestCalls
        <5>2. Offspring(c, known) = {Get("read", <<kind, name>>) : name \in names}
          <6>1. UNION {RequestCalls(<<kind, name>>) : name \in names}
                = UNION {{Get("read", <<kind, name>>)} : name \in names}
            BY <5>1
          <6>2. UNION {{Get("read", <<kind, name>>)} : name \in names}
                = {Get("read", <<kind, name>>) : name \in names}
            OBVIOUS
          <6> QED BY <4>1, <6>1, <6>2
        <5> QED BY <1>2, <5>2
      <4>4. \A x, y \in keys : f[x] = f[y] => x = y
        <5> HIDE DEF keys
        <5> QED BY DEF Get, Call
      <4> HIDE DEF keys
      <4>5. CASE names = {}
        <5>1. keys = {}
          BY <1>2, <4>5
        <5>2. Follow(c, known) = <<>> /\ Offspring(c, known) = {}
          BY <3>4, <4>3, <4>5, <5>1
        <5> QED BY <5>2, ShortLists
      <4>6. CASE names # {}
        <5>1. Follow(c, known) = Each(keys, LAMBDA key : Get("read", key))
          BY <1>2, <3>4, <3>6, <4>6
        <5>2. Follow(c, known) = [i \in DOMAIN InOrder(keys) |-> Get("read", InOrder(keys)[i])]
          BY <5>1 DEF Each
        <5>3. \A i \in DOMAIN InOrder(keys) : InOrder(keys)[i] \in keys
          BY <1>3, InOrderLists DEF ListsAll, ToSet
        <5>4. Follow(c, known) = [i \in DOMAIN InOrder(keys) |-> f[InOrder(keys)[i]]]
          BY <5>2, <5>3
        <5>5. DOMAIN f = keys
          OBVIOUS
        <5> HIDE DEF f
        <5> QED BY <1>3, <4>3, <4>4, <5>4, <5>5, CallsListed
      <4> QED BY <4>5, <4>6
    <3> QED BY <3>1, <3>5, <3>6
  <2> QED BY <2>2, <2>3
<1> QED BY <1>6, <1>7

\* The call whose answer leads to a call, by its operation.
LEMMA ParentOf ==
  ASSUME NEW c
  PROVE  /\ c.op = "list" => Parent(c) = List(c.key[1], "1")
         /\ c.op \in Requested => Parent(c) = List(c.key[1], Last(Pages(c.key[1])))
         /\ c.op = "inspect" => Parent(c) = List("container", "1")
         /\ c.op = "get_access_key_last_used" => Parent(c) = Get("list_access_keys", c.key)
         /\ c.op \in DocumentOps => Parent(c) = Get("list_inline", c.key)
         /\ c.op = "get_policy" => Parent(c) = Get("list_attached", c.by)
         /\ c.op = "get_policy_version" => Parent(c) = Call("get_policy", c.key, {}, c.by)
BY RequestedOps DEF Parent, BucketChecks, DocumentOps

\* The operations of the first calls.
LEMMA FirstOps ==
  ASSUME NEW c \in FirstCalls
  PROVE  \/ c.op \in {"probe", "current-context", "kubectl", "get_account_summary"}
         \/ c.op = "list" /\ c.key[2] = "1"
BY DEF FirstCalls, Probe, CurrentContext, Kube, List, Get, Call

\* The calls an answer leads to are in order, name that answer and were not asked at first.
LEMMA OffspringShape ==
  ASSUME WorldInv, NEW known, TrueReplies(known), NEW c, CallOK(c), Got(known, c),
         NEW e \in Offspring(c, known)
  PROVE  /\ CallOK(e) /\ Parent(e) = c /\ e \notin FirstCalls
         /\ e.op \notin {"probe", "current-context"}
<1> DEFINE kind == c.key[1]
           shown == known[c].show
           names == {r.name : r \in Listed(known, kind)}
<1>1. TrueAnswer(c, shown)
  BY DEF TrueReplies, Got
<1>2. \A op, key, arg, by : /\ Call(op, key, arg, by).op = op /\ Call(op, key, arg, by).key = key
                            /\ Call(op, key, arg, by).arg = arg /\ Call(op, key, arg, by).by = by
  BY CallParts
<1>3. CASE c.op = "list"
  <2>1. c = List(kind, c.key[2]) /\ kind \in Kinds[service] /\ c.key[2] \in ToSet(Pages(kind))
        /\ service \notin Kubectl
    BY <1>3, CallShape
  <2>2. e \in ListCalls(kind, c.key[2], names)
    BY <1>3 DEF Offspring
  <2>3. \A name \in names : <<kind, name>> \in DOMAIN world
    BY ListedResources
  <2>4. CASE c.key[2] # Last(Pages(kind))
    <3>1. e = List(kind, "2") /\ c.key[2] = "1" /\ "2" \in ToSet(Pages(kind))
      BY <2>1, <2>2, <2>4, PagesOf DEF ListCalls
    <3>2. e.op = "list" /\ e.key = <<kind, "2">> /\ e = Call(e.op, e.key, e.arg, e.by)
      BY <3>1, <1>2 DEF List, Get
    <3>3. CallOK(e)
      BY <2>1, <3>1, <3>2 DEF CallOK
    <3>4. Parent(e) = c
      BY <2>1, <3>1, <3>2, ParentOf
    <3> QED BY <3>2, <3>3, <3>4, FirstOps
  <2>5. CASE c.key[2] = Last(Pages(kind)) /\ kind \in DOMAIN Requests
    <3>1. PICK name \in names : e \in RequestCalls(<<kind, name>>)
      BY <2>2, <2>5 DEF ListCalls
    <3>2. PICK op \in Requests[kind] : e = Get(op, <<kind, name>>)
      BY <3>1 DEF RequestCalls
    <3>3. /\ e.op = op /\ e.key = <<kind, name>> /\ e.key[1] = kind
          /\ e = Get(e.op, e.key) /\ e = Call(e.op, e.key, e.arg, e.by)
      BY <3>2, <1>2 DEF Get
    <3>4. CallOK(e) /\ e.op \in Requested
      BY <2>3, <2>5, <3>2, <3>3 DEF CallOK, Requested
    <3>5. Parent(e) = c
      BY <2>1, <2>5, <3>3, <3>4, ParentOf
    <3>6. e.op \notin {"probe", "current-context", "kubectl", "get_account_summary", "list"}
      BY <3>4, RequestedOps DEF BucketChecks
    <3> QED BY <3>4, <3>5, <3>6, FirstOps
  <2>6. CASE c.key[2] = Last(Pages(kind)) /\ kind \notin DOMAIN Requests
    <3>1. kind = "container" /\ e = Inspect(names)
      BY <2>2, <2>6 DEF ListCalls
    <3>2. e.op = "inspect" /\ e.arg = names /\ e = Call(e.op, e.key, e.arg, e.by)
          /\ e.key = <<"container", "all">>
      BY <3>1, <1>2 DEF Inspect
    <3>3. service = "daemon" /\ Containers(names) \subseteq DOMAIN world
      BY <2>1, <2>3, <3>1, KindsOfServices DEF WorldInv, Containers
    <3>4. CallOK(e)
      <4>1. e = Inspect(e.arg) /\ Containers(e.arg) \subseteq DOMAIN world
        BY <3>1, <3>2, <3>3
      <4>2. e.key = <<e.key[1], e.key[2]>>
        BY <3>2
      <4> HIDE DEF names
      <4> QED BY <3>2, <3>3, <4>1, <4>2 DEF CallOK
    <3>5. Parent(e) = c
      BY <2>1, <2>6, <3>1, <3>2, ParentOf, PagesOf
    <3> QED BY <3>2, <3>4, <3>5, FirstOps
  <2> QED BY <2>4, <2>5, <2>6
<1>4. CASE c.op = "list_access_keys"
  <2>1. PICK k : e = Call("get_access_key_last_used", c.key, {k.name}, c.by)
    BY <1>4 DEF Offspring
  <2>2. /\ c = Get(c.op, c.key) /\ c.key \in DOMAIN world
        /\ kind = "user" /\ c.key = <<kind, c.key[2]>>
    BY <1>4, CallShape, RequestedOps, RequestsMade DEF BucketChecks
  <2>3. /\ e.op = "get_access_key_last_used" /\ e.key = c.key /\ e.by = c.by /\ c.by = c.key
        /\ e = Call(e.op, e.key, e.arg, e.by)
    BY <2>1, <2>2, <1>2 DEF Get
  <2>4. CallOK(e)
    BY <2>2, <2>3 DEF CallOK
  <2>5. Parent(e) = c
    BY <1>4, <2>2, <2>3, ParentOf
  <2> QED BY <2>3, <2>4, <2>5, FirstOps
<1>5. CASE c.op = "list_inline"
  <2>1. PICK d : e = Call(Inline[kind], c.key, {d.name}, c.by)
    BY <1>5 DEF Offspring
  <2>2. /\ c = Get(c.op, c.key) /\ c.key \in DOMAIN world
        /\ kind \in Identities /\ c.key = <<kind, c.key[2]>>
    BY <1>5, CallShape, RequestedOps, RequestsMade DEF BucketChecks, Identities
  <2>3. /\ e.op = Inline[kind] /\ e.key = c.key /\ e.by = c.by /\ c.by = c.key
        /\ e = Call(e.op, e.key, e.arg, e.by)
    BY <2>1, <2>2, <1>2 DEF Get
  <2>4. CallOK(e)
    BY <2>2, <2>3 DEF CallOK
  <2>5. e.op \in DocumentOps
    BY <2>2, <2>3 DEF Inline, Identities, DocumentOps
  <2>6. Parent(e) = c
    BY <1>5, <2>2, <2>3, <2>5, ParentOf
  <2> QED BY <2>4, <2>5, <2>6, FirstOps DEF DocumentOps
<1>6. CASE c.op = "list_attached"
  <2>1. PICK p \in shown.attached : e = Call("get_policy", <<"policy", p>>, {}, c.by)
    BY <1>6 DEF Offspring
  <2>2. /\ c = Get(c.op, c.key) /\ c.key \in DOMAIN world /\ kind \in Identities
        /\ shown \in Seen(c.key)
    BY <1>1, <1>6, CallShape, RequestedOps, RequestsMade
       DEF TrueAnswer, OfPart, BucketChecks, Identities
  <2>3. <<"policy", p>> \in DOMAIN world
    BY <2>1, <2>2, SeenStates DEF StateOK, Identities
  <2>4. /\ e.op = "get_policy" /\ e.key = <<"policy", p>> /\ e.by = c.by /\ c.by = c.key
        /\ e.arg = {}
        /\ e = Call(e.op, e.key, e.arg, e.by)
    BY <2>1, <2>2, <1>2 DEF Get
  <2>5. CallOK(e)
    BY <2>2, <2>3, <2>4 DEF CallOK
  <2>6. Parent(e) = c
    BY <1>6, <2>2, <2>4, ParentOf
  <2> QED BY <2>4, <2>5, <2>6, FirstOps
<1>7. CASE c.op = "get_policy"
  <2>1. e = Call("get_policy_version", c.key, {shown.default}, c.by)
    BY <1>7 DEF Offspring
  <2>2. /\ e.op = "get_policy_version" /\ e.key = c.key /\ e.by = c.by
        /\ e = Call(e.op, e.key, e.arg, e.by)
    BY <2>1, <1>2
  <2>3. /\ c = Call(c.op, c.key, c.arg, c.by) /\ kind = "policy" /\ c.by \in DOMAIN world
        /\ c.by[1] \in Identities /\ c.key \in DOMAIN world /\ c.key = <<kind, c.key[2]>>
        /\ c.arg = {}
    BY <1>7, CallShape
  <2>4. CallOK(e)
    BY <2>2, <2>3 DEF CallOK
  <2>5. Parent(e) = c
    BY <1>7, <2>2, <2>3, ParentOf
  <2> QED BY <2>2, <2>4, <2>5, FirstOps
<1>8. CASE c.op \notin {"list", "list_access_keys", "list_inline", "list_attached", "get_policy"}
  BY <1>8 DEF Offspring
<1> QED BY <1>3, <1>4, <1>5, <1>6, <1>7, <1>8

\* Later replies do not change what an answer led to.
LEMMA OffspringKept ==
  ASSUME NEW known, NEW more,
         \A c \in DOMAIN known : c \in DOMAIN more /\ more[c] = known[c],
         NEW p, Got(known, p),
         (p.op = "list" /\ p.key[2] = Last(Pages(p.key[1]))) =>
           \A q \in ToSet(Pages(p.key[1])) : Got(known, List(p.key[1], q))
  PROVE  Got(more, p) /\ Offspring(p, more) = Offspring(p, known)
<1>1. \A c : Got(known, c) => Got(more, c) /\ more[c] = known[c]
  BY DEF Got
<1>2. CASE p.op = "list" /\ p.key[2] = Last(Pages(p.key[1]))
  <2>1. Listed(more, p.key[1]) = Listed(known, p.key[1])
    <3> DEFINE pages == {List(p.key[1], q) : q \in ToSet(Pages(p.key[1]))}
    <3>1. \A c \in pages : Got(known, c)
      BY <1>2
    <3>2. /\ Listed(more, p.key[1])
               = IF \A c \in pages : Got(more, c) THEN UNION {more[c].show : c \in pages} ELSE {}
          /\ Listed(known, p.key[1])
               = IF \A c \in pages : Got(known, c) THEN UNION {known[c].show : c \in pages} ELSE {}
      BY DEF Listed
    <3> HIDE DEF pages
    <3>3. \A c \in pages : Got(more, c) /\ more[c] = known[c]
      BY <1>1, <3>1
    <3>4. {more[c].show : c \in pages} = {known[c].show : c \in pages}
      BY <3>3
    <3> QED BY <3>1, <3>2, <3>3, <3>4
  <2> QED BY <1>1, <1>2, <2>1 DEF Offspring
<1>3. CASE p.op = "list" /\ p.key[2] # Last(Pages(p.key[1]))
  BY <1>1, <1>3 DEF Offspring, ListCalls
<1>4. CASE p.op # "list"
  BY <1>1, <1>4 DEF Offspring
<1> QED BY <1>1, <1>2, <1>3, <1>4

-----------------------------------------------------------------------------
(* What an answer shows was so                                             *)

\* What kubectl asks about is there, in the cluster it talks to.
LEMMA TargetIsThere ==
  ASSUME WorldInv, service \in Kubectl, NEW kind \in Kinds[service] \ {"context"}
  PROVE  /\ Target \in Clusters /\ <<kind, Target>> \in DOMAIN world
         /\ world[<<kind, Target>>] \in Seen(<<kind, Target>>)
<1>1. /\ Context \in DOMAIN world /\ <<kind, "a">> \in DOMAIN world
      /\ \A k \in DOMAIN world : /\ Gone \notin Values(k) /\ world[k] \in past[k]
                                 /\ past[k] \subseteq Values(k)
      /\ \A k \in DOMAIN world : k[1] = "context" <=> k = Context
  BY DEF WorldInv, WorldOK
<1>2. world[Context] \in Seen(Context)
  BY <1>1 DEF Seen
<1>3. \A j \in DOMAIN world : j = Context \/ <<j[1], world[Context].current>> \in DOMAIN world
  BY <1>1, <1>2, SeenStates DEF StateOK, Context
<1>4. <<kind, "a">> # Context
  BY DEF Context
<1>5. <<kind, world[Context].current>> \in DOMAIN world
  BY <1>1, <1>3, <1>4
<1>6. Target \in Clusters /\ <<kind, Target>> \in DOMAIN world
  BY <1>1, <1>5 DEF Target, Clusters
<1> QED BY <1>1, <1>6 DEF Seen

\* One page of a list shows the resources that are there at the time.
LEMMA PageIsTrue ==
  ASSUME WorldInv, NEW kind, NEW page
  PROVE  TrueList(kind, page, Page(kind, page))
<1> DEFINE on == {k \in DOMAIN world : k[1] = kind /\ PageOf(k) = page}
           here == {k \in on : world[k] # Gone}
           f == [k \in here |-> [name |-> k[2], is |-> world[k]]]
<1>1. /\ IsFiniteSet(DOMAIN world)
      /\ \A k \in DOMAIN world : k = <<k[1], k[2]>> /\ world[k] \in past[k]
  BY DEF WorldInv, WorldOK
<1>2. Page(kind, page) = {[name |-> k[2], is |-> world[k]] : k \in here}
  BY DEF Page, Entries
<1>3. IsFiniteSet(Page(kind, page))
  <2>1. IsFiniteSet(here)
    BY <1>1, FS_Subset
  <2> HIDE DEF here
  <2>2. /\ DOMAIN f = here /\ f = [k \in DOMAIN f |-> f[k]]
        /\ {f[k] : k \in DOMAIN f} = Page(kind, page)
    BY <1>2
  <2> HIDE DEF f
  <2>3. IsFiniteSet({f[k] : k \in DOMAIN f})
    BY <2>1, <2>2, FiniteImage
  <2> QED BY <2>2, <2>3
<1>4. ASSUME NEW r \in Page(kind, page)
      PROVE  /\ <<kind, r.name>> \in DOMAIN world /\ PageOf(<<kind, r.name>>) = page
             /\ r.is \in Seen(<<kind, r.name>>)
  <2>1. PICK k \in here : r = [name |-> k[2], is |-> world[k]]
    BY <1>2
  <2>2. k = <<kind, r.name>> /\ r.is = world[k]
    BY <1>1, <2>1
  <2> QED BY <1>1, <2>1, <2>2 DEF Seen
<1>5. ASSUME NEW k \in DOMAIN world, k[1] = kind /\ PageOf(k) = page
      PROVE  Gone \in past[k] \/ \E r \in Page(kind, page) : r.name = k[2]
  <2>1. CASE world[k] = Gone
    BY <1>1, <2>1
  <2>2. CASE world[k] # Gone
    <3>1. [name |-> k[2], is |-> world[k]] \in Page(kind, page)
      BY <1>2, <1>5, <2>2
    <3>2. [name |-> k[2], is |-> world[k]].name = k[2]
      OBVIOUS
    <3> QED BY <3>1, <3>2
  <2> QED BY <2>1, <2>2
<1> QED BY <1>3, <1>4, <1>5 DEF TrueList

\* A call that is about one resource is about one of this world.
LEMMA CallKeys ==
  ASSUME WorldInv, NEW c, CallOK(c), c.op \notin {"list", "kubectl", "probe", "inspect"}
  PROVE  c.key \in DOMAIN world
<1>1. CurrentContext.key = Context
  BY DEF CurrentContext, Get, Call
<1>2. service = "cluster" => Context \in DOMAIN world
  BY DEF WorldInv, WorldOK, Kubectl
<1>3. service = "iam" => Root \in DOMAIN world
  BY DEF WorldInv, WorldOK
<1> QED BY <1>1, <1>2, <1>3, CallShape

\* What is answered is so at that moment.
LEMMA AnswerIsTrue ==
  ASSUME WorldInv, NEW c, CallOK(c), Exists(c)
  PROVE  TrueAnswer(c, Show(c))
<1> DEFINE Plain == c.op \notin OfPart \union {"list", "kubectl", "probe", "inspect"}
<1>0. \A k \in DOMAIN world : world[k] \in past[k]
  BY DEF WorldInv
<1>1. CASE c.op = "list"
  <2>1. Show(c) = Page(c.key[1], c.key[2])
    BY <1>1 DEF Show, OfPart
  <2>2. TrueList(c.key[1], c.key[2], Show(c))
    BY <2>1, PageIsTrue
  <2> QED BY <1>1, <2>2 DEF TrueAnswer, OfPart
<1>2. CASE c.op = "kubectl"
  <2>1. Show(c) = [from |-> Target, is |-> world[<<c.key[1], Target>>]]
    BY <1>2 DEF Show, OfPart
  <2>2. service \in Kubectl /\ c.key[1] \in Kinds[service] \ {"context"}
    BY <1>2, CallShape
  <2>3. Show(c).from = Target /\ Show(c).is = world[<<c.key[1], Target>>]
    BY <2>1
  <2> QED BY <1>2, <2>2, <2>3, TargetIsThere DEF TrueAnswer, OfPart
<1>3. CASE c.op = "probe"
  BY <1>3 DEF TrueAnswer, OfPart
<1>4. CASE c.op = "inspect"
  <2>1. Show(c) = {[name |-> k[2], is |-> world[k]] :
                     k \in {j \in Containers(c.arg) : world[j] # Gone}}
    BY <1>4 DEF Show, Entries, OfPart
  <2>2. Containers(c.arg) \subseteq DOMAIN world
    BY <1>4, CallShape
  <2>3. \A id \in c.arg : <<"container", id>> \in DOMAIN world /\ world[<<"container", id>>] # Gone
    BY <1>4, <2>2 DEF Containers, Exists
  <2>4. ASSUME NEW r \in Show(c)
        PROVE  r.name \in c.arg /\ r.is \in Seen(<<"container", r.name>>)
    <3>1. PICK k \in Containers(c.arg) : r = [name |-> k[2], is |-> world[k]]
      BY <2>1
    <3>2. PICK id \in c.arg : k = <<"container", id>>
      BY <3>1 DEF Containers
    <3>3. r.name = id /\ r.is = world[<<"container", id>>]
      BY <3>1, <3>2
    <3> QED BY <1>0, <2>3, <3>2, <3>3 DEF Seen
  <2>5. ASSUME NEW id \in c.arg
        PROVE  \E r \in Show(c) : r.name = id
    <3> DEFINE k == <<"container", id>>
               r == [name |-> k[2], is |-> world[k]]
    <3>1. k \in {j \in Containers(c.arg) : world[j] # Gone}
      BY <2>3 DEF Containers
    <3>2. r \in Show(c) /\ r.name = id
      BY <2>1, <3>1
    <3> QED BY <3>2
  <2>6. IsFiniteSet(Show(c))
    <3> DEFINE keys == {j \in Containers(c.arg) : world[j] # Gone}
               entry == [k \in keys |-> [name |-> k[2], is |-> world[k]]]
    <3>1. IsFiniteSet(keys)
      BY <2>2, FS_Subset DEF WorldInv, WorldOK
    <3>2. DOMAIN entry = keys /\ entry = [k \in DOMAIN entry |-> entry[k]]
          /\ Show(c) = {entry[k] : k \in DOMAIN entry}
      BY <2>1
    <3> HIDE DEF entry, keys
    <3> QED BY <3>1, <3>2, FiniteImage
  <2> QED BY <1>4, <2>4, <2>5, <2>6 DEF TrueAnswer, OfPart
<1>5. CASE c.op \in OfPart
  <2> DEFINE parts == Parts(c, world[c.key])
             d == CHOOSE e \in parts : e.name \in c.arg
  <2>1. Show(c) = d.is
    BY <1>5 DEF Show, OfPart
  <2>2. d \in parts /\ d.name \in c.arg /\ world[c.key] # Gone
    BY <1>5 DEF Exists, OfPart
  <2>3. c.key \in DOMAIN world
    BY <1>5, CallKeys DEF OfPart
  <2>4. world[c.key] \in Seen(c.key)
    BY <1>0, <2>2, <2>3 DEF Seen
  <2> HIDE DEF d
  <2> QED BY <1>5, <2>1, <2>2, <2>4 DEF TrueAnswer, OfPart
<1>6. CASE Plain
  <2>1. Show(c) = world[c.key] /\ world[c.key] # Gone
    BY <1>6 DEF Show, Exists
  <2>2. c.key \in DOMAIN world
    BY <1>6, CallKeys
  <2> QED BY <1>0, <1>6, <2>1, <2>2 DEF TrueAnswer, Seen
<1> QED BY <1>1, <1>2, <1>3, <1>4, <1>5, <1>6

\* A function that is gone, or has no URL, is what "not found" says.
LEMMA MissIsTrue ==
  ASSUME WorldInv, NEW c, CallOK(c), ~Exists(c)
  PROVE  TrueMiss(c)
<1> SUFFICES ASSUME c.op = "get_function_url_config"
             PROVE  \E v \in past[c.key] : v = Gone \/ v.url = "none"
  BY DEF TrueMiss
<1>1. c.key \in DOMAIN world
  BY CallShape, RequestedOps
<1>2. world[c.key] = Gone \/ world[c.key].url = "none"
  BY DEF Exists, OfPart
<1> QED BY <1>1, <1>2 DEF WorldInv

-----------------------------------------------------------------------------
(* The invariant holds                                                     *)

\* What a scan asks depends on the scanner and on the resources there are.
LEMMA SameScanner ==
  ASSUME service' = service, named' = named, DOMAIN world' = DOMAIN world
  PROVE  /\ First' = First /\ FirstCalls' = FirstCalls
         /\ \A c : CallOK(c) => CallOK(c)'
         /\ \A c : Essential(c)' <=> Essential(c)
<1>1. First' = First
  BY DEF First, AwsFirst, WorkloadFirst
<1>2. FirstCalls' = FirstCalls
  BY DEF FirstCalls
<1>3. \A c : CallOK(c) => CallOK(c)'
  BY DEF CallOK
<1>4. \A c : Essential(c)' <=> Essential(c)
  BY DEF Essential
<1> QED BY <1>1, <1>2, <1>3, <1>4

\* What was true of the scan so far stays so.
LEMMA TruthLasts ==
  ASSUME WorldInv, service' = service, named' = named, DOMAIN world' = DOMAIN world,
         \A k \in DOMAIN world : past[k] \subseteq past'[k]
  PROVE  /\ \A c, show : CallOK(c) /\ TrueAnswer(c, show) => TrueAnswer(c, show)'
         /\ \A c : CallOK(c) /\ TrueMiss(c) => TrueMiss(c)'
<1>1. \A k \in DOMAIN world : Seen(k) \subseteq Seen(k)'
  BY DEF Seen
<1>2. ASSUME NEW c, NEW show, CallOK(c), TrueAnswer(c, show)
      PROVE  TrueAnswer(c, show)'
  <2>1. c.op = "list" => TrueList(c.key[1], c.key[2], show)'
    <3>1. ASSUME NEW kind, NEW page, TrueList(kind, page, show)
          PROVE  TrueList(kind, page, show)'
      BY <1>1, <3>1 DEF TrueList
    <3> QED BY <1>2, <3>1 DEF TrueAnswer
  <2>2. c.op = "kubectl" =>
          /\ show.from \in Clusters' /\ <<c.key[1], show.from>> \in DOMAIN world'
          /\ show.is \in Seen(<<c.key[1], show.from>>)'
    <3>1. c.op = "kubectl" => Clusters \subseteq Clusters'
      <4>1. service \in Kubectl => Context \in DOMAIN world
        BY DEF WorldInv, WorldOK
      <4> QED BY <1>2, <4>1, CallShape DEF Clusters
    <3> QED BY <1>1, <1>2, <3>1 DEF TrueAnswer
  <2>3. c.op = "inspect" =>
          /\ IsFiniteSet(show)
          /\ \A r \in show : r.name \in c.arg /\ r.is \in Seen(<<"container", r.name>>)'
          /\ \A id \in c.arg : \E r \in show : r.name = id
    <3>1. c.op = "inspect" => \A id \in c.arg : <<"container", id>> \in DOMAIN world
      BY <1>2, CallShape DEF Containers
    <3> QED BY <1>1, <1>2, <3>1 DEF TrueAnswer
  <2>4. c.op \in OfPart =>
          \E v \in Seen(c.key)' : \E d \in Parts(c, v) : d.name \in c.arg /\ show = d.is
    <3>1. c.op \in OfPart => c.key \in DOMAIN world
      BY <1>2, CallKeys DEF OfPart
    <3> QED BY <1>1, <1>2, <3>1 DEF TrueAnswer
  <2>5. c.op \notin OfPart \union {"list", "kubectl", "probe", "inspect"} => show \in Seen(c.key)'
    BY <1>1, <1>2, CallKeys DEF TrueAnswer
  <2> QED BY <2>1, <2>2, <2>3, <2>4, <2>5 DEF TrueAnswer
<1>3. ASSUME NEW c, CallOK(c), TrueMiss(c)
      PROVE  TrueMiss(c)'
  BY <1>3, CallShape, RequestedOps DEF TrueMiss
<1> QED BY <1>2, <1>3

\* The last page of a list is asked for when the others have been answered.
LEMMA PagesAnswered ==
  ASSUME Tree, NEW p, Got(replies, p), p.op = "list", p.key[2] = Last(Pages(p.key[1]))
  PROVE  \A q \in ToSet(Pages(p.key[1])) : Got(replies, List(p.key[1], q))
<1> DEFINE kind == p.key[1]
<1>1. p \in Asked /\ CallOK(p)
  BY DEF Got, Asked, Tree
<1>2. p = List(kind, p.key[2])
  BY <1>1, CallShape
<1>3. CASE ToSet(Pages(kind)) = {"1"} /\ Last(Pages(kind)) = "1"
  BY <1>2, <1>3
<1>4. CASE ToSet(Pages(kind)) = {"1", "2"} /\ Last(Pages(kind)) = "2"
  <2>1. p \notin FirstCalls
    BY <1>4, FirstOps
  <2>2. Got(replies, List(kind, "1"))
    BY <1>1, <2>1, ParentOf DEF Tree
  <2> QED BY <1>2, <1>4, <2>2
<1> QED BY <1>3, <1>4, PagesOf

\* The invariant holds before the first call.
LEMMA ScanStarts ==
  ASSUME Init
  PROVE  ScanInv
<1> USE DEF Init
<1>1. WorldInv
  <2>1. service \in DOMAIN Kinds /\ WorldOK(service, world) /\ named \in BOOLEAN
    BY WorldAssumption DEF WorldInit
  <2>2. past = [k \in DOMAIN world |-> {world[k]}]
    BY DEF WorldInit
  <2>3. \A k \in DOMAIN world : world[k] \in Values(k)
    BY <2>1 DEF WorldOK
  <2> QED BY <2>1, <2>2, <2>3 DEF WorldInv
<1>2. /\ ListsAll(First, FirstCalls) /\ ToSet(First) = FirstCalls
      /\ Probe \in FirstCalls => First # <<>> /\ Head(First) = Probe
  BY <1>1, FirstListed DEF WorldInv, ListsAll
<1>3. replies = <<>> /\ DOMAIN replies = {} /\ agenda = First /\ Asked = FirstCalls
  BY <1>2 DEF Asked
<1>4. \A c \in FirstCalls : CallOK(c)
  <2>1. \A kind : "1" \in ToSet(Pages(kind))
    BY PagesOf
  <2>2. \A op, key, arg, by :
          /\ Call(op, key, arg, by).op = op /\ Call(op, key, arg, by).key = key
          /\ Call(op, key, arg, by).arg = arg /\ Call(op, key, arg, by).by = by
    BY CallParts
  <2>3. \A c \in {Probe, CurrentContext, Get("get_account_summary", Root)} :
          c = Call(c.op, c.key, c.arg, c.by) /\ c.key = <<c.key[1], c.key[2]>>
    BY <2>2 DEF Probe, CurrentContext, Get, Root, Context
  <2>4. \A kind : LET c == Kube(kind)
                  IN  /\ c = Call(c.op, c.key, c.arg, c.by) /\ c.key = <<c.key[1], c.key[2]>>
                      /\ c.op = "kubectl" /\ c.key[1] = kind
    BY <2>2 DEF Kube, Get
  <2>5. \A kind : LET c == List(kind, "1")
                  IN  /\ c = Call(c.op, c.key, c.arg, c.by) /\ c.key = <<c.key[1], c.key[2]>>
                      /\ c.op = "list" /\ c.key[1] = kind /\ c.key[2] = "1"
    BY <2>2 DEF List, Get
  <2>6. CallOK(Probe)
    BY <2>3 DEF CallOK
  <2>7. service = "cluster" => CallOK(CurrentContext)
    BY <2>3 DEF CallOK
  <2>8. service = "iam" => CallOK(Get("get_account_summary", Root))
    BY <2>3 DEF CallOK
  <2>9. \A kind \in Kinds[service] \ {"context"} : service \in Kubectl => CallOK(Kube(kind))
    BY <2>4 DEF CallOK
  <2>10. \A kind \in Kinds[service] : service \notin Kubectl => CallOK(List(kind, "1"))
    BY <2>1, <2>5 DEF CallOK
  <2>11. service = "iam" => Identities \subseteq Kinds[service]
    BY KindsOfServices DEF Identities
  <2>12. service = "cluster" => {"pods", "services"} \subseteq Kinds[service] \ {"context"}
    BY KindsOfServices
  <2> QED BY <2>6, <2>7, <2>8, <2>9, <2>10, <2>11, <2>12 DEF FirstCalls, Kubectl
<1>5. Tree
  BY <1>3, <1>4 DEF Tree
<1>6. Once
  BY <1>2, <1>3 DEF Once
<1>7. Order
  BY <1>2, <1>3 DEF Order, Unavailable
<1>8. Complete
  BY <1>3 DEF Complete
<1>9. Truth
  BY <1>3 DEF Truth
<1>10. Said
  BY DEF Said
<1> QED BY <1>1, <1>5, <1>6, <1>7, <1>8, <1>9, <1>10 DEF ScanInv

\* What a reply says has to be so.
ReplyOK(c, reply) ==
  /\ reply.how \in {"answered", "missing", "denied", "lost"}
  /\ reply.how = "answered" => TrueAnswer(c, reply.show)
  /\ reply.how = "missing" => TrueMiss(c)
  /\ reply.how = "lost" => service \notin Aws

\* The next call was not made before, and comes once.
LEMMA NextCall ==
  ASSUME Once, Asking
  PROVE  /\ Head(agenda) \in ToSet(agenda) /\ Head(agenda) \notin DOMAIN replies
         /\ ListsAll(Tail(agenda), ToSet(agenda) \ {Head(agenda)})
BY HeadAndTail DEF Once, Asking

\* Nothing leads to a probe.
LEMMA GuardsComeFirst ==
  ASSUME WorldInv, Tree, Truth, NEW c \in Asked \intersect Guards
  PROVE  c \in FirstCalls
<1>1. c.op \in {"probe", "current-context"}
  BY DEF Guards, Probe, CurrentContext, Get, Call
<1>2. SUFFICES ASSUME c \notin FirstCalls PROVE FALSE
  OBVIOUS
<1>3. Got(replies, Parent(c)) /\ c \in Offspring(Parent(c), replies)
  BY <1>2 DEF Tree
<1>4. TrueReplies(replies) /\ CallOK(Parent(c))
  BY <1>3 DEF TrueReplies, Truth, Got, Asked, Tree
<1> QED BY <1>1, <1>3, <1>4, OffspringShape

\* A reply that is so keeps the invariant, whatever it is.
LEMMA TakeKeeps ==
  ASSUME ScanInv, Asking, NEW reply, ReplyOK(Head(agenda), reply), Take(reply)
  PROVE  ScanInv'
<1> DEFINE c == Head(agenda)
           new == IF reply.how = "answered" THEN Offspring(c, replies') ELSE {}
           stop == reply.how # "answered" /\ Essential(c)
<1>1. /\ WorldInv /\ Tree /\ Once /\ Order /\ Complete /\ Truth /\ Said
      /\ pc = "asking" /\ agenda # <<>>
  BY DEF ScanInv, Asking
<1>2. c \in ToSet(agenda) /\ c \notin DOMAIN replies /\ ListsAll(Tail(agenda), ToSet(agenda) \ {c})
  BY <1>1, NextCall
<1>3. /\ DOMAIN replies' = DOMAIN replies \union {c} /\ replies'[c] = reply
      /\ \A d \in DOMAIN replies : d \in DOMAIN replies' /\ replies'[d] = replies[d]
  BY <1>2 DEF Take, Recorded
<1>4. /\ UNCHANGED <<service, named, world, past, findings, pc>>
      /\ agenda' = IF reply.how = "answered" THEN Follow(c, replies') \o Tail(agenda)
                   ELSE IF Essential(c) THEN <<>> ELSE Tail(agenda)
  BY DEF Take, worldVars
<1>5. WorldInv'
  BY <1>1, <1>4 DEF WorldInv
<1>6. /\ First' = First /\ FirstCalls' = FirstCalls
      /\ \A d : CallOK(d) => CallOK(d)'
      /\ \A d : Essential(d)' <=> Essential(d)
  BY <1>4, SameScanner
<1>7. /\ \A d, show : CallOK(d) /\ TrueAnswer(d, show) => TrueAnswer(d, show)'
      /\ \A d : CallOK(d) /\ TrueMiss(d) => TrueMiss(d)'
  BY <1>1, <1>4, TruthLasts
<1>8. c \in Asked /\ (\A d \in Asked : CallOK(d)) /\ CallOK(c) /\ DOMAIN replies \subseteq Asked
  BY <1>1, <1>2 DEF Asked, Tree
<1>9. TrueReplies(replies')
  BY <1>1, <1>3 DEF TrueReplies, Truth, Got, ReplyOK
<1>10. Truth'
  <2>1. ASSUME NEW d \in DOMAIN replies'
        PROVE  /\ replies'[d].how \in {"answered", "missing", "denied", "lost"}
               /\ Got(replies', d) => TrueAnswer(d, replies[d].show)'
               /\ replies'[d].how = "missing" => TrueMiss(d)'
               /\ service' \in Aws /\ replies'[d].how = "lost" => pc' = "raised"
    <3>1. CASE d = c
      BY <1>3, <1>4, <1>7, <1>8, <3>1 DEF ReplyOK, Got
    <3>2. CASE d \in DOMAIN replies
      BY <1>1, <1>3, <1>4, <1>7, <1>8, <3>2 DEF Truth, Got
    <3> QED BY <1>3, <3>1, <3>2
  <2> QED BY <2>1 DEF Truth
<1>11. ASSUME NEW d, Got(replies, d)
       PROVE  Got(replies', d) /\ Offspring(d, replies') = Offspring(d, replies)
  BY <1>1, <1>3, <1>11, OffspringKept, PagesAnswered
<1>12. Got(replies', c) <=> reply.how = "answered"
  BY <1>3 DEF Got
<1>13. \A e \in new : CallOK(e) /\ Parent(e) = c /\ e \notin FirstCalls
  BY <1>1, <1>8, <1>9, <1>12, OffspringShape
<1>14. \A e \in new : e \notin Asked
  BY <1>1, <1>2, <1>13 DEF Tree, Got
<1>15. /\ ListsAll(agenda', ToSet(agenda'))
       /\ ToSet(agenda') \subseteq (ToSet(agenda) \ {c}) \union new
       /\ ~stop => ToSet(agenda') = (ToSet(agenda) \ {c}) \union new
       /\ stop => agenda' = <<>> /\ ToSet(agenda') = {}
  <2>1. CASE reply.how = "answered"
    <3>1. ListsAll(Follow(c, replies'), new)
      BY <1>1, <1>8, <1>9, <1>12, <2>1, FollowListed
    <3>2. new \cap (ToSet(agenda) \ {c}) = {}
      BY <1>14 DEF Asked
    <3>3. agenda' = Follow(c, replies') \o Tail(agenda)
      BY <1>4, <2>1
    <3> HIDE DEF new, c
    <3>4. ListsAll(agenda', new \union (ToSet(agenda) \ {c}))
      BY <1>2, <3>1, <3>2, <3>3, JoinedLists
    <3> QED BY <2>1, <3>4 DEF ListsAll
  <2>2. CASE reply.how # "answered" /\ Essential(c)
    <3>1. agenda' = <<>> /\ ListsAll(<<>>, {})
      BY <1>4, <2>2, ShortLists
    <3>2. ToSet(agenda') = {} /\ ListsAll(agenda', ToSet(agenda'))
      BY <3>1 DEF ListsAll
    <3> QED BY <2>2, <3>1, <3>2
  <2>3. CASE reply.how # "answered" /\ ~Essential(c)
    <3>1. agenda' = Tail(agenda)
      BY <1>4, <2>3
    <3>2. ToSet(agenda') = ToSet(agenda) \ {c} /\ ListsAll(agenda', ToSet(agenda'))
      BY <1>2, <3>1 DEF ListsAll
    <3> QED BY <2>3, <3>2
  <2> QED BY <2>1, <2>2, <2>3
<1> HIDE DEF new
<1>16. /\ Asked' \subseteq Asked \union new
       /\ ~stop => Asked' = Asked \union new
       /\ Asked' = DOMAIN replies' \union ToSet(agenda')
  BY <1>2, <1>3, <1>15 DEF Asked
<1>17. Tree'
  <2>1. \A d \in Asked' : CallOK(d)'
    BY <1>6, <1>8, <1>13, <1>16
  <2>2. ASSUME NEW d \in Asked' \ FirstCalls
        PROVE  Got(replies', Parent(d)) /\ d \in Offspring(Parent(d), replies')
    <3>1. CASE d \in Asked
      BY <1>1, <1>11, <3>1 DEF Tree
    <3>2. CASE d \in new
      BY <1>12, <1>13, <3>2 DEF new
    <3> QED BY <1>16, <3>1, <3>2
  <2> QED BY <1>6, <2>1, <2>2 DEF Tree
<1>18. Once'
  <2>1. ToSet(agenda') \cap DOMAIN replies' = {}
    BY <1>1, <1>2, <1>3, <1>14, <1>15 DEF Once, Asked
  <2> QED BY <1>15, <2>1 DEF Once
<1>19. Complete'
  <2> SUFFICES ASSUME ~Ended', pc' # "raised"
               PROVE  /\ FirstCalls \subseteq Asked'
                      /\ \A d \in DOMAIN replies' :
                           Got(replies', d) => Offspring(d, replies') \subseteq Asked'
    BY <1>6 DEF Complete
  <2>1. ~stop
    BY <1>3, <1>6, <1>12 DEF Ended
  <2>2. ~Ended
    BY <1>3, <1>6 DEF Ended, Got
  <2>3. FirstCalls \subseteq Asked
    BY <1>1, <2>2 DEF Complete
  <2>4. ASSUME NEW d \in DOMAIN replies', Got(replies', d)
        PROVE  Offspring(d, replies') \subseteq Asked'
    <3>1. CASE d = c
      <4>1. new = Offspring(c, replies')
        BY <1>12, <2>4, <3>1 DEF new
      <4> QED BY <1>16, <2>1, <3>1, <4>1
    <3>2. CASE d \in DOMAIN replies
      <4>1. Got(replies, d)
        BY <1>3, <2>4, <3>2 DEF Got
      <4>2. Offspring(d, replies) \subseteq Asked
        BY <1>1, <2>2, <3>2, <4>1 DEF Complete
      <4> QED BY <1>11, <1>16, <2>1, <4>1, <4>2
    <3> QED BY <1>3, <3>1, <3>2
  <2> QED BY <1>16, <2>1, <2>3, <2>4
<1>20. Order'
  <2>1. DOMAIN replies' # {}
    BY <1>3
  <2>2. /\ ListsAll(First, FirstCalls)
        /\ Probe \in FirstCalls => First # <<>> /\ Head(First) = Probe
        /\ CurrentContext \in FirstCalls =>
             Tail(First) # <<>> /\ Head(Tail(First)) = CurrentContext
    BY <1>1, FirstListed DEF WorldInv
  <2>3. CurrentContext \in FirstCalls => Probe \in FirstCalls
    BY DEF FirstCalls, CurrentContext, Probe, Kube, List, Get, Call
  <2>4. c \in Guards => c \in FirstCalls
    BY <1>1, <1>8, GuardsComeFirst
  <2>5. Probe \in FirstCalls => Probe \in DOMAIN replies'
    BY <1>1, <1>3, <2>2 DEF Order
  <2>6. CurrentContext \in FirstCalls =>
          CurrentContext \in DOMAIN replies' \/ DOMAIN replies' \subseteq {Probe}
    BY <1>1, <1>3, <2>2, <2>3 DEF Order
  <2>7. DOMAIN replies' = {Probe} => agenda' = <<>> \/ agenda' = Tail(First)
    <3> SUFFICES ASSUME DOMAIN replies' = {Probe}
                 PROVE  agenda' = <<>> \/ agenda' = Tail(First)
      OBVIOUS
    <3>1. c = Probe /\ DOMAIN replies = {} /\ agenda = First
      BY <1>1, <1>2, <1>3 DEF Order
    <3>2. CASE reply.how = "answered"
      <4>1. Follow(c, replies') = <<>>
        <5>1. c.op = "probe"
          BY <3>1 DEF Probe, Get, Call
        <5> HIDE DEF c
        <5> QED BY <5>1 DEF Follow, AwsFollow, WorkloadFollow
      <4>2. <<>> \o Tail(agenda) = Tail(agenda)
        BY <1>2, ConcatEmptySeq DEF ListsAll
      <4> QED BY <1>4, <3>1, <3>2, <4>1, <4>2
    <3>3. CASE reply.how # "answered"
      BY <1>4, <3>1, <3>3 DEF Essential
    <3> QED BY <3>2, <3>3
  <2>8. Unavailable(replies') => agenda' = <<>> /\ DOMAIN replies' \subseteq Guards
    <3>1. ~Unavailable(replies)
      BY <1>1 DEF Order
    <3>2. Unavailable(replies') => c \in Guards /\ reply.how # "answered"
      BY <1>3, <1>12, <3>1 DEF Unavailable, Guards, Got
    <3>3. c \in Guards => DOMAIN replies' \subseteq Guards
      BY <1>1, <1>2, <1>3, <2>2, <2>3, <2>4 DEF Order, Guards
    <3>4. c \in Guards /\ reply.how # "answered" => agenda' = <<>>
      BY <1>4 DEF Essential, Guards
    <3> QED BY <3>2, <3>3, <3>4
  <2> QED BY <1>6, <2>1, <2>5, <2>6, <2>7, <2>8 DEF Order
<1>21. Said'
  BY <1>1, <1>4 DEF Said
<1> QED BY <1>5, <1>10, <1>17, <1>18, <1>19, <1>20, <1>21 DEF ScanInv

\* A scan that raises keeps the invariant.
LEMMA RaiseKeeps ==
  ASSUME ScanInv, Raise
  PROVE  ScanInv'
<1> DEFINE c == Head(agenda)
<1>1. /\ WorldInv /\ Tree /\ Once /\ Order /\ Complete /\ Truth /\ Said
      /\ pc = "asking" /\ agenda # <<>> /\ Asking
  BY DEF ScanInv, Asking, Raise, MayFail
<1>2. c \in ToSet(agenda) /\ c \notin DOMAIN replies
  BY <1>1, NextCall
<1>3. /\ DOMAIN replies' = DOMAIN replies \union {c} /\ replies'[c] = Failure("lost")
      /\ \A d \in DOMAIN replies : d \in DOMAIN replies' /\ replies'[d] = replies[d]
  BY <1>2 DEF Raise, Recorded
<1>4. /\ UNCHANGED <<service, named, world, past, findings>>
      /\ agenda' = <<>> /\ pc' = "raised" /\ service \in Aws
  BY DEF Raise, worldVars
<1>5. WorldInv'
  BY <1>1, <1>4 DEF WorldInv
<1>6. /\ First' = First /\ FirstCalls' = FirstCalls
      /\ \A d : CallOK(d) => CallOK(d)'
  BY <1>4, SameScanner
<1>7. /\ \A d, show : CallOK(d) /\ TrueAnswer(d, show) => TrueAnswer(d, show)'
      /\ \A d : CallOK(d) /\ TrueMiss(d) => TrueMiss(d)'
  BY <1>1, <1>4, TruthLasts
<1>8. c \in Asked /\ (\A d \in Asked : CallOK(d)) /\ CallOK(c) /\ DOMAIN replies \subseteq Asked
  BY <1>1, <1>2 DEF Asked, Tree
<1>9. replies'[c].how = "lost"
  BY <1>3 DEF Failure
<1>10. Truth'
  <2>1. ASSUME NEW d \in DOMAIN replies'
        PROVE  /\ replies'[d].how \in {"answered", "missing", "denied", "lost"}
               /\ Got(replies', d) => TrueAnswer(d, replies[d].show)'
               /\ replies'[d].how = "missing" => TrueMiss(d)'
               /\ service' \in Aws /\ replies'[d].how = "lost" => pc' = "raised"
    <3>1. CASE d = c
      BY <1>4, <1>9, <3>1 DEF Got
    <3>2. CASE d \in DOMAIN replies
      BY <1>1, <1>3, <1>4, <1>7, <1>8, <3>2 DEF Truth, Got
    <3> QED BY <1>3, <3>1, <3>2
  <2> QED BY <2>1 DEF Truth
<1>11. ASSUME NEW d, Got(replies, d)
       PROVE  Got(replies', d) /\ Offspring(d, replies') = Offspring(d, replies)
  BY <1>1, <1>3, <1>11, OffspringKept, PagesAnswered
<1>12. ToSet(agenda') = {} /\ ListsAll(agenda', ToSet(agenda'))
  BY <1>4, ShortLists DEF ListsAll
<1>13. Asked' \subseteq Asked
  BY <1>3, <1>8, <1>12 DEF Asked
<1>14. Tree'
  <2>1. \A d \in Asked' : CallOK(d)'
    BY <1>6, <1>8, <1>13
  <2>2. ASSUME NEW d \in Asked' \ FirstCalls
        PROVE  Got(replies', Parent(d)) /\ d \in Offspring(Parent(d), replies')
    BY <1>1, <1>11, <1>13 DEF Tree
  <2> QED BY <1>6, <2>1, <2>2 DEF Tree
<1>15. Once'
  BY <1>12 DEF Once
<1>16. Order'
  <2>1. Probe \notin FirstCalls /\ CurrentContext \notin FirstCalls
    BY <1>4 DEF Aws, FirstCalls, Probe, CurrentContext, List, Get, Call
  <2>2. \A d \in DOMAIN replies' : d \notin Guards
    BY <1>1, <1>3, <1>8, <2>1, GuardsComeFirst DEF Guards
  <2>3. ~Unavailable(replies')
    BY <2>2 DEF Unavailable, Guards
  <2>4. DOMAIN replies' # {}
    BY <1>3
  <2> QED BY <1>4, <1>6, <2>1, <2>3, <2>4 DEF Order
<1>17. Complete'
  BY <1>4 DEF Complete
<1>18. Said'
  BY <1>1, <1>4 DEF Said
<1> QED BY <1>5, <1>10, <1>14, <1>15, <1>16, <1>17, <1>18 DEF ScanInv

\* So does a change by others: what was seen has been so before.
LEMMA OthersKeep ==
  ASSUME ScanInv, Others
  PROVE  ScanInv'
<1>1. /\ WorldInv /\ Tree /\ Once /\ Order /\ Complete /\ Truth /\ Said
  BY DEF ScanInv
<1>2. /\ UNCHANGED <<service, named, agenda, replies, findings, pc>>
      /\ \E k \in DOMAIN world : \E v \in Values(k) :
           /\ world' = [world EXCEPT ![k] = v]
           /\ past' = [past EXCEPT ![k] = @ \union {v}]
  BY DEF Others, Change
<1>a. PICK k \in DOMAIN world : \E v \in Values(k) :
        /\ world' = [world EXCEPT ![k] = v]
        /\ past' = [past EXCEPT ![k] = @ \union {v}]
  BY <1>2
<1>3. PICK v \in Values(k) :
        /\ world' = [world EXCEPT ![k] = v]
        /\ past' = [past EXCEPT ![k] = @ \union {v}]
  BY <1>a
<1>4. world = [j \in DOMAIN world |-> world[j]] /\ past = [j \in DOMAIN world |-> past[j]]
  BY <1>1 DEF WorldInv, WorldOK
<1>5. /\ DOMAIN world' = DOMAIN world /\ world' = [j \in DOMAIN world' |-> world'[j]]
      /\ past' = [j \in DOMAIN world' |-> past'[j]]
      /\ \A j \in DOMAIN world : /\ world'[j] = IF j = k THEN v ELSE world[j]
                                 /\ past'[j] = IF j = k THEN past[j] \union {v} ELSE past[j]
  BY <1>3, <1>4
<1>6. WorldInv'
  <2>1. \A j \in DOMAIN world' :
          /\ j = <<j[1], j[2]>> /\ j[1] \in Kinds[service] /\ j[2] # "any"
          /\ world'[j] \in Values(j) /\ world'[j] \in past'[j] /\ past'[j] \subseteq Values(j)
    BY <1>1, <1>5 DEF WorldInv, WorldOK
  <2>2. \A j \in DOMAIN world' : \A u \in Values(j) : u = Gone \/ StateOK(world', j, u)
    BY <1>1, <1>5 DEF WorldInv, WorldOK, StateOK
  <2>3. WorldOK(service', world')
    BY <1>1, <1>2, <1>5, <2>1, <2>2 DEF WorldInv, WorldOK
  <2> QED BY <1>1, <1>2, <1>5, <2>1, <2>3 DEF WorldInv
<1>7. /\ First' = First /\ FirstCalls' = FirstCalls
      /\ \A d : CallOK(d) => CallOK(d)'
      /\ \A d : Essential(d)' <=> Essential(d)
  BY <1>2, <1>5, SameScanner
<1>8. /\ \A d, show : CallOK(d) /\ TrueAnswer(d, show) => TrueAnswer(d, show)'
      /\ \A d : CallOK(d) /\ TrueMiss(d) => TrueMiss(d)'
  <2>1. \A j \in DOMAIN world : past[j] \subseteq past'[j]
    BY <1>5
  <2> QED BY <1>1, <1>2, <1>5, <2>1, TruthLasts
<1>9. Asked' = Asked /\ Ended' = Ended
  <2>1. Ended' <=> Ended
    BY <1>2, <1>7 DEF Ended
  <2> QED BY <1>2, <2>1 DEF Asked, Ended
<1>10. Tree'
  BY <1>1, <1>2, <1>7, <1>9 DEF Tree
<1>11. Once'
  BY <1>1, <1>2 DEF Once
<1>12. Order'
  BY <1>1, <1>2, <1>7 DEF Order
<1>13. Complete'
  BY <1>1, <1>2, <1>7, <1>9 DEF Complete
<1>14. Truth'
  <2>1. \A d \in DOMAIN replies : CallOK(d)
    BY <1>1 DEF Tree, Asked
  <2>2. ASSUME NEW d \in DOMAIN replies
        PROVE  /\ Got(replies, d) => TrueAnswer(d, replies[d].show)'
               /\ replies[d].how = "missing" => TrueMiss(d)'
    BY <1>1, <1>2, <1>8, <2>1 DEF Truth
  <2> QED BY <1>1, <1>2, <2>2 DEF Truth
<1>15. Said'
  <2>1. pc = "asking"
    BY DEF Others, Asking
  <2> QED BY <1>1, <1>2, <2>1 DEF Said
<1> QED BY <1>6, <1>10, <1>11, <1>12, <1>13, <1>14, <1>15 DEF ScanInv

\* The findings depend on the scanner and the replies.
LEMMA SameFindings ==
  ASSUME service' = service, replies' = replies
  PROVE  Findings' = Findings
<1>1. \A check, severity, key : Finding(check, severity, key)' = Finding(check, severity, key)
  BY DEF Finding
<1>2. AwsFindings(replies)' = AwsFindings(replies)
  <2>1. \A known, key : BucketFindings(known, key)' = BucketFindings(known, key)
    BY <1>1 DEF BucketFindings, Judged
  <2>2. \A known, r : TrailFindings(known, r)' = TrailFindings(known, r)
    BY <1>1 DEF TrailFindings, Judged
  <2>3. \A r : GroupFindings(r)' = GroupFindings(r) /\ DatabaseFindings(r)' = DatabaseFindings(r)
    BY <1>1 DEF GroupFindings, DatabaseFindings
  <2>4. \A known, key : UrlFinding(known, key)' = UrlFinding(known, key)
    BY <1>1 DEF UrlFinding
  <2>5. \A known : IamFindings(known)' = IamFindings(known)
    <3>1. ASSUME NEW known, NEW key
          PROVE  KeyFindings(known, key)' = KeyFindings(known, key)
      <4> DEFINE c == Get("list_access_keys", key)
                 keys == {k \in known[c].show.keys : k.is.active}
                 Use(k) == Call("get_access_key_last_used", key, {k.name}, key)
                 lost == {Finding("access_keys", "ERROR", key)}
                 ages == {Finding("access_key_age", KeyAge(k.is), key) : k \in keys}
                 Used(k) == IF Got(known, Use(k)) THEN KeyUse(known[Use(k)].show) ELSE "ERROR"
                 uses == {Finding("access_key_last_used", Used(k), key) : k \in keys}
      <4>1. /\ KeyFindings(known, key) = IF ~Got(known, c) THEN lost ELSE ages \union uses
            /\ KeyFindings(known, key)' = (IF ~Got(known, c) THEN lost ELSE ages \union uses)'
        BY DEF KeyFindings
      <4>2. lost' = lost
        BY <1>1
      <4> HIDE DEF c, Use
      <4>3. ages' = ages
        BY <1>1
      <4>4. \A k : Finding("access_key_last_used", Used(k), key)'
                   = Finding("access_key_last_used", Used(k), key)
        BY <1>1
      <4> HIDE DEF Used
      <4>5. uses' = uses
        BY <4>4
      <4> HIDE DEF lost, ages, uses
      <4> QED BY <4>1, <4>2, <4>3, <4>5
    <3>2. \A known, key : PolicyFindings(known, key)' = PolicyFindings(known, key)
      BY <1>1 DEF PolicyFindings
    <3>3. \A known, key : TrustFinding(known, key)' = TrustFinding(known, key)
      BY <1>1 DEF TrustFinding, Judged
    <3> QED BY <1>1, <3>1, <3>2, <3>3
        DEF IamFindings, RootFinding, ListErrors, NoUsers, Judged
  <2> QED BY <1>1, <2>1, <2>2, <2>3, <2>4, <2>5 DEF AwsFindings, Over, Judged
<1>3. WorkloadFindings(replies)' = WorkloadFindings(replies)
  <2>1. Live' = Live /\ Connection' = Connection
    BY <1>1 DEF Live, Connection
  <2>2. \A pod, key : PodFindings(pod, key)' = PodFindings(pod, key)
    BY <1>1 DEF PodFindings
  <2>3. DaemonFindings(replies)' = DaemonFindings(replies)
    <3>1. \A r : ContainerFindings(r)' = ContainerFindings(r)
      BY <1>1 DEF ContainerFindings
    <3> QED BY <1>1, <2>1, <3>1 DEF DaemonFindings
  <2>4. FilesFindings(replies)' = FilesFindings(replies)
    <3>1. \A text, key : FileFindings(text, key)' = FileFindings(text, key)
      BY <1>1, <2>2 DEF FileFindings, ManifestFindings
    <3> DEFINE keys == {<<service, r.name>> : r \in Listed(replies, service)}
               reads == UNION {LET c == Get("read", key)
                               IN  IF Got(replies, c) THEN FileFindings(replies[c].show, key)
                                   ELSE {Finding("read", "ERROR", key)} : key \in keys}
               none == {Finding("discovery", "ERROR", Live)}
    <3>2. /\ FilesFindings(replies) = IF keys = {} THEN none ELSE reads
          /\ FilesFindings(replies)' = (IF keys = {} THEN none ELSE reads)'
      BY DEF FilesFindings
    <3>3. keys' = keys /\ none' = none
      BY <1>1, <2>1
    <3> HIDE DEF keys, none
    <3>4. reads' = reads
      BY <1>1, <3>1, <3>3
    <3> HIDE DEF reads
    <3> QED BY <3>2, <3>3, <3>4
  <2>5. ClusterFindings(replies)' = ClusterFindings(replies)
    <3> DEFINE pods == Items(replies, "pods")
               none == {Finding("pod_inventory", "INFO", Live)}
               failed == {Finding("pod_inventory", "ERROR", Live)}
               exposed == {IF Got(replies, Kube("services"))
                           THEN Finding("external_service",
                                        ServiceVerdict(Items(replies, "services")), Live)
                           ELSE Finding("service_inventory", "ERROR", Live)}
               found == IF Unavailable(replies) THEN Connection
                        ELSE IF ~Got(replies, Kube("pods")) THEN failed
                        ELSE (IF pods = {} THEN none ELSE {})
                             \union (UNION {PodFindings(p.is, <<"pod", p.name>>) : p \in pods})
                             \union exposed
    <3>1. ClusterFindings(replies) = found /\ ClusterFindings(replies)' = found'
      BY DEF ClusterFindings
    <3>2. pods' = pods /\ none' = none /\ failed' = failed /\ exposed' = exposed
      BY <1>1, <2>1
    <3> HIDE DEF pods, none, failed, exposed
    <3>3. (UNION {PodFindings(p.is, <<"pod", p.name>>) : p \in pods})'
          = UNION {PodFindings(p.is, <<"pod", p.name>>) : p \in pods}
      BY <2>2, <3>2
    <3> QED BY <2>1, <3>1, <3>2, <3>3
  <2>6. AdmissionFindings(replies)' = AdmissionFindings(replies)
    <3>1. ASSUME NEW namespaces, NEW pods
          PROVE  AdmissionOf(namespaces, pods)' = AdmissionOf(namespaces, pods)
      <4>1. \A a, b : Finding(a[1], a[2], b)' = Finding(a[1], a[2], b)
        BY <1>1
      <4> QED BY <1>1, <4>1 DEF AdmissionOf, Finding
    <3>2. \A kind, webhooks : WebhookFindings(kind, webhooks)' = WebhookFindings(kind, webhooks)
      BY <1>1 DEF WebhookFindings
    <3> DEFINE failed == {kind \in ToSet(AdmissionReads) : ~Got(replies, Kube(kind))}
               errors == {Finding(kind, "ERROR", Live) : kind \in failed}
               levels == AdmissionOf(Items(replies, "namespaces"), Items(replies, "pods"))
               hooks == UNION {WebhookFindings(kind, Items(replies, kind)) :
                                 kind \in {"validatingwebhooks", "mutatingwebhooks"} \ failed}
               none == {Finding("inventory", "PASS", Live)}
    <3>3. failed' = failed /\ levels' = levels /\ none' = none
      BY <1>1, <2>1, <3>1
    <3>4. errors' = errors /\ hooks' = hooks
      <4> HIDE DEF failed
      <4> QED BY <1>1, <2>1, <3>2, <3>3
    <3> DEFINE found == errors \union (IF failed \cap {"namespaces", "pods"} # {} THEN {}
                                        ELSE levels) \union hooks
               all == IF Unavailable(replies) THEN Connection
                      ELSE IF found = {} THEN none ELSE found
    <3>5. AdmissionFindings(replies) = all /\ AdmissionFindings(replies)' = all'
      BY DEF AdmissionFindings
    <3> HIDE DEF failed, errors, levels, hooks, none
    <3> QED BY <2>1, <3>3, <3>4, <3>5
  <2> QED BY <2>3, <2>4, <2>5, <2>6 DEF WorkloadFindings
<1> QED BY <1>2, <1>3 DEF Findings

\* What is not about the calls or the world stays when neither changes.
LEMMA JudgeOrStutterKeeps ==
  ASSUME ScanInv, Judge \/ UNCHANGED vars
  PROVE  ScanInv'
<1>1. /\ WorldInv /\ Tree /\ Once /\ Order /\ Complete /\ Truth /\ Said
  BY DEF ScanInv
<1>2. /\ UNCHANGED <<service, named, world, past, agenda, replies>>
      /\ \/ pc = "asking" /\ agenda = <<>> /\ findings' = Findings /\ pc' = "done"
         \/ UNCHANGED <<findings, pc>>
  BY DEF Judge, vars, worldVars
<1>3. WorldInv'
  BY <1>1, <1>2 DEF WorldInv
<1>4. /\ First' = First /\ FirstCalls' = FirstCalls
      /\ \A d : CallOK(d) => CallOK(d)'
      /\ \A d : Essential(d)' <=> Essential(d)
  BY <1>2, SameScanner
<1>5. /\ \A d, show : CallOK(d) /\ TrueAnswer(d, show) => TrueAnswer(d, show)'
      /\ \A d : CallOK(d) /\ TrueMiss(d) => TrueMiss(d)'
  BY <1>1, <1>2, TruthLasts
<1>6. Asked' = Asked /\ (Ended' <=> Ended)
  BY <1>2, <1>4 DEF Asked, Ended
<1>7. Tree'
  BY <1>1, <1>2, <1>4, <1>6 DEF Tree
<1>8. Once' /\ Order'
  BY <1>1, <1>2, <1>4 DEF Once, Order
<1>9. Complete'
  BY <1>1, <1>2, <1>4, <1>6 DEF Complete
<1>10. Truth'
  <2>1. \A d \in DOMAIN replies : CallOK(d)
    BY <1>1 DEF Tree, Asked
  <2>2. ASSUME NEW d \in DOMAIN replies
        PROVE  /\ Got(replies, d) => TrueAnswer(d, replies[d].show)'
               /\ replies[d].how = "missing" => TrueMiss(d)'
    BY <1>1, <1>2, <1>5, <2>1 DEF Truth
  <2>3. pc = "raised" => pc' = "raised"
    BY <1>2
  <2> QED BY <1>1, <1>2, <2>2, <2>3 DEF Truth
<1>11. Said'
  <2>1. Findings' = Findings
    BY <1>2, SameFindings
  <2> QED BY <1>1, <1>2, <2>1 DEF Said
<1> QED BY <1>3, <1>7, <1>8, <1>9, <1>10, <1>11 DEF ScanInv

\* The world stays one of its kind, every call asked follows from a true answer, and
\* nothing the answers lead to is left out while the scan goes on.
THEOREM ScanInvariant == Spec => []ScanInv
<1>1. Init => ScanInv
  BY ScanStarts
<1>2. ScanInv /\ [Next]_vars => ScanInv'
  <2> SUFFICES ASSUME ScanInv, [Next]_vars
               PROVE  ScanInv'
    OBVIOUS
  <2>1. \A c : Asking /\ c = Head(agenda) => CallOK(c) /\ WorldInv
    BY NextCall DEF ScanInv, Tree, Asked
  <2>2. CASE Answered
    <3>1. ReplyOK(Head(agenda), Answer(Head(agenda)))
      BY <2>1, <2>2, AnswerIsTrue DEF Answered, Answer, ReplyOK
    <3> QED BY <2>2, <3>1, TakeKeeps DEF Answered
  <2>3. CASE Missing
    <3>1. ReplyOK(Head(agenda), Failure("missing"))
      BY <2>1, <2>3, MissIsTrue DEF Missing, Failure, ReplyOK
    <3> QED BY <2>3, <3>1, TakeKeeps DEF Missing
  <2>4. CASE Denied
    <3>1. ReplyOK(Head(agenda), Failure("denied"))
      BY DEF Failure, ReplyOK
    <3> QED BY <2>4, <3>1, TakeKeeps DEF Denied, MayFail
  <2>5. CASE TimedOut
    <3>1. ReplyOK(Head(agenda), Failure("lost"))
      BY <2>5 DEF TimedOut, Failure, ReplyOK
    <3> QED BY <2>5, <3>1, TakeKeeps DEF TimedOut, MayFail
  <2>6. CASE Raise
    BY <2>6, RaiseKeeps
  <2>7. CASE Others
    BY <2>7, OthersKeep
  <2>8. CASE Judge \/ UNCHANGED vars
    BY <2>8, JudgeOrStutterKeeps
  <2> QED BY <2>2, <2>3, <2>4, <2>5, <2>6, <2>7, <2>8 DEF Next
<1> QED BY <1>1, <1>2, PTL DEF Spec

-----------------------------------------------------------------------------
(* The findings are ones the risk engine accepts                           *)

Severities == {"CRITICAL", "HIGH", "MEDIUM", "LOW", "PASS", "INFO", "ERROR"}

\* The severities that count as a risk.
LEMMA ActionableIs ==
  ASSUME NEW severity
  PROVE  Actionable(severity) <=> severity \in {"CRITICAL", "HIGH", "MEDIUM", "LOW"}
BY DEF Actionable, Risk!SeverityWeights

\* A finding the risk engine accepts, of the scanner that ran.
Sound(f) == Risk!FindingOK(f) /\ f.service = service

\* A finding with one of the severities is sound.
LEMMA RatedFinding ==
  ASSUME NEW check, NEW severity \in Severities, NEW key
  PROVE  /\ Sound(Finding(check, severity, key))
         /\ \A b \in BOOLEAN : Sound([Finding(check, severity, key) EXCEPT !.writable = b])
BY DEF Sound, Risk!FindingOK, Risk!AllSeverities, Risk!SeverityWeights, Finding, Severities

\* What a finished scan has asked, been told and returns.
LEMMA Finished ==
  ASSUME ScanInv, pc = "done"
  PROVE  /\ WorldInv /\ Tree /\ findings = Findings /\ Asked = DOMAIN replies
         /\ TrueReplies(replies) /\ \A c \in DOMAIN replies : CallOK(c)
         /\ \A c \in DOMAIN replies : replies[c].how \in {"answered", "missing", "denied", "lost"}
         /\ \A c \in DOMAIN replies : replies[c].how = "missing" => TrueMiss(c)
<1>1. agenda = <<>> /\ ToSet(agenda) = {}
  BY ShortLists DEF ScanInv, Said, ListsAll
<1> QED BY <1>1 DEF ScanInv, Said, Asked, Tree, Truth, TrueReplies, Got

\* A call about one resource that was answered showed a state of the resource.
LEMMA ShownState ==
  ASSUME ScanInv, pc = "done", NEW c, Got(replies, c), c.op \in Requested
  PROVE  /\ c.key \in DOMAIN world /\ replies[c].show \in Seen(c.key)
         /\ StateOK(world, c.key, replies[c].show)
<1>1. c \in DOMAIN replies /\ CallOK(c) /\ TrueAnswer(c, replies[c].show) /\ WorldInv
  BY Finished DEF Got, TrueReplies
<1>2. c.op \notin OfPart \union {"list", "kubectl", "probe", "inspect"}
  BY RequestedOps DEF BucketChecks, OfPart
<1>3. c.key \in DOMAIN world /\ replies[c].show \in Seen(c.key)
  BY <1>1, <1>2, CallShape DEF TrueAnswer
<1> QED BY <1>1, <1>3, SeenStates

\* The fields of a plain call.
LEMMA GetParts ==
  ASSUME NEW op, NEW key
  PROVE  Get(op, key).op = op /\ Get(op, key).key = key /\ Get(op, key).by = key
         /\ Get(op, key).arg = {}
BY DEF Get, Call

\* The parts of an IAM scan's findings.
LEMMA IamParts ==
  ASSUME NEW f
  PROVE  f \in IamFindings(replies) <=>
           \/ f = RootFinding(replies)
           \/ f \in ListErrors(replies)
           \/ f \in NoUsers(replies)
           \/ \E key \in ListedKeys(replies, "user") : f \in KeyFindings(replies, key)
           \/ \E kind \in Identities : \E key \in ListedKeys(replies, kind) :
                f \in PolicyFindings(replies, key)
           \/ \E key \in ListedKeys(replies, "role") : f = TrustFinding(replies, key)
<1>1. DOMAIN ListCheck = Identities
  BY DEF ListCheck, Identities
<1> DEFINE all == UNION {ListedKeys(replies, kind) : kind \in DOMAIN ListCheck}
           ofKeys == UNION {KeyFindings(replies, key) : key \in ListedKeys(replies, "user")}
           ofPolicies == UNION {PolicyFindings(replies, key) : key \in all}
           ofTrust == {TrustFinding(replies, key) : key \in ListedKeys(replies, "role")}
<1>2. IamFindings(replies) = {RootFinding(replies)} \union ListErrors(replies)
                             \union NoUsers(replies) \union ofKeys \union ofPolicies \union ofTrust
  BY DEF IamFindings
<1>3. f \in ofKeys <=> \E key \in ListedKeys(replies, "user") : f \in KeyFindings(replies, key)
  OBVIOUS
<1>4. f \in ofPolicies <=> \E kind \in Identities : \E key \in ListedKeys(replies, kind) :
                             f \in PolicyFindings(replies, key)
  <2>1. \A key : key \in all <=> \E kind \in Identities : key \in ListedKeys(replies, kind)
    BY <1>1
  <2> HIDE DEF all
  <2> QED BY <2>1
<1>5. f \in ofTrust <=> \E key \in ListedKeys(replies, "role") : f = TrustFinding(replies, key)
  OBVIOUS
<1> HIDE DEF ofKeys, ofPolicies, ofTrust
<1> QED BY <1>2, <1>3, <1>4, <1>5

\* The findings of an AWS scanner are sound.
LEMMA AwsFindingsOK ==
  ASSUME ScanInv, pc = "done", service \in Aws, NEW f \in AwsFindings(replies)
  PROVE  Sound(f)
<1> DEFINE Rated == \E check, key : \E severity \in Severities : f = Finding(check, severity, key)
<1>1. SUFFICES Rated
  BY RatedFinding
<1>2. \A bad : PassUnless(bad, "CRITICAL") \in Severities /\ PassUnless(bad, "HIGH") \in Severities
               /\ PassUnless(bad, "MEDIUM") \in Severities
  BY DEF PassUnless, Severities
<1>3. {"CRITICAL", "HIGH", "MEDIUM", "LOW", "PASS", "INFO", "ERROR"} \subseteq Severities
  BY DEF Severities
<1>4. CASE service = "s3"
  <2>1. CASE f = Finding("runner", "ERROR", Account)
    BY <1>3, <2>1
  <2>2. CASE \E r \in Listed(replies, "bucket") :
               f \in BucketFindings(replies, <<"bucket", r.name>>)
    <3>1. PICK r \in Listed(replies, "bucket"), check \in BucketChecks :
            LET key == <<"bucket", r.name>>
                c == Get(check, key)
            IN  f = IF Got(replies, c)
                    THEN Finding(check, BucketVerdict(check, replies[c].show), key)
                    ELSE Finding(check, "ERROR", key)
      BY <2>2 DEF BucketFindings, Judged
    <3> DEFINE key == <<"bucket", r.name>>
               c == Get(check, key)
    <3>2. ASSUME Got(replies, c)
          PROVE  BucketVerdict(check, replies[c].show) \in Severities
      <4>1. replies[c].show.pab \in {"all", "part", "none"}
        <5>1. c.op \in Requested /\ c.key = key
          BY GetParts, RequestedOps
        <5> QED BY <3>2, <5>1, ShownState DEF StateOK
      <4> QED BY <1>2, <1>3, <4>1 DEF BucketVerdict, BucketChecks
    <3> QED BY <1>3, <3>1, <3>2
  <2> QED BY <1>4, <2>1, <2>2 DEF AwsFindings, Over
<1>5. CASE service = "cloudtrail"
  <2>1. CASE \E r \in Listed(replies, "trail") : f \in TrailFindings(replies, r)
    BY <1>2, <1>3, <2>1 DEF TrailFindings, Judged, TrailLogging, TrailEverywhere
  <2>2. CASE f \in {Finding("describe", "ERROR", Account),
                   Finding("trail_present", "HIGH", Account)}
    BY <1>3, <2>2
  <2> QED BY <1>5, <2>1, <2>2 DEF AwsFindings, Over
<1>6. CASE service = "guardduty"
  BY <1>2, <1>3, <1>6 DEF AwsFindings, Over, Judged, Detector
<1>7. CASE service = "ec2"
  <2>1. CASE \E r \in Listed(replies, "securityGroup") : f \in GroupFindings(r)
    <3>1. PICK r : f \in GroupFindings(r)
      BY <2>1
    <3>2. PICK v \in GroupVerdicts(r.is) : f = Finding(v[1], v[2], <<"securityGroup", r.name>>)
      BY <3>1 DEF GroupFindings
    <3>3. \A p \in DOMAIN SensitivePorts : SensitivePorts[p] \in Severities
      BY <1>3 DEF SensitivePorts
    <3>4. \A q : Covered(q) \subseteq DOMAIN SensitivePorts
      BY DEF Covered
    <3>5. v[2] \in Severities
      BY <1>3, <3>3, <3>4 DEF GroupVerdicts
    <3> QED BY <3>2, <3>5
  <2>2. CASE f = Finding("security_groups", "ERROR", Account)
    BY <1>3, <2>2
  <2> QED BY <1>7, <2>1, <2>2 DEF AwsFindings, Over
<1>8. CASE service = "rds"
  BY <1>2, <1>3, <1>8 DEF AwsFindings, Over, DatabaseFindings, DatabaseAccess, DatabaseEncryption
<1>9. CASE service = "lambda"
  <2>1. CASE \E r \in Listed(replies, "function") : f = UrlFinding(replies, <<"function", r.name>>)
    <3>1. PICK key : f = UrlFinding(replies, key)
      BY <2>1
    <3> QED BY <1>2, <1>3, <3>1 DEF UrlFinding, FunctionUrl
  <2>2. CASE f \in {Finding("list_functions", "ERROR", Account),
                   Finding("function_urls", "INFO", Account)}
    BY <1>3, <2>2
  <2> QED BY <1>9, <2>1, <2>2 DEF AwsFindings, Over
<1>10. CASE service = "iam"
  <2>1. f \in IamFindings(replies)
    BY <1>10 DEF AwsFindings
  <2>2. CASE \E key : f \in KeyFindings(replies, key)
    BY <1>2, <1>3, <2>2 DEF KeyFindings, KeyAge, KeyUse
  <2>3. CASE \E key : f \in PolicyFindings(replies, key)
    BY <1>3, <2>3 DEF PolicyFindings
  <2>4. CASE \E key : f = TrustFinding(replies, key)
    BY <1>2, <1>3, <2>4 DEF TrustFinding, Judged, TrustVerdict
  <2>5. CASE f = RootFinding(replies)
    BY <1>2, <1>3, <2>5 DEF RootFinding, Judged
  <2>6. CASE f \in ListErrors(replies)
    BY <1>3, <2>6 DEF ListErrors
  <2>7. CASE f \in NoUsers(replies)
    BY <1>3, <2>7 DEF NoUsers
  <2> QED BY <2>1, <2>2, <2>3, <2>4, <2>5, <2>6, <2>7, IamParts
<1> QED BY <1>4, <1>5, <1>6, <1>7, <1>8, <1>9, <1>10 DEF Aws

\* The verdicts on workloads are severities.
LEMMA WorkloadVerdicts ==
  /\ \A bad : OrPass(bad, "CRITICAL") \in Severities /\ OrPass(bad, "HIGH") \in Severities
              /\ OrPass(bad, "MEDIUM") \in Severities /\ OrPass(bad, "LOW") \in Severities
  /\ \A v : \A check \in ContainerChecks : ContainerVerdict(check, v) \in Severities
  /\ \A file : \A v \in DockerfileVerdicts(file) : v[2] \in Severities
  /\ \A pod : \A check \in PodChecks : PodVerdict(check, pod) \in Severities
  /\ \A services : ServiceVerdict(services) \in Severities
  /\ \A enforce : PodSecurityVerdict(enforce)[2] \in Severities
  /\ \A w : WebhookVerdict(w)[2] \in Severities
<1>1. {"CRITICAL", "HIGH", "MEDIUM", "LOW", "PASS", "INFO", "ERROR"} \subseteq Severities
  BY DEF Severities
<1>2. \A bad : OrPass(bad, "CRITICAL") \in Severities /\ OrPass(bad, "HIGH") \in Severities
               /\ OrPass(bad, "MEDIUM") \in Severities /\ OrPass(bad, "LOW") \in Severities
  BY <1>1 DEF OrPass
<1>3. \A worse, bad : Graded(worse, bad, "HIGH", "MEDIUM") \in Severities
                      /\ Graded(worse, bad, "CRITICAL", "HIGH") \in Severities
  BY <1>1, <1>2 DEF Graded
<1>4. ASSUME NEW v, NEW check \in ContainerChecks
      PROVE  ContainerVerdict(check, v) \in Severities
  BY <1>2, <1>3 DEF ContainerVerdict, ContainerChecks, Isolation, CapabilityRisk, DeviceRisk
<1>5. ASSUME NEW file, NEW v \in DockerfileVerdicts(file)
      PROVE  v[2] \in Severities
  <2>1. BaseImage(file)[2] \in Severities
    BY <1>1, <1>2 DEF BaseImage
  <2>2. RuntimeUser(file) \in Severities
    BY <1>1 DEF RuntimeUser
  <2>3. EmbeddedSecret(file) \in Severities
    BY <1>2 DEF EmbeddedSecret
  <2> QED BY <1>2, <2>1, <2>2, <2>3 DEF DockerfileVerdicts
<1>6. ASSUME NEW pod, NEW check \in PodChecks
      PROVE  PodVerdict(check, pod) \in Severities
  BY <1>2 DEF PodVerdict, PodChecks, PodPrivileges, PodConfinement, PodContents
<1>7. \A services : ServiceVerdict(services) \in Severities
  BY <1>2 DEF ServiceVerdict
<1>8. \A enforce : PodSecurityVerdict(enforce)[2] \in Severities
  BY <1>1 DEF PodSecurityVerdict
<1>9. \A w : WebhookVerdict(w)[2] \in Severities
  BY <1>1 DEF WebhookVerdict
<1> QED BY <1>2, <1>4, <1>5, <1>6, <1>7, <1>8, <1>9

\* The findings of the other scanners are sound.
LEMMA WorkloadFindingsOK ==
  ASSUME service \in DOMAIN Kinds \ Aws, NEW f \in WorkloadFindings(replies)
  PROVE  Sound(f)
<1> DEFINE Rated == \E check, key : \E severity \in Severities : f = Finding(check, severity, key)
<1>1. ASSUME Rated
      PROVE  Sound(f)
  BY <1>1, RatedFinding
<1>2. {"CRITICAL", "HIGH", "MEDIUM", "LOW", "PASS", "INFO", "ERROR"} \subseteq Severities
  BY DEF Severities
<1>3. ASSUME f \in Connection
      PROVE  Rated
  BY <1>2, <1>3 DEF Connection
<1>4. ASSUME NEW pod, NEW key, f \in PodFindings(pod, key)
      PROVE  Rated
  BY <1>4, WorkloadVerdicts DEF PodFindings
<1>5. CASE service = "daemon"
  <2>1. CASE \E check : f = Finding(check, "ERROR", Live) \/ f = Finding(check, "INFO", Live)
    BY <1>1, <1>2, <2>1
  <2>2. CASE \E r : f \in ContainerFindings(r)
    <3>1. PICK r : f \in ContainerFindings(r)
      BY <2>2
    <3>2. PICK check \in ContainerChecks :
            LET g == Finding(check, ContainerVerdict(check, r.is), <<"container", r.name>>)
                b == check = "sensitive_host_mount" /\ Writable(SensitiveMounts(r.is)) # {}
            IN  f = [g EXCEPT !.writable = b]
      BY <3>1 DEF ContainerFindings
    <3> QED BY <3>2, RatedFinding, WorkloadVerdicts
  <2> QED BY <1>1, <1>3, <1>5, <2>1, <2>2 DEF WorkloadFindings, DaemonFindings
<1>6. CASE service \in {"dockerfile", "manifest"}
  <2>1. CASE \E check, key : f = Finding(check, "ERROR", key)
    BY <1>1, <1>2, <2>1
  <2>2. CASE \E text, key : f \in FileFindings(text, key)
    <3>1. PICK text, key : f \in FileFindings(text, key)
      BY <2>2
    <3>2. CASE f \in ManifestFindings(text, key)
      <4>1. CASE f \in UNION {PodFindings(d.is, <<"workload", d.name>>) : d \in text.workloads}
        BY <1>1, <1>4, <4>1
      <4> QED BY <2>1, <3>2, <4>1 DEF ManifestFindings
    <3>3. CASE f \in {Finding(v[1], v[2], key) : v \in DockerfileVerdicts(text.lines)}
      BY <1>1, <3>3, WorkloadVerdicts
    <3> QED BY <3>1, <3>2, <3>3 DEF FileFindings
  <2> QED BY <1>6, <2>1, <2>2 DEF WorkloadFindings, FilesFindings
<1>7. CASE service = "cluster"
  <2> DEFINE pods == Items(replies, "pods")
             services == Items(replies, "services")
             seen == UNION {PodFindings(p.is, <<"pod", p.name>>) : p \in pods}
             exposed == IF Got(replies, Kube("services"))
                        THEN Finding("external_service", ServiceVerdict(services), Live)
                        ELSE Finding("service_inventory", "ERROR", Live)
             none == IF pods = {} THEN {Finding("pod_inventory", "INFO", Live)} ELSE {}
  <2>1. \/ f \in Connection \/ f = Finding("pod_inventory", "ERROR", Live)
        \/ f \in none \/ f \in seen \/ f = exposed
    <3>1. ClusterFindings(replies) =
            IF Unavailable(replies) THEN Connection
            ELSE IF ~Got(replies, Kube("pods")) THEN {Finding("pod_inventory", "ERROR", Live)}
            ELSE none \union seen \union {exposed}
      BY DEF ClusterFindings
    <3> HIDE DEF none, seen, exposed
    <3> QED BY <1>7, <3>1 DEF WorkloadFindings
  <2>2. CASE f \in seen
    BY <1>1, <1>4, <2>2
  <2>3. CASE f \in none \/ f = exposed
    BY <1>1, <1>2, <2>3, WorkloadVerdicts
  <2> QED BY <1>1, <1>2, <1>3, <2>1, <2>2, <2>3
<1>8. CASE service = "admission"
  <2>1. ASSUME NEW namespaces, NEW pods, f \in AdmissionOf(namespaces, pods)
        PROVE  Rated
    <3>1. CASE \E name : f = Finding("namespace_resolution", "ERROR", <<"namespace", name>>)
      BY <1>2, <3>1
    <3>2. CASE \E e, name : f = Finding(PodSecurityVerdict(e)[1], PodSecurityVerdict(e)[2],
                                        <<"namespace", name>>)
      BY <3>2, WorkloadVerdicts
    <3>3. CASE f = Finding("psa", "PASS", <<"namespace", "any">>)
      BY <1>2, <3>3
    <3> QED BY <2>1, <3>1, <3>2, <3>3 DEF AdmissionOf
  <2>2. ASSUME NEW kind, NEW webhooks, f \in WebhookFindings(kind, webhooks)
        PROVE  Rated
    <3>1. CASE \E w : f = Finding(WebhookVerdict(w)[1], WebhookVerdict(w)[2], <<kind, w.name>>)
      BY <3>1, WorkloadVerdicts
    <3>2. CASE f = Finding("fail_open_webhook", "PASS", <<kind, "any">>)
      BY <1>2, <3>2
    <3> QED BY <2>2, <3>1, <3>2 DEF WebhookFindings
  <2>3. \/ f \in Connection \/ f = Finding("inventory", "PASS", Live)
        \/ \E kind : f = Finding(kind, "ERROR", Live)
        \/ f \in AdmissionOf(Items(replies, "namespaces"), Items(replies, "pods"))
        \/ \E kind : f \in WebhookFindings(kind, Items(replies, kind))
    BY <1>8 DEF WorkloadFindings, AdmissionFindings
  <2> QED BY <1>1, <1>2, <1>3, <2>1, <2>2, <2>3
<1> QED BY <1>5, <1>6, <1>7, <1>8, KindsOfServices DEF Aws

\* A call is made once, every reply is one of four, what a resource is now is among what
\* it has been, and the findings are ones the risk engine accepts.
THEOREM Types == Spec => []TypeOK
<1>1. ScanInv => TypeOK
  <2> SUFFICES ASSUME ScanInv
               PROVE  TypeOK
    OBVIOUS
  <2>1. IsInjective(agenda) /\ \A c \in ToSet(agenda) : c \notin DOMAIN replies
    BY DEF ScanInv, Once, ListsAll, IsInjective
  <2>2. \A f \in findings : Risk!FindingOK(f)
    <3>1. CASE pc = "done"
      BY <3>1, Finished, AwsFindingsOK, WorkloadFindingsOK DEF Findings, WorldInv, Sound
    <3> QED BY <3>1 DEF ScanInv, Said
  <2> QED BY <2>1, <2>2 DEF ScanInv, TypeOK, Said, Truth, WorldInv
<1> QED BY <1>1, ScanInvariant, PTL

-----------------------------------------------------------------------------
(* What a finished scan has asked                                          *)

\* Only a scanner that probes its tools may stop early.
LEMMA OnlyProbesEnd ==
  ASSUME ScanInv, Ended
  PROVE  service \in {"daemon", "cluster", "admission"}
<1>1. PICK c \in DOMAIN replies : Essential(c)
  BY DEF Ended
<1>2. CASE service = "cluster"
  BY <1>2
<1>3. CASE service # "cluster"
  <2>1. c \in Asked \intersect Guards
    BY <1>1, <1>3 DEF Essential, Guards, Asked
  <2>2. c \in FirstCalls
    BY <2>1, GuardsComeFirst DEF ScanInv
  <2>3. c.op \in {"probe", "current-context"}
    BY <2>1 DEF Guards, Probe, CurrentContext, Get, Call
  <2>4. \A kind : List(kind, "1").op = "list"
    BY DEF List, Get, Call
  <2>5. Get("get_account_summary", Root).op = "get_account_summary"
    BY GetParts
  <2> QED BY <1>3, <2>2, <2>3, <2>4, <2>5 DEF FirstCalls
<1> QED BY <1>2, <1>3

\* A scan that was not stopped has asked everything it led to.
LEMMA AllAsked ==
  ASSUME ScanInv, pc = "done", ~Ended
  PROVE  /\ FirstCalls \subseteq DOMAIN replies
         /\ \A c : Got(replies, c) => Offspring(c, replies) \subseteq DOMAIN replies
BY Finished DEF ScanInv, Complete, Got

\* The operation, key and page of a list.
LEMMA ListParts ==
  ASSUME NEW kind, NEW page
  PROVE  /\ List(kind, page).op = "list" /\ List(kind, page).key = <<kind, page>>
         /\ List(kind, page).by = <<kind, page>>
         /\ List(kind, page).key[1] = kind /\ List(kind, page).key[2] = page
BY DEF List, Get, Call

\* What the answer to a list leads to.
ListedNames(known, kind) == {r.name : r \in Listed(known, kind)}

\* What the answer to a page of a list leads to.
LEMMA ListOffspring ==
  ASSUME NEW known, NEW kind, NEW page
  PROVE  Offspring(List(kind, page), known) = ListCalls(kind, page, ListedNames(known, kind))
<1> DEFINE c == List(kind, page)
<1>1. c.op = "list" /\ c.key[1] = kind /\ c.key[2] = page
  BY ListParts
<1>2. Offspring(c, known) = ListCalls(c.key[1], c.key[2], ListedNames(known, c.key[1]))
  <2> HIDE DEF c
  <2> QED BY <1>1 DEF Offspring, ListedNames
<1> QED BY <1>1, <1>2

\* Only the lists that a scan begins with are read on.
LEMMA ListedKinds ==
  ASSUME ScanInv, NEW c \in Asked, c.op = "list"
  PROVE  List(c.key[1], "1") \in FirstCalls
<1> DEFINE kind == c.key[1]
           p == List(kind, "1")
<1>1. Tree /\ CallOK(c)
  BY DEF ScanInv, Tree
<1>2. c = List(kind, c.key[2]) /\ c.key[2] \in ToSet(Pages(kind))
  BY <1>1, CallShape
<1>3. CASE c \in FirstCalls
  BY <1>2, <1>3, FirstOps
<1>4. CASE c \notin FirstCalls
  <2>1. Parent(c) = p /\ Got(replies, p)
    BY <1>1, <1>4, ParentOf DEF Tree
  <2>2. SUFFICES ASSUME p \notin FirstCalls PROVE FALSE
    OBVIOUS
  <2>3. p.op = "list" /\ p.key = <<kind, "1">>
    BY ListParts
  <2>4. p \in Asked /\ p \in Offspring(Parent(p), replies)
    BY <1>1, <2>1, <2>2 DEF Asked, Got, Tree
  <2>5. Parent(p) = p
    BY <2>3, ParentOf
  <2>6. PICK names : p \in ListCalls(kind, "1", names)
    BY <2>4, <2>5, ListOffspring
  <2>7. p # List(kind, "2")
    BY <2>3, ListParts
  <2>8. \A name : p \notin RequestCalls(<<kind, name>>) \/ kind \notin DOMAIN Requests
    BY <2>3, GetParts, RequestedOps DEF RequestCalls, Requested, BucketChecks
  <2>9. p # Inspect(names)
    BY <2>3 DEF Inspect, Call
  <2> QED BY <2>6, <2>7, <2>8, <2>9 DEF ListCalls
<1> QED BY <1>3, <1>4

\* A list is read to its end, or it failed.
LEMMA ListRead ==
  ASSUME ScanInv, pc = "done", NEW kind, List(kind, "1") \in FirstCalls, ~Ended,
         ~ListFailed(replies, kind)
  PROVE  /\ \A page \in ToSet(Pages(kind)) : Got(replies, List(kind, page))
         /\ Listed(replies, kind) =
              UNION {replies[List(kind, page)].show : page \in ToSet(Pages(kind))}
<1>1. \A page \in ToSet(Pages(kind)) :
        List(kind, page) \in DOMAIN replies => Got(replies, List(kind, page))
  BY DEF ListFailed
<1>2. "1" \in ToSet(Pages(kind)) /\ List(kind, "1") \in DOMAIN replies
  BY AllAsked, PagesOf
<1>3. Got(replies, List(kind, "1"))
  BY <1>1, <1>2
<1>4. \A page \in ToSet(Pages(kind)) : Got(replies, List(kind, page))
  <2>1. CASE Last(Pages(kind)) = "2" /\ ToSet(Pages(kind)) = {"1", "2"}
    <3>1. List(kind, "2") \in ListCalls(kind, "1", ListedNames(replies, kind))
      BY <2>1 DEF ListCalls
    <3>2. List(kind, "2") \in Offspring(List(kind, "1"), replies)
      BY <3>1, ListOffspring
    <3>3. List(kind, "2") \in DOMAIN replies
      BY <1>3, <3>2, AllAsked
    <3> QED BY <1>1, <1>3, <2>1, <3>3
  <2> QED BY <1>3, <2>1, PagesOf
<1>5. Listed(replies, kind) =
        UNION {replies[c].show : c \in {List(kind, page) : page \in ToSet(Pages(kind))}}
  BY <1>4 DEF Listed
<1> QED BY <1>4, <1>5

\* Every resource that was listed is asked about, and no other.
LEMMA ResourcesAsked ==
  ASSUME ScanInv, pc = "done", NEW kind \in DOMAIN Requests, List(kind, "1") \in FirstCalls, ~Ended,
         NEW r \in Listed(replies, kind), NEW op \in Requests[kind]
  PROVE  Get(op, <<kind, r.name>>) \in DOMAIN replies
<1>1. \A page \in ToSet(Pages(kind)) : Got(replies, List(kind, page))
  BY DEF Listed
<1> DEFINE last == List(kind, Last(Pages(kind)))
           names == ListedNames(replies, kind)
<1>2. Got(replies, last)
  BY <1>1, PagesOf
<1>3. last.op = "list" /\ last.key = <<kind, Last(Pages(kind))>>
  BY ListParts
<1>4. Get(op, <<kind, r.name>>) \in ListCalls(kind, Last(Pages(kind)), names)
  <2>1. Get(op, <<kind, r.name>>) \in RequestCalls(<<kind, r.name>>)
    BY DEF RequestCalls
  <2>2. r.name \in names
    BY DEF ListedNames
  <2> QED BY <2>1, <2>2 DEF ListCalls
<1>5. Get(op, <<kind, r.name>>) \in Offspring(last, replies)
  BY <1>4, ListOffspring
<1> QED BY <1>2, <1>5, AllAsked

\* A resource is asked about only after its list was read to the end.
LEMMA OnlyListedAsked ==
  ASSUME ScanInv, NEW c \in DOMAIN replies, c.op \in Requested
  PROVE  /\ c = Get(c.op, c.key) /\ c.key[1] \in DOMAIN Requests /\ c.op \in Requests[c.key[1]]
         /\ c.key[1] \in Kinds[service] /\ service \notin Kubectl
         /\ List(c.key[1], "1") \in FirstCalls
         /\ ~ListFailed(replies, c.key[1])
         /\ \E r \in Listed(replies, c.key[1]) : c.key = <<c.key[1], r.name>>
<1> DEFINE kind == c.key[1]
           last == List(kind, Last(Pages(kind)))
<1>1. Tree /\ WorldInv /\ Truth /\ c \in Asked /\ CallOK(c)
  BY DEF ScanInv, Tree, Asked
<1>2. c = Get(c.op, c.key) /\ kind \in DOMAIN Requests /\ c.op \in Requests[kind]
  BY <1>1, CallShape
<1>3. c \notin FirstCalls
  <2>1. c.op \notin {"probe", "current-context", "kubectl", "get_account_summary", "list"}
    BY RequestedOps DEF BucketChecks
  <2> QED BY <2>1, FirstOps
<1>4. Got(replies, last) /\ c \in Offspring(last, replies)
  BY <1>1, <1>3, ParentOf DEF Tree
<1>5. last.op = "list" /\ last.key = <<kind, Last(Pages(kind))>>
  BY ListParts
<1>6. \A page \in ToSet(Pages(kind)) : Got(replies, List(kind, page))
  BY <1>1, <1>4, <1>5, PagesAnswered
<1>7. \E r \in Listed(replies, kind) : c.key = <<kind, r.name>>
  <2>1. c \in ListCalls(kind, Last(Pages(kind)), ListedNames(replies, kind))
    BY <1>4, ListOffspring
  <2>2. PICK r \in Listed(replies, kind) : c \in RequestCalls(<<kind, r.name>>)
    <3>1. PICK name \in ListedNames(replies, kind) : c \in RequestCalls(<<kind, name>>)
      BY <1>2, <2>1 DEF ListCalls
    <3> QED BY <3>1 DEF ListedNames
  <2>3. c.key = <<kind, r.name>>
    BY <2>2, GetParts DEF RequestCalls
  <2> QED BY <2>3
<1>8. last \in Asked /\ CallOK(last)
  BY <1>1, <1>4 DEF Asked, Got, Tree
<1>9. kind \in Kinds[service] /\ service \notin Kubectl
  BY <1>5, <1>8, CallShape
<1>10. List(kind, "1") \in FirstCalls
  BY <1>5, <1>8, ListedKinds
<1> QED BY <1>2, <1>6, <1>7, <1>9, <1>10 DEF ListFailed

\* Without its tools a scanner asks nothing else.
LEMMA NothingWithoutTools ==
  ASSUME ScanInv
  PROVE  /\ Unavailable(replies) => service \in {"daemon", "cluster", "admission"}
                                    /\ DOMAIN replies \subseteq Guards
         /\ \A c \in Guards \intersect DOMAIN replies :
              service \in {"daemon", "cluster", "admission"}
<1>1. \A c \in Guards \intersect DOMAIN replies : service \in {"daemon", "cluster", "admission"}
  <2> SUFFICES ASSUME NEW c \in Guards \intersect DOMAIN replies,
                      service \notin {"daemon", "cluster", "admission"}
               PROVE  FALSE
    OBVIOUS
  <2>1. c \in FirstCalls
    BY GuardsComeFirst DEF ScanInv, Asked
  <2>2. c.op \in {"probe", "current-context"}
    BY DEF Guards, Probe, CurrentContext, Get, Call
  <2> QED BY <2>1, <2>2, ListParts, GetParts DEF FirstCalls
<1> QED BY <1>1 DEF ScanInv, Order, Unavailable, Guards

-----------------------------------------------------------------------------
(* Every failure shows                                                     *)

\* A call that did not come first follows from an answer.
LEMMA Followed ==
  ASSUME ScanInv, NEW c \in DOMAIN replies, c \notin FirstCalls
  PROVE  /\ Parent(c) \in DOMAIN replies /\ Got(replies, Parent(c)) /\ CallOK(Parent(c))
         /\ c \in Offspring(Parent(c), replies)
BY DEF ScanInv, Tree, Asked, Got

\* The policies of an identity are read because the identity was listed.
LEMMA IdentityAsked ==
  ASSUME ScanInv, NEW c \in DOMAIN replies, c.op \in PolicyReads
  PROVE  c.by[1] \in Identities /\ c.by \in ListedKeys(replies, c.by[1])
<1> DEFINE Of(key) == key[1] \in Identities /\ key \in ListedKeys(replies, key[1])
<1>1. CallOK(c)
  BY DEF ScanInv, Tree, Asked
<1>2. ASSUME NEW d \in DOMAIN replies, d.op \in {"list_inline", "list_attached"}
      PROVE  d.by = d.key /\ Of(d.key)
  <2>1. d.op \in Requested
    BY <1>2, RequestedOps
  <2>2. d.key[1] \in Identities
    BY <1>2, <2>1, OnlyListedAsked, RequestsMade DEF BucketChecks, Identities
  <2>3. d.by = d.key
    BY <2>1, OnlyListedAsked, GetParts
  <2> QED BY <2>1, <2>2, <2>3, OnlyListedAsked DEF ListedKeys
<1>3. ASSUME NEW d \in DOMAIN replies, d.op \in DocumentOps
      PROVE  Of(d.by)
  <2>1. CallOK(d) /\ d \notin FirstCalls
    BY <1>3, FirstOps DEF ScanInv, Tree, Asked, DocumentOps
  <2>2. Parent(d) = Get("list_inline", d.key) /\ d.by = d.key
    BY <1>3, <2>1, ParentOf, CallShape
  <2>3. Parent(d) \in DOMAIN replies /\ Parent(d).op = "list_inline" /\ Parent(d).by = d.key
    BY <2>1, <2>2, Followed, GetParts
  <2> QED BY <1>2, <2>2, <2>3
<1>4. ASSUME NEW d \in DOMAIN replies, d.op = "get_policy"
      PROVE  Of(d.by)
  <2>1. CallOK(d) /\ d \notin FirstCalls
    BY <1>4, FirstOps DEF ScanInv, Tree, Asked
  <2>2. Parent(d) = Get("list_attached", d.by)
    BY <1>4, <2>1, ParentOf
  <2>3. Parent(d) \in DOMAIN replies /\ Parent(d).op = "list_attached" /\ Parent(d).by = d.by
    BY <2>1, <2>2, Followed, GetParts
  <2> QED BY <1>2, <2>3
<1>5. ASSUME NEW d \in DOMAIN replies, d.op = "get_policy_version"
      PROVE  Of(d.by)
  <2>1. CallOK(d) /\ d \notin FirstCalls
    BY <1>5, FirstOps DEF ScanInv, Tree, Asked
  <2>2. Parent(d) = Call("get_policy", d.key, {}, d.by)
    BY <1>5, <2>1, ParentOf
  <2>3. Parent(d) \in DOMAIN replies /\ Parent(d).op = "get_policy" /\ Parent(d).by = d.by
    BY <2>1, <2>2, Followed, CallParts
  <2> QED BY <1>4, <2>3
<1> HIDE DEF Of
<1>6. Of(c.by)
  BY <1>2, <1>3, <1>4, <1>5 DEF PolicyReads, DocumentReads, DocumentOps
<1> QED BY <1>6 DEF Of

ErrorAt(places) == \E f \in Findings : f.severity = "ERROR" /\ f.resource \in places

\* A failed call of the IAM scanner shows as an ERROR.
LEMMA IamTroubleShows ==
  ASSUME ScanInv, pc = "done", service = "iam", NEW c \in DOMAIN replies, ~Got(replies, c)
  PROVE  ErrorAt(Places(c))
<1>1. CallOK(c) /\ Findings = IamFindings(replies)
  BY DEF ScanInv, Tree, Asked, Findings, AwsFindings, Aws
<1>2. ASSUME NEW f \in IamFindings(replies), f.severity = "ERROR", f.resource \in Places(c)
      PROVE  ErrorAt(Places(c))
  BY <1>1, <1>2 DEF ErrorAt
<1>3. CASE c.op = "list"
  <2> DEFINE kind == c.key[1]
             f == Finding(ListCheck[kind], "ERROR", Account)
  <2>1. c = List(kind, c.key[2]) /\ c.key[2] \in ToSet(Pages(kind))
    BY <1>1, <1>3, CallShape
  <2>2. ListFailed(replies, kind)
    BY <2>1 DEF ListFailed
  <2>3. kind \in Identities
    <3>1. List(kind, "1") \in FirstCalls
      BY <1>3, ListedKinds DEF Asked
    <3> QED BY <3>1, ListParts, GetParts DEF FirstCalls
  <2>4. f \in ListErrors(replies)
    BY <2>2, <2>3 DEF ListErrors, ListCheck, Identities
  <2>5. f.severity = "ERROR" /\ f.resource \in Places(c)
    BY <1>3 DEF Places, Finding
  <2> HIDE DEF f
  <2> QED BY <1>2, <2>4, <2>5, IamParts
<1>4. CASE c.op = "get_account_summary"
  <2>1. c = Get("get_account_summary", Root)
    BY <1>1, <1>4, CallShape
  <2>2. RootFinding(replies) = Finding("root_mfa", "ERROR", Root)
    BY <2>1 DEF RootFinding, Judged
  <2>3. RootFinding(replies).severity = "ERROR" /\ RootFinding(replies).resource = Root
    BY <2>2 DEF Finding
  <2>4. Root \in Places(c)
    BY <1>4, <2>1, GetParts DEF Places
  <2> QED BY <1>2, <2>3, <2>4, IamParts
<1>5. CASE c.op \in PolicyReads
  <2> DEFINE f == Finding(AnalysisCheck[c.by[1]], "ERROR", c.by)
  <2>1. c.by[1] \in Identities /\ c.by \in ListedKeys(replies, c.by[1])
    BY <1>5, IdentityAsked
  <2>2. HadErrors(replies, c.by)
    BY <1>5 DEF HadErrors, PolicyCalls
  <2>3. f \in PolicyFindings(replies, c.by)
    BY <2>2 DEF PolicyFindings
  <2>4. f.severity = "ERROR" /\ f.resource \in Places(c)
    BY <1>5 DEF Places, Finding, PolicyReads, DocumentReads
  <2> HIDE DEF f
  <2> QED BY <1>2, <2>1, <2>3, <2>4, IamParts
<1>6. CASE c.op = "list_access_keys"
  <2> DEFINE f == Finding("access_keys", "ERROR", c.key)
  <2>1. c = Get("list_access_keys", c.key) /\ c.key \in ListedKeys(replies, "user")
    <3>1. c.op \in Requested
      BY <1>6, RequestedOps
    <3>2. c.key[1] = "user"
      BY <1>6, <3>1, OnlyListedAsked, RequestsMade DEF BucketChecks
    <3> QED BY <1>6, <3>1, <3>2, OnlyListedAsked DEF ListedKeys
  <2>2. f \in KeyFindings(replies, c.key)
    BY <2>1 DEF KeyFindings
  <2>3. f.severity = "ERROR" /\ f.resource \in Places(c)
    BY <1>6, <2>1, GetParts DEF Places, Finding
  <2> HIDE DEF f
  <2> QED BY <1>2, <2>1, <2>2, <2>3, IamParts
<1>7. CASE c.op = "get_access_key_last_used"
  <2> DEFINE f == Finding("access_key_last_used", "ERROR", c.key)
             p == Get("list_access_keys", c.key)
  <2>1. Parent(c) = p /\ c.by = c.key /\ c \notin FirstCalls
    BY <1>1, <1>7, ParentOf, CallShape, FirstOps
  <2>2. p \in DOMAIN replies /\ Got(replies, p) /\ c \in Offspring(p, replies)
    BY <2>1, Followed
  <2>3. p.op = "list_access_keys" /\ p.key = c.key /\ p.by = c.key
    BY GetParts
  <2>4. c.key \in ListedKeys(replies, "user")
    <3>1. p.op \in Requested
      BY <2>3, RequestedOps
    <3>2. p.key[1] = "user"
      BY <2>2, <2>3, <3>1, OnlyListedAsked, RequestsMade DEF BucketChecks
    <3> QED BY <2>2, <2>3, <3>1, <3>2, OnlyListedAsked DEF ListedKeys
  <2>5. PICK k \in replies[p].show.keys :
          k.is.active /\ c = Call("get_access_key_last_used", c.key, {k.name}, c.key)
    BY <2>2, <2>3 DEF Offspring
  <2>6. f \in KeyFindings(replies, c.key)
    BY <2>2, <2>5 DEF KeyFindings
  <2>7. f.severity = "ERROR" /\ f.resource \in Places(c)
    BY <1>7, <2>1 DEF Places, Finding
  <2> HIDE DEF f
  <2> QED BY <1>2, <2>4, <2>6, <2>7, IamParts
<1>8. CASE c.op \in Requested \ ({"list_access_keys"} \union PolicyReads)
  <2> DEFINE f == TrustFinding(replies, c.key)
  <2>1. c = Get("get_role", c.key) /\ c.key \in ListedKeys(replies, "role")
    <3>1. c.op \in Requests[c.key[1]] /\ c.key[1] \in DOMAIN Requests \intersect Kinds["iam"]
      BY <1>8, OnlyListedAsked
    <3>2. c.op = "get_role" /\ c.key[1] = "role"
      BY <1>8, <3>1, RequestsMade, KindsOfServices DEF PolicyReads
    <3> QED BY <1>8, <3>2, OnlyListedAsked DEF ListedKeys
  <2>2. f = Finding("role_trust_wildcard", "ERROR", c.key)
    BY <2>1 DEF TrustFinding, Judged
  <2>3. f.severity = "ERROR" /\ f.resource \in Places(c)
    <3>1. c.op = "get_role" /\ c.by = c.key
      BY <2>1, GetParts
    <3> QED BY <2>2, <3>1 DEF Places, Finding
  <2> HIDE DEF f
  <2> QED BY <1>2, <2>1, <2>2, <2>3, IamParts DEF f
<1>9. c.op \notin {"kubectl", "probe", "current-context", "inspect"}
  <2>1. service \notin Kubectl
    BY DEF Kubectl
  <2>2. c.op # "probe"
    <3>1. c.op = "probe" => c \in Guards
      BY <1>1, CallShape DEF Guards
    <3> QED BY <3>1, NothingWithoutTools
  <2> QED BY <1>1, <2>1, <2>2, CallShape
<1> QED
  BY <1>1, <1>3, <1>4, <1>5, <1>6, <1>7, <1>8, <1>9, CallShape
     DEF PolicyReads, DocumentReads, DocumentOps

\* So does a failed call of any AWS scanner, but for a function that has no URL.
LEMMA AwsTroubleShows ==
  ASSUME ScanInv, pc = "done", service \in Aws, NEW c \in DOMAIN replies, ~Got(replies, c)
  PROVE  \/ c.op = "get_function_url_config" /\ replies[c].how = "missing"
         \/ ErrorAt(Places(c))
<1>1. CallOK(c) /\ Findings = AwsFindings(replies)
  BY DEF ScanInv, Tree, Asked, Findings
<1>2. ASSUME NEW f \in AwsFindings(replies), f.severity = "ERROR", f.resource \in Places(c)
      PROVE  ErrorAt(Places(c))
  BY <1>1, <1>2 DEF ErrorAt
<1>3. CASE service = "iam"
  BY <1>3, IamTroubleShows
<1>4. CASE service # "iam" /\ c.op = "list"
  <2> DEFINE kind == c.key[1]
             f(check, at) == Finding(check, "ERROR", at)
  <2>1. c = List(kind, c.key[2]) /\ c.key[2] \in ToSet(Pages(kind)) /\ kind \in Kinds[service]
    BY <1>1, <1>4, CallShape
  <2>2. ListFailed(replies, kind)
    BY <2>1 DEF ListFailed
  <2>3. \E check : \E at \in {Account, Region} : f(check, at) \in AwsFindings(replies)
    BY <1>4, <2>1, <2>2, KindsOfServices DEF Aws, AwsFindings, Over
  <2>4. \A check, at : f(check, at).severity = "ERROR" /\ f(check, at).resource = at
    BY DEF Finding
  <2>5. Account \in Places(c) /\ Region \in Places(c)
    BY <1>4 DEF Places
  <2> HIDE DEF f
  <2> QED BY <1>2, <2>3, <2>4, <2>5
<1>5. CASE service # "iam" /\ c.op \in Requested
  <2> DEFINE key == c.key
             kind == key[1]
             f(check) == Finding(check, "ERROR", key)
  <2>1. /\ c = Get(c.op, key) /\ c.op \in Requests[kind]
        /\ kind \in DOMAIN Requests \intersect Kinds[service]
        /\ ~ListFailed(replies, kind) /\ c.by = key
    BY <1>5, OnlyListedAsked, GetParts
  <2>2. PICK r \in Listed(replies, kind) : key = <<kind, r.name>>
    BY <1>5, OnlyListedAsked
  <2>3. Listed(replies, kind) # {}
    BY <2>2
  <2>4. ASSUME NEW check, f(check) \in AwsFindings(replies)
        PROVE  ErrorAt(Places(c))
    <3>1. f(check).severity = "ERROR" /\ f(check).resource = key
      BY DEF Finding
    <3>2. key \in Places(c)
      BY <1>5, <2>1, RequestedOps DEF Places, BucketChecks
    <3> HIDE DEF f
    <3> QED BY <1>2, <2>4, <3>1, <3>2
  <2>5. CASE service = "s3"
    <3>1. kind = "bucket" /\ c.op \in BucketChecks
      BY <2>1, <2>5, KindsOfServices, RequestsMade
    <3>2. f(c.op) \in BucketFindings(replies, <<"bucket", r.name>>)
      BY <2>1, <2>2, <3>1 DEF BucketFindings, Judged
    <3>3. AwsFindings(replies) =
            UNION {BucketFindings(replies, <<"bucket", q.name>>) : q \in Listed(replies, "bucket")}
      BY <2>1, <2>3, <2>5, <3>1 DEF AwsFindings, Over
    <3> HIDE DEF f
    <3> QED BY <2>4, <3>1, <3>2, <3>3
  <2>6. CASE service = "cloudtrail"
    <3>1. kind = "trail" /\ c.op = "get_trail_status"
      BY <2>1, <2>6, KindsOfServices, RequestsMade
    <3>2. f("logging") \in TrailFindings(replies, r)
      BY <2>1, <2>2, <3>1 DEF TrailFindings, Judged
    <3>3. AwsFindings(replies) = UNION {TrailFindings(replies, q) : q \in Listed(replies, "trail")}
      BY <2>1, <2>3, <2>6, <3>1 DEF AwsFindings, Over
    <3> HIDE DEF f
    <3> QED BY <2>4, <3>1, <3>2, <3>3
  <2>7. CASE service = "guardduty"
    <3>1. kind = "detector" /\ c.op = "get_detector"
      BY <2>1, <2>7, KindsOfServices, RequestsMade
    <3>2. f("detector_enabled")
            = Judged(replies, "get_detector", "detector_enabled", <<"detector", r.name>>, Detector)
      BY <2>1, <2>2, <3>1 DEF Judged
    <3>3. AwsFindings(replies) = UNION {{Judged(replies, "get_detector", "detector_enabled",
                                                <<"detector", q.name>>, Detector)} :
                                          q \in Listed(replies, "detector")}
      BY <2>1, <2>3, <2>7, <3>1 DEF AwsFindings, Over
    <3> HIDE DEF f
    <3> QED BY <2>4, <3>1, <3>2, <3>3
  <2>8. CASE service = "lambda"
    <3>1. kind = "function" /\ c.op = "get_function_url_config"
      BY <2>1, <2>8, KindsOfServices, RequestsMade
    <3>2. CASE replies[c].how # "missing"
      <4>1. f("function_url_auth") = UrlFinding(replies, <<"function", r.name>>)
        BY <2>1, <2>2, <3>1, <3>2 DEF UrlFinding, Got
      <4>2. AwsFindings(replies) = UNION {{UrlFinding(replies, <<"function", q.name>>)} :
                                            q \in Listed(replies, "function")}
        BY <2>1, <2>3, <2>8, <3>1 DEF AwsFindings, Over
      <4> HIDE DEF f
      <4> QED BY <2>4, <3>1, <4>1, <4>2
    <3> QED BY <3>1, <3>2
  <2>9. service \notin {"ec2", "rds"}
    BY <2>1, KindsOfServices, RequestsMade
  <2> QED BY <1>5, <2>5, <2>6, <2>7, <2>8, <2>9 DEF Aws
<1>6. CASE service # "iam" /\ c.op \notin Requested \union {"list"}
  <2>1. c.op = "probe" => c \in Guards
    BY <1>1, CallShape DEF Guards
  <2>2. c.op # "probe"
    BY <2>1, NothingWithoutTools DEF Aws
  <2>3. c.op \in {"get_access_key_last_used"} \union DocumentOps
                 \union {"get_policy", "get_policy_version"}
    BY <1>1, <1>6, <2>2, CallShape DEF Kubectl, Aws
  <2>4. \E k \in DOMAIN world : k[1] \in Identities
    BY <1>1, <2>3, CallShape DEF Identities
  <2> QED BY <1>6, <2>4, KindsOfServices DEF Aws, Identities, ScanInv, WorldInv, WorldOK
<1> QED BY <1>3, <1>4, <1>5, <1>6

\* The reads of the admission scanner.
LEMMA AdmissionKinds ==
  ToSet(AdmissionReads) = {"namespaces", "pods", "validatingwebhooks", "mutatingwebhooks"}
BY DEF ToSet, AdmissionReads

\* A failed call of the other scanners shows too, if only as a missing connection.
LEMMA WorkloadTroubleShows ==
  ASSUME ScanInv, pc = "done", service \notin Aws, NEW c \in DOMAIN replies, ~Got(replies, c)
  PROVE  \/ c \in {Probe, CurrentContext} /\ findings = Connection
         \/ ErrorAt(Places(c))
<1>1. CallOK(c) /\ Findings = WorkloadFindings(replies) /\ findings = Findings
  BY Finished DEF ScanInv, Tree, Asked, Findings
<1>2. ASSUME c.op \in {"list", "kubectl", "inspect"},
             NEW check, Finding(check, "ERROR", Live) \in WorkloadFindings(replies)
      PROVE  ErrorAt(Places(c))
  <2>1. /\ Finding(check, "ERROR", Live).severity = "ERROR"
        /\ Finding(check, "ERROR", Live).resource = Live
    BY DEF Finding
  <2>2. Live \in Places(c)
    BY <1>2 DEF Places
  <2> QED BY <1>1, <1>2, <2>1, <2>2 DEF ErrorAt
<1>3. CASE c \in Guards
  <2>1. Unavailable(replies) /\ service \in {"daemon", "cluster", "admission"}
    BY <1>3, NothingWithoutTools DEF Unavailable, Guards
  <2>2. Findings = Connection
    BY <1>1, <2>1 DEF WorkloadFindings, DaemonFindings, ClusterFindings, AdmissionFindings
  <2> QED BY <1>1, <1>3, <2>2 DEF Guards
<1>4. CASE c \notin Guards
  <2>1. ~Unavailable(replies)
    BY <1>4, NothingWithoutTools
  <2>2. CASE service = "daemon"
    <3> DEFINE names == ListedNames(replies, "container")
    <3>1. CASE c.op = "list"
      <4>1. ListFailed(replies, "container")
        BY <1>1, <2>2, <3>1, CallShape, KindsOfServices DEF ListFailed
      <4>2. Finding("container_inventory", "ERROR", Live) \in WorkloadFindings(replies)
        BY <2>1, <2>2, <4>1 DEF WorkloadFindings, DaemonFindings
      <4> QED BY <1>2, <3>1, <4>2
    <3>2. CASE c.op = "inspect"
      <4>1. c \notin FirstCalls
        BY <3>2, FirstOps
      <4> DEFINE p == List("container", "1")
      <4>2. Parent(c) = p /\ Got(replies, p) /\ c \in Offspring(p, replies)
        BY <3>2, <4>1, ParentOf, Followed
      <4>3. c \in ListCalls("container", "1", names)
        BY <4>2, ListOffspring
      <4>4. /\ Pages("container") = <<"1">> /\ ToSet(Pages("container")) = {"1"}
            /\ Last(Pages("container")) = "1"
        BY PagesOf
      <4>5. c = Inspect(names) /\ names # {}
        BY <4>3, <4>4, RequestsMade DEF ListCalls
      <4>6. ~ListFailed(replies, "container")
        BY <4>2, <4>4 DEF ListFailed
      <4>7. Finding("container_inspect", "ERROR", Live) \in WorkloadFindings(replies)
        BY <2>1, <2>2, <4>5, <4>6 DEF WorkloadFindings, DaemonFindings, ListedNames
      <4> QED BY <1>2, <3>2, <4>7
    <3>3. c.op \in {"list", "inspect"}
      <4>1. c.op \notin {"probe", "current-context"}
        BY <1>1, <1>4, CallShape DEF Guards
      <4>2. c.op \notin Requested
        BY <2>2, KindsOfServices, RequestsMade, OnlyListedAsked
      <4>3. c.op \notin DocumentOps
                       \union {"get_access_key_last_used", "get_policy", "get_policy_version"}
        <5>1. \A k \in DOMAIN world : k[1] = "container"
          BY <2>2, KindsOfServices DEF ScanInv, WorldInv, WorldOK
        <5> QED BY <1>1, <5>1, CallShape DEF Identities
      <4> QED BY <1>1, <2>2, <4>1, <4>2, <4>3, CallShape DEF Kubectl
    <3> QED BY <3>1, <3>2, <3>3
  <2>3. CASE service \in {"dockerfile", "manifest"}
    <3> DEFINE keys == {<<service, r.name>> : r \in Listed(replies, service)}
               Of(key) == IF Got(replies, Get("read", key))
                          THEN FileFindings(replies[Get("read", key)].show, key)
                          ELSE {Finding("read", "ERROR", key)}
    <3>1. WorkloadFindings(replies) = IF keys = {} THEN {Finding("discovery", "ERROR", Live)}
                                      ELSE UNION {Of(key) : key \in keys}
      BY <2>3 DEF WorkloadFindings, FilesFindings
    <3>2. CASE c.op = "list"
      <4>1. c.key[1] = service /\ c = List(service, c.key[2]) /\ c.key[2] \in ToSet(Pages(service))
        BY <1>1, <2>3, <3>2, CallShape, KindsOfServices
      <4>2. Listed(replies, service) = {}
        BY <4>1 DEF Listed
      <4>3. Finding("discovery", "ERROR", Live) \in WorkloadFindings(replies)
        BY <3>1, <4>2
      <4> QED BY <1>2, <3>2, <4>3
    <3>3. CASE c.op \in Requested
      <4>1. c.key[1] = service /\ c = Get("read", c.key) /\ c.by = c.key
        BY <2>3, <3>3, OnlyListedAsked, KindsOfServices, RequestsMade, GetParts
      <4>2. c.key \in keys
        BY <3>3, <4>1, OnlyListedAsked
      <4>3. Of(c.key) = {Finding("read", "ERROR", c.key)}
        BY <4>1
      <4>4. Finding("read", "ERROR", c.key) \in Findings
        <5> HIDE DEF Of, keys
        <5> QED BY <1>1, <3>1, <4>2, <4>3
      <4>5. Finding("read", "ERROR", c.key).severity = "ERROR"
            /\ Finding("read", "ERROR", c.key).resource = c.key
        BY DEF Finding
      <4>6. c.key \in Places(c)
        BY <3>3, <4>1, RequestedOps DEF Places, BucketChecks
      <4> QED BY <4>4, <4>5, <4>6 DEF ErrorAt
    <3>4. c.op \in Requested \union {"list"}
      <4>1. c.op \notin {"probe", "current-context"}
        BY <1>1, <1>4, CallShape DEF Guards
      <4>2. c.op \notin DocumentOps
                       \union {"get_access_key_last_used", "get_policy", "get_policy_version"}
        <5>1. \A k \in DOMAIN world : k[1] \in {"dockerfile", "manifest"}
          BY <2>3, KindsOfServices DEF ScanInv, WorldInv, WorldOK
        <5> QED BY <1>1, <5>1, CallShape DEF Identities
      <4> QED BY <1>1, <2>3, <4>1, <4>2, CallShape DEF Kubectl
    <3> QED BY <3>2, <3>3, <3>4
  <2>4. CASE service \in Kubectl
    <3>1. c.op = "kubectl" /\ c = Kube(c.key[1]) /\ c.key[1] \in Kinds[service] \ {"context"}
      <4>1. c.op \notin {"probe", "current-context"}
        BY <1>1, <1>4, CallShape DEF Guards
      <4>2. c.op \notin Requested
        BY <2>4, OnlyListedAsked
      <4>3. c.op \notin DocumentOps
                       \union {"get_access_key_last_used", "get_policy", "get_policy_version"}
        <5>1. \A k \in DOMAIN world : k[1] \notin Identities
          BY <2>4, KindsOfServices DEF ScanInv, WorldInv, WorldOK, Kubectl, Identities
        <5> QED BY <1>1, <5>1, CallShape DEF Identities
      <4> QED BY <1>1, <2>4, <4>1, <4>2, <4>3, CallShape DEF Kubectl
    <3>2. CASE service = "cluster"
      <4>1. c = Kube("pods") \/ c = Kube("services")
        BY <3>1, <3>2, KindsOfServices
      <4>2. CASE ~Got(replies, Kube("pods"))
        <5>1. Finding("pod_inventory", "ERROR", Live) \in WorkloadFindings(replies)
          BY <2>1, <3>2, <4>2 DEF WorkloadFindings, ClusterFindings
        <5> QED BY <1>2, <3>1, <5>1
      <4>3. CASE Got(replies, Kube("pods"))
        <5>1. ~Got(replies, Kube("services"))
          BY <4>1, <4>3
        <5>2. Finding("service_inventory", "ERROR", Live) \in WorkloadFindings(replies)
          BY <2>1, <3>2, <4>3, <5>1 DEF WorkloadFindings, ClusterFindings
        <5> QED BY <1>2, <3>1, <5>2
      <4> QED BY <4>2, <4>3
    <3>3. CASE service = "admission"
      <4> DEFINE kind == c.key[1]
      <4>1. kind \in ToSet(AdmissionReads) /\ ~Got(replies, Kube(kind))
        BY <3>1, <3>3, KindsOfServices, AdmissionKinds
      <4>2. Finding(kind, "ERROR", Live) \in WorkloadFindings(replies)
        BY <2>1, <3>3, <4>1 DEF WorkloadFindings, AdmissionFindings
      <4> QED BY <1>2, <3>1, <4>2
    <3> QED BY <2>4, <3>2, <3>3 DEF Kubectl
  <2> QED BY <2>2, <2>3, <2>4, KindsOfServices DEF Aws, Kubectl, ScanInv, WorldInv
<1> QED BY <1>3, <1>4

\* A scan that came to an end has an ERROR for every call that failed, at the resource or
\* the list it was for; only a function that has no URL and tools that are not there are
\* meant otherwise.  A scan that raised returns nothing.
THEOREM EveryTroubleShows == Spec => []TroubleShows
<1>1. ScanInv => TroubleShows
  <2> SUFFICES ASSUME ScanInv
               PROVE  TroubleShows
    OBVIOUS
  <2>1. pc = "raised" => findings = {}
    BY DEF ScanInv, Said
  <2>2. ASSUME pc = "done", NEW c \in {d \in DOMAIN replies : ~Got(replies, d)}
        PROVE  \/ c.op = "get_function_url_config" /\ replies[c].how = "missing"
               \/ c \in {Probe, CurrentContext} /\ findings = Connection
               \/ \E f \in findings : f.severity = "ERROR" /\ f.resource \in Places(c)
    BY <2>2, Finished, AwsTroubleShows, WorkloadTroubleShows DEF ErrorAt
  <2> QED BY <2>1, <2>2 DEF TroubleShows
<1> QED BY <1>1, ScanInvariant, PTL

-----------------------------------------------------------------------------
(* What is wrong with a world, by its parts                                *)

\* A flaw of a state that a resource may be in is wrong.
LEMMA OwnFlaw ==
  ASSUME NEW S, NEW k \in DOMAIN S, NEW v \in S[k], NEW check \in Flaws(k, v)
  PROVE  <<k, check>> \in Wrong(S)
<1> DEFINE checks(j) == UNION {Flaws(j, u) : u \in S[j]}
<1>1. check \in checks(k)
  OBVIOUS
<1>2. <<k, check>> \in {k} \X checks(k)
  BY <1>1
<1>3. Own(S) = UNION {{j} \X checks(j) : j \in DOMAIN S}
  BY DEF Own
<1> HIDE DEF checks
<1>4. <<k, check>> \in Own(S)
  BY <1>2, <1>3
<1> QED BY <1>4 DEF Wrong

\* The ways in which something can be wrong.
LEMMA WrongIs ==
  ASSUME NEW S, NEW w \in Wrong(S)
  PROVE  \/ \E k \in DOMAIN S : \E v \in S[k] : w = <<k, w[2]>> /\ w[2] \in Flaws(k, v)
         \/ /\ service = "cloudtrail" /\ w = <<Account, "trail_present">>
            /\ \A k \in DOMAIN S : k[1] = "trail" => Gone \in S[k]
         \/ /\ service = "guardduty" /\ w = <<Region, "detector_enabled">>
            /\ \A k \in DOMAIN S : k[1] = "detector" => Gone \in S[k]
         \/ w \in IdleKeys(S)
         \/ w \in Permissions(S)
         \/ w \in Specs(S)
         \/ w \in Admitted(S)
<1>1. CASE w \in Own(S)
  <2> DEFINE checks(j) == UNION {Flaws(j, u) : u \in S[j]}
  <2>1. Own(S) = UNION {{j} \X checks(j) : j \in DOMAIN S}
    BY DEF Own
  <2>2. \E k \in DOMAIN S : w \in {k} \X checks(k)
    <3> HIDE DEF checks
    <3> QED BY <1>1, <2>1
  <2>3. PICK k \in DOMAIN S : w \in {k} \X checks(k)
    BY <2>2
  <2>4. w = <<k, w[2]>> /\ w[2] \in checks(k)
    <3> HIDE DEF checks
    <3> QED BY <2>3
  <2> QED BY <2>4
<1>2. CASE w \in Absent(S)
  BY <1>2 DEF Absent
<1> QED BY <1>1, <1>2 DEF Wrong

\* The resources of a kind with the states that they may be in.
LEMMA StatesAre ==
  ASSUME NEW S, NEW kind
  PROVE  /\ \A s \in States(S, kind) :
              s = <<s[1], s[2]>> /\ s[1] \in DOMAIN S /\ s[1][1] = kind /\ s[2] \in S[s[1]] \ {Gone}
         /\ \A k \in DOMAIN S : \A v \in S[k] \ {Gone} :
              k[1] = kind => <<k, v>> \in States(S, kind)
<1> DEFINE of(k) == {k} \X (S[k] \ {Gone})
           keys == {j \in DOMAIN S : j[1] = kind}
<1>1. States(S, kind) = UNION {of(k) : k \in keys}
  BY DEF States
<1>2. ASSUME NEW s \in States(S, kind)
      PROVE  s = <<s[1], s[2]>> /\ s[1] \in keys /\ s[2] \in S[s[1]] \ {Gone}
  <2>1. PICK k \in keys : s \in of(k)
    <3> HIDE DEF of, keys
    <3> QED BY <1>1
  <2> QED BY <2>1
<1>3. ASSUME NEW k \in keys, NEW v \in S[k] \ {Gone}
      PROVE  <<k, v>> \in States(S, kind)
  <2>1. <<k, v>> \in of(k)
    OBVIOUS
  <2> HIDE DEF of, keys
  <2> QED BY <1>1, <2>1
<1> QED BY <1>2, <1>3

\* The identities with unlimited permissions.
LEMMA PermissionsAre ==
  ASSUME NEW S
  PROVE  /\ \A w \in Permissions(S) : \E kind \in Identities : \E s \in States(S, kind) :
              Unlimited(S, s[2]) /\ w = <<s[1], WildcardCheck[kind]>>
         /\ \A kind \in Identities : \A s \in States(S, kind) :
              Unlimited(S, s[2]) => <<s[1], WildcardCheck[kind]>> \in Permissions(S)
<1>1. DOMAIN WildcardCheck = Identities
  BY DEF WildcardCheck, Identities
<1> DEFINE bad(kind) == {i \in States(S, kind) : Unlimited(S, i[2])}
           of(kind) == {<<s[1], WildcardCheck[kind]>> : s \in bad(kind)}
<1>2. Permissions(S) = UNION {of(kind) : kind \in Identities}
  BY <1>1 DEF Permissions
<1>3. \A kind, w : w \in of(kind) <=>
        \E s \in States(S, kind) : Unlimited(S, s[2]) /\ w = <<s[1], WildcardCheck[kind]>>
  OBVIOUS
<1> HIDE DEF of
<1>4. \A w : w \in Permissions(S) <=> \E kind \in Identities : w \in of(kind)
  BY <1>2
<1> QED BY <1>3, <1>4

\* Which parts there are to look at depends on the scanner.
LEMMA WrongByService ==
  ASSUME WorldInv, NEW S, DOMAIN S = DOMAIN world, NEW w \in Wrong(S)
  PROVE  \/ \E k \in DOMAIN S : \E v \in S[k] : w = <<k, w[2]>> /\ w[2] \in Flaws(k, v)
         \/ /\ service = "cloudtrail" /\ w = <<Account, "trail_present">>
            /\ \A k \in DOMAIN S : Gone \in S[k]
         \/ /\ service = "guardduty" /\ w = <<Region, "detector_enabled">>
            /\ \A k \in DOMAIN S : Gone \in S[k]
         \/ service = "iam" /\ (w \in IdleKeys(S) \/ w \in Permissions(S))
         \/ service \in {"manifest", "cluster"} /\ w \in Specs(S)
         \/ service = "admission" /\ w \in Admitted(S)
<1>1. \A k \in DOMAIN S : k[1] \in Kinds[service]
  BY DEF WorldInv, WorldOK
<1>2. \A kind : kind \notin Kinds[service] => States(S, kind) = {}
  BY <1>1, StatesAre
<1>3. ASSUME service # "iam"
      PROVE  IdleKeys(S) = {} /\ Permissions(S) = {}
  <2>1. {"user", "group", "role"} \intersect Kinds[service] = {}
    BY <1>3, KindsOfServices DEF WorldInv
  <2>2. IdleKeys(S) = {}
    BY <1>1, <2>1 DEF IdleKeys
  <2> QED BY <1>2, <2>1, <2>2, PermissionsAre DEF Identities
<1>4. ASSUME service \notin {"manifest", "cluster"}
      PROVE  Specs(S) = {}
  <2>1. States(S, "manifest") = {}
    BY <1>2, <1>4, KindsOfServices DEF WorldInv
  <2> QED BY <1>4, <2>1 DEF Specs
<1>5. service # "admission" => Admitted(S) = {}
  BY DEF Admitted
<1>6. service = "cloudtrail" => \A k \in DOMAIN S : k[1] = "trail"
  BY <1>1, KindsOfServices
<1>7. service = "guardduty" => \A k \in DOMAIN S : k[1] = "detector"
  BY <1>1, KindsOfServices
<1> QED BY <1>3, <1>4, <1>5, <1>6, <1>7, WrongIs

\* The checks of the verdicts that count as a risk.
LEMMA ReportableIs ==
  ASSUME NEW verdicts, NEW x
  PROVE  x \in Reportable(verdicts) <=> \E v \in verdicts : x = v[1] /\ Actionable(v[2])
BY DEF Reportable

\* The flaws of a resource, by its kind.
LEMMA FlawIs ==
  ASSUME NEW k, NEW v, v # Gone, NEW check
  PROVE  /\ k[1] = "bucket" =>
              (check \in Flaws(k, v) <=>
                 check \in BucketChecks /\ Actionable(BucketVerdict(check, v)))
         /\ k[1] = "trail" =>
              (check \in Flaws(k, v) <=> (check = "logging" /\ ~v.logging)
                                         \/ (check = "multi_region" /\ ~v.everywhere))
         /\ k[1] = "detector" =>
              (check \in Flaws(k, v) <=> check = "detector_enabled" /\ ~v.enabled)
         /\ k[1] = "securityGroup" =>
              (check \in Flaws(k, v) <=>
                 \/ check = "security_group_all_ingress" /\ \E r \in v.rules : r.world /\ r.all
                 \/ /\ check = "security_group_public_sensitive_port"
                    /\ \E r \in v.rules : /\ r.world /\ ~r.all
                                           /\ r.from..r.to \intersect DOMAIN SensitivePorts # {})
         /\ k[1] = "database" =>
              (check \in Flaws(k, v) <=> (check = "public_access" /\ v.public)
                                         \/ (check = "storage_encryption" /\ ~v.encrypted))
         /\ k[1] = "function" =>
              (check \in Flaws(k, v) <=> check = "function_url_auth" /\ v.url = "open")
         /\ k[1] = "root" => (check \in Flaws(k, v) <=> check = "root_mfa" /\ ~v.mfa)
         /\ k[1] = "role" =>
              (check \in Flaws(k, v) <=>
                 check = "role_trust_wildcard" /\ v.trust.parses /\ TrustsAnyone(v.trust))
         /\ k[1] = "user" =>
              (check \in Flaws(k, v) <=>
                 check = "access_key_age" /\ \E key \in v.keys : key.is.active /\ key.is.old)
         /\ k[1] = "container" =>
              (check \in Flaws(k, v) <=>
                 \/ /\ check \in ContainerChecks \ {"docker_socket_mount"}
                    /\ Actionable(ContainerVerdict(check, v))
                 \/ check = "docker_socket_mount" /\ \E m \in v.mounts : m.source = "socket"
                 \/ /\ check = "writable_sensitive_host_mount"
                    /\ \E m \in v.mounts : m.bind /\ m.source = "sensitive" /\ m.writable)
         /\ k[1] = "dockerfile" =>
              (check \in Flaws(k, v) <=> check \in Reportable(DockerfileVerdicts(v.lines)))
         /\ k[1] \notin {"bucket", "trail", "detector", "securityGroup", "database", "function",
                        "root", "role", "user", "container", "dockerfile"} =>
              check \notin Flaws(k, v)
<1>11. CASE k[1] = "bucket"
  BY <1>11 DEF Flaws
<1>12. CASE k[1] = "trail"
  BY <1>12 DEF Flaws, OnlyIf
<1>13. CASE k[1] = "detector"
  BY <1>13 DEF Flaws, OnlyIf
<1>14. CASE k[1] = "database"
  BY <1>14 DEF Flaws, OnlyIf
<1>15. CASE k[1] = "function"
  BY <1>15 DEF Flaws, OnlyIf
<1>16. CASE k[1] = "root"
  BY <1>16 DEF Flaws, OnlyIf
<1>17. CASE k[1] = "role"
  BY <1>17 DEF Flaws, OnlyIf
<1>18. CASE k[1] = "user"
  BY <1>18 DEF Flaws, OnlyIf
<1>4. CASE k[1] = "securityGroup"
  BY <1>4 DEF Flaws, OnlyIf
<1>5. CASE k[1] = "container"
  BY <1>5 DEF Flaws, OnlyIf
<1>6. CASE k[1] = "dockerfile"
  BY <1>6 DEF Flaws
<1>7. CASE k[1] \notin {"bucket", "trail", "detector", "securityGroup", "database", "function",
                      "root", "role", "user", "container", "dockerfile"}
  BY <1>7 DEF Flaws
<1> QED
  BY <1>4, <1>5, <1>6, <1>7, <1>11, <1>12, <1>13, <1>14, <1>15, <1>16, <1>17, <1>18

-----------------------------------------------------------------------------
(* What a finding says                                                     *)

AllSteady == SteadyWorld(LAMBDA k : TRUE)
Quiet == SteadyWorld(Undisturbed)

\* A steady resource has been in one state.
LEMMA SteadyStates ==
  ASSUME WorldInv
  PROVE  /\ DOMAIN AllSteady = DOMAIN world /\ DOMAIN Quiet = DOMAIN world
         /\ DOMAIN PastWorld = DOMAIN world
         /\ \A k \in DOMAIN world : \A v \in AllSteady[k] : InScope(k) /\ past[k] = {v}
         /\ \A k \in DOMAIN world : \A v \in Quiet[k] :
              InScope(k) /\ past[k] = {v} /\ Undisturbed(k)
         /\ \A k \in DOMAIN world : InScope(k) => PastWorld[k] = past[k]
         /\ \A k \in DOMAIN world : service \notin Kubectl => InScope(k)
BY DEF AllSteady, Quiet, SteadyWorld, PastWorld, Steady, InScope

TrueFinding(f) == Actionable(f.severity) => <<f.resource, f.check>> \in Wrong(PastWorld)

EarnedPass(f) ==
  f.severity = "PASS" =>
    f.check \in {"access_key_age", "access_key_last_used"} \/ Namesakes(f.resource)
    \/ ~\E w \in Wrong(AllSteady) : Denies(f, w)

Honest(f) == TrueFinding(f) /\ EarnedPass(f)

\* A finding that neither reports nor clears anything is honest.
LEMMA NoVerdict ==
  ASSUME NEW f, f.severity \in {"ERROR", "INFO"}
  PROVE  Honest(f)
BY ActionableIs DEF Honest, TrueFinding, EarnedPass

\* A verdict on a state that the resource has been in is honest, if it is the verdict
\* that the state deserves.
LEMMA VerdictOnState ==
  ASSUME WorldInv, service \notin Kubectl \union {"manifest"},
         NEW k \in DOMAIN world, NEW v \in past[k], NEW f, f.resource = k,
         Actionable(f.severity) => f.check \in Flaws(k, v),
         f.severity = "PASS" =>
           /\ f.check \notin Flaws(k, v)
           /\ f.check \in Summaries => Flaws(k, v) = {} /\ service # "iam"
           /\ f.check \notin {"access_key_last_used", "user_wildcard_policy",
                             "group_wildcard_policy", "role_wildcard_policy"}
  PROVE  Honest(f)
<1>1. TrueFinding(f)
  <2>1. v \in PastWorld[k] /\ k \in DOMAIN PastWorld
    BY SteadyStates
  <2> QED BY <2>1, OwnFlaw DEF TrueFinding
<1>2. ASSUME f.severity = "PASS", NEW w \in Wrong(AllSteady), Denies(f, w)
      PROVE  FALSE
  <2>1. k = <<k[1], k[2]>> /\ k[2] # "any" /\ k[1] \in Kinds[service]
    BY DEF WorldInv, WorldOK
  <2>2. w = <<k, f.check>> \/ (f.check \in Summaries /\ w[1] = k)
    BY <1>2, <2>1 DEF Denies
  <2>3. k # Account /\ k # Region
    BY <2>1, KindsOfServices DEF Account, Region, WorldInv
  <2>4. CASE \E j \in DOMAIN AllSteady : \E u \in AllSteady[j] :
               w = <<j, w[2]>> /\ w[2] \in Flaws(j, u)
    <3>1. PICK j \in DOMAIN AllSteady : \E u \in AllSteady[j] :
            w = <<j, w[2]>> /\ w[2] \in Flaws(j, u)
      BY <2>4
    <3>2. PICK u \in AllSteady[j] : w = <<j, w[2]>> /\ w[2] \in Flaws(j, u)
      BY <3>1
    <3>3. j = k /\ u = v
      BY <2>2, <3>1, <3>2, SteadyStates
    <3> QED BY <1>2, <2>2, <3>2, <3>3
  <2>5. CASE service = "iam" /\ (w \in IdleKeys(AllSteady) \/ w \in Permissions(AllSteady))
    <3>1. w[2] \in {"access_key_last_used", "user_wildcard_policy",
                    "group_wildcard_policy", "role_wildcard_policy"}
      BY <2>5, PermissionsAre DEF IdleKeys, WildcardCheck, Identities
    <3> QED BY <1>2, <2>2, <2>5, <3>1
  <2>6. DOMAIN AllSteady = DOMAIN world
    BY SteadyStates
  <2> QED BY <2>2, <2>3, <2>4, <2>5, <2>6, WrongByService DEF Kubectl
<1> QED BY <1>1, <1>2 DEF Honest, EarnedPass

\* What a finished list has left out was not there for the whole scan.
LEMMA ListIsComplete ==
  ASSUME ScanInv, pc = "done", NEW kind, List(kind, "1") \in FirstCalls, ~Ended,
         ~ListFailed(replies, kind), NEW k \in DOMAIN world, k[1] = kind
  PROVE  Gone \in past[k] \/ \E r \in Listed(replies, kind) : r.name = k[2]
<1>1. PageOf(k) \in ToSet(Pages(kind))
  BY PagesOf DEF PageOf
<1> DEFINE c == List(kind, PageOf(k))
<1>2. Got(replies, c) /\ replies[c].show \subseteq Listed(replies, kind)
  BY <1>1, ListRead
<1>3. TrueList(kind, PageOf(k), replies[c].show)
  <2>1. c.op = "list" /\ c.key[1] = kind /\ c.key[2] = PageOf(k)
    BY ListParts
  <2>2. TrueAnswer(c, replies[c].show)
    BY <1>2, Finished DEF TrueReplies, Got
  <2> HIDE DEF c
  <2> QED BY <2>1, <2>2 DEF TrueAnswer
<1> QED BY <1>2, <1>3 DEF TrueList

\* The lists that a scanner begins with.
LEMMA FirstLists ==
  ASSUME service \in DOMAIN Kinds \ Kubectl
  PROVE  /\ \A kind : List(kind, "1") \in FirstCalls <=>
              IF service = "iam" THEN kind \in Identities ELSE kind \in Kinds[service]
<1>1. \A a, b : List(a, "1") = List(b, "1") => a = b
  BY ListParts
<1>2. \A kind : List(kind, "1") # Probe /\ List(kind, "1") # Get("get_account_summary", Root)
  BY ListParts, GetParts DEF Probe
<1> QED BY <1>1, <1>2 DEF FirstCalls, Kubectl

\* A listed resource was in the state the list shows.
LEMMA ListedState ==
  ASSUME ScanInv, pc = "done", NEW kind, NEW r \in Listed(replies, kind)
  PROVE  /\ <<kind, r.name>> \in DOMAIN world /\ r.is \in Seen(<<kind, r.name>>)
         /\ r.is # Gone /\ r.is \in past[<<kind, r.name>>]
         /\ StateOK(world, <<kind, r.name>>, r.is)
<1>1. <<kind, r.name>> \in DOMAIN world /\ r.is \in Seen(<<kind, r.name>>)
  BY Finished, ListedResources
<1> QED BY <1>1, Finished, SeenStates DEF Seen

\* What a verdict of PassUnless says.
LEMMA PassUnlessIs ==
  ASSUME NEW bad
  PROVE  /\ Actionable(PassUnless(bad, "CRITICAL")) <=> bad
         /\ Actionable(PassUnless(bad, "HIGH")) <=> bad
         /\ Actionable(PassUnless(bad, "MEDIUM")) <=> bad
         /\ PassUnless(bad, "CRITICAL") = "PASS" <=> ~bad
         /\ PassUnless(bad, "HIGH") = "PASS" <=> ~bad
         /\ PassUnless(bad, "MEDIUM") = "PASS" <=> ~bad
BY ActionableIs DEF PassUnless

\* The S3 scanner is honest.
LEMMA HonestBuckets ==
  ASSUME ScanInv, pc = "done", service = "s3", NEW f \in AwsFindings(replies)
  PROVE  Honest(f)
<1>1. CASE f = Finding("runner", "ERROR", Account)
  BY <1>1, NoVerdict DEF Finding
<1>2. CASE \E r \in Listed(replies, "bucket") : f \in BucketFindings(replies, <<"bucket", r.name>>)
  <2>1. PICK r \in Listed(replies, "bucket"), check \in BucketChecks :
          LET key == <<"bucket", r.name>>
              c == Get(check, key)
          IN  f = IF Got(replies, c) THEN Finding(check, BucketVerdict(check, replies[c].show), key)
                  ELSE Finding(check, "ERROR", key)
    BY <1>2 DEF BucketFindings, Judged
  <2> DEFINE key == <<"bucket", r.name>>
             c == Get(check, key)
             v == replies[c].show
  <2>2. CASE ~Got(replies, c)
    BY <2>1, <2>2, NoVerdict DEF Finding
  <2>3. CASE Got(replies, c)
    <3>1. c.op \in Requested /\ c.key = key
      BY GetParts, RequestedOps
    <3>2. key \in DOMAIN world /\ v \in past[key] /\ v # Gone
      BY <2>3, <3>1, ShownState DEF Seen
    <3>3. \A ch : ch \in Flaws(key, v) <=> ch \in BucketChecks /\ Actionable(BucketVerdict(ch, v))
      BY <3>2, FlawIs
    <3>4. f.resource = key /\ f.check = check /\ f.severity = BucketVerdict(check, v)
      BY <2>1, <2>3 DEF Finding
    <3>5. ~Actionable("PASS")
      BY ActionableIs
    <3>6. check \notin Summaries \union {"access_key_last_used", "user_wildcard_policy",
                                         "group_wildcard_policy", "role_wildcard_policy"}
      BY DEF Summaries, BucketChecks
    <3> HIDE DEF key, v
    <3> QED BY <3>2, <3>3, <3>4, <3>5, <3>6, Finished, VerdictOnState DEF Kubectl
  <2> QED BY <2>2, <2>3
<1> QED BY <1>1, <1>2 DEF AwsFindings, Over

\* No resource of a kind was found, and each was not there at some time.
LEMMA NothingListed ==
  ASSUME ScanInv, pc = "done", service \in {"cloudtrail", "guardduty"},
         NEW kind \in Kinds[service], ~ListFailed(replies, kind), Listed(replies, kind) = {}
  PROVE  \A k \in DOMAIN world : Gone \in past[k]
<1>1. ~Ended
  BY OnlyProbesEnd
<1>2. List(kind, "1") \in FirstCalls
  BY FirstLists, KindsOfServices DEF Kubectl
<1>3. \A k \in DOMAIN world : k[1] = kind
  BY KindsOfServices DEF ScanInv, WorldInv, WorldOK
<1> QED BY <1>1, <1>2, <1>3, ListIsComplete

\* The CloudTrail scanner is honest.
LEMMA HonestTrails ==
  ASSUME ScanInv, pc = "done", service = "cloudtrail", NEW f \in AwsFindings(replies)
  PROVE  Honest(f)
<1>1. CASE f = Finding("describe", "ERROR", Account)
  BY <1>1, NoVerdict DEF Finding
<1>2. CASE \E r \in Listed(replies, "trail") : f \in TrailFindings(replies, r)
  <2>1. PICK r \in Listed(replies, "trail") : f \in TrailFindings(replies, r)
    BY <1>2
  <2> DEFINE key == <<"trail", r.name>>
             c == Get("get_trail_status", key)
             v == replies[c].show
  <2>2. \/ f = Finding("logging", "ERROR", key)
        \/ Got(replies, c) /\ f = Finding("logging", TrailLogging(v), key)
        \/ f = Finding("multi_region", TrailEverywhere(r.is), key)
    BY <2>1 DEF TrailFindings, Judged
  <2>3. CASE f = Finding("logging", "ERROR", key)
    BY <2>3, NoVerdict DEF Finding
  <2>4. CASE Got(replies, c) /\ f = Finding("logging", TrailLogging(v), key)
    <3>1. c.op \in Requested /\ c.key = key
      BY GetParts, RequestedOps
    <3>2. key \in DOMAIN world /\ v \in past[key] /\ v # Gone
      BY <2>4, <3>1, ShownState DEF Seen
    <3>3. \A check : check \in Flaws(key, v) <=>
            (check = "logging" /\ ~v.logging) \/ (check = "multi_region" /\ ~v.everywhere)
      BY <3>2, FlawIs
    <3>4. f.resource = key /\ f.check = "logging" /\ f.severity = TrailLogging(v)
      BY <2>4 DEF Finding
    <3> HIDE DEF key, v
    <3> QED BY <3>2, <3>3, <3>4, PassUnlessIs, Finished, VerdictOnState
        DEF Kubectl, TrailLogging, Summaries
  <2>5. CASE f = Finding("multi_region", TrailEverywhere(r.is), key)
    <3> DEFINE u == r.is
    <3>1. key \in DOMAIN world /\ u \in past[key] /\ u # Gone
      BY ListedState
    <3>2. \A check : check \in Flaws(key, u) <=>
            (check = "logging" /\ ~u.logging) \/ (check = "multi_region" /\ ~u.everywhere)
      BY <3>1, FlawIs
    <3>3. f.resource = key /\ f.check = "multi_region" /\ f.severity = TrailEverywhere(u)
      BY <2>5 DEF Finding
    <3> HIDE DEF key, u
    <3> QED BY <3>1, <3>2, <3>3, PassUnlessIs, Finished, VerdictOnState
        DEF Kubectl, TrailEverywhere, Summaries
  <2> QED BY <2>2, <2>3, <2>4, <2>5
<1>3. CASE /\ f = Finding("trail_present", "HIGH", Account)
           /\ Listed(replies, "trail") = {} /\ ~ListFailed(replies, "trail")
  <2>1. f.resource = Account /\ f.check = "trail_present" /\ f.severity = "HIGH"
    BY <1>3 DEF Finding
  <2>2. \A k \in DOMAIN PastWorld : Gone \in PastWorld[k]
    BY <1>3, NothingListed, KindsOfServices, SteadyStates, Finished DEF Kubectl
  <2>3. <<Account, "trail_present">> \in Wrong(PastWorld)
    BY <2>2 DEF Wrong, Absent
  <2> QED BY <2>1, <2>3 DEF Honest, TrueFinding, EarnedPass
<1> QED BY <1>1, <1>2, <1>3 DEF AwsFindings, Over

\* The GuardDuty scanner is honest.
LEMMA HonestDetectors ==
  ASSUME ScanInv, pc = "done", service = "guardduty", NEW f \in AwsFindings(replies)
  PROVE  Honest(f)
<1>1. CASE f = Finding("detector_enabled", "ERROR", Region)
  BY <1>1, NoVerdict DEF Finding
<1>2. CASE \E r \in Listed(replies, "detector") :
             f = Judged(replies, "get_detector", "detector_enabled",
                        <<"detector", r.name>>, Detector)
  <2>1. PICK r \in Listed(replies, "detector") :
          f = Judged(replies, "get_detector", "detector_enabled", <<"detector", r.name>>, Detector)
    BY <1>2
  <2> DEFINE key == <<"detector", r.name>>
             c == Get("get_detector", key)
             v == replies[c].show
  <2>2. CASE ~Got(replies, c)
    BY <2>1, <2>2, NoVerdict DEF Finding, Judged
  <2>3. CASE Got(replies, c)
    <3>1. c.op \in Requested /\ c.key = key
      BY GetParts, RequestedOps
    <3>2. key \in DOMAIN world /\ v \in past[key] /\ v # Gone
      BY <2>3, <3>1, ShownState DEF Seen
    <3>3. \A check : check \in Flaws(key, v) <=> check = "detector_enabled" /\ ~v.enabled
      BY <3>2, FlawIs
    <3>4. f.resource = key /\ f.check = "detector_enabled" /\ f.severity = Detector(v)
      BY <2>1, <2>3 DEF Finding, Judged
    <3> HIDE DEF key, v
    <3> QED BY <3>2, <3>3, <3>4, PassUnlessIs, Finished, VerdictOnState
        DEF Kubectl, Detector, Summaries
  <2> QED BY <2>2, <2>3
<1>3. CASE /\ f = Finding("detector_enabled", "HIGH", Region)
           /\ Listed(replies, "detector") = {} /\ ~ListFailed(replies, "detector")
  <2>1. f.resource = Region /\ f.check = "detector_enabled" /\ f.severity = "HIGH"
    BY <1>3 DEF Finding
  <2>2. \A k \in DOMAIN PastWorld : Gone \in PastWorld[k]
    BY <1>3, NothingListed, KindsOfServices, SteadyStates, Finished DEF Kubectl
  <2>3. <<Region, "detector_enabled">> \in Wrong(PastWorld)
    BY <2>2 DEF Wrong, Absent
  <2> QED BY <2>1, <2>3 DEF Honest, TrueFinding, EarnedPass
<1> QED BY <1>1, <1>2, <1>3 DEF AwsFindings, Over

\* The verdicts on a security group are those that its open rules deserve.
LEMMA GroupVerdictIs ==
  ASSUME NEW g, \A r \in g.rules : r.from \in Int /\ r.to \in Int
  PROVE  LET all == \E r \in g.rules : r.world /\ r.all
             port == \E r \in g.rules : /\ r.world /\ ~r.all
                                        /\ r.from..r.to \intersect DOMAIN SensitivePorts # {}
         IN  /\ \A v \in GroupVerdicts(g) :
                  \/ all /\ v[1] = "security_group_all_ingress" /\ v[2] = "CRITICAL"
                  \/ port /\ v[1] = "security_group_public_sensitive_port" /\ Actionable(v[2])
                  \/ /\ ~all /\ ~port
                     /\ v[1] = "security_group_public_sensitive_ports" /\ v[2] = "PASS"
             /\ all => \E v \in GroupVerdicts(g) :
                         v[1] = "security_group_all_ingress" /\ Actionable(v[2])
             /\ port => \E v \in GroupVerdicts(g) :
                          v[1] = "security_group_public_sensitive_port" /\ Actionable(v[2])
<1> DEFINE open == {r \in g.rules : r.world}
           ports == UNION {Covered(r) : r \in {q \in open : ~q.all}}
           alls == {<<"security_group_all_ingress", "CRITICAL">> : r \in {q \in open : q.all}}
           byPort == {<<"security_group_public_sensitive_port", SensitivePorts[p]>> : p \in ports}
           all == \E r \in g.rules : r.world /\ r.all
           port == \E r \in g.rules : /\ r.world /\ ~r.all
                                      /\ r.from..r.to \intersect DOMAIN SensitivePorts # {}
<1>1. GroupVerdicts(g) = IF alls \union byPort = {}
                         THEN {<<"security_group_public_sensitive_ports", "PASS">>}
                         ELSE alls \union byPort
  BY DEF GroupVerdicts
<1>2. DOMAIN SensitivePorts \subseteq Int
      /\ \A p \in DOMAIN SensitivePorts : SensitivePorts[p] \in {"CRITICAL", "HIGH"}
  BY DEF SensitivePorts
<1>3. \A p : p \in ports <=> \E r \in g.rules : r.world /\ ~r.all /\ p \in Covered(r)
  OBVIOUS
<1>4. ports \subseteq DOMAIN SensitivePorts
  BY DEF Covered
<1>5. ports # {} <=> port
  <2>1. \A r \in g.rules : Covered(r) = (r.from..r.to) \intersect DOMAIN SensitivePorts
    BY <1>2 DEF Covered
  <2> HIDE DEF ports
  <2> QED BY <1>3, <2>1
<1>6. alls # {} <=> all
  OBVIOUS
<1>7. byPort # {} <=> port
  <2> HIDE DEF ports
  <2>1. byPort # {} <=> ports # {}
    OBVIOUS
  <2> QED BY <1>5, <2>1
<1>8. \A v \in alls : v[1] = "security_group_all_ingress" /\ v[2] = "CRITICAL"
  OBVIOUS
<1>9. \A v \in byPort : v[1] = "security_group_public_sensitive_port" /\ Actionable(v[2])
  <2> HIDE DEF ports
  <2> QED BY <1>2, <1>4, ActionableIs
<1>10. Actionable("CRITICAL")
  BY ActionableIs
<1> HIDE DEF alls, byPort, all, port
<1>11. \A v \in GroupVerdicts(g) :
         \/ all /\ v[1] = "security_group_all_ingress" /\ v[2] = "CRITICAL"
         \/ port /\ v[1] = "security_group_public_sensitive_port" /\ Actionable(v[2])
         \/ /\ ~all /\ ~port
            /\ v[1] = "security_group_public_sensitive_ports" /\ v[2] = "PASS"
  <2>1. ASSUME alls \union byPort = {}
        PROVE  ~all /\ ~port
    BY <1>6, <1>7, <2>1
  <2> QED BY <1>1, <1>6, <1>7, <1>8, <1>9, <2>1
<1>12. all => \E v \in GroupVerdicts(g) :
                v[1] = "security_group_all_ingress" /\ Actionable(v[2])
  BY <1>1, <1>6, <1>8, <1>10
<1>13. port => \E v \in GroupVerdicts(g) :
                 v[1] = "security_group_public_sensitive_port" /\ Actionable(v[2])
  BY <1>1, <1>7, <1>9
<1> QED BY <1>11, <1>12, <1>13 DEF all, port

\* A scan of security groups is honest.
LEMMA HonestGroups ==
  ASSUME ScanInv, pc = "done", service = "ec2", NEW f \in AwsFindings(replies)
  PROVE  Honest(f)
<1>1. CASE f = Finding("security_groups", "ERROR", Account)
  BY <1>1, NoVerdict DEF Finding
<1>2. CASE \E r \in Listed(replies, "securityGroup") : f \in GroupFindings(r)
  <2>1. PICK r \in Listed(replies, "securityGroup") : f \in GroupFindings(r)
    BY <1>2
  <2> DEFINE key == <<"securityGroup", r.name>>
             u == r.is
  <2>2. PICK v \in GroupVerdicts(u) : f = Finding(v[1], v[2], key)
    BY <2>1 DEF GroupFindings
  <2>3. key \in DOMAIN world /\ u \in past[key] /\ u # Gone /\ StateOK(world, key, u)
    BY ListedState
  <2>4. \A check : check \in Flaws(key, u) <=>
                 \/ check = "security_group_all_ingress" /\ \E q \in u.rules : q.world /\ q.all
                 \/ /\ check = "security_group_public_sensitive_port"
                    /\ \E q \in u.rules : /\ q.world /\ ~q.all
                                           /\ q.from..q.to \intersect DOMAIN SensitivePorts # {}
    BY <2>3, FlawIs
  <2>5. f.resource = key /\ f.check = v[1] /\ f.severity = v[2]
    BY <2>2 DEF Finding
  <2>6. \A q \in u.rules : q.from \in Int /\ q.to \in Int
    BY <2>3 DEF StateOK
  <2>7. ~Actionable("PASS") /\ Actionable("CRITICAL")
    BY ActionableIs
  <2> HIDE DEF key, u
  <2>8. Actionable(f.severity) => f.check \in Flaws(key, u)
    BY <2>4, <2>5, <2>6, <2>7, GroupVerdictIs
  <2>9. f.severity = "PASS" =>
          Flaws(key, u) = {} /\ f.check = "security_group_public_sensitive_ports"
    <3> SUFFICES ASSUME f.severity = "PASS", NEW check \in Flaws(key, u)
                 PROVE  FALSE
      BY <2>5, <2>6, <2>7, GroupVerdictIs
    <3> QED BY <2>4, <2>5, <2>6, <2>7, GroupVerdictIs
  <2> QED BY <2>3, <2>5, <2>8, <2>9, Finished, VerdictOnState DEF Kubectl
<1> QED BY <1>1, <1>2 DEF AwsFindings, Over

\* A scan of database instances is honest.
LEMMA HonestDatabases ==
  ASSUME ScanInv, pc = "done", service = "rds", NEW f \in AwsFindings(replies)
  PROVE  Honest(f)
<1>1. CASE f \in {Finding("instances", "ERROR", Account), Finding("instances", "INFO", Account)}
  BY <1>1, NoVerdict DEF Finding
<1>2. CASE \E r \in Listed(replies, "database") : f \in DatabaseFindings(r)
  <2>1. PICK r \in Listed(replies, "database") : f \in DatabaseFindings(r)
    BY <1>2
  <2> DEFINE key == <<"database", r.name>>
             u == r.is
  <2>2. /\ f.resource = key
        /\ \/ f.check = "public_access" /\ f.severity = DatabaseAccess(u)
           \/ f.check = "storage_encryption" /\ f.severity = DatabaseEncryption(u)
    BY <2>1 DEF DatabaseFindings, Finding
  <2>3. key \in DOMAIN world /\ u \in past[key] /\ u # Gone
    BY ListedState
  <2>4. \A check : check \in Flaws(key, u) <=> (check = "public_access" /\ u.public)
                                              \/ (check = "storage_encryption" /\ ~u.encrypted)
    BY <2>3, FlawIs
  <2> HIDE DEF key, u
  <2> QED BY <2>2, <2>3, <2>4, PassUnlessIs, Finished, VerdictOnState
      DEF Kubectl, DatabaseAccess, DatabaseEncryption, Summaries
<1> QED BY <1>1, <1>2 DEF AwsFindings, Over

\* A scan of functions is honest: a URL that is not found is not open, now or before.
LEMMA HonestFunctions ==
  ASSUME ScanInv, pc = "done", service = "lambda", NEW f \in AwsFindings(replies)
  PROVE  Honest(f)
<1>1. CASE f \in {Finding("list_functions", "ERROR", Account),
                  Finding("function_urls", "INFO", Account)}
  BY <1>1, NoVerdict DEF Finding
<1>2. CASE \E r \in Listed(replies, "function") : f = UrlFinding(replies, <<"function", r.name>>)
  <2>1. PICK r \in Listed(replies, "function") :
          f = UrlFinding(replies, <<"function", r.name>>)
    BY <1>2
  <2> DEFINE key == <<"function", r.name>>
             c == Get("get_function_url_config", key)
  <2>2. c \in DOMAIN replies
    <3>1. List("function", "1") \in FirstCalls
      BY FirstLists, KindsOfServices DEF Kubectl
    <3> QED BY <3>1, ResourcesAsked, OnlyProbesEnd, RequestsMade
  <2>3. f.resource = key /\ f.check = "function_url_auth"
    BY <2>1 DEF UrlFinding, Finding
  <2>4. f.severity = CASE replies[c].how = "missing" -> "PASS"
                       [] replies[c].how = "answered" -> FunctionUrl(replies[c].show)
                       [] OTHER -> "ERROR"
    BY <2>1 DEF UrlFinding, Finding
  <2>5. c.op = "get_function_url_config" /\ c.key = key
    BY GetParts
  <2>6. key \in DOMAIN world
    BY ListedState
  <2>7. \A v : v # Gone =>
          \A check : check \in Flaws(key, v) <=> check = "function_url_auth" /\ v.url = "open"
    BY FlawIs
  <2> HIDE DEF c, key
  <2>8. CASE replies[c].how = "missing"
    <3>1. PICK v \in past[key] : v = Gone \/ v.url = "none"
      BY <2>2, <2>5, <2>8, Finished DEF TrueMiss
    <3>2. Flaws(key, v) = {}
      BY <2>7, <3>1 DEF Flaws
    <3>3. f.severity = "PASS" /\ ~Actionable("PASS")
      BY <2>4, <2>8, ActionableIs
    <3> QED BY <2>3, <2>6, <3>1, <3>2, <3>3, Finished, VerdictOnState DEF Kubectl, Summaries
  <2>9. CASE replies[c].how = "answered"
    <3> DEFINE v == replies[c].show
    <3>1. v \in past[key] /\ v # Gone
      BY <2>2, <2>5, <2>9, ShownState, RequestedOps DEF Got, Seen
    <3>2. f.severity = FunctionUrl(v)
      BY <2>4, <2>9
    <3> HIDE DEF v
    <3> QED BY <2>3, <2>6, <2>7, <3>1, <3>2, PassUnlessIs, Finished, VerdictOnState
        DEF Kubectl, FunctionUrl, Summaries
  <2>10. CASE replies[c].how \notin {"missing", "answered"}
    BY <2>4, <2>10, NoVerdict
  <2> QED BY <2>8, <2>9, <2>10
<1> QED BY <1>1, <1>2 DEF AwsFindings, Over

-----------------------------------------------------------------------------
(* Identities, their keys and their policies                               *)

\* An answer that shows one of several parts of a resource.
LEMMA PartShown ==
  ASSUME ScanInv, pc = "done", NEW c, Got(replies, c)
  PROVE  /\ c.op \in DocumentOps =>
              /\ c.key \in DOMAIN world /\ c.by = c.key
              /\ \E v \in Seen(c.key) : \E d \in v.inline :
                   d.name \in c.arg /\ replies[c].show = d.is
         /\ c.op = "get_policy_version" =>
              /\ c.key \in DOMAIN world /\ c.key[1] = "policy"
              /\ \E v \in Seen(c.key) : \E d \in v.versions :
                   d.name \in c.arg /\ replies[c].show = d.is
         /\ c.op = "get_access_key_last_used" =>
              /\ c.key \in DOMAIN world /\ c.by = c.key
              /\ \E v \in Seen(c.key) : \E d \in v.keys :
                   d.name \in c.arg /\ replies[c].show = d.is
         /\ c.op = "get_policy" =>
              c.key \in DOMAIN world /\ c.key[1] = "policy" /\ replies[c].show \in Seen(c.key)
<1>1. c \in DOMAIN replies /\ CallOK(c) /\ TrueAnswer(c, replies[c].show)
  BY Finished DEF Got, TrueReplies
<1>2. /\ c.op \in DocumentOps => c.op \in OfPart /\ \A v : Parts(c, v) = v.inline
      /\ c.op = "get_policy_version" => c.op \in OfPart /\ \A v : Parts(c, v) = v.versions
      /\ c.op = "get_access_key_last_used" => c.op \in OfPart /\ \A v : Parts(c, v) = v.keys
      /\ c.op = "get_policy" => c.op \notin OfPart \union {"list", "kubectl", "probe", "inspect"}
  BY DEF OfPart, Parts, DocumentOps
<1>3. /\ c.op \in OfPart =>
           \E v \in Seen(c.key) : \E d \in Parts(c, v) :
             d.name \in c.arg /\ replies[c].show = d.is
      /\ c.op \notin OfPart \union {"list", "kubectl", "probe", "inspect"} =>
           replies[c].show \in Seen(c.key)
  BY <1>1 DEF TrueAnswer
<1> QED BY <1>1, <1>2, <1>3, CallShape

\* A listed identity is a resource that was there, and every question about it was asked.
LEMMA ListedIdentity ==
  ASSUME ScanInv, pc = "done", service = "iam", NEW kind \in Identities,
         NEW key \in ListedKeys(replies, kind)
  PROVE  /\ key \in DOMAIN world /\ key = <<kind, key[2]>> /\ key[1] = kind
         /\ \A op \in Requests[kind] : Get(op, key) \in DOMAIN replies
         /\ \A v \in Seen(key) : StateOK(world, key, v)
<1>1. PICK r \in Listed(replies, kind) : key = <<kind, r.name>>
  BY DEF ListedKeys
<1>2. List(kind, "1") \in FirstCalls
  BY FirstLists, KindsOfServices DEF Kubectl
<1>3. kind \in DOMAIN Requests
  BY RequestsMade DEF Identities
<1>4. key \in DOMAIN world
  BY <1>1, ListedState
<1> QED BY <1>1, <1>2, <1>3, <1>4, ResourcesAsked, OnlyProbesEnd, Finished, SeenStates

\* Of an identity in one state whose policies could all be read every inline document was.
LEMMA InlineRead ==
  ASSUME ScanInv, pc = "done", service = "iam", NEW kind \in Identities,
         NEW key \in ListedKeys(replies, kind), NEW v, past[key] = {v}, v # Gone,
         \A c \in PolicyCalls(replies, key) : Got(replies, c),
         NEW d \in v.inline
  PROVE  d.is \in Documents(replies, key)
<1> DEFINE c == Get("list_inline", key)
           e == Call(Inline[kind], key, {d.name}, key)
<1>1. c \in DOMAIN replies /\ c.op = "list_inline" /\ c.by = key /\ c.key = key /\ key[1] = kind
  BY ListedIdentity, RequestsMade, GetParts DEF Identities
<1>2. Got(replies, c)
  BY <1>1 DEF PolicyCalls, PolicyReads
<1>3. replies[c].show = v
  BY <1>1, <1>2, ShownState, RequestedOps DEF Seen
<1>4. e \in Offspring(c, replies)
  BY <1>1, <1>3 DEF Offspring
<1>5. e \in DOMAIN replies
  BY <1>2, <1>4, AllAsked, OnlyProbesEnd
<1>6. e.op \in DocumentOps /\ e.key = key /\ e.by = key /\ e.arg = {d.name}
  BY CallParts DEF Inline, Identities, DocumentOps
<1>7. e \in PolicyCalls(replies, key) /\ e.op \in DocumentReads
  BY <1>5, <1>6 DEF PolicyCalls, PolicyReads, DocumentReads, DocumentOps
<1>8. Got(replies, e)
  BY <1>7
<1> HIDE DEF c, e
<1>9. PICK u \in v.inline : u.name = d.name /\ replies[e].show = u.is
  BY <1>6, <1>8, PartShown DEF Seen
<1>10. u = d
  <2>1. ByName(v.inline)
    BY <1>1, ListedIdentity DEF StateOK, Seen, Identities
  <2> QED BY <1>9, <2>1 DEF ByName
<1> QED BY <1>7, <1>8, <1>9, <1>10 DEF Documents

\* And the default version of every policy that is attached to it.
LEMMA AttachedRead ==
  ASSUME ScanInv, pc = "done", service = "iam", NEW kind \in Identities,
         NEW key \in ListedKeys(replies, kind), NEW v, past[key] = {v}, v # Gone,
         \A c \in PolicyCalls(replies, key) : Got(replies, c),
         NEW p \in v.attached, NEW u, past[<<"policy", p>>] = {u}, u # Gone,
         NEW d \in u.versions, d.name = u.default
  PROVE  d.is \in Documents(replies, key)
<1> DEFINE at == <<"policy", p>>
           a == Get("list_attached", key)
           b == Call("get_policy", at, {}, key)
           c == Call("get_policy_version", at, {u.default}, key)
<1>1. a \in DOMAIN replies /\ a.op = "list_attached" /\ a.by = key /\ a.key = key
  BY ListedIdentity, RequestsMade, GetParts DEF Identities
<1>2. Got(replies, a)
  BY <1>1 DEF PolicyCalls, PolicyReads
<1>3. replies[a].show = v
  BY <1>1, <1>2, ShownState, RequestedOps DEF Seen
<1>4. b \in Offspring(a, replies)
  BY <1>1, <1>3 DEF Offspring
<1>5. b \in DOMAIN replies
  BY <1>2, <1>4, AllAsked, OnlyProbesEnd
<1>6. b.op = "get_policy" /\ b.key = at /\ b.by = key /\ b.arg = {}
  BY CallParts
<1>7. Got(replies, b)
  BY <1>5, <1>6 DEF PolicyCalls, PolicyReads
<1>8. replies[b].show = u /\ at \in DOMAIN world
  <2> HIDE DEF b
  <2> QED BY <1>6, <1>7, PartShown DEF Seen
<1>9. c \in Offspring(b, replies)
  BY <1>6, <1>8 DEF Offspring
<1>10. c \in DOMAIN replies
  BY <1>7, <1>9, AllAsked, OnlyProbesEnd
<1>11. c.op = "get_policy_version" /\ c.key = at /\ c.by = key /\ c.arg = {u.default}
  BY CallParts
<1>12. c \in PolicyCalls(replies, key) /\ c.op \in DocumentReads
  BY <1>10, <1>11 DEF PolicyCalls, PolicyReads, DocumentReads
<1>13. Got(replies, c)
  BY <1>12
<1> HIDE DEF c
<1>14. PICK e \in u.versions : e.name = u.default /\ replies[c].show = e.is
  BY <1>11, <1>13, PartShown DEF Seen
<1>15. e = d
  <2>1. ByName(u.versions)
    BY <1>8, Finished, SeenStates DEF StateOK, Seen
  <2> QED BY <1>14, <2>1 DEF ByName
<1> QED BY <1>12, <1>13, <1>14, <1>15 DEF Documents

\* A document that was read for an identity was one of its documents.
LEMMA DocumentOf ==
  ASSUME ScanInv, pc = "done", service = "iam", NEW kind \in Identities,
         NEW key \in ListedKeys(replies, kind), NEW d \in Documents(replies, key), Matched({d})
  PROVE  \E v \in Seen(key) : Unlimited(PastWorld, v)
<1>1. PICK c \in PolicyCalls(replies, key) :
        c.op \in DocumentReads /\ Got(replies, c) /\ replies[c].show = d
  BY DEF Documents
<1>2. c \in DOMAIN replies /\ CallOK(c) /\ c.by = key
  BY <1>1, Finished DEF PolicyCalls
<1>3. WorldInv
  BY Finished
<1>4. CASE c.op \in DocumentOps
  <2>1. PICK v \in Seen(key) : \E e \in v.inline : d = e.is
    BY <1>1, <1>2, <1>4, PartShown
  <2> QED BY <2>1 DEF Unlimited
<1>5. CASE c.op = "get_policy_version"
  <2> DEFINE at == c.key
             b == Call("get_policy", at, {}, key)
             a == Get("list_attached", key)
  <2>1. Parent(c) = b /\ c \notin FirstCalls
    BY <1>2, <1>5, ParentOf, FirstOps
  <2>2. b.op = "get_policy" /\ b.key = at /\ b.by = key
    BY CallParts
  <2>3. b \in DOMAIN replies /\ Got(replies, b) /\ c \in Offspring(b, replies)
    BY <1>2, <2>1, Followed
  <2>4. Parent(b) = a /\ b \notin FirstCalls
    <3> HIDE DEF b
    <3> QED BY <2>2, ParentOf, FirstOps
  <2>5. Got(replies, a) /\ b \in Offspring(a, replies)
    BY <2>3, <2>4, Followed
  <2>6. a.op = "list_attached" /\ a.key = key
    BY GetParts
  <2> DEFINE v == replies[a].show
             u == replies[b].show
  <2>7. v \in Seen(key)
    BY <2>5, <2>6, ShownState, RequestedOps
  <2>8. PICK p \in v.attached : b = Call("get_policy", <<"policy", p>>, {}, a.by)
    BY <2>5, <2>6 DEF Offspring
  <2>9. at = <<"policy", p>> /\ at[1] = "policy" /\ at[2] = p
    BY <2>2, <2>8, CallParts
  <2>10. u \in Seen(at) /\ at \in DOMAIN world
    <3> HIDE DEF b, at
    <3> QED BY <2>2, <2>3, PartShown
  <2>11. c.arg = {u.default}
    <3>1. c = Call("get_policy_version", at, {u.default}, b.by)
      <4> HIDE DEF b
      <4> QED BY <2>2, <2>3 DEF Offspring
    <3>2. c.arg = Call("get_policy_version", at, {u.default}, b.by).arg
      <4> HIDE DEF u, at, b
      <4> QED BY <3>1
    <3> QED BY <3>2, CallParts
  <2>12. PICK q \in Seen(at) : \E e \in q.versions : e.name = u.default /\ d = e.is
    BY <1>1, <1>5, <2>11, PartShown
  <2>13. <<at, u>> \in States(PastWorld, "policy") /\ <<at, q>> \in States(PastWorld, "policy")
    <3>1. at \in DOMAIN PastWorld /\ PastWorld[at] = past[at]
      BY <1>3, <2>10, SteadyStates DEF Kubectl
    <3> HIDE DEF u, at
    <3> QED BY <2>9, <2>10, <2>12, <3>1, StatesAre DEF Seen
  <2>14. Unlimited(PastWorld, v)
    <3> HIDE DEF u, v, at
    <3>1. PICK e \in q.versions : e.name = u.default /\ d = e.is
      BY <2>12
    <3> DEFINE s == <<at, u>>
               t == <<at, q>>
    <3>2. s \in States(PastWorld, "policy") /\ t \in States(PastWorld, "policy")
          /\ s[1] = t[1] /\ s[1][2] \in v.attached /\ t[2] = q /\ s[2] = u
      BY <2>8, <2>9, <2>13
    <3>3. Matched({e.is})
      BY <3>1
    <3> HIDE DEF s, t
    <3> QED BY <3>1, <3>2, <3>3 DEF Unlimited
  <2> QED BY <2>7, <2>14
<1> QED BY <1>1, <1>4, <1>5 DEF DocumentReads, DocumentOps

\* An identity in one state that no call failed for, and that allows everything, has a
\* document that says so.
LEMMA UnlimitedRead ==
  ASSUME ScanInv, pc = "done", service = "iam", NEW kind \in Identities,
         NEW key \in ListedKeys(replies, kind), NEW v, past[key] = {v}, v # Gone,
         \A c \in PolicyCalls(replies, key) : Got(replies, c),
         NEW S, DOMAIN S = DOMAIN world, \A k \in DOMAIN S : \A u \in S[k] : past[k] = {u},
         Unlimited(S, v)
  PROVE  Matched(Documents(replies, key))
<1>1. CASE \E d \in v.inline : Matched({d.is})
  BY <1>1, InlineRead DEF Matched
<1>2. CASE \E p, q \in States(S, "policy") :
             /\ p[1] = q[1] /\ p[1][2] \in v.attached
             /\ \E d \in q[2].versions : d.name = p[2].default /\ Matched({d.is})
  <2>1. PICK p \in States(S, "policy") : \E q \in States(S, "policy") :
             /\ p[1] = q[1] /\ p[1][2] \in v.attached
             /\ \E d \in q[2].versions : d.name = p[2].default /\ Matched({d.is})
    BY <1>2
  <2>2. PICK q \in States(S, "policy") :
             /\ p[1] = q[1] /\ p[1][2] \in v.attached
             /\ \E d \in q[2].versions : d.name = p[2].default /\ Matched({d.is})
    BY <2>1
  <2>3. PICK d \in q[2].versions : d.name = p[2].default /\ Matched({d.is})
    BY <2>2
  <2>4. p[1] \in DOMAIN S /\ p[1][1] = "policy" /\ p[2] \in S[p[1]] \ {Gone} /\ q[2] \in S[p[1]]
    BY <2>2, StatesAre
  <2>5. p[2] = q[2] /\ past[p[1]] = {p[2]} /\ p[2] # Gone
    BY <2>4
  <2>6. p[1] = <<"policy", p[1][2]>>
    BY <2>4, Finished DEF WorldInv, WorldOK
  <2>7. d.is \in Documents(replies, key)
    <3> DEFINE n == p[1][2]
               u == p[2]
    <3>1. n \in v.attached /\ past[<<"policy", n>>] = {u} /\ u # Gone /\ d \in u.versions
          /\ d.name = u.default
      BY <2>2, <2>3, <2>5, <2>6
    <3> HIDE DEF n, u
    <3> QED BY <3>1, AttachedRead
  <2> QED BY <2>3, <2>7 DEF Matched
<1> QED BY <1>1, <1>2 DEF Unlimited

\* What is said of an identity's policies is honest.
LEMMA HonestPolicies ==
  ASSUME ScanInv, pc = "done", service = "iam", NEW kind \in Identities,
         NEW key \in ListedKeys(replies, kind), NEW f \in PolicyFindings(replies, key)
  PROVE  Honest(f)
<1>1. /\ key \in DOMAIN world /\ key[1] = kind /\ WorldInv
      /\ key \in DOMAIN PastWorld /\ PastWorld[key] = past[key]
      /\ DOMAIN AllSteady = DOMAIN world
  BY ListedIdentity, Finished, SteadyStates DEF Kubectl
<1>2. \/ f = Finding(AnalysisCheck[kind], "ERROR", key)
      \/ Matched(Documents(replies, key)) /\ f = Finding(WildcardCheck[kind], "HIGH", key)
      \/ /\ ~Matched(Documents(replies, key)) /\ ~HadErrors(replies, key)
         /\ f = Finding(WildcardCheck[kind], "PASS", key)
  BY <1>1 DEF PolicyFindings
<1>3. CASE f = Finding(AnalysisCheck[kind], "ERROR", key)
  BY <1>3, NoVerdict DEF Finding
<1>4. CASE Matched(Documents(replies, key)) /\ f = Finding(WildcardCheck[kind], "HIGH", key)
  <2>1. PICK d \in Documents(replies, key) : Matched({d})
    BY <1>4 DEF Matched
  <2>2. PICK v \in Seen(key) : Unlimited(PastWorld, v)
    BY <2>1, DocumentOf
  <2> DEFINE s == <<key, v>>
  <2>3. s \in States(PastWorld, kind) /\ s[1] = key /\ s[2] = v
    BY <1>1, <2>2, StatesAre DEF Seen
  <2>4. <<key, WildcardCheck[kind]>> \in Permissions(PastWorld)
    <3> HIDE DEF s
    <3> QED BY <2>2, <2>3, PermissionsAre
  <2>5. f.resource = key /\ f.check = WildcardCheck[kind] /\ f.severity = "HIGH"
    BY <1>4 DEF Finding
  <2> QED BY <2>4, <2>5 DEF Honest, TrueFinding, EarnedPass, Wrong
<1>5. CASE /\ ~Matched(Documents(replies, key)) /\ ~HadErrors(replies, key)
           /\ f = Finding(WildcardCheck[kind], "PASS", key)
  <2>1. f.resource = key /\ f.check = WildcardCheck[kind] /\ f.severity = "PASS"
    BY <1>5 DEF Finding
  <2>2. WildcardCheck[kind] \notin Summaries \union {"access_key_age", "access_key_last_used",
                                                     "role_trust_wildcard"}
    BY DEF WildcardCheck, Identities, Summaries
  <2>3. SUFFICES ASSUME NEW w \in Wrong(AllSteady), Denies(f, w) PROVE FALSE
    BY <2>1, ActionableIs DEF Honest, TrueFinding, EarnedPass
  <2>4. w = <<key, WildcardCheck[kind]>>
    BY <2>1, <2>2, <2>3 DEF Denies
  <2>5. CASE \E k \in DOMAIN AllSteady : \E v \in AllSteady[k] :
               w = <<k, w[2]>> /\ w[2] \in Flaws(k, v)
    <3>1. PICK v : w[2] \in Flaws(key, v)
      BY <2>4, <2>5
    <3>2. v # Gone
      BY <3>1 DEF Flaws
    <3> QED BY <1>1, <2>2, <2>4, <3>1, <3>2, FlawIs DEF Identities
  <2>6. CASE w \in IdleKeys(AllSteady)
    BY <2>2, <2>4, <2>6 DEF IdleKeys
  <2>7. CASE w \in Permissions(AllSteady)
    <3>1. PICK other \in Identities : \E s \in States(AllSteady, other) :
              Unlimited(AllSteady, s[2]) /\ w = <<s[1], WildcardCheck[other]>>
      BY <2>7, PermissionsAre
    <3>2. PICK s \in States(AllSteady, other) :
              Unlimited(AllSteady, s[2]) /\ w = <<s[1], WildcardCheck[other]>>
      BY <3>1
    <3>3. s[1] = key /\ s[2] \in AllSteady[key] \ {Gone}
      BY <2>4, <3>2, StatesAre
    <3> DEFINE v == s[2]
    <3>4. past[key] = {v} /\ v # Gone
      BY <1>1, <3>3, SteadyStates
    <3>5. \A k \in DOMAIN AllSteady : \A u \in AllSteady[k] : past[k] = {u}
      BY <1>1, SteadyStates
    <3>6. \A c \in PolicyCalls(replies, key) : Got(replies, c)
      BY <1>5 DEF HadErrors
    <3>7. Unlimited(AllSteady, v)
      BY <3>2
    <3> HIDE DEF v
    <3> QED BY <1>1, <1>5, <3>4, <3>5, <3>6, <3>7, UnlimitedRead
  <2> QED BY <1>1, <2>5, <2>6, <2>7, WrongByService DEF Kubectl
<1> QED BY <1>2, <1>3, <1>4, <1>5

\* What is said of a user's keys is true.
LEMMA HonestKeys ==
  ASSUME ScanInv, pc = "done", service = "iam", NEW key \in ListedKeys(replies, "user"),
         NEW f \in KeyFindings(replies, key)
  PROVE  Honest(f)
<1> DEFINE c == Get("list_access_keys", key)
           v == replies[c].show
           use(k) == Call("get_access_key_last_used", key, {k.name}, key)
<1>1. /\ key \in DOMAIN world /\ key[1] = "user" /\ WorldInv
      /\ key \in DOMAIN PastWorld /\ PastWorld[key] = past[key]
  BY ListedIdentity, Finished, SteadyStates DEF Kubectl, Identities
<1>2. \/ f = Finding("access_keys", "ERROR", key)
      \/ /\ Got(replies, c)
         /\ \E k \in v.keys : k.is.active /\ f = Finding("access_key_age", KeyAge(k.is), key)
      \/ /\ Got(replies, c)
         /\ \E k \in v.keys :
              /\ k.is.active
              /\ f = Finding("access_key_last_used",
                             IF Got(replies, use(k)) THEN KeyUse(replies[use(k)].show)
                             ELSE "ERROR", key)
  BY DEF KeyFindings
<1>3. Got(replies, c) => v \in Seen(key)
  <2>1. c.op \in Requested /\ c.key = key
    BY GetParts, RequestedOps
  <2> QED BY <2>1, ShownState
<1>4. CASE f = Finding("access_keys", "ERROR", key)
  BY <1>4, NoVerdict DEF Finding
<1>5. ASSUME Got(replies, c), NEW k \in v.keys, k.is.active,
             f = Finding("access_key_age", KeyAge(k.is), key)
      PROVE  Honest(f)
  <2>1. f.resource = key /\ f.check = "access_key_age" /\ f.severity = KeyAge(k.is)
    BY <1>5 DEF Finding
  <2>2. Actionable(f.severity) => f.check \in Flaws(key, v)
    <3> HIDE DEF v
    <3>1. v # Gone
      BY <1>3, <1>5 DEF Seen
    <3> QED BY <1>1, <1>5, <2>1, <3>1, PassUnlessIs, FlawIs DEF KeyAge
  <2>3. v \in PastWorld[key]
    BY <1>1, <1>3, <1>5 DEF Seen
  <2> HIDE DEF v
  <2> QED BY <1>1, <2>1, <2>2, <2>3, OwnFlaw DEF Honest, TrueFinding, EarnedPass
<1>6. ASSUME Got(replies, c), NEW k \in v.keys, k.is.active, Got(replies, use(k)),
             f = Finding("access_key_last_used", KeyUse(replies[use(k)].show), key)
      PROVE  Honest(f)
  <2> DEFINE e == use(k)
  <2>1. f.resource = key /\ f.check = "access_key_last_used" /\ f.severity = KeyUse(replies[e].show)
    BY <1>6 DEF Finding
  <2>2. e.op = "get_access_key_last_used" /\ e.key = key /\ e.arg = {k.name} /\ Got(replies, e)
    BY <1>6, CallParts
  <2> HIDE DEF e, v
  <2>3. PICK u \in Seen(key) : \E d \in u.keys : d.name = k.name /\ replies[e].show = d.is
    BY <2>2, PartShown
  <2>4. PICK d \in u.keys : d.name = k.name /\ replies[e].show = d.is
    BY <2>3
  <2>5. v \in PastWorld[key] \ {Gone} /\ u \in PastWorld[key] \ {Gone}
    BY <1>1, <1>3, <1>6 DEF Seen
  <2>6. Actionable(f.severity) => <<key, "access_key_last_used">> \in IdleKeys(PastWorld)
    <3> SUFFICES ASSUME d.is.used # "recently"
                 PROVE  <<key, "access_key_last_used">> \in IdleKeys(PastWorld)
      BY <2>1, <2>4, PassUnlessIs DEF KeyUse
    <3> QED BY <1>1, <1>6, <2>4, <2>5 DEF IdleKeys
  <2> QED BY <2>1, <2>6 DEF Honest, TrueFinding, EarnedPass, Wrong
<1>7. ASSUME NEW k, f = Finding("access_key_last_used", "ERROR", key)
      PROVE  Honest(f)
  BY <1>7, NoVerdict DEF Finding
<1> HIDE DEF use, v, c
<1> QED BY <1>2, <1>4, <1>5, <1>6, <1>7

\* An IAM scan is honest.
LEMMA HonestIam ==
  ASSUME ScanInv, pc = "done", service = "iam", NEW f \in AwsFindings(replies)
  PROVE  Honest(f)
<1>1. f \in IamFindings(replies)
  BY DEF AwsFindings
<1>2. CASE f = RootFinding(replies)
  <2> DEFINE c == Get("get_account_summary", Root)
             v == replies[c].show
  <2>1. c.op = "get_account_summary" /\ c.key = Root
    BY GetParts
  <2>2. CASE ~Got(replies, c)
    BY <1>2, <2>2, NoVerdict DEF RootFinding, Judged, Finding
  <2>3. CASE Got(replies, c)
    <3>1. Root \in DOMAIN world
      BY DEF ScanInv, WorldInv, WorldOK
    <3>2. v \in Seen(Root)
      <4> HIDE DEF c
      <4>1. TrueAnswer(c, replies[c].show)
        BY <2>3, Finished DEF Got, TrueReplies
      <4> QED BY <2>1, <4>1 DEF TrueAnswer, OfPart
    <3>3. f.resource = Root /\ f.check = "root_mfa" /\ f.severity = PassUnless(~v.mfa, "HIGH")
      BY <1>2, <2>3 DEF RootFinding, Judged, Finding
    <3>4. v # Gone /\ v \in past[Root] /\ Root[1] = "root"
      BY <3>2 DEF Seen, Root
    <3> HIDE DEF v
    <3>5. \A check : check \in Flaws(Root, v) <=> check = "root_mfa" /\ ~v.mfa
      BY <3>4, FlawIs
    <3> QED BY <3>1, <3>3, <3>4, <3>5, PassUnlessIs, Finished, VerdictOnState DEF Kubectl, Summaries
  <2> QED BY <2>2, <2>3
<1>3. CASE f \in ListErrors(replies) \union NoUsers(replies)
  BY <1>3, NoVerdict DEF ListErrors, NoUsers, Finding
<1>4. CASE \E key \in ListedKeys(replies, "role") : f = TrustFinding(replies, key)
  <2>1. PICK key \in ListedKeys(replies, "role") : f = TrustFinding(replies, key)
    BY <1>4
  <2> DEFINE c == Get("get_role", key)
             v == replies[c].show
  <2>2. key \in DOMAIN world /\ key[1] = "role"
    BY ListedIdentity DEF Identities
  <2>3. CASE ~Got(replies, c)
    BY <2>1, <2>3, NoVerdict DEF TrustFinding, Judged, Finding
  <2>4. CASE Got(replies, c)
    <3>1. c.op \in Requested /\ c.key = key
      BY GetParts, RequestedOps
    <3>2. v \in past[key] /\ v # Gone
      BY <2>4, <3>1, ShownState DEF Seen
    <3>3. f.resource = key /\ f.check = "role_trust_wildcard" /\ f.severity = TrustVerdict(v.trust)
      BY <2>1, <2>4 DEF TrustFinding, Judged, Finding
    <3> HIDE DEF v
    <3>4. \A check : check \in Flaws(key, v) <=>
                       check = "role_trust_wildcard" /\ v.trust.parses /\ TrustsAnyone(v.trust)
      BY <2>2, <3>2, FlawIs
    <3>5. CASE ~v.trust.parses
      BY <3>3, <3>5, NoVerdict DEF TrustVerdict
    <3>6. CASE v.trust.parses
      BY <2>2, <3>2, <3>3, <3>4, <3>6, PassUnlessIs, Finished, VerdictOnState
         DEF Kubectl, Summaries, TrustVerdict
    <3> QED BY <3>5, <3>6
  <2> QED BY <2>3, <2>4
<1> QED BY <1>1, <1>2, <1>3, <1>4, IamParts, HonestKeys, HonestPolicies

\* An AWS scan is honest.
LEMMA HonestAws ==
  ASSUME ScanInv, pc = "done", service \in Aws, NEW f \in AwsFindings(replies)
  PROVE  Honest(f)
BY HonestBuckets, HonestTrails, HonestDetectors, HonestGroups, HonestDatabases,
   HonestFunctions, HonestIam DEF Aws

-----------------------------------------------------------------------------
(* Containers and files                                                    *)

\* What a verdict of OrPass says.
LEMMA OrPassIs ==
  ASSUME NEW bad
  PROVE  /\ Actionable(OrPass(bad, "CRITICAL")) <=> bad
         /\ Actionable(OrPass(bad, "HIGH")) <=> bad
         /\ Actionable(OrPass(bad, "MEDIUM")) <=> bad
         /\ Actionable(OrPass(bad, "LOW")) <=> bad
BY ActionableIs DEF OrPass

\* The Docker socket counts however it is mounted, writable or not.
LEMMA SocketVerdict ==
  ASSUME NEW v
  PROVE  Actionable(ContainerVerdict("docker_socket_mount", v)) <=>
           \E m \in v.mounts : m.source = "socket"
<1>1. ContainerVerdict("docker_socket_mount", v) =
        Graded(Writable(Sockets(v)) # {}, Sockets(v) # {}, "CRITICAL", "HIGH")
  BY DEF ContainerVerdict
<1>2. Sockets(v) # {} <=> \E m \in v.mounts : m.source = "socket"
  BY DEF Sockets
<1>3. Writable(Sockets(v)) # {} => Sockets(v) # {}
  BY DEF Writable
<1>4. Actionable("CRITICAL")
  BY ActionableIs
<1> QED BY <1>1, <1>2, <1>3, <1>4, OrPassIs DEF Graded

\* A container that was inspected is one of the world, in a state it has been in.
LEMMA InspectedState ==
  ASSUME ScanInv, pc = "done", service = "daemon", NEW ids, Got(replies, Inspect(ids)),
         NEW r \in replies[Inspect(ids)].show
  PROVE  /\ <<"container", r.name>> \in DOMAIN world /\ r.is \in past[<<"container", r.name>>]
         /\ r.is # Gone /\ r.name \in ids
<1> DEFINE c == Inspect(ids)
<1>1. c.op = "inspect" /\ c.arg = ids
  BY DEF Inspect, Call
<1>2. c \in DOMAIN replies /\ CallOK(c) /\ TrueAnswer(c, replies[c].show)
  BY Finished DEF Got, TrueReplies
<1> HIDE DEF c
<1>3. Containers(ids) \subseteq DOMAIN world
  BY <1>1, <1>2, CallShape
<1>4. r.name \in ids /\ r.is \in Seen(<<"container", r.name>>)
  BY <1>1, <1>2 DEF TrueAnswer, c
<1> QED BY <1>3, <1>4 DEF Containers, Seen

\* A scan of the Docker daemon is honest.
LEMMA HonestContainers ==
  ASSUME ScanInv, pc = "done", service = "daemon", NEW f \in WorkloadFindings(replies)
  PROVE  Honest(f)
<1> DEFINE ids == {q.name : q \in Listed(replies, "container")}
           c == Inspect(ids)
<1>1. f \in DaemonFindings(replies)
  BY DEF WorkloadFindings
<1>2. \/ f \in Connection \union {Finding("container_inventory", "ERROR", Live),
                                  Finding("running_containers", "INFO", Live),
                                  Finding("container_inspect", "ERROR", Live)}
      \/ Got(replies, c) /\ \E r \in replies[c].show : f \in ContainerFindings(r)
  BY <1>1 DEF DaemonFindings
<1>3. CASE f \in Connection \union {Finding("container_inventory", "ERROR", Live),
                                    Finding("running_containers", "INFO", Live),
                                    Finding("container_inspect", "ERROR", Live)}
  BY <1>3, NoVerdict DEF Connection, Finding
<1>4. CASE Got(replies, c) /\ \E r \in replies[c].show : f \in ContainerFindings(r)
  <2>1. PICK r \in replies[c].show : f \in ContainerFindings(r)
    BY <1>4
  <2> DEFINE key == <<"container", r.name>>
             v == r.is
  <2>2. PICK check \in ContainerChecks :
          f.resource = key /\ f.check = check /\ f.severity = ContainerVerdict(check, v)
    BY <2>1 DEF ContainerFindings, Finding
  <2>3. key \in DOMAIN world /\ v \in past[key] /\ v # Gone
    BY <1>4, InspectedState
  <2>4. \A ch : ch \in Flaws(key, v) <=>
                 \/ /\ ch \in ContainerChecks \ {"docker_socket_mount"}
                    /\ Actionable(ContainerVerdict(ch, v))
                 \/ ch = "docker_socket_mount" /\ \E m \in v.mounts : m.source = "socket"
                 \/ /\ ch = "writable_sensitive_host_mount"
                    /\ \E m \in v.mounts : m.bind /\ m.source = "sensitive" /\ m.writable
    BY <2>3, FlawIs
  <2> HIDE DEF key, v
  <2>5. check \in Flaws(key, v) <=> Actionable(f.severity)
    <3>1. check # "writable_sensitive_host_mount"
      BY DEF ContainerChecks
    <3> QED BY <2>2, <2>4, <3>1, SocketVerdict
  <2>6. check \notin Summaries \union {"access_key_last_used", "user_wildcard_policy",
                                       "group_wildcard_policy", "role_wildcard_policy"}
    BY DEF Summaries, ContainerChecks
  <2>7. ~Actionable("PASS")
    BY ActionableIs
  <2> QED BY <2>2, <2>3, <2>5, <2>6, <2>7, Finished, VerdictOnState DEF Kubectl
<1> HIDE DEF c
<1> QED BY <1>2, <1>3, <1>4

\* A Dockerfile gets one verdict on each check.
LEMMA OneVerdict ==
  ASSUME NEW file, NEW v \in DockerfileVerdicts(file), NEW w \in DockerfileVerdicts(file),
         v[1] = w[1]
  PROVE  v = w
<1>1. BaseImage(file)[1] \in {"base_image", "base_image_latest"}
  BY DEF BaseImage
<1> QED BY <1>1 DEF DockerfileVerdicts

\* A file that was read is one of the world, in a state it has been in.
LEMMA FileRead ==
  ASSUME ScanInv, pc = "done", service \in {"dockerfile", "manifest"},
         NEW f \in WorkloadFindings(replies), ~(f.severity = "ERROR")
  PROVE  \E k \in DOMAIN world : \E v \in past[k] :
           /\ k[1] = service /\ v # Gone /\ Got(replies, Get("read", k))
           /\ v = replies[Get("read", k)].show
           /\ f \in FileFindings(v, k)
<1> DEFINE keys == {<<service, r.name>> : r \in Listed(replies, service)}
           Of(key) == LET c == Get("read", key)
                      IN  IF Got(replies, c) THEN FileFindings(replies[c].show, key)
                          ELSE {Finding("read", "ERROR", key)}
<1>1. WorkloadFindings(replies) = IF keys = {} THEN {Finding("discovery", "ERROR", Live)}
                                  ELSE UNION {Of(key) : key \in keys}
  BY DEF WorkloadFindings, FilesFindings
<1>2. PICK key \in keys : f \in Of(key)
  <2>1. Finding("discovery", "ERROR", Live).severity = "ERROR"
    BY DEF Finding
  <2> HIDE DEF Of, keys
  <2> QED BY <1>1, <2>1
<1> DEFINE c == Get("read", key)
<1>3. Got(replies, c) /\ f \in FileFindings(replies[c].show, key)
  BY <1>2 DEF Finding
<1>4. c.op \in Requested /\ c.key = key
  BY GetParts, RequestedOps
<1>5. key \in DOMAIN world /\ replies[c].show \in Seen(key)
  BY <1>3, <1>4, ShownState
<1>6. key[1] = service
  BY <1>2
<1> QED BY <1>3, <1>5, <1>6 DEF Seen

\* A scan of Dockerfiles is honest.
LEMMA HonestDockerfiles ==
  ASSUME ScanInv, pc = "done", service = "dockerfile", NEW f \in WorkloadFindings(replies)
  PROVE  Honest(f)
<1>1. CASE f.severity = "ERROR"
  BY <1>1, NoVerdict
<1>2. CASE f.severity # "ERROR"
  <2>0. PICK k \in DOMAIN world : \E v \in past[k] :
          k[1] = "dockerfile" /\ v # Gone /\ f \in FileFindings(v, k)
    BY <1>2, FileRead
  <2>1. PICK v \in past[k] : k[1] = "dockerfile" /\ v # Gone /\ f \in FileFindings(v, k)
    BY <2>0
  <2>2. PICK x \in DockerfileVerdicts(v.lines) : f = Finding(x[1], x[2], k)
    BY <2>1 DEF FileFindings
  <2>3. f.resource = k /\ f.check = x[1] /\ f.severity = x[2]
    BY <2>2 DEF Finding
  <2>4. f.check \in Flaws(k, v) <=> \E y \in DockerfileVerdicts(v.lines) :
                                        f.check = y[1] /\ Actionable(y[2])
    BY <2>1, FlawIs, ReportableIs
  <2>5. f.check \in Flaws(k, v) <=> Actionable(f.severity)
    BY <2>2, <2>3, <2>4, OneVerdict
  <2>6. f.check \notin Summaries \union {"access_key_last_used", "user_wildcard_policy",
                                         "group_wildcard_policy", "role_wildcard_policy"}
    <3>1. x[1] \in {"base_image", "base_image_latest", "root_user", "embedded_secret",
                    "remote_add", "remote_shell_pipe", "world_writable_permissions"}
      BY <2>2 DEF DockerfileVerdicts, BaseImage
    <3> QED BY <2>3, <3>1 DEF Summaries
  <2>7. ~Actionable("PASS")
    BY ActionableIs
  <2> QED BY <2>1, <2>3, <2>5, <2>6, <2>7, Finished, VerdictOnState DEF Kubectl
<1> QED BY <1>1, <1>2

\* Whose pod specs are wrong, and which clusters expose a service.
LEMMA SpecsAre ==
  ASSUME NEW S
  PROVE  /\ \A w \in Specs(S) :
              \/ \E s \in States(S, "manifest") : \E d \in s[2].workloads :
                   w = <<<<"workload", d.name>>, w[2]>> /\ w[2] \in PodFlaws(d.is)
              \/ /\ service = "cluster"
                 /\ \E i \in Inventories(S, "pods") : \E p \in i[2] :
                      w = <<<<"pod", p.name>>, w[2]>> /\ w[2] \in PodFlaws(p.is)
              \/ /\ service = "cluster" /\ w = <<Live, "external_service">>
                 /\ \E i \in Inventories(S, "services") : ServiceVerdict(i[2]) = "LOW"
         /\ \A s \in States(S, "manifest") : \A d \in s[2].workloads : \A ch \in PodFlaws(d.is) :
              <<<<"workload", d.name>>, ch>> \in Specs(S)
         /\ service = "cluster" =>
              \A i \in Inventories(S, "pods") : \A p \in i[2] : \A ch \in PodFlaws(p.is) :
                <<<<"pod", p.name>>, ch>> \in Specs(S)
         /\ service = "cluster" =>
              \A i \in Inventories(S, "services") :
                ServiceVerdict(i[2]) = "LOW" => <<Live, "external_service">> \in Specs(S)
<1> DEFINE docs == UNION {s[2].workloads : s \in States(S, "manifest")}
           ofDoc(d) == {<<"workload", d.name>>} \X PodFlaws(d.is)
           pods == UNION {i[2] : i \in Inventories(S, "pods")}
           ofPod(p) == {<<"pod", p.name>>} \X PodFlaws(p.is)
           open == {j \in Inventories(S, "services") : ServiceVerdict(j[2]) = "LOW"}
           exposed == {<<Live, "external_service">> : i \in open}
<1>1. Specs(S) = (UNION {ofDoc(d) : d \in docs})
                 \union (IF service # "cluster" THEN {}
                         ELSE (UNION {ofPod(p) : p \in pods}) \union exposed)
  BY DEF Specs
<1>2. \A d : d \in docs <=> \E s \in States(S, "manifest") : d \in s[2].workloads
  OBVIOUS
<1>3. \A p : p \in pods <=> \E i \in Inventories(S, "pods") : p \in i[2]
  OBVIOUS
<1>4. \A w : w \in exposed <=>
        \E i \in Inventories(S, "services") :
          ServiceVerdict(i[2]) = "LOW" /\ w = <<Live, "external_service">>
  OBVIOUS
<1>5. \A d, w : w \in ofDoc(d) <=> w = <<<<"workload", d.name>>, w[2]>> /\ w[2] \in PodFlaws(d.is)
  OBVIOUS
<1>6. \A p, w : w \in ofPod(p) <=> w = <<<<"pod", p.name>>, w[2]>> /\ w[2] \in PodFlaws(p.is)
  OBVIOUS
<1> HIDE DEF docs, pods, exposed, ofDoc, ofPod
<1>7. \A w : w \in Specs(S) <=>
        \/ \E d \in docs : w \in ofDoc(d)
        \/ service = "cluster" /\ \E p \in pods : w \in ofPod(p)
        \/ service = "cluster" /\ w \in exposed
  BY <1>1
<1>8. \A d \in docs : \A ch \in PodFlaws(d.is) : <<<<"workload", d.name>>, ch>> \in Specs(S)
  BY <1>5, <1>7
<1>9. service = "cluster" =>
        \A p \in pods : \A ch \in PodFlaws(p.is) : <<<<"pod", p.name>>, ch>> \in Specs(S)
  BY <1>6, <1>7
<1> QED BY <1>2, <1>3, <1>4, <1>5, <1>6, <1>7, <1>8, <1>9

\* The flaws of a pod are the checks it does not pass.
LEMMA PodFlawIs ==
  ASSUME NEW pod, NEW ch \in PodChecks
  PROVE  ch \in PodFlaws(pod) <=> Actionable(PodVerdict(ch, pod))
BY DEF PodFlaws

\* A scan of manifests is honest.
LEMMA HonestManifests ==
  ASSUME ScanInv, pc = "done", service = "manifest", NEW f \in WorkloadFindings(replies)
  PROVE  Honest(f)
<1>1. CASE f.severity = "ERROR"
  BY <1>1, NoVerdict
<1>2. CASE f.severity # "ERROR"
  <2>0. PICK k \in DOMAIN world : \E v \in past[k] :
          k[1] = "manifest" /\ v # Gone /\ f \in FileFindings(v, k)
    BY <1>2, FileRead
  <2>1. PICK v \in past[k] : k[1] = "manifest" /\ v # Gone /\ f \in FileFindings(v, k)
    BY <2>0
  <2>2. f \in ManifestFindings(v, k)
    BY <2>1 DEF FileFindings
  <2>3. PICK d \in v.workloads : f \in PodFindings(d.is, <<"workload", d.name>>)
    <3>1. Finding("parse", "ERROR", k).severity = "ERROR"
      BY DEF Finding
    <3> QED BY <1>2, <2>2, <3>1 DEF ManifestFindings
  <2>4. PICK ch \in PodChecks :
          /\ f.resource = <<"workload", d.name>> /\ f.check = ch
          /\ f.severity = PodVerdict(ch, d.is)
    BY <2>3 DEF PodFindings, Finding
  <2> DEFINE s == <<k, v>>
  <2>5. s \in States(PastWorld, "manifest") /\ s[1] = k /\ s[2] = v
    BY <2>1, StatesAre, SteadyStates, Finished DEF Kubectl
  <2> HIDE DEF s
  <2>6. TrueFinding(f)
    <3> SUFFICES ASSUME Actionable(f.severity)
                 PROVE  <<<<"workload", d.name>>, ch>> \in Specs(PastWorld)
      BY <2>4 DEF TrueFinding, Wrong
    <3>1. ch \in PodFlaws(d.is)
      BY <2>4, PodFlawIs
    <3> QED BY <2>3, <2>5, <3>1, SpecsAre
  <2>7. ASSUME f.severity = "PASS", NEW w \in Wrong(AllSteady), Denies(f, w)
        PROVE  Namesakes(f.resource)
    <3>1. ch \notin Summaries
      BY DEF PodChecks, Summaries
    <3>2. w = <<<<"workload", d.name>>, ch>>
      BY <2>4, <2>7, <3>1 DEF Denies
    <3>3. DOMAIN AllSteady = DOMAIN world /\ \A j \in DOMAIN world : j[1] = "manifest"
      BY SteadyStates, Finished, KindsOfServices DEF WorldInv, WorldOK
    <3>4. w \in Specs(AllSteady)
      BY <3>2, <3>3, Finished, WrongByService DEF Kubectl
    <3>5. PICK t \in States(AllSteady, "manifest") : \E e \in t[2].workloads :
            w = <<<<"workload", e.name>>, w[2]>> /\ w[2] \in PodFlaws(e.is)
      BY <3>4, SpecsAre
    <3>6. PICK e \in t[2].workloads :
            w = <<<<"workload", e.name>>, w[2]>> /\ w[2] \in PodFlaws(e.is)
      BY <3>5
    <3>7. e.name = d.name /\ e.is # d.is
      BY <2>4, <2>7, <3>2, <3>6, PodFlawIs, ActionableIs
    <3>8. t = <<t[1], t[2]>> /\ t[1] \in DOMAIN world /\ t[1][1] = "manifest"
          /\ t[2] \in AllSteady[t[1]] \ {Gone}
      BY <3>3, <3>5, StatesAre
    <3>9. past[t[1]] = {t[2]} /\ PastWorld[t[1]] = past[t[1]] /\ DOMAIN PastWorld = DOMAIN world
      BY <3>8, SteadyStates, Finished DEF Kubectl
    <3>10. t \in States(PastWorld, "manifest")
      BY <3>8, <3>9, StatesAre
    <3>11. s[1] = t[1] => s[2] = t[2]
      BY <2>1, <2>5, <3>9
    <3> QED BY <2>3, <2>4, <2>5, <3>6, <3>7, <3>10, <3>11 DEF Namesakes
  <2> QED BY <2>6, <2>7 DEF Honest, EarnedPass
<1> QED BY <1>1, <1>2

-----------------------------------------------------------------------------
(* Clusters                                                                *)

\* The inventories that clusters may have.
LEMMA InventoriesAre ==
  ASSUME NEW S, NEW kind
  PROVE  /\ \A i \in Inventories(S, kind) : \E k \in DOMAIN S : \E v \in S[k] \ {Gone} :
              k[1] = kind /\ i = <<k[2], v.items>>
         /\ \A k \in DOMAIN S : \A v \in S[k] \ {Gone} :
              k[1] = kind => <<k[2], v.items>> \in Inventories(S, kind)
<1>1. ASSUME NEW i \in Inventories(S, kind)
      PROVE  \E k \in DOMAIN S : \E v \in S[k] \ {Gone} : k[1] = kind /\ i = <<k[2], v.items>>
  <2>1. PICK s \in States(S, kind) : i = <<s[1][2], s[2].items>>
    BY DEF Inventories
  <2> QED BY <2>1, StatesAre
<1>2. ASSUME NEW k \in DOMAIN S, NEW v \in S[k] \ {Gone}, k[1] = kind
      PROVE  <<k[2], v.items>> \in Inventories(S, kind)
  <2> DEFINE s == <<k, v>>
  <2>1. s \in States(S, kind) /\ s[1] = k /\ s[2] = v
    BY <1>2, StatesAre
  <2> HIDE DEF s
  <2> QED BY <2>1 DEF Inventories
<1> QED BY <1>1, <1>2

\* What a kubectl answer says was so of the cluster that was asked, and is so if nothing
\* has changed since.
LEMMA LiveAnswer ==
  ASSUME ScanInv, pc = "done", service \in Kubectl, OneCluster,
         NEW kind \in Kinds[service] \ {"context"}, Got(replies, Kube(kind)),
         NEW S, DOMAIN S = DOMAIN world,
         \A k \in DOMAIN S : \A v \in S[k] : InScope(k) /\ past[k] = {v}
  PROVE  LET from == replies[Kube(kind)].show.from
         IN  /\ Clusters = {from}
             /\ <<from, Items(replies, kind)>> \in Inventories(PastWorld, kind)
             /\ kind \in {"namespaces", "pods"} => ByName(Items(replies, kind))
             /\ \A i \in Inventories(S, kind) : i = <<from, Items(replies, kind)>>
<1> DEFINE c == Kube(kind)
           from == replies[c].show.from
           v == replies[c].show.is
           k == <<kind, from>>
<1>1. c.op = "kubectl" /\ c.key[1] = kind
  BY DEF Kube, Get, Call
<1>2. TrueAnswer(c, replies[c].show) /\ WorldInv
  BY Finished DEF Got, TrueReplies
<1>3. from \in Clusters /\ k \in DOMAIN world /\ v \in Seen(k)
  <2> HIDE DEF c
  <2> QED BY <1>1, <1>2 DEF TrueAnswer
<1>4. Items(replies, kind) = v.items
  BY DEF Items
<1>5. Clusters = {from}
  BY <1>3 DEF OneCluster
<1>6. StateOK(world, k, v)
  BY <1>2, <1>3, SeenStates
<1>7. k[1] = kind /\ k[2] = from
  OBVIOUS
<1> HIDE DEF c, from, v, k
<1>8. kind \in {"namespaces", "pods"} => ByName(v.items)
  BY <1>6, <1>7 DEF StateOK
<1>9. <<from, v.items>> \in Inventories(PastWorld, kind)
  <2>1. k \in DOMAIN PastWorld /\ PastWorld[k] = past[k]
    BY <1>2, <1>3, <1>7, SteadyStates DEF InScope
  <2>2. v \in PastWorld[k] \ {Gone}
    BY <1>3, <2>1 DEF Seen
  <2> QED BY <1>7, <2>1, <2>2, InventoriesAre
<1>10. ASSUME NEW i \in Inventories(S, kind)
       PROVE  i = <<from, v.items>>
  <2>1. PICK j \in DOMAIN S : \E u \in S[j] \ {Gone} : j[1] = kind /\ i = <<j[2], u.items>>
    BY InventoriesAre
  <2>2. PICK u \in S[j] \ {Gone} : j[1] = kind /\ i = <<j[2], u.items>>
    BY <2>1
  <2>3. j[2] = from /\ past[j] = {u}
    BY <1>5, <2>2 DEF InScope
  <2>4. j = <<kind, from>>
    BY <1>2, <2>2, <2>3 DEF WorldInv, WorldOK
  <2>5. u = v
    BY <1>3, <2>3, <2>4 DEF Seen, k
  <2> QED BY <2>2, <2>3, <2>5
<1> QED BY <1>4, <1>5, <1>8, <1>9, <1>10 DEF c, from

\* A steady world is in scope and in one state, as LiveAnswer asks.
LEMMA SteadyScope ==
  ASSUME WorldInv
  PROVE  /\ DOMAIN AllSteady = DOMAIN world /\ DOMAIN Quiet = DOMAIN world
         /\ \A k \in DOMAIN AllSteady : \A v \in AllSteady[k] : InScope(k) /\ past[k] = {v}
         /\ \A k \in DOMAIN Quiet : \A v \in Quiet[k] : InScope(k) /\ past[k] = {v}
BY SteadyStates

\* What is wrong in a cluster is wrong with a pod, or with the services.
LEMMA WrongInCluster ==
  ASSUME WorldInv, service = "cluster", NEW S, DOMAIN S = DOMAIN world, NEW w \in Wrong(S)
  PROVE  w \in Specs(S)
<1>1. \A k \in DOMAIN S : k[1] \in {"context", "pods", "services"}
  BY KindsOfServices DEF WorldInv, WorldOK
<1>2. \A k \in DOMAIN S : \A v \in S[k] : \A check : check \notin Flaws(k, v)
  <2> TAKE k \in DOMAIN S
  <2> TAKE v \in S[k]
  <2> TAKE check
  <2>1. v = Gone => check \notin Flaws(k, v)
    BY DEF Flaws
  <2> QED BY <1>1, <2>1, FlawIs
<1> QED BY <1>2, WrongByService

\* A scan of a live cluster is honest.
LEMMA HonestClusters ==
  ASSUME ScanInv, pc = "done", service = "cluster", OneCluster,
         NEW f \in WorkloadFindings(replies)
  PROVE  Honest(f)
<1> DEFINE pods == Items(replies, "pods")
           services == Items(replies, "services")
           ofPod(p) == PodFindings(p.is, <<"pod", p.name>>)
           empty == IF pods = {} THEN {Finding("pod_inventory", "INFO", Live)} ELSE {}
           ofPods == UNION {ofPod(p) : p \in pods}
           ofServices == {IF Got(replies, Kube("services"))
                          THEN Finding("external_service", ServiceVerdict(services), Live)
                          ELSE Finding("service_inventory", "ERROR", Live)}
<1>1. WorkloadFindings(replies) =
        IF Unavailable(replies) THEN Connection
        ELSE IF ~Got(replies, Kube("pods")) THEN {Finding("pod_inventory", "ERROR", Live)}
        ELSE empty \union ofPods \union ofServices
  BY DEF WorkloadFindings, ClusterFindings
<1>2. /\ "pods" \in Kinds[service] \ {"context"} /\ "services" \in Kinds[service] \ {"context"}
      /\ service \in Kubectl /\ WorldInv
  BY KindsOfServices, Finished DEF Kubectl
<1>3. CASE f \in Connection \union {Finding("pod_inventory", "ERROR", Live),
                                    Finding("pod_inventory", "INFO", Live),
                                    Finding("service_inventory", "ERROR", Live)}
  BY <1>3, NoVerdict DEF Connection, Finding
<1>4. CASE Got(replies, Kube("pods")) /\ f \in ofPods
  <2>1. PICK p \in pods : f \in ofPod(p)
    <3> HIDE DEF ofPod, pods
    <3> QED BY <1>4
  <2>2. PICK ch \in PodChecks :
          /\ f.resource = <<"pod", p.name>> /\ f.check = ch
          /\ f.severity = PodVerdict(ch, p.is)
    BY <2>1 DEF PodFindings, Finding
  <2> DEFINE from == replies[Kube("pods")].show.from
             i == <<from, pods>>
  <2>3. /\ i \in Inventories(PastWorld, "pods") /\ ByName(pods)
        /\ \A j \in Inventories(AllSteady, "pods") : j = i
    BY <1>2, <1>4, SteadyScope, LiveAnswer
  <2>4. i[2] = pods
    OBVIOUS
  <2> HIDE DEF i, pods
  <2>5. TrueFinding(f)
    <3> SUFFICES ASSUME Actionable(f.severity)
                 PROVE  <<<<"pod", p.name>>, ch>> \in Specs(PastWorld)
      BY <2>2 DEF TrueFinding, Wrong
    <3>1. ch \in PodFlaws(p.is)
      BY <2>2, PodFlawIs
    <3> QED BY <2>1, <2>3, <2>4, <3>1, SpecsAre
  <2>6. ASSUME f.severity = "PASS", NEW w \in Wrong(AllSteady), Denies(f, w)
        PROVE  FALSE
    <3>1. ch \notin Summaries
      BY DEF PodChecks, Summaries
    <3>2. w = <<<<"pod", p.name>>, ch>>
      BY <2>2, <2>6, <3>1 DEF Denies
    <3>3. w \in Specs(AllSteady)
      BY <1>2, SteadyScope, WrongInCluster
    <3>4. PICK q \in pods : w = <<<<"pod", q.name>>, w[2]>> /\ w[2] \in PodFlaws(q.is)
      BY <2>3, <2>4, <3>2, <3>3, SpecsAre DEF Live
    <3>5. q = p
      BY <2>1, <2>3, <3>2, <3>4 DEF ByName
    <3> QED BY <2>2, <2>6, <3>2, <3>4, <3>5, PodFlawIs, ActionableIs
  <2> QED BY <2>5, <2>6 DEF Honest, EarnedPass
<1>5. CASE /\ Got(replies, Kube("services"))
           /\ f = Finding("external_service", ServiceVerdict(services), Live)
  <2>1. f.resource = Live /\ f.check = "external_service" /\ f.severity = ServiceVerdict(services)
    BY <1>5 DEF Finding
  <2>2. ServiceVerdict(services) \in {"LOW", "PASS"}
    BY DEF ServiceVerdict, OrPass
  <2> DEFINE i == <<replies[Kube("services")].show.from, services>>
  <2>3. /\ i \in Inventories(PastWorld, "services")
        /\ \A j \in Inventories(AllSteady, "services") : j = i
    BY <1>2, <1>5, SteadyScope, LiveAnswer
  <2>4. i[2] = services
    OBVIOUS
  <2> HIDE DEF i, services
  <2>5. TrueFinding(f)
    <3> SUFFICES ASSUME ServiceVerdict(services) = "LOW"
                 PROVE  <<Live, "external_service">> \in Specs(PastWorld)
      BY <2>1, <2>2, ActionableIs DEF TrueFinding, Wrong
    <3> QED BY <2>3, <2>4, SpecsAre
  <2>6. ASSUME f.severity = "PASS", NEW w \in Wrong(AllSteady), Denies(f, w)
        PROVE  FALSE
    <3>1. w = <<Live, "external_service">>
      BY <2>1, <2>6 DEF Denies, Summaries
    <3>2. w \in Specs(AllSteady)
      BY <1>2, SteadyScope, WrongInCluster
    <3>3. ServiceVerdict(services) = "LOW"
      <4>1. \A name : Live # <<"pod", name>> /\ Live # <<"workload", name>>
        BY DEF Live
      <4>2. CASE \E j \in Inventories(AllSteady, "services") : ServiceVerdict(j[2]) = "LOW"
        BY <2>3, <2>4, <4>2
      <4> QED BY <3>1, <3>2, <4>1, <4>2, SpecsAre
    <3> QED BY <2>1, <2>6, <3>3
  <2> QED BY <2>5, <2>6 DEF Honest, EarnedPass
<1> HIDE DEF ofPods, pods, services
<1> QED BY <1>1, <1>3, <1>4, <1>5

-----------------------------------------------------------------------------
(* Admission                                                               *)

Webhooks == {"validatingwebhooks", "mutatingwebhooks"}

\* The namespaces of a cluster in which it has pods of its own.
LEMMA InhabitedAre ==
  ASSUME NEW S, NEW n
  PROVE  n \in Inhabited(S) <=>
           /\ n.name \notin SystemNamespaces
           /\ \E i \in Inventories(S, "namespaces") :
                /\ n \in i[2]
                /\ \E j \in Inventories(S, "pods") : j[1] = i[1] /\ \E p \in j[2] : p.ns = n.name
<1> DEFINE of(i) == {m \in i[2] : /\ m.name \notin SystemNamespaces
                                  /\ \E j \in Inventories(S, "pods") :
                                       j[1] = i[1] /\ \E p \in j[2] : p.ns = m.name}
<1>1. Inhabited(S) = UNION {of(i) : i \in Inventories(S, "namespaces")}
  BY DEF Inhabited
<1>2. n \in Inhabited(S) <=> \E i \in Inventories(S, "namespaces") : n \in of(i)
  <2> HIDE DEF of
  <2> QED BY <1>1
<1> QED BY <1>2

\* What admission lets through: a namespace without a level, or a webhook that fails open.
LEMMA AdmittedAre ==
  ASSUME NEW S, service = "admission", NEW w
  PROVE  w \in Admitted(S) <=>
           \/ \E n \in Inhabited(S) :
                /\ w = <<<<"namespace", n.name>>, PodSecurityVerdict(n.enforce)[1]>>
                /\ Actionable(PodSecurityVerdict(n.enforce)[2])
           \/ \E kind \in Webhooks : \E i \in Inventories(S, kind) : \E h \in FailOpen(i[2]) :
                w = <<<<kind, h.name>>, WebhookVerdict(h)[1]>>
<1> DEFINE ofSpace(n) == {<<"namespace", n.name>>} \X Reportable({PodSecurityVerdict(n.enforce)})
           ofItems(kind, i) == {<<<<kind, h.name>>, WebhookVerdict(h)[1]>> : h \in FailOpen(i[2])}
           ofKind(kind) == UNION {ofItems(kind, i) : i \in Inventories(S, kind)}
           spaces == UNION {ofSpace(n) : n \in Inhabited(S)}
           hooks == UNION {ofKind(kind) : kind \in Webhooks}
<1>1. Admitted(S) = spaces \union hooks
  BY DEF Admitted, Webhooks
<1>2. \A n : \A x : x \in ofSpace(n) <=>
        /\ x = <<<<"namespace", n.name>>, PodSecurityVerdict(n.enforce)[1]>>
        /\ Actionable(PodSecurityVerdict(n.enforce)[2])
  <2> TAKE n
  <2> DEFINE v == PodSecurityVerdict(n.enforce)
             checks == Reportable({v})
  <2>1. \A check : check \in checks <=> check = v[1] /\ Actionable(v[2])
    BY ReportableIs
  <2> HIDE DEF v, checks
  <2>2. \A x : x \in {<<"namespace", n.name>>} \X checks <=>
                 x = <<<<"namespace", n.name>>, x[2]>> /\ x[2] \in checks
    OBVIOUS
  <2>3. \A x : x \in {<<"namespace", n.name>>} \X checks <=>
                 x = <<<<"namespace", n.name>>, v[1]>> /\ Actionable(v[2])
    BY <2>1, <2>2
  <2> QED BY <2>3 DEF v, checks
<1>3. \A kind, i, x : x \in ofItems(kind, i) <=>
        \E h \in FailOpen(i[2]) : x = <<<<kind, h.name>>, WebhookVerdict(h)[1]>>
  OBVIOUS
<1> HIDE DEF ofSpace, ofItems
<1>4. \A x : x \in spaces <=> \E n \in Inhabited(S) : x \in ofSpace(n)
  OBVIOUS
<1>5. \A kind, x : x \in ofKind(kind) <=> \E i \in Inventories(S, kind) : x \in ofItems(kind, i)
  OBVIOUS
<1> HIDE DEF ofKind, spaces
<1>6. \A x : x \in hooks <=> \E kind \in Webhooks : x \in ofKind(kind)
  OBVIOUS
<1> HIDE DEF hooks
<1>7. w \in spaces <=> \E n \in Inhabited(S) :
        /\ w = <<<<"namespace", n.name>>, PodSecurityVerdict(n.enforce)[1]>>
        /\ Actionable(PodSecurityVerdict(n.enforce)[2])
  BY <1>2, <1>4
<1>8. w \in hooks <=>
        \E kind \in Webhooks : \E i \in Inventories(S, kind) : \E h \in FailOpen(i[2]) :
          w = <<<<kind, h.name>>, WebhookVerdict(h)[1]>>
  BY <1>3, <1>5, <1>6
<1> QED BY <1>1, <1>7, <1>8

\* What is wrong with a cluster's admission is in what it admits.
LEMMA WrongInAdmission ==
  ASSUME WorldInv, service = "admission", NEW S, DOMAIN S = DOMAIN world, NEW w \in Wrong(S)
  PROVE  w \in Admitted(S)
<1>1. \A k \in DOMAIN S : k[1] \in {"context", "namespaces", "pods", "validatingwebhooks",
                                   "mutatingwebhooks"}
  BY KindsOfServices DEF WorldInv, WorldOK
<1>2. \A k \in DOMAIN S : \A v \in S[k] : \A check : check \notin Flaws(k, v)
  <2> TAKE k \in DOMAIN S
  <2> TAKE v \in S[k]
  <2> TAKE check
  <2>1. v = Gone => check \notin Flaws(k, v)
    BY DEF Flaws
  <2> QED BY <1>1, <2>1, FlawIs
<1> QED BY <1>2, WrongByService

\* The pod security findings speak of the namespaces that the shown pods are in.
LEMMA AdmissionOfIs ==
  ASSUME NEW namespaces, NEW pods, NEW f \in AdmissionOf(namespaces, pods)
  PROVE  \/ /\ f = Finding("psa", "PASS", <<"namespace", "any">>)
            /\ \A p \in pods : p.ns \in SystemNamespaces
         \/ \E p \in pods :
              /\ p.ns \notin SystemNamespaces
              /\ \/ f = Finding("namespace_resolution", "ERROR", <<"namespace", p.ns>>)
                 \/ \E n \in namespaces :
                      /\ n.name = p.ns
                      /\ f = Finding(PodSecurityVerdict(n.enforce)[1],
                                     PodSecurityVerdict(n.enforce)[2], <<"namespace", p.ns>>)
<1> DEFINE names == {p.ns : p \in pods} \ SystemNamespaces
           known(name) == {n \in namespaces : n.name = name}
           level(name) == PodSecurityVerdict((CHOOSE n \in known(name) : TRUE).enforce)
           of(name) == IF known(name) = {}
                       THEN Finding("namespace_resolution", "ERROR", <<"namespace", name>>)
                       ELSE Finding(level(name)[1], level(name)[2], <<"namespace", name>>)
           found == {of(name) : name \in names}
<1>1. AdmissionOf(namespaces, pods) = IF found = {}
                                      THEN {Finding("psa", "PASS", <<"namespace", "any">>)}
                                      ELSE found
  BY DEF AdmissionOf
<1>2. CASE found = {}
  <2>1. names = {}
    <3> HIDE DEF of
    <3> QED BY <1>2
  <2> QED BY <1>1, <1>2, <2>1
<1>3. CASE found # {}
  <2>1. PICK name \in names : f = of(name)
    <3> HIDE DEF of, names
    <3> QED BY <1>1, <1>3
  <2>2. PICK p \in pods : p.ns = name /\ name \notin SystemNamespaces
    BY <2>1
  <2>3. known(name) # {} => (CHOOSE n \in known(name) : TRUE) \in known(name)
    OBVIOUS
  <2> QED BY <2>1, <2>2, <2>3
<1> QED BY <1>2, <1>3

\* A scan of admission control is honest.
LEMMA HonestAdmission ==
  ASSUME ScanInv, pc = "done", service = "admission", OneCluster,
         NEW f \in WorkloadFindings(replies)
  PROVE  Honest(f)
<1> DEFINE failed == {kind \in ToSet(AdmissionReads) : ~Got(replies, Kube(kind))}
           errors == {Finding(kind, "ERROR", Live) : kind \in failed}
           levels == IF failed \intersect {"namespaces", "pods"} # {} THEN {}
                     ELSE AdmissionOf(Items(replies, "namespaces"), Items(replies, "pods"))
           ofHook(kind) == WebhookFindings(kind, Items(replies, kind))
           hooks == UNION {ofHook(kind) : kind \in Webhooks \ failed}
<1>1. WorkloadFindings(replies) =
        IF Unavailable(replies) THEN Connection
        ELSE IF errors \union levels \union hooks = {} THEN {Finding("inventory", "PASS", Live)}
        ELSE errors \union levels \union hooks
  BY DEF WorkloadFindings, AdmissionFindings, Webhooks
<1>2. /\ \A kind \in ToSet(AdmissionReads) : kind \in Kinds[service] \ {"context"}
      /\ service \in Kubectl /\ WorldInv
  BY AdmissionKinds, KindsOfServices, Finished DEF Kubectl
<1>3. CASE f \in Connection \union errors
  BY <1>3, NoVerdict DEF Connection, Finding
<1>4. \A kind \in ToSet(AdmissionReads) \ failed :
        LET i == <<replies[Kube(kind)].show.from, Items(replies, kind)>>
        IN  /\ Clusters = {i[1]} /\ i[2] = Items(replies, kind)
            /\ i \in Inventories(PastWorld, kind)
            /\ kind \in {"namespaces", "pods"} => ByName(Items(replies, kind))
            /\ \A j \in Inventories(AllSteady, kind) : j = i
  BY <1>2, SteadyScope, LiveAnswer
<1>5. ASSUME NEW w \in Wrong(AllSteady)
      PROVE  w \in Admitted(AllSteady)
  BY <1>2, SteadyScope, WrongInAdmission
<1>6. CASE f = Finding("inventory", "PASS", Live)
  <2>1. f.resource = Live /\ f.check = "inventory" /\ f.severity = "PASS"
    BY <1>6 DEF Finding
  <2>2. ASSUME NEW w \in Wrong(AllSteady), Denies(f, w)
        PROVE  FALSE
    <3>1. w[1] = Live
      BY <2>1, <2>2 DEF Denies, Summaries
    <3> QED BY <1>5, <3>1, AdmittedAre DEF Live, Webhooks
  <2> QED BY <2>1, <2>2, ActionableIs DEF Honest, TrueFinding, EarnedPass
<1>7. CASE f \in levels
  <2> DEFINE pods == Items(replies, "pods")
             namespaces == Items(replies, "namespaces")
             i == <<replies[Kube("namespaces")].show.from, namespaces>>
             j == <<replies[Kube("pods")].show.from, pods>>
  <2>1. f \in AdmissionOf(namespaces, pods) /\ {"namespaces", "pods"} \intersect failed = {}
    BY <1>7
  <2>2. /\ i \in Inventories(PastWorld, "namespaces") /\ j \in Inventories(PastWorld, "pods")
        /\ i[1] = j[1] /\ i[2] = namespaces /\ j[2] = pods /\ ByName(namespaces)
        /\ \A x \in Inventories(AllSteady, "namespaces") : x = i
        /\ \A x \in Inventories(AllSteady, "pods") : x = j
    BY <1>4, <2>1, AdmissionKinds
  <2> HIDE DEF i, j, pods, namespaces, failed
  <2>3. CASE /\ f = Finding("psa", "PASS", <<"namespace", "any">>)
             /\ \A p \in pods : p.ns \in SystemNamespaces
    <3>1. f.resource = <<"namespace", "any">> /\ f.check = "psa" /\ f.severity = "PASS"
      BY <2>3 DEF Finding
    <3>2. ASSUME NEW w \in Wrong(AllSteady), Denies(f, w)
          PROVE  FALSE
      <4>1. w[1][1] = "namespace"
        BY <3>1, <3>2 DEF Denies
      <4>2. PICK n \in Inhabited(AllSteady) : TRUE
        BY <1>5, <4>1, AdmittedAre DEF Webhooks
      <4> QED BY <2>2, <2>3, <4>2, InhabitedAre
    <3> QED BY <3>1, <3>2, ActionableIs DEF Honest, TrueFinding, EarnedPass
  <2>4. ASSUME NEW p \in pods, f = Finding("namespace_resolution", "ERROR", <<"namespace", p.ns>>)
        PROVE  Honest(f)
    BY <2>4, NoVerdict DEF Finding
  <2>5. ASSUME NEW p \in pods, p.ns \notin SystemNamespaces, NEW n \in namespaces, n.name = p.ns,
               f = Finding(PodSecurityVerdict(n.enforce)[1], PodSecurityVerdict(n.enforce)[2],
                           <<"namespace", p.ns>>)
        PROVE  Honest(f)
    <3> DEFINE check == PodSecurityVerdict(n.enforce)[1]
               severity == PodSecurityVerdict(n.enforce)[2]
    <3>1. f.resource = <<"namespace", n.name>> /\ f.check = check /\ f.severity = severity
      BY <2>5 DEF Finding
    <3>2. check \notin Summaries
      BY DEF PodSecurityVerdict, Summaries
    <3> HIDE DEF check, severity
    <3>3. n \in Inhabited(PastWorld)
      BY <2>2, <2>5, InhabitedAre
    <3>4. TrueFinding(f)
      <4> SUFFICES ASSUME Actionable(severity)
                   PROVE  <<<<"namespace", n.name>>, check>> \in Admitted(PastWorld)
        BY <3>1 DEF TrueFinding, Wrong
      <4> QED BY <3>3, AdmittedAre DEF check, severity
    <3>5. ASSUME severity = "PASS", NEW w \in Wrong(AllSteady), Denies(f, w)
          PROVE  FALSE
      <4>1. w = <<<<"namespace", n.name>>, check>>
        BY <3>1, <3>2, <3>5 DEF Denies
      <4>2. PICK m \in Inhabited(AllSteady) :
              /\ w = <<<<"namespace", m.name>>, PodSecurityVerdict(m.enforce)[1]>>
              /\ Actionable(PodSecurityVerdict(m.enforce)[2])
        BY <1>5, <4>1, AdmittedAre DEF Webhooks
      <4>3. m.name = n.name /\ m \in namespaces
        BY <2>2, <4>1, <4>2, InhabitedAre
      <4>4. m = n
        BY <2>2, <2>5, <4>3 DEF ByName
      <4> QED BY <3>5, <4>2, <4>4, ActionableIs DEF severity
    <3> QED BY <3>1, <3>4, <3>5 DEF Honest, EarnedPass
  <2>6. \/ /\ f = Finding("psa", "PASS", <<"namespace", "any">>)
           /\ \A p \in pods : p.ns \in SystemNamespaces
        \/ \E p \in pods :
             /\ p.ns \notin SystemNamespaces
             /\ \/ f = Finding("namespace_resolution", "ERROR", <<"namespace", p.ns>>)
                \/ \E n \in namespaces :
                     /\ n.name = p.ns
                     /\ f = Finding(PodSecurityVerdict(n.enforce)[1],
                                    PodSecurityVerdict(n.enforce)[2], <<"namespace", p.ns>>)
    BY <2>1, AdmissionOfIs DEF Finding
  <2> QED BY <2>3, <2>4, <2>5, <2>6
<1>8. ASSUME NEW kind \in Webhooks \ failed, f \in ofHook(kind)
      PROVE  Honest(f)
  <2> DEFINE items == Items(replies, kind)
             i == <<replies[Kube(kind)].show.from, items>>
             found == {Finding(WebhookVerdict(h)[1], WebhookVerdict(h)[2], <<kind, h.name>>) :
                         h \in FailOpen(items)}
  <2>1. /\ i \in Inventories(PastWorld, kind) /\ i[2] = items
        /\ \A x \in Inventories(AllSteady, kind) : x = i
    BY <1>4, <1>8, AdmissionKinds DEF Webhooks
  <2>2. f \in IF found = {} THEN {Finding("fail_open_webhook", "PASS", <<kind, "any">>)} ELSE found
    BY <1>8 DEF WebhookFindings
  <2> HIDE DEF items, i
  <2>3. CASE found = {} /\ f = Finding("fail_open_webhook", "PASS", <<kind, "any">>)
    <3>1. f.resource = <<kind, "any">> /\ f.check = "fail_open_webhook" /\ f.severity = "PASS"
      BY <2>3 DEF Finding
    <3>2. FailOpen(items) = {}
      BY <2>3
    <3>3. ASSUME NEW w \in Wrong(AllSteady), Denies(f, w)
          PROVE  FALSE
      <4>1. w[1][1] = kind /\ kind # "namespace"
        BY <3>1, <3>3 DEF Denies, Webhooks
      <4>2. \E x \in Inventories(AllSteady, kind) : FailOpen(x[2]) # {}
        BY <1>5, <4>1, AdmittedAre
      <4> QED BY <2>1, <3>2, <4>2
    <3> QED BY <3>1, <3>3, ActionableIs DEF Honest, TrueFinding, EarnedPass
  <2>4. ASSUME NEW h \in FailOpen(items),
               f = Finding(WebhookVerdict(h)[1], WebhookVerdict(h)[2], <<kind, h.name>>)
        PROVE  Honest(f)
    <3>1. f.resource = <<kind, h.name>> /\ f.check = WebhookVerdict(h)[1] /\ f.severity # "PASS"
      BY <2>4 DEF Finding, WebhookVerdict
    <3>2. <<<<kind, h.name>>, WebhookVerdict(h)[1]>> \in Admitted(PastWorld)
      BY <2>1, <2>4, AdmittedAre
    <3> QED BY <3>1, <3>2 DEF Honest, TrueFinding, EarnedPass, Wrong
  <2> QED BY <2>2, <2>3, <2>4
<1> HIDE DEF levels, ofHook, errors
<1> QED BY <1>1, <1>3, <1>6, <1>7, <1>8

-----------------------------------------------------------------------------
\* Every finding of a finished scan is honest.
LEMMA HonestFindings ==
  ASSUME ScanInv, pc = "done", OneCluster, NEW f \in findings
  PROVE  Honest(f)
<1>1. findings = Findings /\ WorldInv
  BY Finished
<1>2. CASE service \in Aws
  BY <1>1, <1>2, HonestAws DEF Findings
<1>3. CASE service \notin Aws
  BY <1>1, <1>3, KindsOfServices, HonestContainers, HonestDockerfiles, HonestManifests,
     HonestClusters, HonestAdmission DEF Findings, Aws, WorldInv
<1> QED BY <1>2, <1>3

\* Whatever a scan reports was so at some time during it: reads of several calls are never
\* put together to a resource that never was, nor of several clusters.
THEOREM OnlyTrueFindings == Spec => []NothingIsMadeUp
<1>1. ScanInv => NothingIsMadeUp
  BY HonestFindings DEF NothingIsMadeUp, Honest, TrueFinding
<1> QED BY <1>1, ScanInvariant, PTL

\* A PASS is never about something that was wrong during the whole scan, whichever calls
\* failed: what could not be read does not count as absent.
THEOREM PassesAreEarned == Spec => []PassIsEarned
<1>1. ScanInv => PassIsEarned
  BY HonestFindings DEF PassIsEarned, Honest, EarnedPass, AllSteady
<1> QED BY <1>1, ScanInvariant, PTL

-----------------------------------------------------------------------------
(* What is wrong all along is reported: AWS                                *)

\* Some finding reports w.
Told(w) == \E f \in Findings : Reports(f, w)

\* Where nothing was disturbed no essential call failed.
LEMMA QuietGoesOn ==
  ASSUME NEW k, Undisturbed(k)
  PROVE  ~Ended /\ \A c \in DOMAIN replies : c.by = k \/ Essential(c) => Got(replies, c)
BY DEF Undisturbed, Ended

\* A steady resource that nothing was disturbed for is listed, asked about and shown.
LEMMA QuietListed ==
  ASSUME ScanInv, pc = "done", NEW k \in DOMAIN world, List(k[1], "1") \in FirstCalls,
         NEW v \in Quiet[k], v # Gone
  PROVE  /\ ~ListFailed(replies, k[1]) /\ k = <<k[1], k[2]>> /\ past[k] = {v}
         /\ \E r \in Listed(replies, k[1]) : r.name = k[2] /\ r.is = v
         /\ k \in ListedKeys(replies, k[1])
         /\ k[1] \in DOMAIN Requests =>
              \A op \in Requests[k[1]] :
                Got(replies, Get(op, k)) /\ replies[Get(op, k)].show = v
<1> DEFINE kind == k[1]
<1>1. past[k] = {v} /\ Undisturbed(k) /\ k = <<kind, k[2]>> /\ WorldInv
  BY Finished, SteadyStates DEF WorldInv, WorldOK
<1>2. ~Ended
  BY <1>1, QuietGoesOn
<1>3. ~ListFailed(replies, kind)
  BY <1>1, ListParts DEF Undisturbed, ListFailed
<1>4. PICK r \in Listed(replies, kind) : r.name = k[2]
  BY <1>1, <1>2, <1>3, ListIsComplete
<1>5. r.is = v
  BY <1>1, <1>4, ListedState
<1>6. k \in ListedKeys(replies, kind)
  BY <1>1, <1>4 DEF ListedKeys
<1>7. ASSUME kind \in DOMAIN Requests, NEW op \in Requests[kind]
      PROVE  Got(replies, Get(op, k)) /\ replies[Get(op, k)].show = v
  <2> DEFINE c == Get(op, k)
  <2>1. c \in DOMAIN replies
    BY <1>1, <1>2, <1>4, <1>7, ResourcesAsked
  <2>2. c.op = op /\ c.key = k /\ c.by = k
    BY GetParts
  <2>3. Got(replies, c)
    BY <1>1, <2>1, <2>2, QuietGoesOn
  <2>4. c.op \in Requested
    BY <1>7, <2>2 DEF Requested
  <2>5. replies[c].show = v
    <3> HIDE DEF c
    <3> QED BY <1>1, <2>2, <2>3, <2>4, ShownState DEF Seen
  <2> QED BY <2>3, <2>5
<1> QED BY <1>1, <1>3, <1>4, <1>5, <1>6, <1>7

\* The findings of a list that could be read.
LEMMA FindingsOver ==
  ASSUME NEW kind, ~ListFailed(replies, kind)
  PROVE  /\ Listed(replies, kind) = {} =>
              /\ service = "cloudtrail" /\ kind = "trail" =>
                   AwsFindings(replies) = {Finding("trail_present", "HIGH", Account)}
              /\ service = "guardduty" /\ kind = "detector" =>
                   AwsFindings(replies) = {Finding("detector_enabled", "HIGH", Region)}
         /\ \A r \in Listed(replies, kind) :
              /\ service = "s3" /\ kind = "bucket" =>
                   BucketFindings(replies, <<"bucket", r.name>>) \subseteq AwsFindings(replies)
              /\ service = "cloudtrail" /\ kind = "trail" =>
                   TrailFindings(replies, r) \subseteq AwsFindings(replies)
              /\ service = "guardduty" /\ kind = "detector" =>
                   Judged(replies, "get_detector", "detector_enabled", <<"detector", r.name>>,
                          Detector) \in AwsFindings(replies)
              /\ service = "ec2" /\ kind = "securityGroup" =>
                   GroupFindings(r) \subseteq AwsFindings(replies)
              /\ service = "rds" /\ kind = "database" =>
                   DatabaseFindings(r) \subseteq AwsFindings(replies)
              /\ service = "lambda" /\ kind = "function" =>
                   UrlFinding(replies, <<"function", r.name>>) \in AwsFindings(replies)
BY DEF AwsFindings, Over

\* A flaw of a steady resource of the smaller services is reported.
LEMMA FlawTold ==
  ASSUME ScanInv, pc = "done", service \in Aws \ {"iam"}, NEW k \in DOMAIN world,
         NEW v \in Quiet[k], NEW check \in Flaws(k, v)
  PROVE  Told(<<k, check>>)
<1>1. v # Gone
  BY DEF Flaws
<1>2. k[1] \in Kinds[service] /\ Findings = AwsFindings(replies)
  BY Finished DEF WorldInv, WorldOK, Findings
<1>3. List(k[1], "1") \in FirstCalls
  BY <1>2, FirstLists, KindsOfServices DEF Kubectl, Aws
<1>4. /\ ~ListFailed(replies, k[1]) /\ k = <<k[1], k[2]>> /\ past[k] = {v}
      /\ k[1] \in DOMAIN Requests =>
           \A op \in Requests[k[1]] :
             Got(replies, Get(op, k)) /\ replies[Get(op, k)].show = v
  BY <1>1, <1>3, QuietListed
<1>5. PICK r \in Listed(replies, k[1]) : r.name = k[2] /\ r.is = v
  BY <1>1, <1>3, QuietListed
<1>6. ASSUME NEW severity, Actionable(severity),
             Finding(check, severity, k) \in AwsFindings(replies)
      PROVE  Told(<<k, check>>)
  BY <1>2, <1>6 DEF Told, Reports, Finding
<1>7. CASE service = "s3"
  <2>1. k[1] = "bucket" /\ Requests["bucket"] = BucketChecks /\ "bucket" \in DOMAIN Requests
    BY <1>2, <1>7, KindsOfServices, RequestsMade
  <2>2. check \in BucketChecks /\ Actionable(BucketVerdict(check, v))
    BY <1>1, <2>1, FlawIs
  <2>3. Finding(check, BucketVerdict(check, v), k) \in BucketFindings(replies, k)
    <3>1. Got(replies, Get(check, k)) /\ replies[Get(check, k)].show = v
      BY <1>4, <2>1, <2>2
    <3> QED BY <2>2, <3>1 DEF BucketFindings, Judged
  <2>4. BucketFindings(replies, k) \subseteq AwsFindings(replies)
    BY <1>4, <1>5, <1>7, <2>1, FindingsOver
  <2> QED BY <1>6, <2>2, <2>3, <2>4
<1>8. CASE service = "cloudtrail"
  <2>1. k[1] = "trail" /\ Requests["trail"] = {"get_trail_status"} /\ "trail" \in DOMAIN Requests
    BY <1>2, <1>8, KindsOfServices, RequestsMade
  <2>2. \/ check = "logging" /\ ~v.logging
        \/ check = "multi_region" /\ ~v.everywhere
    BY <1>1, <2>1, FlawIs
  <2>3. Got(replies, Get("get_trail_status", k)) /\ replies[Get("get_trail_status", k)].show = v
    BY <1>4, <2>1
  <2>4. TrailLogging(v) # "ERROR"
    BY DEF TrailLogging, PassUnless
  <2>5. /\ Finding("logging", TrailLogging(v), k) \in TrailFindings(replies, r)
        /\ Finding("multi_region", TrailEverywhere(v), k) \in TrailFindings(replies, r)
    <3>1. Finding("logging", TrailLogging(v), k).severity # "ERROR"
      BY <2>4 DEF Finding
    <3>2. Judged(replies, "get_trail_status", "logging", k, TrailLogging)
            = Finding("logging", TrailLogging(v), k)
      BY <2>3 DEF Judged
    <3>3. k = <<"trail", r.name>>
      BY <1>4, <1>5, <2>1
    <3> QED BY <1>5, <3>1, <3>2, <3>3 DEF TrailFindings
  <2>6. TrailFindings(replies, r) \subseteq AwsFindings(replies)
    BY <1>4, <1>8, <2>1, FindingsOver
  <2> QED BY <1>6, <2>2, <2>5, <2>6, PassUnlessIs DEF TrailLogging, TrailEverywhere
<1>9. CASE service = "guardduty"
  <2>1. /\ k[1] = "detector" /\ Requests["detector"] = {"get_detector"}
        /\ "detector" \in DOMAIN Requests
    BY <1>2, <1>9, KindsOfServices, RequestsMade
  <2>2. check = "detector_enabled" /\ ~v.enabled
    BY <1>1, <2>1, FlawIs
  <2>3. Got(replies, Get("get_detector", k)) /\ replies[Get("get_detector", k)].show = v
    BY <1>4, <2>1
  <2>4. Judged(replies, "get_detector", "detector_enabled", k, Detector)
          = Finding("detector_enabled", Detector(v), k)
    BY <2>3 DEF Judged
  <2>5. Judged(replies, "get_detector", "detector_enabled", k, Detector) \in AwsFindings(replies)
    BY <1>4, <1>5, <1>9, <2>1, FindingsOver
  <2> QED BY <1>6, <2>2, <2>4, <2>5, PassUnlessIs DEF Detector
<1>10. CASE service = "ec2"
  <2>1. k[1] = "securityGroup"
    BY <1>2, <1>10, KindsOfServices
  <2>2. \A q \in v.rules : q.from \in Int /\ q.to \in Int
    BY <1>5, <2>1, ListedState DEF StateOK
  <2>3. PICK x \in GroupVerdicts(v) : x[1] = check /\ Actionable(x[2])
    <3>1. \/ check = "security_group_all_ingress" /\ \E q \in v.rules : q.world /\ q.all
          \/ /\ check = "security_group_public_sensitive_port"
             /\ \E q \in v.rules : /\ q.world /\ ~q.all
                                    /\ q.from..q.to \intersect DOMAIN SensitivePorts # {}
      BY <1>1, <2>1, FlawIs
    <3> QED BY <2>2, <3>1, GroupVerdictIs
  <2>4. Finding(check, x[2], k) \in GroupFindings(r)
    BY <1>4, <1>5, <2>1, <2>3 DEF GroupFindings
  <2>5. GroupFindings(r) \subseteq AwsFindings(replies)
    BY <1>4, <1>10, <2>1, FindingsOver
  <2> QED BY <1>6, <2>3, <2>4, <2>5
<1>11. CASE service = "rds"
  <2>1. k[1] = "database"
    BY <1>2, <1>11, KindsOfServices
  <2>2. \/ check = "public_access" /\ v.public
        \/ check = "storage_encryption" /\ ~v.encrypted
    BY <1>1, <2>1, FlawIs
  <2>3. /\ Finding("public_access", DatabaseAccess(v), k) \in DatabaseFindings(r)
        /\ Finding("storage_encryption", DatabaseEncryption(v), k) \in DatabaseFindings(r)
    BY <1>4, <1>5, <2>1 DEF DatabaseFindings
  <2>4. DatabaseFindings(r) \subseteq AwsFindings(replies)
    BY <1>4, <1>11, <2>1, FindingsOver
  <2> QED BY <1>6, <2>2, <2>3, <2>4, PassUnlessIs DEF DatabaseAccess, DatabaseEncryption
<1>12. CASE service = "lambda"
  <2>1. /\ k[1] = "function" /\ "function" \in DOMAIN Requests
        /\ Requests["function"] = {"get_function_url_config"}
    BY <1>2, <1>12, KindsOfServices, RequestsMade
  <2>2. check = "function_url_auth" /\ v.url = "open"
    BY <1>1, <2>1, FlawIs
  <2>3. /\ Got(replies, Get("get_function_url_config", k))
        /\ replies[Get("get_function_url_config", k)].show = v
    BY <1>4, <2>1
  <2>4. UrlFinding(replies, k) = Finding("function_url_auth", FunctionUrl(v), k)
    BY <2>3 DEF UrlFinding, Got
  <2>5. UrlFinding(replies, k) \in AwsFindings(replies)
    BY <1>4, <1>5, <1>12, <2>1, FindingsOver
  <2> QED BY <1>6, <2>2, <2>4, <2>5, PassUnlessIs DEF FunctionUrl
<1> QED BY <1>7, <1>8, <1>9, <1>10, <1>11, <1>12 DEF Aws

\* That there is no trail, or no detector, is reported.
LEMMA AbsenceTold ==
  ASSUME ScanInv, pc = "done", service \in {"cloudtrail", "guardduty"},
         \A k \in DOMAIN world : Gone \in Quiet[k]
  PROVE  /\ service = "cloudtrail" => Told(<<Account, "trail_present">>)
         /\ service = "guardduty" => Told(<<Region, "detector_enabled">>)
<1> DEFINE kind == IF service = "cloudtrail" THEN "trail" ELSE "detector"
<1>1. Kinds[service] = {kind} /\ Findings = AwsFindings(replies)
  BY KindsOfServices DEF Findings, Aws
<1>2. /\ \A k \in DOMAIN world : k[1] = kind /\ past[k] = {Gone} /\ Undisturbed(k)
      /\ \E k \in DOMAIN world : TRUE
  BY <1>1, Finished, SteadyStates DEF WorldInv, WorldOK
<1>3. ~ListFailed(replies, kind)
  BY <1>2, ListParts DEF Undisturbed, ListFailed
<1>4. Listed(replies, kind) = {}
  BY <1>2, ListedState DEF Seen
<1>5. CASE service = "cloudtrail"
  <2>1. Finding("trail_present", "HIGH", Account) \in Findings
    BY <1>1, <1>3, <1>4, <1>5, FindingsOver
  <2> QED BY <1>5, <2>1, ActionableIs DEF Told, Reports, Finding
<1>6. CASE service = "guardduty"
  <2>1. Finding("detector_enabled", "HIGH", Region) \in Findings
    BY <1>1, <1>3, <1>4, <1>6, FindingsOver
  <2> QED BY <1>6, <2>1, ActionableIs DEF Told, Reports, Finding
<1> QED BY <1>5, <1>6

\* What is wrong with an account's identities all along is reported.
LEMMA IamTold ==
  ASSUME ScanInv, pc = "done", service = "iam", NEW w \in Wrong(Quiet)
  PROVE  Told(w)
<1>1. /\ Findings = IamFindings(replies) /\ WorldInv /\ DOMAIN Quiet = DOMAIN world
      /\ \A kind \in Identities : List(kind, "1") \in FirstCalls
      /\ \A k \in DOMAIN world : k[1] \in {"root", "user", "group", "role", "policy"}
      /\ Identities \subseteq DOMAIN Requests
  BY Finished, SteadyStates, FirstLists, KindsOfServices, RequestsMade
     DEF Findings, AwsFindings, Aws, Kubectl, WorldInv, WorldOK, Identities
<1>2. ASSUME NEW k, NEW check, NEW severity, Actionable(severity),
             Finding(check, severity, k) \in IamFindings(replies)
      PROVE  Told(<<k, check>>)
  BY <1>1, <1>2 DEF Told, Reports, Finding
<1>3. ASSUME NEW k \in DOMAIN world, NEW v \in Quiet[k], v # Gone, k[1] \in Identities
      PROVE  /\ k \in ListedKeys(replies, k[1]) /\ past[k] = {v} /\ Undisturbed(k)
             /\ \A op \in Requests[k[1]] :
                  Got(replies, Get(op, k)) /\ replies[Get(op, k)].show = v
  BY <1>1, <1>3, QuietListed, SteadyStates
<1>4. ASSUME NEW k \in DOMAIN world, NEW v \in Quiet[k], NEW check \in Flaws(k, v)
      PROVE  Told(<<k, check>>)
  <2>1. v # Gone
    BY DEF Flaws
  <2>2. CASE k[1] = "root"
    <3> DEFINE c == Get("get_account_summary", Root)
    <3>1. check = "root_mfa" /\ ~v.mfa
      BY <1>4, <2>1, <2>2, FlawIs
    <3>2. k = Root
      BY <1>1, <2>2 DEF WorldInv, WorldOK
    <3>3. Undisturbed(k) /\ past[k] = {v}
      BY <1>1, SteadyStates
    <3>4. c \in FirstCalls
      BY DEF FirstCalls
    <3>5. c \in DOMAIN replies
      BY <3>3, <3>4, QuietGoesOn, AllAsked
    <3>6. c.op = "get_account_summary" /\ c.key = Root /\ c.by = Root
      BY GetParts
    <3>7. Got(replies, c)
      BY <3>2, <3>3, <3>5, <3>6, QuietGoesOn
    <3>8. replies[c].show = v
      <4> HIDE DEF c
      <4>1. TrueAnswer(c, replies[c].show)
        BY <3>7, Finished DEF Got, TrueReplies
      <4>2. replies[c].show \in Seen(Root)
        BY <3>6, <4>1 DEF TrueAnswer, OfPart
      <4> QED BY <3>2, <3>3, <4>2 DEF Seen
    <3>9. RootFinding(replies) = Finding("root_mfa", "HIGH", Root)
      BY <3>1, <3>7, <3>8 DEF RootFinding, Judged, PassUnless
    <3> QED BY <1>2, <3>1, <3>2, <3>9, IamParts, ActionableIs
  <2>3. CASE k[1] = "user"
    <3>1. check = "access_key_age" /\ \E key \in v.keys : key.is.active /\ key.is.old
      BY <1>4, <2>1, <2>3, FlawIs
    <3>2. PICK key \in v.keys : key.is.active /\ key.is.old
      BY <3>1
    <3> DEFINE c == Get("list_access_keys", k)
    <3>3. Got(replies, c) /\ replies[c].show = v /\ k \in ListedKeys(replies, "user")
      BY <1>3, <1>4, <2>1, <2>3, RequestsMade DEF Identities
    <3>4. KeyAge(key.is) = "MEDIUM"
      BY <3>2 DEF KeyAge, PassUnless
    <3>5. Finding("access_key_age", "MEDIUM", k) \in KeyFindings(replies, k)
      BY <3>2, <3>3, <3>4 DEF KeyFindings
    <3> QED BY <1>2, <3>1, <3>3, <3>5, IamParts, ActionableIs
  <2>4. CASE k[1] = "role"
    <3>1. check = "role_trust_wildcard" /\ v.trust.parses /\ TrustsAnyone(v.trust)
      BY <1>4, <2>1, <2>4, FlawIs
    <3>2. /\ Got(replies, Get("get_role", k)) /\ replies[Get("get_role", k)].show = v
          /\ k \in ListedKeys(replies, "role")
      BY <1>3, <1>4, <2>1, <2>4, RequestsMade DEF Identities
    <3>3. TrustFinding(replies, k) = Finding("role_trust_wildcard", "HIGH", k)
      BY <3>1, <3>2 DEF TrustFinding, Judged, TrustVerdict, PassUnless
    <3> QED BY <1>2, <3>1, <3>2, <3>3, IamParts, ActionableIs
  <2>5. CASE k[1] \in {"group", "policy"}
    BY <1>4, <2>1, <2>5, FlawIs
  <2> QED BY <1>1, <2>2, <2>3, <2>4, <2>5
<1>5. CASE w \in IdleKeys(Quiet)
  <2>1. PICK k \in DOMAIN Quiet :
          /\ k[1] = "user" /\ w = <<k, "access_key_last_used">>
          /\ \E v, u \in Quiet[k] \ {Gone} : \E key \in v.keys, use \in u.keys :
               key.is.active /\ key.name = use.name /\ use.is.used # "recently"
    BY <1>5 DEF IdleKeys
  <2>2. PICK v \in Quiet[k] \ {Gone} : \E u \in Quiet[k] \ {Gone} :
          \E key \in v.keys, use \in u.keys :
            key.is.active /\ key.name = use.name /\ use.is.used # "recently"
    BY <2>1
  <2>3. /\ k \in DOMAIN world /\ k[1] \in Identities /\ k \in ListedKeys(replies, "user")
        /\ past[k] = {v} /\ v # Gone /\ Undisturbed(k)
    BY <1>1, <1>3, <2>1, <2>2 DEF Identities
  <2>4. Quiet[k] = {v}
    BY <1>1, <2>2, <2>3, SteadyStates
  <2>5. ByName(v.keys)
    BY <2>1, <2>3, ListedIdentity DEF Seen, StateOK, Identities
  <2>6. PICK key \in v.keys : key.is.active /\ key.is.used # "recently"
    BY <2>2, <2>4, <2>5 DEF ByName
  <2> DEFINE c == Get("list_access_keys", k)
             e == Call("get_access_key_last_used", k, {key.name}, k)
  <2>7. Got(replies, c) /\ replies[c].show = v /\ c.op = "list_access_keys" /\ c.key = k /\ c.by = k
    BY <1>3, <2>1, <2>2, <2>3, GetParts, RequestsMade
  <2>8. e \in Offspring(c, replies)
    BY <2>6, <2>7 DEF Offspring
  <2>9. e \in DOMAIN replies
    BY <2>3, <2>7, <2>8, AllAsked, QuietGoesOn
  <2>10. e.op = "get_access_key_last_used" /\ e.key = k /\ e.by = k /\ e.arg = {key.name}
    BY CallParts
  <2>11. Got(replies, e)
    BY <2>3, <2>9, <2>10, QuietGoesOn
  <2>12. replies[e].show = key.is
    <3> HIDE DEF e
    <3>1. PICK d \in v.keys : d.name = key.name /\ replies[e].show = d.is
      BY <2>3, <2>10, <2>11, PartShown DEF Seen
    <3> QED BY <2>5, <3>1 DEF ByName
  <2>13. KeyUse(replies[e].show) = "MEDIUM"
    BY <2>6, <2>12 DEF KeyUse, PassUnless
  <2>14. Finding("access_key_last_used", "MEDIUM", k) \in KeyFindings(replies, k)
    BY <2>6, <2>7, <2>11, <2>13 DEF KeyFindings
  <2> QED BY <1>2, <2>1, <2>3, <2>14, IamParts, ActionableIs
<1>6. CASE w \in Permissions(Quiet)
  <2>1. PICK kind \in Identities : \E s \in States(Quiet, kind) :
          Unlimited(Quiet, s[2]) /\ w = <<s[1], WildcardCheck[kind]>>
    BY <1>6, PermissionsAre
  <2>2. PICK s \in States(Quiet, kind) :
          Unlimited(Quiet, s[2]) /\ w = <<s[1], WildcardCheck[kind]>>
    BY <2>1
  <2> DEFINE k == s[1]
             v == s[2]
  <2>3. k \in DOMAIN Quiet /\ k[1] = kind /\ v \in Quiet[k] \ {Gone}
    BY <2>2, StatesAre
  <2>4. Unlimited(Quiet, v) /\ w = <<k, WildcardCheck[kind]>>
    BY <2>2
  <2> HIDE DEF k, v
  <2>5. k \in ListedKeys(replies, kind) /\ past[k] = {v} /\ v # Gone /\ Undisturbed(k)
    BY <1>1, <1>3, <2>3
  <2>6. \A c \in PolicyCalls(replies, k) : Got(replies, c)
    BY <2>5, QuietGoesOn DEF PolicyCalls
  <2>7. \A j \in DOMAIN Quiet : \A u \in Quiet[j] : past[j] = {u}
    BY <1>1, SteadyStates
  <2>8. Matched(Documents(replies, k))
    BY <1>1, <2>4, <2>5, <2>6, <2>7, UnlimitedRead
  <2>9. Finding(WildcardCheck[kind], "HIGH", k) \in PolicyFindings(replies, k)
    BY <2>3, <2>8 DEF PolicyFindings
  <2> QED BY <1>2, <2>4, <2>5, <2>9, IamParts, ActionableIs
<1> QED BY <1>1, <1>4, <1>5, <1>6, WrongByService DEF Kubectl

\* What is wrong in AWS all along is reported.
LEMMA AwsTold ==
  ASSUME ScanInv, pc = "done", service \in Aws, NEW w \in Wrong(Quiet)
  PROVE  Told(w)
<1>1. WorldInv /\ DOMAIN Quiet = DOMAIN world
  BY Finished, SteadyStates
<1>2. CASE service = "iam"
  BY <1>2, IamTold
<1>3. CASE service # "iam"
  BY <1>1, <1>3, WrongByService, FlawTold, AbsenceTold DEF Aws
<1> QED BY <1>2, <1>3

-----------------------------------------------------------------------------
(* What is wrong all along is reported: workloads                          *)

\* Where nothing was disturbed the tools were there.
LEMMA QuietTools ==
  ASSUME NEW k, Undisturbed(k)
  PROVE  ~Unavailable(replies)
BY QuietGoesOn DEF Unavailable, Essential

\* A steady container that nothing was disturbed for is inspected.
LEMMA QuietInspected ==
  ASSUME ScanInv, pc = "done", service = "daemon", NEW k \in DOMAIN world,
         NEW v \in Quiet[k], v # Gone
  PROVE  \E r : r.name = k[2] /\ r.is = v /\ ContainerFindings(r) \subseteq Findings
                /\ k = <<"container", r.name>>
<1> DEFINE ids == {q.name : q \in Listed(replies, "container")}
           c == Inspect(ids)
<1>1. /\ k[1] = "container" /\ past[k] = {v} /\ Undisturbed(k)
      /\ Findings = DaemonFindings(replies) /\ "container" \notin DOMAIN Requests
  BY Finished, SteadyStates, KindsOfServices, RequestsMade
     DEF WorldInv, WorldOK, Findings, Aws, WorkloadFindings
<1>2. List("container", "1") \in FirstCalls
  BY FirstLists, KindsOfServices DEF Kubectl
<1>3. ~ListFailed(replies, "container") /\ k = <<"container", k[2]>> /\ k[2] \in ids
  BY <1>1, <1>2, QuietListed
<1>4. ~Ended /\ ~Unavailable(replies)
  BY <1>1, QuietGoesOn, QuietTools
<1>5. c \in DOMAIN replies
  <2>1. Got(replies, List("container", "1"))
    BY <1>2, <1>3, <1>4, ListRead, PagesOf
  <2>2. Pages("container") = <<"1">> /\ Last(Pages("container")) = "1"
    BY PagesOf
  <2>3. ids = ListedNames(replies, "container")
    BY DEF ListedNames
  <2>4. c \in ListCalls("container", "1", ListedNames(replies, "container"))
    <3> HIDE DEF ids
    <3> QED BY <1>1, <1>3, <2>2, <2>3 DEF ListCalls
  <2>5. c \in Offspring(List("container", "1"), replies)
    BY <2>4, ListOffspring
  <2> QED BY <1>4, <2>1, <2>5, AllAsked
<1>6. c.op = "inspect" /\ c.arg = ids
  BY DEF Inspect, Call
<1>7. Got(replies, c)
  BY <1>1, <1>5, <1>6 DEF Undisturbed
<1>8. TrueAnswer(c, replies[c].show)
  BY <1>7, Finished DEF Got, TrueReplies
<1>9. PICK r \in replies[c].show : r.name = k[2]
  <2> HIDE DEF c
  <2> QED BY <1>3, <1>6, <1>8 DEF TrueAnswer
<1>10. r.is = v
  <2>1. r.is \in past[<<"container", r.name>>]
    <3> HIDE DEF ids
    <3> QED BY <1>7, <1>9, InspectedState
  <2> QED BY <1>1, <1>3, <1>9, <2>1
<1>11. DaemonFindings(replies) = UNION {ContainerFindings(q) : q \in replies[c].show}
  <2>1. ids # {}
    BY <1>3
  <2> QED BY <1>3, <1>4, <1>7, <2>1 DEF DaemonFindings
<1> QED BY <1>1, <1>3, <1>9, <1>10, <1>11

\* What is wrong with a container all along is reported.
LEMMA DaemonTold ==
  ASSUME ScanInv, pc = "done", service = "daemon", NEW w \in Wrong(Quiet)
  PROVE  Told(w)
<1>1. DOMAIN Quiet = DOMAIN world /\ WorldInv
  BY Finished, SteadyStates
<1>2. PICK k \in DOMAIN world : \E v \in Quiet[k] : w = <<k, w[2]>> /\ w[2] \in Flaws(k, v)
  BY <1>1, WrongByService DEF Kubectl
<1>3. PICK v \in Quiet[k] : w = <<k, w[2]>> /\ w[2] \in Flaws(k, v)
  BY <1>2
<1> DEFINE check == w[2]
<1>4. v # Gone /\ k[1] = "container"
  BY <1>1, <1>3, KindsOfServices DEF Flaws, WorldInv, WorldOK
<1>5. PICK r : r.name = k[2] /\ r.is = v /\ ContainerFindings(r) \subseteq Findings
               /\ k = <<"container", r.name>>
  BY <1>4, QuietInspected
<1>6. \/ /\ check \in ContainerChecks \ {"docker_socket_mount"}
         /\ Actionable(ContainerVerdict(check, v))
      \/ check = "docker_socket_mount" /\ \E m \in v.mounts : m.source = "socket"
      \/ /\ check = "writable_sensitive_host_mount"
         /\ \E m \in v.mounts : m.bind /\ m.source = "sensitive" /\ m.writable
  BY <1>3, <1>4, FlawIs
<1>7. \A ch \in ContainerChecks : \E f \in Findings :
        /\ f.resource = k /\ f.check = ch /\ f.severity = ContainerVerdict(ch, v)
        /\ f.writable <=> ch = "sensitive_host_mount" /\ Writable(SensitiveMounts(v)) # {}
  <2> TAKE ch \in ContainerChecks
  <2> DEFINE bad == ch = "sensitive_host_mount" /\ Writable(SensitiveMounts(r.is)) # {}
             plain == Finding(ch, ContainerVerdict(ch, r.is), <<"container", r.name>>)
             f == [plain EXCEPT !.writable = bad]
  <2>1. f \in ContainerFindings(r)
    BY DEF ContainerFindings
  <2>2. f.resource = <<"container", r.name>> /\ f.check = ch
        /\ f.severity = ContainerVerdict(ch, r.is)
    <3> HIDE DEF bad
    <3> QED BY DEF Finding
  <2>3. f.writable = bad
    <3> HIDE DEF bad
    <3> QED BY DEF Finding
  <2> HIDE DEF f
  <2>4. f \in Findings
    BY <1>5, <2>1
  <2>5. f.resource = k /\ f.severity = ContainerVerdict(ch, v)
    BY <1>5, <2>2
  <2>6. f.writable <=> ch = "sensitive_host_mount" /\ Writable(SensitiveMounts(v)) # {}
    BY <1>5, <2>3
  <2> WITNESS f \in Findings
  <2> QED BY <2>2, <2>5, <2>6
<1>8. CASE check \in ContainerChecks /\ Actionable(ContainerVerdict(check, v))
  BY <1>3, <1>7, <1>8 DEF Told, Reports
<1>9. CASE /\ check = "writable_sensitive_host_mount"
           /\ \E m \in v.mounts : m.bind /\ m.source = "sensitive" /\ m.writable
  <2>1. Writable(SensitiveMounts(v)) # {}
    BY <1>9 DEF Writable, SensitiveMounts
  <2>2. ContainerVerdict("sensitive_host_mount", v) = "HIGH"
    BY <2>1 DEF ContainerVerdict, Graded
  <2>3. PICK f \in Findings : f.resource = k /\ f.check = "sensitive_host_mount"
                              /\ f.severity = "HIGH" /\ f.writable
    BY <1>7, <2>1, <2>2 DEF ContainerChecks
  <2> QED BY <1>3, <1>9, <2>3, ActionableIs DEF Told, Reports
<1> QED BY <1>6, <1>8, <1>9, SocketVerdict DEF ContainerChecks

\* A steady file that nothing was disturbed for is read and judged.
LEMMA QuietFile ==
  ASSUME ScanInv, pc = "done", service \in {"dockerfile", "manifest"},
         NEW k \in DOMAIN world, NEW v \in Quiet[k], v # Gone
  PROVE  FileFindings(v, k) \subseteq Findings /\ k[1] = service /\ StateOK(world, k, v)
<1> DEFINE keys == {<<service, r.name>> : r \in Listed(replies, service)}
           Of(key) == LET c == Get("read", key)
                      IN  IF Got(replies, c) THEN FileFindings(replies[c].show, key)
                          ELSE {Finding("read", "ERROR", key)}
<1>1. k[1] = service /\ Kinds[service] = {service} /\ Findings = WorkloadFindings(replies)
  BY Finished, KindsOfServices DEF WorldInv, WorldOK, Findings, Aws
<1>2. List(service, "1") \in FirstCalls
  BY <1>1, FirstLists, KindsOfServices DEF Kubectl
<1>3. service \in DOMAIN Requests /\ Requests[service] = {"read"}
  BY RequestsMade
<1>4. /\ k \in ListedKeys(replies, service)
      /\ Got(replies, Get("read", k)) /\ replies[Get("read", k)].show = v
  BY <1>1, <1>2, <1>3, QuietListed
<1>5. k \in keys
  BY <1>4 DEF ListedKeys
<1>6. WorkloadFindings(replies) = IF keys = {} THEN {Finding("discovery", "ERROR", Live)}
                                  ELSE UNION {Of(key) : key \in keys}
  BY DEF WorkloadFindings, FilesFindings
<1>7. Of(k) = FileFindings(v, k)
  BY <1>4
<1>8. v \in Seen(k)
  BY Finished, SteadyStates DEF Seen
<1> HIDE DEF Of, keys
<1> QED BY <1>1, <1>5, <1>6, <1>7, <1>8, Finished, SeenStates

\* What is wrong with a Dockerfile all along is reported.
LEMMA DockerfileTold ==
  ASSUME ScanInv, pc = "done", service = "dockerfile", NEW w \in Wrong(Quiet)
  PROVE  Told(w)
<1>1. DOMAIN Quiet = DOMAIN world /\ WorldInv
  BY Finished, SteadyStates
<1>2. PICK k \in DOMAIN world : \E v \in Quiet[k] : w = <<k, w[2]>> /\ w[2] \in Flaws(k, v)
  BY <1>1, WrongByService DEF Kubectl
<1>3. PICK v \in Quiet[k] : w = <<k, w[2]>> /\ w[2] \in Flaws(k, v)
  BY <1>2
<1>4. v # Gone
  BY <1>3 DEF Flaws
<1>5. FileFindings(v, k) \subseteq Findings /\ k[1] = "dockerfile"
  BY <1>4, QuietFile
<1>6. PICK x \in DockerfileVerdicts(v.lines) : w[2] = x[1] /\ Actionable(x[2])
  BY <1>3, <1>4, <1>5, FlawIs, ReportableIs
<1>7. Finding(x[1], x[2], k) \in Findings
  BY <1>5, <1>6 DEF FileFindings
<1> QED BY <1>3, <1>6, <1>7 DEF Told, Reports, Finding

\* What is wrong with a manifest all along is reported.
LEMMA ManifestTold ==
  ASSUME ScanInv, pc = "done", service = "manifest", NEW w \in Wrong(Quiet)
  PROVE  Told(w)
<1>1. DOMAIN Quiet = DOMAIN world /\ WorldInv /\ \A k \in DOMAIN world : k[1] = "manifest"
  BY Finished, SteadyStates, KindsOfServices DEF WorldInv, WorldOK
<1>2. \A k \in DOMAIN world : \A v \in Quiet[k] : w[2] \notin Flaws(k, v)
  <2> TAKE k \in DOMAIN world
  <2> TAKE v \in Quiet[k]
  <2>1. v = Gone => w[2] \notin Flaws(k, v)
    BY DEF Flaws
  <2> QED BY <1>1, <2>1, FlawIs
<1>3. w \in Specs(Quiet)
  BY <1>1, <1>2, WrongByService DEF Kubectl
<1>4. PICK s \in States(Quiet, "manifest") : \E d \in s[2].workloads :
        w = <<<<"workload", d.name>>, w[2]>> /\ w[2] \in PodFlaws(d.is)
  BY <1>3, SpecsAre
<1>5. PICK d \in s[2].workloads : w = <<<<"workload", d.name>>, w[2]>> /\ w[2] \in PodFlaws(d.is)
  BY <1>4
<1> DEFINE k == s[1]
           v == s[2]
<1>6. k \in DOMAIN world /\ v \in Quiet[k] /\ v # Gone /\ k[1] = "manifest" /\ d \in v.workloads
  BY <1>1, <1>4, StatesAre
<1> HIDE DEF k, v
<1>7. FileFindings(v, k) \subseteq Findings /\ (v.parses \/ v.workloads = {})
  BY <1>6, QuietFile DEF StateOK
<1>8. FileFindings(v, k) = UNION {PodFindings(e.is, <<"workload", e.name>>) : e \in v.workloads}
  BY <1>6, <1>7 DEF FileFindings, ManifestFindings
<1>9. w[2] \in PodChecks /\ Actionable(PodVerdict(w[2], d.is))
  BY <1>5 DEF PodFlaws
<1>10. Finding(w[2], PodVerdict(w[2], d.is), <<"workload", d.name>>)
         \in PodFindings(d.is, <<"workload", d.name>>)
  BY <1>9 DEF PodFindings
<1>11. Finding(w[2], PodVerdict(w[2], d.is), <<"workload", d.name>>) \in Findings
  BY <1>6, <1>7, <1>8, <1>10
<1> QED BY <1>5, <1>9, <1>11 DEF Told, Reports, Finding

\* An inventory of the one cluster that nothing was disturbed for is the one that was read.
LEMMA QuietInventory ==
  ASSUME ScanInv, pc = "done", service \in Kubectl, OneCluster,
         NEW kind \in Kinds[service] \ {"context"}, NEW i \in Inventories(Quiet, kind)
  PROVE  /\ ~Unavailable(replies) /\ Got(replies, Kube(kind)) /\ i[2] = Items(replies, kind)
         /\ kind \in {"namespaces", "pods"} => ByName(Items(replies, kind))
         /\ service = "cluster" => Got(replies, Kube("pods"))
<1>1. WorldInv /\ DOMAIN Quiet = DOMAIN world
  BY Finished, SteadyScope
<1>2. PICK k \in DOMAIN Quiet : \E v \in Quiet[k] \ {Gone} : k[1] = kind /\ i = <<k[2], v.items>>
  BY InventoriesAre
<1>3. Undisturbed(k) /\ k[1] = kind
  BY <1>1, <1>2, SteadyStates
<1>4. ~Ended /\ ~Unavailable(replies)
  BY <1>3, QuietGoesOn, QuietTools
<1>5. Kube(kind) \in FirstCalls /\ (service = "cluster" => Kube("pods") \in FirstCalls)
  BY KindsOfServices DEF FirstCalls, Kubectl
<1>6. Kube(kind).op = "kubectl" /\ Kube(kind).key[1] = kind
  BY DEF Kube, Get, Call
<1>7. Got(replies, Kube(kind))
  BY <1>3, <1>4, <1>5, <1>6, AllAsked DEF Undisturbed
<1>8. service = "cluster" => Got(replies, Kube("pods"))
  BY <1>3, <1>4, <1>5, AllAsked, QuietGoesOn DEF Essential
<1>9. /\ kind \in {"namespaces", "pods"} => ByName(Items(replies, kind))
      /\ i = <<replies[Kube(kind)].show.from, Items(replies, kind)>>
  BY <1>1, <1>7, SteadyScope, LiveAnswer
<1> QED BY <1>4, <1>7, <1>8, <1>9

\* What is wrong in a cluster all along is reported.
LEMMA ClusterTold ==
  ASSUME ScanInv, pc = "done", service = "cluster", OneCluster, NEW w \in Wrong(Quiet)
  PROVE  Told(w)
<1> DEFINE pods == Items(replies, "pods")
           services == Items(replies, "services")
           ofPod(p) == PodFindings(p.is, <<"pod", p.name>>)
           ofServices == Finding("external_service", ServiceVerdict(services), Live)
<1>1. /\ "pods" \in Kinds[service] \ {"context"} /\ "services" \in Kinds[service] \ {"context"}
      /\ service \in Kubectl /\ WorldInv /\ \A k \in DOMAIN world : k[1] # "manifest"
      /\ DOMAIN Quiet = DOMAIN world /\ Findings = ClusterFindings(replies)
  BY KindsOfServices, Finished, SteadyScope
     DEF Kubectl, WorldInv, WorldOK, Findings, WorkloadFindings, Aws
<1>2. w \in Specs(Quiet)
  BY <1>1, WrongInCluster
<1>3. ~\E s \in States(Quiet, "manifest") : TRUE
  BY <1>1, StatesAre
<1>4. CASE \E i \in Inventories(Quiet, "pods") : \E p \in i[2] :
             w = <<<<"pod", p.name>>, w[2]>> /\ w[2] \in PodFlaws(p.is)
  <2>1. PICK i \in Inventories(Quiet, "pods") : \E p \in i[2] :
          w = <<<<"pod", p.name>>, w[2]>> /\ w[2] \in PodFlaws(p.is)
    BY <1>4
  <2>2. i[2] = pods /\ ~Unavailable(replies) /\ Got(replies, Kube("pods"))
    BY <1>1, QuietInventory
  <2>3. PICK p \in pods : w = <<<<"pod", p.name>>, w[2]>> /\ w[2] \in PodFlaws(p.is)
    BY <2>1, <2>2
  <2>4. w[2] \in PodChecks /\ Actionable(PodVerdict(w[2], p.is))
    BY <2>3 DEF PodFlaws
  <2> DEFINE f == Finding(w[2], PodVerdict(w[2], p.is), <<"pod", p.name>>)
  <2>5. f \in ofPod(p)
    BY <2>4 DEF PodFindings
  <2>6. UNION {ofPod(q) : q \in pods} \subseteq Findings
    BY <1>1, <2>2 DEF ClusterFindings
  <2>7. f \in Findings
    <3> HIDE DEF f, ofPod, pods
    <3> QED BY <2>3, <2>5, <2>6
  <2> QED BY <2>3, <2>4, <2>7 DEF Told, Reports, Finding
<1>5. CASE /\ w = <<Live, "external_service">>
           /\ \E i \in Inventories(Quiet, "services") : ServiceVerdict(i[2]) = "LOW"
  <2>1. PICK i \in Inventories(Quiet, "services") : ServiceVerdict(i[2]) = "LOW"
    BY <1>5
  <2>2. /\ i[2] = services /\ ~Unavailable(replies) /\ Got(replies, Kube("services"))
        /\ Got(replies, Kube("pods"))
    BY <1>1, QuietInventory
  <2>3. ofServices \in Findings /\ ServiceVerdict(services) = "LOW"
    BY <1>1, <2>1, <2>2 DEF ClusterFindings
  <2> QED BY <1>5, <2>3, ActionableIs DEF Told, Reports, Finding
<1> QED BY <1>2, <1>3, <1>4, <1>5, SpecsAre

\* The level of a namespace that a shown pod is in is told.
LEMMA LevelTold ==
  ASSUME NEW namespaces, ByName(namespaces), NEW n \in namespaces, NEW pods, NEW p \in pods,
         p.ns = n.name, n.name \notin SystemNamespaces
  PROVE  Finding(PodSecurityVerdict(n.enforce)[1], PodSecurityVerdict(n.enforce)[2],
                 <<"namespace", n.name>>) \in AdmissionOf(namespaces, pods)
<1> DEFINE names == {q.ns : q \in pods} \ SystemNamespaces
           known(name) == {m \in namespaces : m.name = name}
           level(name) == PodSecurityVerdict((CHOOSE m \in known(name) : TRUE).enforce)
           of(name) == IF known(name) = {}
                       THEN Finding("namespace_resolution", "ERROR", <<"namespace", name>>)
                       ELSE Finding(level(name)[1], level(name)[2], <<"namespace", name>>)
           found == {of(name) : name \in names}
<1>1. found # {} => AdmissionOf(namespaces, pods) = found
  BY DEF AdmissionOf
<1>2. n.name \in names
  OBVIOUS
<1>3. of(n.name) \in found
  <2> HIDE DEF of, names
  <2> QED BY <1>2
<1>4. known(n.name) = {n}
  BY DEF ByName
<1>5. of(n.name) = Finding(PodSecurityVerdict(n.enforce)[1], PodSecurityVerdict(n.enforce)[2],
                           <<"namespace", n.name>>)
  BY <1>4
<1> QED BY <1>1, <1>3, <1>5

\* What is wrong with a cluster's admission all along is reported.
LEMMA AdmissionTold ==
  ASSUME ScanInv, pc = "done", service = "admission", OneCluster, NEW w \in Wrong(Quiet)
  PROVE  Told(w)
<1> DEFINE failed == {kind \in ToSet(AdmissionReads) : ~Got(replies, Kube(kind))}
           errors == {Finding(kind, "ERROR", Live) : kind \in failed}
           pods == Items(replies, "pods")
           namespaces == Items(replies, "namespaces")
           levels == IF failed \intersect {"namespaces", "pods"} # {} THEN {}
                     ELSE AdmissionOf(namespaces, pods)
           ofHook(kind) == WebhookFindings(kind, Items(replies, kind))
           hooks == UNION {ofHook(kind) : kind \in Webhooks \ failed}
<1>1. ~Unavailable(replies) => errors \union levels \union hooks \subseteq Findings
  BY DEF Findings, Aws, WorkloadFindings, AdmissionFindings, Webhooks
<1>2. /\ \A kind \in ToSet(AdmissionReads) : kind \in Kinds[service] \ {"context"}
      /\ service \in Kubectl /\ WorldInv /\ DOMAIN Quiet = DOMAIN world
  BY AdmissionKinds, KindsOfServices, Finished, SteadyScope DEF Kubectl
<1>3. \A kind \in ToSet(AdmissionReads) : \A i \in Inventories(Quiet, kind) :
        /\ ~Unavailable(replies) /\ kind \notin failed /\ i[2] = Items(replies, kind)
        /\ kind \in {"namespaces", "pods"} => ByName(Items(replies, kind))
  BY <1>2, QuietInventory
<1>4. w \in Admitted(Quiet)
  BY <1>2, WrongInAdmission
<1>5. CASE \E n \in Inhabited(Quiet) :
             /\ w = <<<<"namespace", n.name>>, PodSecurityVerdict(n.enforce)[1]>>
             /\ Actionable(PodSecurityVerdict(n.enforce)[2])
  <2>1. PICK n \in Inhabited(Quiet) :
          /\ w = <<<<"namespace", n.name>>, PodSecurityVerdict(n.enforce)[1]>>
          /\ Actionable(PodSecurityVerdict(n.enforce)[2])
    BY <1>5
  <2>2. PICK i \in Inventories(Quiet, "namespaces") :
          n \in i[2] /\ \E j \in Inventories(Quiet, "pods") : \E p \in j[2] : p.ns = n.name
    BY InhabitedAre
  <2>3. PICK j \in Inventories(Quiet, "pods") : \E p \in j[2] : p.ns = n.name
    BY <2>2
  <2>4. /\ n \in namespaces /\ ByName(namespaces) /\ n.name \notin SystemNamespaces
        /\ \E p \in pods : p.ns = n.name
        /\ ~Unavailable(replies) /\ failed \intersect {"namespaces", "pods"} = {}
    BY <1>3, <2>2, <2>3, AdmissionKinds, InhabitedAre
  <2> DEFINE f == Finding(PodSecurityVerdict(n.enforce)[1], PodSecurityVerdict(n.enforce)[2],
                          <<"namespace", n.name>>)
  <2>5. f \in AdmissionOf(namespaces, pods)
    <3> HIDE DEF namespaces, pods, failed
    <3> QED BY <2>4, LevelTold
  <2>6. f \in Findings
    BY <1>1, <2>4, <2>5
  <2> QED BY <2>1, <2>6 DEF Told, Reports, Finding
<1>6. CASE \E kind \in Webhooks : \E i \in Inventories(Quiet, kind) : \E h \in FailOpen(i[2]) :
             w = <<<<kind, h.name>>, WebhookVerdict(h)[1]>>
  <2>1. PICK kind \in Webhooks : \E i \in Inventories(Quiet, kind) : \E h \in FailOpen(i[2]) :
          w = <<<<kind, h.name>>, WebhookVerdict(h)[1]>>
    BY <1>6
  <2>2. PICK i \in Inventories(Quiet, kind) : \E h \in FailOpen(i[2]) :
          w = <<<<kind, h.name>>, WebhookVerdict(h)[1]>>
    BY <2>1
  <2>3. ~Unavailable(replies) /\ kind \notin failed /\ i[2] = Items(replies, kind)
    BY <1>3, <2>1, AdmissionKinds DEF Webhooks
  <2>4. PICK h \in FailOpen(Items(replies, kind)) : w = <<<<kind, h.name>>, WebhookVerdict(h)[1]>>
    BY <2>2, <2>3
  <2> DEFINE f == Finding(WebhookVerdict(h)[1], WebhookVerdict(h)[2], <<kind, h.name>>)
  <2>5. f \in ofHook(kind)
    BY DEF WebhookFindings
  <2>6. f \in Findings
    <3> HIDE DEF ofHook, f, failed, errors, levels
    <3> QED BY <1>1, <2>1, <2>3, <2>5
  <2>7. Actionable(WebhookVerdict(h)[2])
    BY ActionableIs DEF WebhookVerdict
  <2> QED BY <2>4, <2>6, <2>7 DEF Told, Reports, Finding
<1> QED BY <1>4, <1>5, <1>6, AdmittedAre

\* Every finding of a finished scan that is wrong all along is reported.
LEMMA WrongIsTold ==
  ASSUME ScanInv, pc = "done", OneCluster, NEW w \in Wrong(Quiet)
  PROVE  Told(w)
<1>1. service \in DOMAIN Kinds
  BY Finished DEF WorldInv
<1>2. CASE service \in Aws
  BY <1>2, AwsTold
<1>3. CASE service \notin Aws
  BY <1>1, <1>3, KindsOfServices, DaemonTold, DockerfileTold, ManifestTold, ClusterTold,
     AdmissionTold DEF Aws
<1> QED BY <1>2, <1>3

\* What is wrong during the whole scan is reported, whatever others change between the list
\* and the calls about its elements, if no call that it takes fails.
THEOREM SteadyRiskIsAlwaysReported == Spec => []SteadyRiskIsReported
<1>1. ScanInv => SteadyRiskIsReported
  <2> SUFFICES ASSUME ScanInv, pc = "done", OneCluster, NEW w \in Wrong(Quiet)
               PROVE  \E f \in findings : Reports(f, w)
    BY DEF SteadyRiskIsReported, Quiet
  <2> QED BY Finished, WrongIsTold DEF Told
<1> QED BY <1>1, ScanInvariant, PTL

-----------------------------------------------------------------------------
(* Two risks of one resource are put together                              *)

\* A finite union of finite sets is finite.
LEMMA FiniteUnion ==
  ASSUME NEW f, IsFiniteSet(DOMAIN f), f = [x \in DOMAIN f |-> f[x]],
         \A x \in DOMAIN f : IsFiniteSet(f[x])
  PROVE  IsFiniteSet(UNION {f[x] : x \in DOMAIN f})
<1> DEFINE S == {f[x] : x \in DOMAIN f}
<1>1. IsFiniteSet(S)
  BY FiniteImage
<1>2. \A T \in S : IsFiniteSet(T)
  OBVIOUS
<1> HIDE DEF S
<1> QED BY <1>1, <1>2, FS_UNION DEF S

\* Small sets are finite.
LEMMA FewElements ==
  /\ IsFiniteSet({})
  /\ \A a : IsFiniteSet({a})
  /\ \A a, b : IsFiniteSet({a, b})
  /\ \A S, T : IsFiniteSet(S) /\ IsFiniteSet(T) => IsFiniteSet(S \union T)
<1>1. /\ IsFiniteSet({}) /\ \A a : IsFiniteSet({a})
      /\ \A S, T : IsFiniteSet(S) /\ IsFiniteSet(T) => IsFiniteSet(S \union T)
  BY FS_EmptySet, FS_Singleton, FS_Union
<1>2. ASSUME NEW a, NEW b
      PROVE  IsFiniteSet({a, b})
  <2> DEFINE A == {a}
             B == {b}
  <2>1. {a, b} = A \union B
    OBVIOUS
  <2>2. IsFiniteSet(A) /\ IsFiniteSet(B)
    BY <1>1
  <2> HIDE DEF A, B
  <2> QED BY <2>1, <2>2, FS_Union
<1> QED BY <1>1, <1>2

\* The checks of a bucket, a container and a pod are finitely many.
LEMMA FiniteChecks ==
  IsFiniteSet(BucketChecks) /\ IsFiniteSet(ContainerChecks) /\ IsFiniteSet(PodChecks)
<1>1. BucketChecks = {"public_access_block", "default_encryption"} \union
                     {"versioning", "access_logging"} \union {"public_policy"}
  BY DEF BucketChecks
<1>2. ContainerChecks =
        {"privileged", "host_namespace"} \union {"docker_socket_mount", "sensitive_host_mount"}
        \union {"capabilities_all", "dangerous_capability"}
        \union {"device_access", "unconfined_security"} \union {"root_user", "nonloopback_publish"}
  BY DEF ContainerChecks
<1>3. PodChecks =
        {"privileged_container", "root_user"} \union {"privilege_escalation", "host_namespace"}
        \union {"host_path", "capabilities_all"} \union {"seccomp_unconfined", "host_port"}
        \union {"image_latest", "literal_secret_env"}
  BY DEF PodChecks
<1> HIDE DEF BucketChecks, ContainerChecks, PodChecks
<1> QED BY <1>1, <1>2, <1>3, FewElements

\* A bucket, a container and a pod have finitely many findings.
LEMMA FiniteOfOne ==
  /\ \A key : IsFiniteSet(BucketFindings(replies, key))
  /\ \A r : IsFiniteSet(ContainerFindings(r))
  /\ \A pod, key : IsFiniteSet(PodFindings(pod, key))
<1>1. ASSUME NEW key
      PROVE  IsFiniteSet(BucketFindings(replies, key))
  <2> DEFINE f == [check \in BucketChecks |->
                     Judged(replies, check, check, key, LAMBDA b : BucketVerdict(check, b))]
  <2>1. DOMAIN f = BucketChecks /\ f = [check \in DOMAIN f |-> f[check]]
        /\ BucketFindings(replies, key) = {f[check] : check \in DOMAIN f}
    BY DEF BucketFindings
  <2> HIDE DEF f
  <2> QED BY <2>1, FiniteChecks, FiniteImage
<1>2. ASSUME NEW r
      PROVE  IsFiniteSet(ContainerFindings(r))
  <2> DEFINE f == [check \in ContainerChecks |->
                     [Finding(check, ContainerVerdict(check, r.is), <<"container", r.name>>)
                        EXCEPT !.writable = check = "sensitive_host_mount"
                                            /\ Writable(SensitiveMounts(r.is)) # {}]]
  <2>1. DOMAIN f = ContainerChecks /\ f = [check \in DOMAIN f |-> f[check]]
        /\ ContainerFindings(r) = {f[check] : check \in DOMAIN f}
    BY DEF ContainerFindings
  <2> HIDE DEF f
  <2> QED BY <2>1, FiniteChecks, FiniteImage
<1>3. ASSUME NEW pod, NEW key
      PROVE  IsFiniteSet(PodFindings(pod, key))
  <2> DEFINE f == [check \in PodChecks |-> Finding(check, PodVerdict(check, pod), key)]
  <2>1. DOMAIN f = PodChecks /\ f = [check \in DOMAIN f |-> f[check]]
        /\ PodFindings(pod, key) = {f[check] : check \in DOMAIN f}
    BY DEF PodFindings
  <2> HIDE DEF f
  <2> QED BY <2>1, FiniteChecks, FiniteImage
<1> QED BY <1>1, <1>2, <1>3

\* The services with a rule about two findings of one resource.
Paired == {"s3", "rds", "iam", "daemon", "cluster"}

\* An identity's keys, listed by a scan that is over, are finitely many.
LEMMA FiniteKeys ==
  ASSUME ScanInv, pc = "done", NEW key \in ListedKeys(replies, "user")
  PROVE  IsFiniteSet(KeyFindings(replies, key))
<1> DEFINE c == Get("list_access_keys", key)
           keys == {k \in replies[c].show.keys : k.is.active}
           use(k) == Call("get_access_key_last_used", key, {k.name}, key)
           age == [k \in keys |-> Finding("access_key_age", KeyAge(k.is), key)]
           last == [k \in keys |->
                      Finding("access_key_last_used",
                              IF Got(replies, use(k)) THEN KeyUse(replies[use(k)].show)
                              ELSE "ERROR", key)]
<1>1. CASE ~Got(replies, c)
  BY <1>1, FewElements DEF KeyFindings
<1>2. CASE Got(replies, c)
  <2>1. KeyFindings(replies, key) = {age[k] : k \in DOMAIN age} \union {last[k] : k \in DOMAIN last}
    BY <1>2 DEF KeyFindings
  <2>2. c.op = "list_access_keys" /\ c.key = key /\ c.op \in Requested /\ key[1] = "user"
    BY GetParts, RequestedOps DEF ListedKeys
  <2>3. StateOK(world, key, replies[c].show)
    <3> HIDE DEF c
    <3> QED BY <1>2, <2>2, ShownState
  <2>4. IsFiniteSet(keys)
    <3>1. IsFiniteSet(replies[c].show.keys)
      BY <2>2, <2>3 DEF StateOK, ByName
    <3> QED BY <3>1, FS_Subset
  <2>5. DOMAIN age = keys /\ age = [k \in DOMAIN age |-> age[k]]
        /\ DOMAIN last = keys /\ last = [k \in DOMAIN last |-> last[k]]
    OBVIOUS
  <2> HIDE DEF age, last, keys
  <2>6. IsFiniteSet({age[k] : k \in DOMAIN age}) /\ IsFiniteSet({last[k] : k \in DOMAIN last})
    BY <2>4, <2>5, FiniteImage
  <2> QED BY <2>1, <2>6, FewElements
<1> QED BY <1>1, <1>2

\* An IAM scan has finitely many findings.
LEMMA FiniteIam ==
  ASSUME ScanInv, pc = "done"
  PROVE  IsFiniteSet(IamFindings(replies))
<1>1. ASSUME NEW kind
      PROVE  IsFiniteSet(ListedKeys(replies, kind))
  <2> DEFINE f == [r \in Listed(replies, kind) |-> <<kind, r.name>>]
  <2>1. DOMAIN f = Listed(replies, kind) /\ f = [r \in DOMAIN f |-> f[r]]
        /\ ListedKeys(replies, kind) = {f[r] : r \in DOMAIN f}
    BY DEF ListedKeys
  <2>2. IsFiniteSet(Listed(replies, kind))
    BY Finished, ListedResources
  <2> HIDE DEF f
  <2> QED BY <2>1, <2>2, FiniteImage
<1> DEFINE all == UNION {ListedKeys(replies, kind) : kind \in DOMAIN ListCheck}
           ofKeys == [key \in ListedKeys(replies, "user") |-> KeyFindings(replies, key)]
           ofPolicies == [key \in all |-> PolicyFindings(replies, key)]
           ofTrust == [key \in ListedKeys(replies, "role") |-> TrustFinding(replies, key)]
           failed == {k \in DOMAIN ListCheck : ListFailed(replies, k)}
           errors == [kind \in failed |-> Finding(ListCheck[kind], "ERROR", Account)]
<1>2. IsFiniteSet(DOMAIN ListCheck)
  <2> DEFINE A == {"user", "group"}
             B == {"role"}
  <2>1. DOMAIN ListCheck = A \union B
    BY DEF ListCheck
  <2>2. IsFiniteSet(A) /\ IsFiniteSet(B)
    BY FewElements
  <2> HIDE DEF A, B
  <2> QED BY <2>1, <2>2, FS_Union
<1>3. IsFiniteSet(all)
  <2> DEFINE A == ListedKeys(replies, "user")
             B == ListedKeys(replies, "group")
             C == ListedKeys(replies, "role")
  <2>1. all = (A \union B) \union C
    BY DEF ListCheck
  <2>2. IsFiniteSet(A) /\ IsFiniteSet(B) /\ IsFiniteSet(C)
    BY <1>1
  <2> HIDE DEF all, A, B, C
  <2>3. IsFiniteSet(A \union B)
    BY <2>2, FS_Union
  <2> QED BY <2>1, <2>2, <2>3, FS_Union
<1>4. IsFiniteSet(failed)
  BY <1>2, FS_Subset
<1>5. /\ UNION {ofKeys[key] : key \in DOMAIN ofKeys}
           = UNION {KeyFindings(replies, key) : key \in ListedKeys(replies, "user")}
      /\ UNION {ofPolicies[key] : key \in DOMAIN ofPolicies}
           = UNION {PolicyFindings(replies, key) : key \in all}
      /\ {ofTrust[key] : key \in DOMAIN ofTrust}
           = {TrustFinding(replies, key) : key \in ListedKeys(replies, "role")}
      /\ {errors[kind] : kind \in DOMAIN errors} = ListErrors(replies)
  <2> HIDE DEF all
  <2> QED BY DEF ListErrors
<1>6. IamFindings(replies) =
        {RootFinding(replies)} \union {errors[kind] : kind \in DOMAIN errors}
        \union NoUsers(replies) \union (UNION {ofKeys[key] : key \in DOMAIN ofKeys})
        \union (UNION {ofPolicies[key] : key \in DOMAIN ofPolicies})
        \union {ofTrust[key] : key \in DOMAIN ofTrust}
  BY <1>5 DEF IamFindings
<1>7. /\ DOMAIN ofKeys = ListedKeys(replies, "user")
      /\ ofKeys = [key \in DOMAIN ofKeys |-> ofKeys[key]]
      /\ DOMAIN ofPolicies = all /\ ofPolicies = [key \in DOMAIN ofPolicies |-> ofPolicies[key]]
      /\ DOMAIN ofTrust = ListedKeys(replies, "role")
      /\ ofTrust = [key \in DOMAIN ofTrust |-> ofTrust[key]]
      /\ DOMAIN errors = failed /\ errors = [kind \in DOMAIN errors |-> errors[kind]]
      /\ \A key \in DOMAIN ofKeys : ofKeys[key] = KeyFindings(replies, key)
      /\ \A key \in DOMAIN ofPolicies : ofPolicies[key] = PolicyFindings(replies, key)
  <2> HIDE DEF all, failed
  <2> QED OBVIOUS
<1> HIDE DEF all, ofKeys, ofPolicies, ofTrust, failed, errors
<1>8. \A key : IsFiniteSet(PolicyFindings(replies, key))
  <2> TAKE key
  <2> DEFINE told == {Finding(WildcardCheck[key[1]], "HIGH", key),
                      Finding(WildcardCheck[key[1]], "PASS", key)}
             unread == {Finding(AnalysisCheck[key[1]], "ERROR", key)}
  <2>1. PolicyFindings(replies, key) \subseteq told \union unread
    BY DEF PolicyFindings
  <2>2. IsFiniteSet(told) /\ IsFiniteSet(unread)
    BY FewElements
  <2> HIDE DEF told, unread
  <2> QED BY <2>1, <2>2, FewElements, FS_Subset
<1>9. IsFiniteSet(NoUsers(replies))
  BY FewElements DEF NoUsers
<1>10. IsFiniteSet(UNION {ofKeys[key] : key \in DOMAIN ofKeys})
  BY <1>1, <1>7, FiniteKeys, FiniteUnion
<1>11. IsFiniteSet(UNION {ofPolicies[key] : key \in DOMAIN ofPolicies})
  BY <1>3, <1>7, <1>8, FiniteUnion
<1>12. IsFiniteSet({ofTrust[key] : key \in DOMAIN ofTrust})
  BY <1>1, <1>7, FiniteImage
<1>13. IsFiniteSet({errors[kind] : kind \in DOMAIN errors})
  BY <1>4, <1>7, FiniteImage
<1> DEFINE A == {RootFinding(replies)}
           B == {errors[kind] : kind \in DOMAIN errors}
           C == UNION {ofKeys[key] : key \in DOMAIN ofKeys}
           D == UNION {ofPolicies[key] : key \in DOMAIN ofPolicies}
           E == {ofTrust[key] : key \in DOMAIN ofTrust}
<1>14. IamFindings(replies) = A \union B \union NoUsers(replies) \union C \union D \union E
  BY <1>6
<1>15. IsFiniteSet(A)
  BY FewElements
<1>16. IsFiniteSet(B) /\ IsFiniteSet(C) /\ IsFiniteSet(D) /\ IsFiniteSet(E)
  BY <1>10, <1>11, <1>12, <1>13
<1> HIDE DEF A, B, C, D, E
<1>17. IsFiniteSet(A \union B \union NoUsers(replies))
  BY <1>9, <1>15, <1>16, FS_Union
<1>18. IsFiniteSet(A \union B \union NoUsers(replies) \union C \union D \union E)
  BY <1>16, <1>17, FS_Union
<1> QED BY <1>14, <1>18

\* The findings of these services are finitely many.
LEMMA FiniteFindings ==
  ASSUME ScanInv, pc = "done", service \in Paired
  PROVE  IsFiniteSet(Findings)
<1>1. \A kind : IsFiniteSet(Listed(replies, kind))
  BY Finished, ListedResources
<1>2. CASE service = "s3"
  <2> DEFINE of == [r \in Listed(replies, "bucket") |->
                      BucketFindings(replies, <<"bucket", r.name>>)]
  <2>1. /\ DOMAIN of = Listed(replies, "bucket") /\ of = [r \in DOMAIN of |-> of[r]]
        /\ \A r \in DOMAIN of : of[r] = BucketFindings(replies, <<"bucket", r.name>>)
        /\ UNION {of[r] : r \in DOMAIN of} = UNION {BucketFindings(replies, <<"bucket", r.name>>) :
                                                     r \in Listed(replies, "bucket")}
    OBVIOUS
  <2> HIDE DEF of
  <2>2. IsFiniteSet(UNION {of[r] : r \in DOMAIN of})
    <3>1. \A r \in DOMAIN of : IsFiniteSet(of[r])
      BY <2>1, FiniteOfOne
    <3> QED BY <1>1, <2>1, <3>1, FiniteUnion
  <2>3. Findings \in {{Finding("runner", "ERROR", Account)}, {}, UNION {of[r] : r \in DOMAIN of}}
    BY <1>2, <2>1 DEF Findings, Aws, AwsFindings, Over
  <2> QED BY <2>2, <2>3, FewElements
<1>3. CASE service = "rds"
  <2> DEFINE of == [r \in Listed(replies, "database") |-> DatabaseFindings(r)]
  <2>1. /\ DOMAIN of = Listed(replies, "database") /\ of = [r \in DOMAIN of |-> of[r]]
        /\ \A r \in DOMAIN of : of[r] = DatabaseFindings(r)
        /\ UNION {of[r] : r \in DOMAIN of} = UNION {DatabaseFindings(r) :
                                                     r \in Listed(replies, "database")}
    OBVIOUS
  <2> HIDE DEF of
  <2>2. \A r : IsFiniteSet(DatabaseFindings(r))
    BY FewElements DEF DatabaseFindings
  <2>3. IsFiniteSet(UNION {of[r] : r \in DOMAIN of})
    BY <1>1, <2>1, <2>2, FiniteUnion
  <2>4. Findings \in {{Finding("instances", "ERROR", Account)},
                      {Finding("instances", "INFO", Account)}, UNION {of[r] : r \in DOMAIN of}}
    BY <1>3, <2>1 DEF Findings, Aws, AwsFindings, Over
  <2> QED BY <2>3, <2>4, FewElements
<1>4. CASE service = "iam"
  BY <1>4, FiniteIam DEF Findings, Aws, AwsFindings
<1>5. CASE service = "daemon"
  <2> DEFINE c == Inspect({r.name : r \in Listed(replies, "container")})
             of == [r \in replies[c].show |-> ContainerFindings(r)]
  <2>1. /\ DOMAIN of = replies[c].show /\ of = [r \in DOMAIN of |-> of[r]]
        /\ \A r \in DOMAIN of : of[r] = ContainerFindings(r)
        /\ UNION {of[r] : r \in DOMAIN of} = UNION {ContainerFindings(r) : r \in replies[c].show}
    OBVIOUS
  <2>2. \/ \E f : Findings = {f}
        \/ Got(replies, c) /\ Findings = UNION {of[r] : r \in DOMAIN of}
    <3> HIDE DEF of
    <3> QED BY <1>5, <2>1 DEF Findings, Aws, WorkloadFindings, DaemonFindings, Connection
  <2>3. c.op = "inspect"
    BY DEF Inspect, Call
  <2> HIDE DEF of, c
  <2>4. Got(replies, c) => IsFiniteSet(replies[c].show)
    BY <2>3, Finished DEF TrueReplies, TrueAnswer, Got
  <2>5. \A r \in DOMAIN of : IsFiniteSet(of[r])
    BY <2>1, FiniteOfOne
  <2>6. Got(replies, c) => IsFiniteSet(UNION {of[r] : r \in DOMAIN of})
    BY <2>1, <2>4, <2>5, FiniteUnion
  <2> QED BY <2>2, <2>6, FewElements
<1>6. CASE service = "cluster"
  <2> DEFINE pods == Items(replies, "pods")
             of == [p \in pods |-> PodFindings(p.is, <<"pod", p.name>>)]
             one == IF Got(replies, Kube("services"))
                    THEN Finding("external_service",
                                 ServiceVerdict(Items(replies, "services")), Live)
                    ELSE Finding("service_inventory", "ERROR", Live)
             empty == IF pods = {} THEN {Finding("pod_inventory", "INFO", Live)} ELSE {}
  <2>1. /\ DOMAIN of = pods /\ of = [p \in DOMAIN of |-> of[p]]
        /\ \A p \in DOMAIN of : of[p] = PodFindings(p.is, <<"pod", p.name>>)
        /\ UNION {of[p] : p \in DOMAIN of}
             = UNION {PodFindings(p.is, <<"pod", p.name>>) : p \in pods}
    OBVIOUS
  <2>2. \/ \E f : Findings = {f}
        \/ /\ Got(replies, Kube("pods"))
           /\ Findings = empty \union (UNION {of[p] : p \in DOMAIN of}) \union {one}
    <3> HIDE DEF of
    <3> QED BY <1>6, <2>1 DEF Findings, Aws, WorkloadFindings, ClusterFindings, Connection
  <2>3. IsFiniteSet(empty)
    BY FewElements
  <2> HIDE DEF of, one, empty
  <2>4. Got(replies, Kube("pods")) => IsFiniteSet(pods)
    <3> DEFINE c == Kube("pods")
    <3>1. c.op = "kubectl" /\ c.key[1] = "pods" /\ Items(replies, "pods") = replies[c].show.is.items
      BY DEF Kube, Get, Call, Items
    <3> HIDE DEF c
    <3> SUFFICES ASSUME Got(replies, c)
                 PROVE  IsFiniteSet(pods)
      BY DEF c
    <3> DEFINE k == <<"pods", replies[c].show.from>>
    <3>2. k \in DOMAIN world /\ replies[c].show.is \in Seen(k) /\ WorldInv /\ k[1] = "pods"
      BY <3>1, Finished DEF TrueReplies, TrueAnswer, Got
    <3> HIDE DEF k
    <3>3. StateOK(world, k, replies[c].show.is)
      BY <3>2, SeenStates
    <3> QED BY <3>1, <3>2, <3>3 DEF StateOK, ByName
  <2> HIDE DEF pods
  <2>5. ASSUME NEW p \in DOMAIN of
        PROVE  IsFiniteSet(of[p])
    <3>1. IsFiniteSet(PodFindings(p.is, <<"pod", p.name>>))
      BY FiniteOfOne
    <3> QED BY <2>1, <3>1
  <2>6. Got(replies, Kube("pods")) => IsFiniteSet(UNION {of[p] : p \in DOMAIN of})
    BY <2>1, <2>4, <2>5, FiniteUnion
  <2> DEFINE A == UNION {of[p] : p \in DOMAIN of}
             B == {one}
  <2>7. \/ \E f : Findings = {f}
        \/ Got(replies, Kube("pods")) /\ Findings = empty \union A \union B
    BY <2>2
  <2>8. IsFiniteSet(B) /\ \A f : IsFiniteSet({f})
    BY FewElements
  <2>9. Got(replies, Kube("pods")) => IsFiniteSet(A)
    BY <2>6
  <2> HIDE DEF A, B, empty
  <2>10. CASE \E f : Findings = {f}
    BY <2>8, <2>10
  <2>11. CASE Got(replies, Kube("pods")) /\ Findings = empty \union A \union B
    <3>1. IsFiniteSet(empty \union A)
      BY <2>3, <2>9, <2>11, FS_Union
    <3> QED BY <2>8, <2>11, <3>1, FS_Union
  <2> QED BY <2>7, <2>10, <2>11
<1> QED BY <1>2, <1>3, <1>4, <1>5, <1>6 DEF Paired

\* The rules of the services here need some checks.
LEMMA RulesNeed ==
  ASSUME NEW rule \in Risk!ResourceRules
  PROVE  rule.needs # {} /\ (rule.service \in DOMAIN Kinds => rule.service \in Paired)
<1>1. DOMAIN Risk!RuleList = 1..10
  BY DEF Risk!RuleList
<1>2. PICK k \in 1..10 : rule = Risk!RuleList[k]
  BY <1>1 DEF Risk!ResourceRules, Risk!ToSet
<1>3. k \in {1, 2, 3, 4, 5, 6, 7, 8, 9, 10}
  OBVIOUS
<1>4. rule.needs # {} /\ rule.service \in {"auth", "daemon", "cluster", "rds", "s3", "iam"}
  BY <1>2, <1>3 DEF Risk!RuleList
<1> QED BY <1>4 DEF Kinds, Paired

\* Reported risks that a rule needs of a resource make a correlation.
LEMMA PairIsCorrelated ==
  ASSUME IsFiniteSet(findings), \A f \in findings : f.service = service,
         NEW rule \in Risk!ResourceRules, rule.service = service, NEW res,
         \A check \in rule.needs : \E f \in findings : Reports(f, <<res, check>>)
  PROVE  \E c \in Risk!ResourceCorrelations(InOrder(findings)) :
           c.rule = rule.rule /\ c.resources = {res}
<1> DEFINE fs == InOrder(findings)
<1>1. Risk!ToSet(fs) = findings
  BY InOrderLists DEF ListsAll, ToSet, Risk!ToSet
<1> HIDE DEF fs
<1>2. \A f : f \in Risk!Actionable(fs) <=> f \in findings /\ Actionable(f.severity)
  BY <1>1 DEF Risk!Actionable, Actionable
<1>3. ASSUME NEW check \in rule.needs
      PROVE  /\ check \in Risk!ChecksAt(fs, rule.service, res)
             /\ \E f \in Risk!Actionable(fs) : f.resource = res
  <2>1. PICK f \in findings : Reports(f, <<res, check>>)
    OBVIOUS
  <2>2. /\ f \in Risk!Actionable(fs) /\ f.resource = res /\ f.service = rule.service
        /\ \/ f.check = check
           \/ /\ check = "writable_sensitive_host_mount"
              /\ f.check = "sensitive_host_mount" /\ f.writable
    BY <1>2, <2>1 DEF Reports
  <2> QED BY <2>2 DEF Risk!ChecksAt
<1>4. rule.needs \subseteq Risk!ChecksAt(fs, rule.service, res)
  BY <1>3
<1>5. res \in {f.resource : f \in Risk!Actionable(fs)}
  BY <1>3, RulesNeed
<1> DEFINE found == [rule |-> rule.rule, points |-> rule.points, resources |-> {res}]
           At(x) == {[rule |-> r.rule, points |-> r.points, resources |-> {x}] :
                       r \in {q \in Risk!ResourceRules :
                                q.needs \subseteq Risk!ChecksAt(fs, q.service, x)}}
<1>6. found \in At(res) /\ found.rule = rule.rule /\ found.resources = {res}
  BY <1>4
<1>7. Risk!ResourceCorrelations(fs) = UNION {At(x) : x \in {f.resource : f \in Risk!Actionable(fs)}}
  BY DEF Risk!ResourceCorrelations
<1> HIDE DEF At, found
<1> QED BY <1>5, <1>6, <1>7 DEF fs

\* Two steady risks of a resource that a rule combines are combined, although their reads
\* are apart in time and each check names the resource anew.
THEOREM PairsAreCorrelated == Spec => []SteadyPairsAreCorrelated
<1>1. ScanInv => SteadyPairsAreCorrelated
  <2> SUFFICES ASSUME ScanInv, pc = "done", OneCluster,
                      NEW rule \in Risk!ResourceRules, rule.service = service,
                      NEW res, {res} \X rule.needs \subseteq Wrong(Quiet)
               PROVE  \E c \in Risk!ResourceCorrelations(InOrder(findings)) :
                        c.rule = rule.rule /\ c.resources = {res}
    BY DEF SteadyPairsAreCorrelated, Quiet
  <2>1. findings = Findings /\ WorldInv
    BY Finished
  <2>2. IsFiniteSet(findings)
    BY <2>1, FiniteFindings, RulesNeed DEF WorldInv
  <2>3. \A f \in findings : f.service = service
    BY <2>1, AwsFindingsOK, WorkloadFindingsOK DEF Findings, WorldInv, Sound
  <2>4. ASSUME NEW check \in rule.needs
        PROVE  \E f \in findings : Reports(f, <<res, check>>)
    BY <2>1, WrongIsTold DEF Told
  <2> QED BY <2>2, <2>3, <2>4, PairIsCorrelated
<1> QED BY <1>1, ScanInvariant, PTL
=============================================================================
