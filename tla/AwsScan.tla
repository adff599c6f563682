------------------------------ MODULE AwsScan ------------------------------
(***************************************************************************)
(* The AWS scanners: for each service the calls it makes first, the calls  *)
(* that the answer to a call leads to, and the findings the replies        *)
(* amount to.  No scanner lets the reply to one call change what another   *)
(* finding says, so the findings are computed once all replies are in.     *)
(***************************************************************************)
EXTENDS Inventory, CloudChecks

AwsFirst ==
  CASE service = "s3" -> <<List("bucket", "1")>>
    [] service = "cloudtrail" -> <<List("trail", "1")>>
    [] service = "guardduty" -> <<List("detector", "1")>>
    [] service = "ec2" -> <<List("securityGroup", "1")>>
    [] service = "rds" -> <<List("database", "1")>>
    [] service = "lambda" -> <<List("function", "1")>>
    [] service = "iam" -> <<Get("get_account_summary", Root),
                            List("user", "1"), List("group", "1"), List("role", "1")>>

Inline == [user |-> "get_user_policy", group |-> "get_group_policy", role |-> "get_role_policy"]

\* The calls for one listed resource.
PerResource(key) ==
  LET Policies == <<Get("list_inline", key), Get("list_attached", key)>>
  IN  CASE key[1] = "bucket" ->
             <<Get("public_access_block", key), Get("default_encryption", key),
               Get("versioning", key), Get("access_logging", key), Get("public_policy", key)>>
        [] key[1] = "trail" -> <<Get("get_trail_status", key)>>
        [] key[1] = "detector" -> <<Get("get_detector", key)>>
        [] key[1] = "function" -> <<Get("get_function_url_config", key)>>
        [] key[1] = "user" -> <<Get("list_access_keys", key)>> \o Policies
        [] key[1] = "group" -> Policies
        [] key[1] = "role" -> Policies \o <<Get("get_role", key)>>
        [] OTHER -> <<>>

\* The elements of a set, in one order.
InOrder(set) == FoldSet(LAMBDA x, seq : Append(seq, x), <<>>, set)

\* One call for every element of a set.
Each(set, Of(_)) == LET seq == InOrder(set) IN [i \in DOMAIN seq |-> Of(seq[i])]

\* Mutant: the page token is not passed on, the first page comes again.
SamePageAgain(c) == <<c>>

\* The next page of the list, if there is one.
NextPage(c) == <<List(c.key[1], "2")>>

\* The calls that the answer to c leads to, before everything still to be done.
AwsFollow(c, replies) ==
  LET shown == replies[c].show
      kind == c.key[1]
  IN  CASE c.op = "list" /\ c.key[2] # Last(Pages(kind)) -> NextPage(c)
        [] c.op = "list" /\ c.key[2] = Last(Pages(kind)) ->
             FlattenSeq(Each({<<kind, r.name>> : r \in Listed(replies, kind)}, PerResource))
        [] c.op = "list_access_keys" ->
             Each({k \in shown.keys : k.is.active},
                  LAMBDA k : Call("get_access_key_last_used", c.key, {k.name}, c.by))
        [] c.op = "list_inline" ->
             Each(shown.inline, LAMBDA d : Call(Inline[kind], c.key, {d.name}, c.by))
        [] c.op = "list_attached" ->
             Each(shown.attached, LAMBDA p : Call("get_policy", <<"policy", p>>, {}, c.by))
        [] c.op = "get_policy" ->
             <<Call("get_policy_version", c.key, {shown.default}, c.by)>>
        [] OTHER -> <<>>

-----------------------------------------------------------------------------
(* Findings                                                                *)

\* One finding for a call about a resource, or the ERROR of that call.
Judged(replies, op, check, key, Verdict(_)) ==
  LET c == Get(op, key)
  IN  IF Got(replies, c) THEN Finding(check, Verdict(replies[c].show), key)
      ELSE Finding(check, "ERROR", key)

\* A list that fails is one ERROR; an empty one has a finding of its own, if any.
Over(replies, kind, failure, empty, Of(_)) ==
  LET names == Listed(replies, kind)
  IN  IF ListFailed(replies, kind) THEN {failure}
      ELSE IF names = {} THEN empty ELSE UNION {Of(r) : r \in names}

BucketFindings(replies, key) ==
  {Judged(replies, check, check, key, LAMBDA b : BucketVerdict(check, b)) :
     check \in BucketChecks}

\* The status call comes first: without it the trail's region is not judged either.
TrailFindings(replies, r) ==
  LET key == <<"trail", r.name>>
      logging == Judged(replies, "get_trail_status", "logging", key, TrailLogging)
  IN  {logging} \union
      IF logging.severity = "ERROR" THEN {}
      ELSE {Finding("multi_region", TrailEverywhere(r.is), key)}

GroupFindings(r) ==
  {Finding(v[1], v[2], <<"securityGroup", r.name>>) : v \in GroupVerdicts(r.is)}

DatabaseFindings(r) ==
  {Finding("public_access", DatabaseAccess(r.is), <<"database", r.name>>),
   Finding("storage_encryption", DatabaseEncryption(r.is), <<"database", r.name>>)}

\* A function without a URL answers ResourceNotFound, and so does a deleted one.
UrlFinding(replies, key) ==
  LET reply == replies[Get("get_function_url_config", key)]
  IN  Finding("function_url_auth",
              CASE reply.how = "missing" -> "PASS"
                [] reply.how = "answered" -> FunctionUrl(reply.show)
                [] OTHER -> "ERROR",
              key)

KeyFindings(replies, key) ==
  LET c == Get("list_access_keys", key)
      keys == {k \in replies[c].show.keys : k.is.active}
      Use(k) == Call("get_access_key_last_used", key, {k.name}, key)
  IN  IF ~Got(replies, c) THEN {Finding("access_keys", "ERROR", key)}
      ELSE {Finding("access_key_age", KeyAge(k.is), key) : k \in keys}
           \union
           {Finding("access_key_last_used",
                    IF Got(replies, Use(k)) THEN KeyUse(replies[Use(k)].show) ELSE "ERROR",
                    key) : k \in keys}

-----------------------------------------------------------------------------
(* _check_identity_policies                                                *)

DocumentReads == {"get_user_policy", "get_group_policy", "get_role_policy", "get_policy_version"}
PolicyReads == DocumentReads \union {"list_inline", "list_attached", "get_policy"}

PolicyCalls(replies, key) == {c \in DOMAIN replies : c.by = key /\ c.op \in PolicyReads}

Documents(replies, key) ==
  {replies[c].show : c \in {d \in PolicyCalls(replies, key) :
                              d.op \in DocumentReads /\ Got(replies, d)}}

WildcardCheck == [user |-> "user_wildcard_policy", group |-> "group_wildcard_policy",
                  role |-> "role_wildcard_policy"]
AnalysisCheck == [user |-> "user_policy_analysis", group |-> "group_policy_analysis",
                  role |-> "role_policy_analysis"]

Matched(documents) == \E d \in documents : d.parses /\ Unrestricted(d)

\* Mutant: an identity whose managed policies cannot be listed has none.
HadErrorsButList(replies, key) ==
  \/ \E c \in PolicyCalls(replies, key) : ~Got(replies, c) /\ c.op # "list_attached"
  \/ \E d \in Documents(replies, key) : ~d.parses

\* had_errors
HadErrors(replies, key) ==
  \/ \E c \in PolicyCalls(replies, key) : ~Got(replies, c)
  \/ \E d \in Documents(replies, key) : ~d.parses

\* Mutant: no match is a pass, whatever could not be read.
PolicyFindingsUnchecked(replies, key) ==
  {Finding(WildcardCheck[key[1]], PassUnless(Matched(Documents(replies, key)), "HIGH"), key)}
  \union
  (IF HadErrors(replies, key) THEN {Finding(AnalysisCheck[key[1]], "ERROR", key)} ELSE {})

PolicyFindings(replies, key) ==
  LET kind == key[1]
      errors == IF HadErrors(replies, key)
                THEN {Finding(AnalysisCheck[kind], "ERROR", key)} ELSE {}
  IN  errors \union
      CASE Matched(Documents(replies, key)) -> {Finding(WildcardCheck[kind], "HIGH", key)}
        [] ~Matched(Documents(replies, key)) /\ errors = {} ->
             {Finding(WildcardCheck[kind], "PASS", key)}
        [] OTHER -> {}

TrustFinding(replies, key) ==
  Judged(replies, "get_role", "role_trust_wildcard", key, LAMBDA r : TrustVerdict(r.trust))

ListCheck == [user |-> "list_users", group |-> "list_groups", role |-> "list_roles"]

RootFinding(replies) ==
  Judged(replies, "get_account_summary", "root_mfa", Root,
         LAMBDA root : PassUnless(~root.mfa, "HIGH"))

ListErrors(replies) ==
  {Finding(ListCheck[kind], "ERROR", Account) :
     kind \in {k \in DOMAIN ListCheck : ListFailed(replies, k)}}

\* Only users that were listed, and are none, have a finding for having no keys.
NoUsers(replies) ==
  IF Listed(replies, "user") = {} /\ ~ListFailed(replies, "user")
  THEN {Finding("access_keys", "INFO", Account)} ELSE {}

ListedKeys(replies, kind) == {<<kind, r.name>> : r \in Listed(replies, kind)}

\* A user, a group and a role of one name are told apart here by the key; in the report they
\* have one resource id, and the check ids say which of them is meant.
IamFindings(replies) ==
  {RootFinding(replies)} \union ListErrors(replies) \union NoUsers(replies)
  \union (UNION {KeyFindings(replies, key) : key \in ListedKeys(replies, "user")})
  \union (UNION {PolicyFindings(replies, key) :
                  key \in UNION {ListedKeys(replies, kind) : kind \in DOMAIN ListCheck}})
  \union {TrustFinding(replies, key) : key \in ListedKeys(replies, "role")}

-----------------------------------------------------------------------------
Region == <<"account", "region">>

AwsFindings(replies) ==
  LET Failed(check, at) == Finding(check, "ERROR", at)
  IN  CASE service = "s3" ->
             Over(replies, "bucket", Failed("runner", Account), {},
                  LAMBDA r : BucketFindings(replies, <<"bucket", r.name>>))
        [] service = "cloudtrail" ->
             Over(replies, "trail", Failed("describe", Account),
                  {Finding("trail_present", "HIGH", Account)},
                  LAMBDA r : TrailFindings(replies, r))
        [] service = "guardduty" ->
             Over(replies, "detector", Failed("detector_enabled", Region),
                  {Finding("detector_enabled", "HIGH", Region)},
                  LAMBDA r : {Judged(replies, "get_detector", "detector_enabled",
                                     <<"detector", r.name>>, Detector)})
        [] service = "ec2" ->
             Over(replies, "securityGroup", Failed("security_groups", Account), {}, GroupFindings)
        [] service = "rds" ->
             Over(replies, "database", Failed("instances", Account),
                  {Finding("instances", "INFO", Account)}, DatabaseFindings)
        [] service = "lambda" ->
             Over(replies, "function", Failed("list_functions", Account),
                  {Finding("function_urls", "INFO", Account)},
                  LAMBDA r : {UrlFinding(replies, <<"function", r.name>>)})
        [] service = "iam" -> IamFindings(replies)
=============================================================================
