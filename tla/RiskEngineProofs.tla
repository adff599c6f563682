-------------------------- MODULE RiskEngineProofs --------------------------
(***************************************************************************)
(* What risk.assess_risk promises, for every catalog of findings and lists *)
(* of every length.  Each property compares two assessments, so most of    *)
(* the lemmas say how a part of the assessment depends on the list: all    *)
(* the rules read the set of its findings only and lose nothing when it    *)
(* grows, and the score is a sum over it.                                  *)
(***************************************************************************)
EXTENDS RiskEngine, FoldProofs

-----------------------------------------------------------------------------
(* The rules                                                               *)

\* Ten things are finitely many.
LEMMA TenAreFinite ==
  \A a, b, c, d, e, f, g, h, i, j : IsFiniteSet({a, b, c, d, e, f, g, h, i, j})
<1>1. \A a, b : IsFiniteSet({a, b})
  <2> SUFFICES ASSUME NEW a, NEW b PROVE IsFiniteSet({a, b})
    OBVIOUS
  <2>1. IsFiniteSet({a} \cup {b})
    BY FS_Singleton, FS_Union
  <2>2. {a, b} = {a} \cup {b}
    OBVIOUS
  <2>3. QED
    BY <2>1, <2>2
<1>2. \A a, b, c, d, e : IsFiniteSet({a, b, c, d, e})
  <2> SUFFICES ASSUME NEW a, NEW b, NEW c, NEW d, NEW e PROVE IsFiniteSet({a, b, c, d, e})
    OBVIOUS
  <2>1. IsFiniteSet({a, b} \cup {c, d})
    BY <1>1, FS_Union
  <2>2. IsFiniteSet(({a, b} \cup {c, d}) \cup {e})
    BY <2>1, FS_Singleton, FS_Union
  <2>3. {a, b, c, d, e} = ({a, b} \cup {c, d}) \cup {e}
    OBVIOUS
  <2>4. QED
    BY <2>2, <2>3
<1>3. SUFFICES ASSUME NEW a, NEW b, NEW c, NEW d, NEW e, NEW f, NEW g, NEW h, NEW i, NEW j
               PROVE  IsFiniteSet({a, b, c, d, e, f, g, h, i, j})
  OBVIOUS
<1>4. IsFiniteSet({a, b, c, d, e} \cup {f, g, h, i, j})
  BY <1>2, FS_Union
<1>5. {a, b, c, d, e, f, g, h, i, j} = {a, b, c, d, e} \cup {f, g, h, i, j}
  OBVIOUS
<1>6. QED
  BY <1>4, <1>5

AccountRules == {"critical_findings_with_cloudtrail_gap", "root_mfa_with_cloudtrail_gap",
                 "regional_public_exposure_with_guardduty_gap"}

\* The rules about one resource, one after the other.
LEMMA RulesListed ==
  /\ DOMAIN RuleList = 1..10
  /\ ResourceRules = {RuleList[1], RuleList[2], RuleList[3], RuleList[4], RuleList[5],
                      RuleList[6], RuleList[7], RuleList[8], RuleList[9], RuleList[10]}
  /\ \A k, l \in 1..10 : RuleList[k].rule = RuleList[l].rule => k = l
<1>1. DOMAIN RuleList = 1..10
  BY DEF RuleList
<1>2. \A k \in 1..10 : k \in {1, 2, 3, 4, 5, 6, 7, 8, 9, 10}
  OBVIOUS
<1>3. ResourceRules = {RuleList[1], RuleList[2], RuleList[3], RuleList[4], RuleList[5],
                       RuleList[6], RuleList[7], RuleList[8], RuleList[9], RuleList[10]}
  BY <1>1, <1>2 DEF ResourceRules, ToSet
<1>4. \A k, l \in 1..10 : RuleList[k].rule = RuleList[l].rule => k = l
  BY <1>2 DEF RuleList
<1>5. QED
  BY <1>1, <1>3, <1>4

\* A rule about one resource is known by its name, which no other rule has.
LEMMA ResourceRuleNames ==
  /\ IsFiniteSet(ResourceRules)
  /\ \A r \in ResourceRules :
       /\ r.points \in 10..25 /\ r.needs # {}
       /\ r.rule \notin AccountRules \cup {"token_with_dangerous_rbac"}
  /\ \A r, q \in ResourceRules : r.rule = q.rule => r = q
<1>1. IsFiniteSet(ResourceRules)
  BY TenAreFinite, RulesListed
<1>2. \A r \in ResourceRules :
       /\ r.points \in 10..25 /\ r.needs # {}
       /\ r.rule \notin AccountRules \cup {"token_with_dangerous_rbac"}
  <2>1. \A k \in 1..10 : k \in {1, 2, 3, 4, 5, 6, 7, 8, 9, 10}
    OBVIOUS
  <2>2. \A k \in 1..10 :
          /\ RuleList[k].points \in 10..25 /\ RuleList[k].needs # {}
          /\ RuleList[k].rule \notin AccountRules \cup {"token_with_dangerous_rbac"}
    BY <2>1 DEF RuleList, AccountRules
  <2>3. ResourceRules = {RuleList[k] : k \in 1..10}
    BY RulesListed DEF ResourceRules, ToSet
  <2>4. QED
    BY <2>2, <2>3
<1>3. \A r, q \in ResourceRules : r.rule = q.rule => r = q
  <2>1. ResourceRules = {RuleList[k] : k \in 1..10}
    BY RulesListed DEF ResourceRules, ToSet
  <2>2. QED
    BY <2>1, RulesListed
<1>4. QED
  BY <1>1, <1>2, <1>3

-----------------------------------------------------------------------------
(* What the correlations are made of                                       *)

OfResource(r, res) == [rule |-> r.rule, points |-> r.points, resources |-> {res}]

Overall(rule, what) == [rule |-> rule, points |-> 15, resources |-> what]

Criticals(fs) == {f \in Actionable(fs) : f.severity = "CRITICAL" /\ f.service # "cloudtrail"}
RootGap(fs) == \E f \in Actionable(fs) : f.service = "iam" /\ f.check = "root_mfa" /\ Grave(f)
Blind(fs) ==
  \E f \in Actionable(fs) : f.service = "guardduty" /\ f.check = "detector_enabled" /\ Grave(f)
Exposed(fs) ==
  {f \in Actionable(fs) : <<f.service, f.check>> \in RegionalExposureChecks /\ Grave(f)}

\* A check found at a resource was found by an actionable finding there.
LEMMA ChecksAreFound ==
  ASSUME NEW fs, NEW service, NEW res, ChecksAt(fs, service, res) # {}
  PROVE  \E f \in Actionable(fs) : f.service = service /\ f.resource = res
BY DEF ChecksAt

LEMMA ResourceCorrelationIs ==
  ASSUME NEW fs, NEW c
  PROVE  c \in ResourceCorrelations(fs) <=>
           \E r \in ResourceRules : \E res :
             r.needs \subseteq ChecksAt(fs, r.service, res) /\ c = OfResource(r, res)
<1>1. ASSUME c \in ResourceCorrelations(fs)
      PROVE  \E r \in ResourceRules : \E res :
               r.needs \subseteq ChecksAt(fs, r.service, res) /\ c = OfResource(r, res)
  BY <1>1 DEF ResourceCorrelations, OfResource
<1>2. ASSUME NEW r \in ResourceRules, NEW res,
             r.needs \subseteq ChecksAt(fs, r.service, res), c = OfResource(r, res)
      PROVE  c \in ResourceCorrelations(fs)
  <2>1. ChecksAt(fs, r.service, res) # {}
    BY <1>2, ResourceRuleNames
  <2>2. res \in {f.resource : f \in Actionable(fs)}
    BY <2>1, ChecksAreFound
  <2>3. c \in {OfResource(q, res) :
                 q \in {t \in ResourceRules : t.needs \subseteq ChecksAt(fs, t.service, res)}}
    BY <1>2
  <2>4. QED
    BY <2>2, <2>3 DEF ResourceCorrelations, OfResource
<1>3. QED
  BY <1>1, <1>2

LEMMA ServiceAccountCorrelationIs ==
  ASSUME NEW fs, NEW c
  PROVE  c \in ServiceAccountCorrelations(fs) <=>
           \E sa \in TokenUsers(fs) : GrantsOf(fs, sa) # {} /\ c = OfAccount(fs, sa)
BY DEF ServiceAccountCorrelations, GrantedUsers

\* The rules over the whole account, the first, the second and the third.
IfFired(rule, when, what) == IF when THEN {Overall(rule, what)} ELSE {}

BlindToCriticals(fs) ==
  IfFired("critical_findings_with_cloudtrail_gap", CloudTrailGaps(fs) # {} /\ Criticals(fs) # {},
          {f.resource : f \in Criticals(fs)})
BlindToRoot(fs) ==
  IfFired("root_mfa_with_cloudtrail_gap", CloudTrailGaps(fs) # {} /\ RootGap(fs),
          {"root"} \union {f.resource : f \in CloudTrailGaps(fs)})
BlindToExposure(fs) ==
  IfFired("regional_public_exposure_with_guardduty_gap", Blind(fs) /\ Exposed(fs) # {},
          {f.resource : f \in Exposed(fs)})

LEMMA AccountCorrelationsListed ==
  ASSUME NEW fs
  PROVE  /\ AccountCorrelations(fs) =
              (BlindToCriticals(fs) \union BlindToRoot(fs)) \union BlindToExposure(fs)
         /\ ListsAll(AccountCorrelationList(fs), AccountCorrelations(fs))
<1> DEFINE Listed(rule, when, what) == IF when THEN <<Overall(rule, what)>> ELSE <<>>
           a == Listed("critical_findings_with_cloudtrail_gap",
                       CloudTrailGaps(fs) # {} /\ Criticals(fs) # {},
                       {f.resource : f \in Criticals(fs)})
           b == Listed("root_mfa_with_cloudtrail_gap", CloudTrailGaps(fs) # {} /\ RootGap(fs),
                       {"root"} \union {f.resource : f \in CloudTrailGaps(fs)})
           c == Listed("regional_public_exposure_with_guardduty_gap",
                       Blind(fs) /\ Exposed(fs) # {}, {f.resource : f \in Exposed(fs)})
           A == BlindToCriticals(fs)
           B == BlindToRoot(fs)
           C == BlindToExposure(fs)
<1>1. AccountCorrelationList(fs) = (a \o b) \o c
  BY DEF AccountCorrelationList, Overall, Criticals, RootGap, Blind, Exposed
<1>2. ListsAll(a, A) /\ ListsAll(b, B) /\ ListsAll(c, C)
  BY ShortLists DEF IfFired, BlindToCriticals, BlindToRoot, BlindToExposure
<1>3. /\ \A x \in A : x.rule = "critical_findings_with_cloudtrail_gap"
      /\ \A x \in B : x.rule = "root_mfa_with_cloudtrail_gap"
      /\ \A x \in C : x.rule = "regional_public_exposure_with_guardduty_gap"
  BY DEF BlindToCriticals, BlindToRoot, BlindToExposure, IfFired, Overall
<1>4. A \cap B = {} /\ (A \union B) \cap C = {}
  BY <1>3
<1> HIDE DEF a, b, c, A, B, C
<1>5. ListsAll(a \o b, A \union B)
  BY <1>2, <1>4, JoinedLists
<1>6. ListsAll((a \o b) \o c, (A \union B) \union C)
  BY <1>2, <1>4, <1>5, JoinedLists
<1>7. AccountCorrelations(fs) = (A \union B) \union C
  BY <1>1, <1>6 DEF AccountCorrelations, ListsAll
<1>8. QED
  BY <1>1, <1>6, <1>7 DEF A, B, C

LEMMA AccountCorrelationIs ==
  ASSUME NEW fs, NEW c
  PROVE  c \in AccountCorrelations(fs) <=>
           \/ /\ CloudTrailGaps(fs) # {} /\ Criticals(fs) # {}
              /\ c = Overall("critical_findings_with_cloudtrail_gap",
                             {f.resource : f \in Criticals(fs)})
           \/ /\ CloudTrailGaps(fs) # {} /\ RootGap(fs)
              /\ c = Overall("root_mfa_with_cloudtrail_gap",
                             {"root"} \union {f.resource : f \in CloudTrailGaps(fs)})
           \/ /\ Blind(fs) /\ Exposed(fs) # {}
              /\ c = Overall("regional_public_exposure_with_guardduty_gap",
                             {f.resource : f \in Exposed(fs)})
BY AccountCorrelationsListed DEF BlindToCriticals, BlindToRoot, BlindToExposure, IfFired

\* A correlation's kind shows in its rule.
LEMMA CorrelationKinds ==
  ASSUME NEW fs, NEW c \in Correlations(fs)
  PROVE  /\ c \in ServiceAccountCorrelations(fs) <=> c.rule = "token_with_dangerous_rbac"
         /\ c \in AccountCorrelations(fs) <=> c.rule \in AccountRules
         /\ c.points \in 10..30
<1>1. c \in ResourceCorrelations(fs) =>
        c.rule \notin AccountRules \cup {"token_with_dangerous_rbac"} /\ c.points \in 10..30
  BY ResourceCorrelationIs, ResourceRuleNames DEF OfResource
<1>2. c \in ServiceAccountCorrelations(fs) =>
        c.rule = "token_with_dangerous_rbac" /\ c.points \in 10..30
  BY ServiceAccountCorrelationIs DEF OfAccount, Tier
<1>3. c \in AccountCorrelations(fs) => c.rule \in AccountRules /\ c.points \in 10..30
  BY AccountCorrelationIs DEF Overall, AccountRules
<1>4. "token_with_dangerous_rbac" \notin AccountRules
  BY DEF AccountRules
<1>5. QED
  BY <1>1, <1>2, <1>3, <1>4 DEF Correlations

-----------------------------------------------------------------------------
(* More findings                                                           *)

\* All that the rules look at grows with the set of findings.
LEMMA MoreIsSeen ==
  ASSUME NEW fs, NEW gs, ToSet(fs) \subseteq ToSet(gs)
  PROVE  /\ Actionable(fs) \subseteq Actionable(gs)
         /\ \A service, res : ChecksAt(fs, service, res) \subseteq ChecksAt(gs, service, res)
         /\ TokenUsers(fs) \subseteq TokenUsers(gs)
         /\ \A sa : GrantsOf(fs, sa) \subseteq GrantsOf(gs, sa)
         /\ CloudTrailGaps(fs) \subseteq CloudTrailGaps(gs)
         /\ Criticals(fs) \subseteq Criticals(gs)
         /\ RootGap(fs) => RootGap(gs)
         /\ Blind(fs) => Blind(gs)
         /\ Exposed(fs) \subseteq Exposed(gs)
<1>1. Actionable(fs) \subseteq Actionable(gs)
  BY DEF Actionable
<1>2. \A service, res : ChecksAt(fs, service, res) \subseteq ChecksAt(gs, service, res)
  BY <1>1 DEF ChecksAt
<1>3. TokenUsers(fs) \subseteq TokenUsers(gs)
  BY DEF TokenUsers
<1>4. \A sa : GrantsOf(fs, sa) \subseteq GrantsOf(gs, sa)
  BY DEF GrantsOf
<1>5. CloudTrailGaps(fs) \subseteq CloudTrailGaps(gs)
  BY <1>1 DEF CloudTrailGaps
<1>6. Criticals(fs) \subseteq Criticals(gs)
  BY <1>1 DEF Criticals
<1>7. (RootGap(fs) => RootGap(gs)) /\ (Blind(fs) => Blind(gs))
  BY <1>1 DEF RootGap, Blind
<1>8. Exposed(fs) \subseteq Exposed(gs)
  BY <1>1 DEF Exposed
<1>9. QED
  BY <1>1, <1>2, <1>3, <1>4, <1>5, <1>6, <1>7, <1>8

\* Correlation d says at least what c says.
Extends(d, c) == d.rule = c.rule /\ c.points <= d.points /\ c.resources \subseteq d.resources

\* Every correlation is still there when there are more findings, though it may have
\* gained resources and a higher tier.
LEMMA CorrelationsStay ==
  ASSUME NEW fs, NEW gs, ToSet(fs) \subseteq ToSet(gs), NEW c \in Correlations(fs)
  PROVE  \E d \in Correlations(gs) : Extends(d, c)
<1>1. CASE c \in ResourceCorrelations(fs)
  <2>1. c \in ResourceCorrelations(gs)
    BY <1>1, ResourceCorrelationIs, MoreIsSeen
  <2>2. Extends(c, c)
    BY CorrelationKinds DEF Extends
  <2>3. QED
    BY <2>1, <2>2 DEF Correlations
<1>2. CASE c \in ServiceAccountCorrelations(fs)
  <2>1. PICK sa \in TokenUsers(fs) : GrantsOf(fs, sa) # {} /\ c = OfAccount(fs, sa)
    BY <1>2, ServiceAccountCorrelationIs
  <2>2. GrantsOf(fs, sa) \subseteq GrantsOf(gs, sa) /\ sa \in TokenUsers(gs)
    BY MoreIsSeen
  <2>3. OfAccount(gs, sa) \in ServiceAccountCorrelations(gs)
    BY <2>1, <2>2, ServiceAccountCorrelationIs
  <2>4. OfAccount(fs, sa).points <= OfAccount(gs, sa).points
    BY <2>2 DEF OfAccount, Tier
  <2>5. Extends(OfAccount(gs, sa), c)
    BY <2>1, <2>2, <2>4 DEF Extends, OfAccount
  <2>6. QED
    BY <2>3, <2>5 DEF Correlations
<1>3. CASE c \in AccountCorrelations(fs)
  <2> DEFINE criticals(l) == Overall("critical_findings_with_cloudtrail_gap",
                                    {f.resource : f \in Criticals(l)})
             root(l) == Overall("root_mfa_with_cloudtrail_gap",
                                {"root"} \union {f.resource : f \in CloudTrailGaps(l)})
             regional(l) == Overall("regional_public_exposure_with_guardduty_gap",
                                    {f.resource : f \in Exposed(l)})
  <2>1. \/ CloudTrailGaps(fs) # {} /\ Criticals(fs) # {} /\ c = criticals(fs)
        \/ CloudTrailGaps(fs) # {} /\ RootGap(fs) /\ c = root(fs)
        \/ Blind(fs) /\ Exposed(fs) # {} /\ c = regional(fs)
    BY <1>3, AccountCorrelationIs
  <2>2. CASE CloudTrailGaps(fs) # {} /\ Criticals(fs) # {} /\ c = criticals(fs)
    <3>1. criticals(gs) \in AccountCorrelations(gs)
      BY <2>2, MoreIsSeen, AccountCorrelationIs
    <3>2. Extends(criticals(gs), c)
      BY <2>2, MoreIsSeen DEF Extends, Overall
    <3>3. QED
      BY <3>1, <3>2 DEF Correlations
  <2>3. CASE CloudTrailGaps(fs) # {} /\ RootGap(fs) /\ c = root(fs)
    <3>1. root(gs) \in AccountCorrelations(gs)
      BY <2>3, MoreIsSeen, AccountCorrelationIs
    <3>2. Extends(root(gs), c)
      BY <2>3, MoreIsSeen DEF Extends, Overall
    <3>3. QED
      BY <3>1, <3>2 DEF Correlations
  <2>4. CASE Blind(fs) /\ Exposed(fs) # {} /\ c = regional(fs)
    <3>1. regional(gs) \in AccountCorrelations(gs)
      BY <2>4, MoreIsSeen, AccountCorrelationIs
    <3>2. Extends(regional(gs), c)
      BY <2>4, MoreIsSeen DEF Extends, Overall
    <3>3. QED
      BY <3>1, <3>2 DEF Correlations
  <2>5. QED
    BY <2>1, <2>2, <2>3, <2>4
<1>4. QED
  BY <1>1, <1>2, <1>3 DEF Correlations

\* A correlation never swallows two: what the larger list makes of one correlation of the
\* smaller list, it makes of no other.
LEMMA CorrelationsStayApart ==
  ASSUME NEW fs, NEW gs \in Seq(Catalog), ToSet(fs) \subseteq ToSet(gs),
         NEW b \in Correlations(fs), NEW c \in Correlations(fs), NEW d \in Correlations(gs),
         Extends(d, b), Extends(d, c)
  PROVE  b = c
<1>1. b.rule = d.rule /\ c.rule = d.rule
  BY DEF Extends
<1>2. CASE d.rule \in AccountRules
  <2>1. b \in AccountCorrelations(fs) /\ c \in AccountCorrelations(fs)
    BY <1>1, <1>2, CorrelationKinds
  <2> DEFINE what == [r \in AccountRules |->
                       IF r = "critical_findings_with_cloudtrail_gap"
                       THEN {f.resource : f \in Criticals(fs)}
                       ELSE IF r = "root_mfa_with_cloudtrail_gap"
                       THEN {"root"} \union {f.resource : f \in CloudTrailGaps(fs)}
                       ELSE {f.resource : f \in Exposed(fs)}]
  <2>2. \A x \in AccountCorrelations(fs) : x = Overall(x.rule, what[x.rule])
    BY AccountCorrelationIs DEF Overall, AccountRules
  <2> HIDE DEF what
  <2>3. QED
    BY <1>1, <2>1, <2>2
<1>3. CASE d.rule = "token_with_dangerous_rbac"
  <2>1. /\ b \in ServiceAccountCorrelations(fs) /\ c \in ServiceAccountCorrelations(fs)
        /\ d \in ServiceAccountCorrelations(gs)
    BY <1>1, <1>3, CorrelationKinds
  <2>2. PICK sb \in TokenUsers(fs) : b = OfAccount(fs, sb)
    BY <2>1, ServiceAccountCorrelationIs
  <2>3. PICK sc \in TokenUsers(fs) : c = OfAccount(fs, sc)
    BY <2>1, ServiceAccountCorrelationIs
  <2>4. PICK sd \in TokenUsers(gs) : d = OfAccount(gs, sd)
    BY <2>1, ServiceAccountCorrelationIs
  <2>5. ToSet(gs) \subseteq Catalog
    BY FiniteList
  <2>6. \A g \in GrantsOf(gs, sd) : \A sa \in TokenUsers(gs) : g.resource # sa
    BY <2>5, SubjectsAssumption DEF GrantsOf, TokenUsers
  <2>7. sb \in TokenUsers(gs) /\ sc \in TokenUsers(gs)
    BY MoreIsSeen
  <2>8. sb \in d.resources /\ sc \in d.resources
    BY <2>2, <2>3 DEF Extends, OfAccount
  <2>9. d.resources = {sd} \cup {g.resource : g \in GrantsOf(gs, sd)}
    BY <2>4 DEF OfAccount
  <2>10. sb = sd /\ sc = sd
    BY <2>6, <2>7, <2>8, <2>9
  <2>11. QED
    BY <2>2, <2>3, <2>10
<1>4. CASE d.rule \notin AccountRules \cup {"token_with_dangerous_rbac"}
  <2>1. /\ b \in ResourceCorrelations(fs) /\ c \in ResourceCorrelations(fs)
        /\ d \in ResourceCorrelations(gs)
    BY <1>1, <1>4, CorrelationKinds DEF Correlations
  <2>2. PICK rb \in ResourceRules : \E res : b = OfResource(rb, res)
    BY <2>1, ResourceCorrelationIs
  <2>3. PICK rc \in ResourceRules : \E res : c = OfResource(rc, res)
    BY <2>1, ResourceCorrelationIs
  <2>4. PICK rd \in ResourceRules : \E res : d = OfResource(rd, res)
    BY <2>1, ResourceCorrelationIs
  <2>5. PICK resb : b = OfResource(rb, resb)
    BY <2>2
  <2>6. PICK resc : c = OfResource(rc, resc)
    BY <2>3
  <2>7. PICK resd : d = OfResource(rd, resd)
    BY <2>4
  <2>8. rb = rd /\ rc = rd
    BY <1>1, <2>5, <2>6, <2>7, ResourceRuleNames DEF OfResource
  <2>9. resb = resd /\ resc = resd
    BY <2>5, <2>6, <2>7 DEF Extends, OfResource
  <2>10. QED
    BY <2>5, <2>6, <2>8, <2>9
<1>5. QED
  BY <1>2, <1>3, <1>4

\* A scan finds finitely many accounts in use.
LEMMA FiniteTokenUsers ==
  ASSUME NEW fs \in Seq(Catalog)
  PROVE  IsFiniteSet(TokenUsers(fs))
<1> DEFINE uses == {f.subjects : f \in ToSet(fs)}
           of == [f \in ToSet(fs) |-> f.subjects]
<1>1. IsFiniteSet(ToSet(fs)) /\ ToSet(fs) \subseteq Catalog
  BY FiniteList
<1>2. IsFiniteSet(uses)
  <2>1. DOMAIN of = ToSet(fs) /\ of = [f \in DOMAIN of |-> of[f]]
    OBVIOUS
  <2>2. uses = {of[f] : f \in DOMAIN of}
    OBVIOUS
  <2> HIDE DEF of, uses
  <2>3. QED
    BY <1>1, <2>1, <2>2, FiniteImage
<1>3. \A x \in uses : IsFiniteSet(x)
  BY <1>1, SubjectsAssumption
<1>4. TokenUsers(fs) \subseteq UNION uses
  BY DEF TokenUsers
<1> HIDE DEF uses
<1>5. IsFiniteSet(UNION uses)
  BY <1>2, <1>3, FS_UNION
<1>6. QED
  BY <1>4, <1>5, FS_Subset

-----------------------------------------------------------------------------
(* The tuple of the correlations                                           *)

\* What the rules find on the resource of finding f.
FoundOn(fs, f) == {OfResource(r, f.resource) : r \in FiredOn(fs, f)}

LEMMA ListFiredOnLists ==
  ASSUME NEW fs, NEW f
  PROVE  ListsAll(ListFiredOn(fs, f), FoundOn(fs, f))
<1> DEFINE one(k) == OfResource(RuleList[k], f.resource)
           seqs == [k \in DOMAIN RuleList |->
                     IF RuleList[k] \in FiredOn(fs, f) THEN <<one(k)>> ELSE <<>>]
           sets == [k \in DOMAIN RuleList |->
                     IF RuleList[k] \in FiredOn(fs, f) THEN {one(k)} ELSE {}]
<1>1. DOMAIN RuleList = 1..10 /\ DOMAIN seqs = 1..10 /\ Len(seqs) = 10
  BY RulesListed
<1>2. \A k \in DOMAIN seqs : ListsAll(seqs[k], sets[k])
  <2> SUFFICES ASSUME NEW k \in DOMAIN seqs PROVE ListsAll(seqs[k], sets[k])
    OBVIOUS
  <2>1. CASE RuleList[k] \in FiredOn(fs, f)
    <3>1. seqs[k] = <<one(k)>> /\ sets[k] = {one(k)}
      BY <2>1
    <3> HIDE DEF one, seqs, sets
    <3>2. QED
      BY <3>1, ShortLists
  <2>2. CASE RuleList[k] \notin FiredOn(fs, f)
    <3>1. seqs[k] = <<>> /\ sets[k] = {}
      BY <2>2
    <3> HIDE DEF one, seqs, sets
    <3>2. QED
      BY <3>1, ShortLists
  <2>3. QED
    BY <2>1, <2>2
<1>3. \A k, l \in DOMAIN seqs : k # l => sets[k] \cap sets[l] = {}
  <2>1. \A k \in 1..10 : \A c \in sets[k] : c.rule = RuleList[k].rule
    BY <1>1 DEF OfResource
  <2> HIDE DEF sets
  <2>2. QED
    BY <1>1, <2>1, RulesListed
<1>4. UNION {sets[k] : k \in DOMAIN seqs} = FoundOn(fs, f)
  <2>1. ResourceRules = {RuleList[k] : k \in DOMAIN RuleList}
    BY DEF ResourceRules, ToSet
  <2>2. ASSUME NEW k \in DOMAIN seqs, NEW c \in sets[k] PROVE c \in FoundOn(fs, f)
    BY DEF FoundOn
  <2>3. ASSUME NEW c \in FoundOn(fs, f) PROVE \E k \in DOMAIN seqs : c \in sets[k]
    <3>1. PICK r \in FiredOn(fs, f) : c = OfResource(r, f.resource)
      BY DEF FoundOn
    <3>2. PICK k \in DOMAIN RuleList : r = RuleList[k]
      BY <2>1, <3>1 DEF FiredOn
    <3>3. QED
      BY <3>1, <3>2
  <2> HIDE DEF sets, seqs
  <2>4. QED
    BY <2>2, <2>3
<1>5. ListFiredOn(fs, f) = FlattenSeq(seqs)
  BY DEF ListFiredOn, OfResource
<1> HIDE DEF seqs, sets
<1>6. Len(seqs) \in Nat /\ DOMAIN seqs = 1..Len(seqs) /\ (seqs = <<>> \/ Len(seqs) > 0)
  BY <1>1
<1>7. ListsAll(FlattenSeq(seqs), UNION {sets[k] : k \in DOMAIN seqs})
  BY <1>2, <1>3, <1>6, FlattenedLists
<1>8. QED
  BY <1>4, <1>5, <1>7

\* What finding number i adds to the tuple, and the set of it.
Adds(fs, i) == IF Opens(fs, i) /\ FiredOn(fs, fs[i]) # {} THEN ListFiredOn(fs, fs[i]) ELSE <<>>
Added(fs, i) == IF Opens(fs, i) THEN FoundOn(fs, fs[i]) ELSE {}

LEMMA AddsLists ==
  ASSUME NEW fs, NEW i
  PROVE  ListsAll(Adds(fs, i), Added(fs, i))
<1>1. FiredOn(fs, fs[i]) = {} => FoundOn(fs, fs[i]) = {}
  BY DEF FoundOn
<1>2. QED
  BY <1>1, ListFiredOnLists, ShortLists DEF Adds, Added

\* The findings of one resource are opened by one of them only.
LEMMA OpenedOnce ==
  ASSUME NEW fs, NEW i \in Nat \ {0}, NEW j \in Nat \ {0}, Opens(fs, i), Opens(fs, j),
         SameGroup(fs[i], fs[j])
  PROVE  i = j
<1>1. ~ (i < j)
  BY DEF Opens
<1>2. SameGroup(fs[j], fs[i])
  BY DEF SameGroup
<1>3. ~ (j < i)
  BY <1>2 DEF Opens
<1>4. QED
  BY <1>1, <1>3

LEMMA ResourcePartLists ==
  ASSUME NEW fs \in Seq(Catalog)
  PROVE  ListsAll(ResourceCorrelationList(fs), ResourceCorrelations(fs))
<1> DEFINE seqs == [i \in DOMAIN fs |-> Adds(fs, i)]
           sets == [i \in DOMAIN fs |-> Added(fs, i)]
<1>1. /\ Len(fs) \in Nat /\ DOMAIN fs = 1..Len(fs) /\ DOMAIN seqs = 1..Len(fs)
      /\ Len(seqs) = Len(fs) /\ (seqs = <<>> \/ Len(seqs) > 0)
  OBVIOUS
<1>2. \A i \in DOMAIN seqs : ListsAll(seqs[i], sets[i])
  BY AddsLists
<1>3. \A i, j \in DOMAIN seqs : i # j => sets[i] \cap sets[j] = {}
  <2> SUFFICES ASSUME NEW i \in DOMAIN seqs, NEW j \in DOMAIN seqs, i # j,
                      NEW c \in sets[i] \cap sets[j]
               PROVE  FALSE
    OBVIOUS
  <2>1. Opens(fs, i) /\ Opens(fs, j) /\ c \in FoundOn(fs, fs[i]) /\ c \in FoundOn(fs, fs[j])
    BY DEF Added
  <2>2. PICK r \in FiredOn(fs, fs[i]) : c = OfResource(r, fs[i].resource)
    BY <2>1 DEF FoundOn
  <2>3. PICK q \in FiredOn(fs, fs[j]) : c = OfResource(q, fs[j].resource)
    BY <2>1 DEF FoundOn
  <2>4. r.rule = q.rule /\ fs[i].resource = fs[j].resource
    <3>1. c.rule = r.rule /\ c.resources = {fs[i].resource}
      BY <2>2 DEF OfResource
    <3>2. c.rule = q.rule /\ c.resources = {fs[j].resource}
      BY <2>3 DEF OfResource
    <3>3. QED
      BY <3>1, <3>2
  <2>5. r = q /\ r.service = fs[i].service /\ q.service = fs[j].service
    BY <2>4, ResourceRuleNames DEF FiredOn
  <2>6. SameGroup(fs[i], fs[j])
    BY <2>4, <2>5 DEF SameGroup
  <2>7. i \in Nat \ {0} /\ j \in Nat \ {0}
    BY <1>1
  <2>8. QED
    BY <2>1, <2>6, <2>7, OpenedOnce
<1>4. UNION {sets[i] : i \in DOMAIN seqs} = ResourceCorrelations(fs)
  <2>1. ASSUME NEW i \in DOMAIN fs, NEW c \in Added(fs, i) PROVE c \in ResourceCorrelations(fs)
    <3>1. c \in FoundOn(fs, fs[i])
      BY DEF Added
    <3>2. PICK r \in FiredOn(fs, fs[i]) : c = OfResource(r, fs[i].resource)
      BY <3>1 DEF FoundOn
    <3>3. r \in ResourceRules /\ r.needs \subseteq ChecksAt(fs, r.service, fs[i].resource)
      BY <3>2 DEF FiredOn
    <3>4. QED
      BY <3>2, <3>3, ResourceCorrelationIs
  <2>2. ASSUME NEW c \in ResourceCorrelations(fs) PROVE \E i \in DOMAIN fs : c \in Added(fs, i)
    <3>1. PICK r \in ResourceRules : \E res :
            r.needs \subseteq ChecksAt(fs, r.service, res) /\ c = OfResource(r, res)
      BY ResourceCorrelationIs
    <3>2. PICK res : r.needs \subseteq ChecksAt(fs, r.service, res) /\ c = OfResource(r, res)
      BY <3>1
    <3> DEFINE Here == {i \in DOMAIN fs : /\ fs[i].severity \in DOMAIN SeverityWeights
                                          /\ fs[i].service = r.service /\ fs[i].resource = res}
    <3>3. Here # {} /\ Here \subseteq 1..Len(fs)
      <4>1. ChecksAt(fs, r.service, res) # {}
        BY <3>2, ResourceRuleNames
      <4>2. PICK f \in Actionable(fs) : f.service = r.service /\ f.resource = res
        BY <4>1, ChecksAreFound
      <4>3. PICK i \in DOMAIN fs : f = fs[i]
        BY <4>2 DEF Actionable, ToSet
      <4>4. i \in Here
        BY <4>2, <4>3 DEF Actionable
      <4>5. QED
        BY <1>1, <4>4
    <3>4. PICK i \in Here : \A j \in 1..(i - 1) : j \notin Here
      <4> HIDE DEF Here
      <4>1. QED
        BY <1>1, <3>3, FirstPlace
    <3>5. i \in DOMAIN fs /\ fs[i].service = r.service /\ fs[i].resource = res
      OBVIOUS
    <3>6. Opens(fs, i)
      <4>1. \A j \in 1..(i - 1) : j \in DOMAIN fs
        BY <1>1, <3>5
      <4>2. QED
        BY <3>4, <4>1 DEF Opens, SameGroup
    <3>7. r \in FiredOn(fs, fs[i])
      BY <3>2, <3>5 DEF FiredOn
    <3>8. c \in Added(fs, i)
      BY <3>2, <3>5, <3>6, <3>7 DEF Added, FoundOn
    <3>9. QED
      BY <3>5, <3>8
  <2>3. DOMAIN seqs = DOMAIN fs /\ \A i \in DOMAIN fs : sets[i] = Added(fs, i)
    OBVIOUS
  <2> HIDE DEF seqs, sets
  <2>4. QED
    BY <2>1, <2>2, <2>3
<1>5. ResourceCorrelationList(fs) = FlattenSeq(seqs)
  BY DEF ResourceCorrelationList, Adds
<1> HIDE DEF seqs, sets
<1>6. ListsAll(FlattenSeq(seqs), UNION {sets[i] : i \in DOMAIN seqs})
  BY <1>1, <1>2, <1>3, FlattenedLists
<1>7. QED
  BY <1>4, <1>5, <1>6

\* One correlation per account, whose id no binding has.
LEMMA ServiceAccountPartLists ==
  ASSUME NEW fs \in Seq(Catalog)
  PROVE  ListsAll(ServiceAccountCorrelationList(fs), ServiceAccountCorrelations(fs))
<1> DEFINE S == GrantedUsers(fs)
           list == SetToSeq(S)
           of == [sa \in S |-> OfAccount(fs, sa)]
<1>1. IsFiniteSet(S)
  <2>1. S \subseteq TokenUsers(fs)
    BY DEF GrantedUsers
  <2> HIDE DEF S
  <2>2. QED
    BY <2>1, FiniteTokenUsers, FS_Subset
<1>2. ListsAll(list, S)
  <2> HIDE DEF S
  <2>1. QED
    BY <1>1, ListOfSet DEF ListsAll
<1>3. \A a, b \in S : of[a] = of[b] => a = b
  <2> SUFFICES ASSUME NEW a \in S, NEW b \in S, of[a] = of[b] PROVE a = b
    OBVIOUS
  <2>1. OfAccount(fs, a).resources = OfAccount(fs, b).resources
    OBVIOUS
  <2>2. a \in {b} \cup {g.resource : g \in GrantsOf(fs, b)}
    BY <2>1 DEF OfAccount
  <2>3. ToSet(fs) \subseteq Catalog
    BY FiniteList
  <2>4. \A g \in GrantsOf(fs, b) : g.resource # a
    BY <2>3, SubjectsAssumption DEF GrantsOf, TokenUsers, GrantedUsers
  <2>5. QED
    BY <2>2, <2>4
<1>4. DOMAIN of = S /\ {of[sa] : sa \in S} = ServiceAccountCorrelations(fs)
  BY DEF ServiceAccountCorrelations
<1>5. \A i \in DOMAIN list : of[list[i]] = OfAccount(fs, list[i])
  BY <1>2 DEF ListsAll, ToSet
<1>6. ServiceAccountCorrelationList(fs) = [i \in DOMAIN list |-> of[list[i]]]
  BY <1>5 DEF ServiceAccountCorrelationList
<1> HIDE DEF S, list, of
<1>7. ListsAll([i \in DOMAIN list |-> of[list[i]]], {of[sa] : sa \in S})
  BY <1>2, <1>3, <1>4, MappedList
<1>8. QED
  BY <1>4, <1>6, <1>7

\* The tuple has each correlation once.
LEMMA TupleLists ==
  ASSUME NEW fs \in Seq(Catalog)
  PROVE  ListsAll(CorrelationList(fs), Correlations(fs))
<1> DEFINE R == ResourceCorrelations(fs)
           S == ServiceAccountCorrelations(fs)
           A == AccountCorrelations(fs)
<1>1. S \cap A = {} /\ R \cap (S \union A) = {}
  <2>1. \A c \in S : c.rule = "token_with_dangerous_rbac"
    BY CorrelationKinds DEF Correlations
  <2>2. \A c \in A : c.rule \in AccountRules
    BY CorrelationKinds DEF Correlations
  <2>3. \A c \in R : c.rule \notin AccountRules \cup {"token_with_dangerous_rbac"}
    BY ResourceCorrelationIs, ResourceRuleNames DEF OfResource
  <2>4. "token_with_dangerous_rbac" \notin AccountRules
    BY DEF AccountRules
  <2> HIDE DEF R, S, A
  <2>5. QED
    BY <2>1, <2>2, <2>3, <2>4
<1>2. R \union (S \union A) = Correlations(fs)
  BY DEF Correlations
<1>3. /\ ListsAll(ResourceCorrelationList(fs), R)
      /\ ListsAll(ServiceAccountCorrelationList(fs), S)
      /\ ListsAll(AccountCorrelationList(fs), A)
  BY ResourcePartLists, ServiceAccountPartLists, AccountCorrelationsListed
<1> HIDE DEF R, S, A
<1>4. ListsAll(ServiceAccountCorrelationList(fs) \o AccountCorrelationList(fs), S \union A)
  BY <1>1, <1>3, JoinedLists
<1>5. ListsAll(CorrelationList(fs), R \union (S \union A))
  BY <1>1, <1>3, <1>4, JoinedLists DEF CorrelationList
<1>6. QED
  BY <1>2, <1>5

\* A scan raises finitely many correlations.
LEMMA FiniteCorrelations ==
  ASSUME NEW fs \in Seq(Catalog)
  PROVE  IsFiniteSet(Correlations(fs))
BY TupleLists, ListLength

-----------------------------------------------------------------------------
(* The score                                                               *)

LEMMA SumOfFunction ==
  ASSUME NEW f
  PROVE  SumFunction(f) = SumFunctionOnSet(f, DOMAIN f)
BY DEF SumFunction, SumFunctionOnSet, FoldFunction

LEMMA WeightType == \A f \in Catalog : Weight(f) \in Nat
BY DEF Weight, SeverityWeights

LEMMA PointsAreNumbers ==
  ASSUME NEW fs
  PROVE  \A c \in Correlations(fs) : c.points \in Nat
<1> SUFFICES ASSUME NEW c \in Correlations(fs) PROVE c.points \in Nat
  OBVIOUS
<1>1. c.points \in 10..30
  BY CorrelationKinds
<1>2. QED
  BY <1>1

CorrelationPoints(fs) == SumFunction([c \in Correlations(fs) |-> c.points])

\* The points of the tuple are those of the set of correlations.
LEMMA PointsOfTuple ==
  ASSUME NEW fs \in Seq(Catalog)
  PROVE  Points(CorrelationList(fs)) = CorrelationPoints(fs)
<1> DEFINE S == Correlations(fs)
           list == CorrelationList(fs)
           f == [c \in S |-> c.points]
           g == [i \in DOMAIN list |-> f[list[i]]]
<1>1. ListsAll(list, S)
  BY TupleLists
<1>2. \A c \in S : f[c] \in Nat
  BY PointsAreNumbers
<1>3. \A i \in DOMAIN list : f[list[i]] = list[i].points
  BY <1>1 DEF ListsAll, ToSet
<1>4. Points(list) = SumFunction(g)
  BY <1>3 DEF Points
<1>5. DOMAIN f = S /\ DOMAIN g = DOMAIN list
  OBVIOUS
<1> HIDE DEF S, list, f
<1>6. SumFunctionOnSet(g, DOMAIN list) = SumFunctionOnSet(f, S)
  BY <1>1, <1>2, SumOverList
<1>7. Points(list) = SumFunction(f)
  <2> HIDE DEF g
  <2>1. QED
    BY <1>4, <1>5, <1>6, SumOfFunction
<1>8. QED
  BY <1>7 DEF CorrelationPoints, list, f, S

\* The score as a function of the set of correlations.
LEMMA ScoreIs ==
  ASSUME NEW fs \in Seq(Catalog)
  PROVE  /\ Score(fs) = Cap(BaseScore(fs) + CorrelationPoints(fs))
         /\ AssessRisk(fs) = [score |-> Score(fs), level |-> Level(Score(fs)),
                              base |-> BaseScore(fs), correlations |-> CorrelationList(fs)]
<1>1. Score(fs) = FinalScore(BaseScore(fs), CorrelationList(fs))
  BY DEF Score, AssessRisk
<1>2. QED
  BY <1>1, PointsOfTuple DEF FinalScore, AssessRisk

\* Both sums of the score are natural numbers.
LEMMA ScoreParts ==
  ASSUME NEW fs \in Seq(Catalog)
  PROVE  SeverityScore(fs) \in Nat /\ CorrelationPoints(fs) \in Nat
<1> DEFINE weight == [i \in DOMAIN fs |-> Weight(fs[i])]
           points == [c \in Correlations(fs) |-> c.points]
<1>1. IsFiniteSet(DOMAIN weight) /\ \A i \in DOMAIN weight : weight[i] \in Nat
  BY FiniteList, WeightType
<1>2. IsFiniteSet(DOMAIN points) /\ \A c \in DOMAIN points : points[c] \in Nat
  BY PointsAreNumbers, FiniteCorrelations
<1>3. SeverityScore(fs) = SumFunction(weight) /\ CorrelationPoints(fs) = SumFunction(points)
  BY DEF SeverityScore, CorrelationPoints
<1> HIDE DEF weight, points
<1>4. QED
  BY <1>1, <1>2, <1>3, SumOfFunction, SumOverSet

LEMMA ScoreRange ==
  ASSUME NEW fs \in Seq(Catalog)
  PROVE  BaseScore(fs) \in 0..100 /\ Score(fs) \in 0..100 /\ BaseScore(fs) <= Score(fs)
<1>1. SeverityScore(fs) \in Nat /\ CorrelationPoints(fs) \in Nat
  BY ScoreParts
<1>2. \A n \in Nat : Cap(n) \in 0..100
  BY DEF Cap
<1>3. \A n \in 0..100, m \in Nat : Cap(n + m) \in 0..100 /\ n <= Cap(n + m)
  BY DEF Cap
<1>4. BaseScore(fs) \in 0..100
  BY <1>1, <1>2 DEF BaseScore
<1>5. Score(fs) \in 0..100 /\ BaseScore(fs) <= Score(fs)
  BY <1>1, <1>3, <1>4, ScoreIs
<1>6. QED
  BY <1>4, <1>5

\* The points of the correlations grow with the set of findings: each correlation of the
\* smaller list has one of its own in the larger list, of no fewer points.
LEMMA PointsGrow ==
  ASSUME NEW fs \in Seq(Catalog), NEW gs \in Seq(Catalog), ToSet(fs) \subseteq ToSet(gs)
  PROVE  CorrelationPoints(fs) <= CorrelationPoints(gs)
<1> DEFINE S == Correlations(fs)
           T == Correlations(gs)
           old == [c \in S |-> c.points]
           new == [c \in T |-> c.points]
           grown == [c \in S |-> CHOOSE d \in T : Extends(d, c)]
<1>1. \A c \in S : grown[c] \in T /\ Extends(grown[c], c)
  BY CorrelationsStay
<1>2. grown \in [S -> T]
  BY <1>1
<1>3. \A b, c \in S : grown[b] = grown[c] => b = c
  <2> SUFFICES ASSUME NEW b \in S, NEW c \in S, grown[b] = grown[c] PROVE b = c
    OBVIOUS
  <2>1. grown[c] \in T /\ Extends(grown[c], b) /\ Extends(grown[c], c)
    BY <1>1
  <2> HIDE DEF grown
  <2>2. QED
    BY <2>1, CorrelationsStayApart
<1>4. \A c \in S : old[c] \in Nat /\ old[c] <= new[grown[c]]
  <2> SUFFICES ASSUME NEW c \in S PROVE old[c] \in Nat /\ old[c] <= new[grown[c]]
    OBVIOUS
  <2>1. c.points \in Nat
    BY PointsAreNumbers
  <2>2. new[grown[c]] = grown[c].points /\ c.points <= grown[c].points
    BY <1>1 DEF Extends
  <2>3. QED
    BY <2>1, <2>2
<1>5. \A d \in T : new[d] \in Nat
  BY PointsAreNumbers
<1>6. IsFiniteSet(S) /\ IsFiniteSet(T)
  BY FiniteCorrelations
<1>7. /\ CorrelationPoints(fs) = SumFunctionOnSet(old, S)
      /\ CorrelationPoints(gs) = SumFunctionOnSet(new, T)
  <2>1. DOMAIN old = S /\ DOMAIN new = T
    OBVIOUS
  <2>2. QED
    BY <2>1, SumOfFunction DEF CorrelationPoints
<1> HIDE DEF S, T, old, new, grown
<1>8. SumFunctionOnSet(old, S) <= SumFunctionOnSet(new, T)
  BY <1>2, <1>3, <1>4, <1>5, <1>6, SumOfMore
<1>9. QED
  BY <1>7, <1>8

\* A place of its own in the longer list for every finding of the shorter one.
Places(h, fs, gs) ==
  /\ h \in [DOMAIN fs -> DOMAIN gs]
  /\ \A i, j \in DOMAIN fs : h[i] = h[j] => i = j
  /\ \A i \in DOMAIN fs : fs[i] = gs[h[i]]

\* A list that holds another, in whatever order, scores no less.
LEMMA ScoreGrows ==
  ASSUME NEW fs \in Seq(Catalog), NEW gs \in Seq(Catalog), NEW h, Places(h, fs, gs)
  PROVE  /\ ToSet(fs) \subseteq ToSet(gs)
         /\ SeverityScore(fs) <= SeverityScore(gs)
         /\ BaseScore(fs) <= BaseScore(gs)
         /\ Score(fs) <= Score(gs)
<1> DEFINE S == DOMAIN fs
           T == DOMAIN gs
           old == [i \in S |-> Weight(fs[i])]
           new == [i \in T |-> Weight(gs[i])]
<1>1. ToSet(fs) \subseteq ToSet(gs)
  BY DEF Places, ToSet
<1>2. IsFiniteSet(S) /\ IsFiniteSet(T)
  BY FiniteList
<1>3. (\A i \in S : old[i] \in Nat) /\ (\A i \in T : new[i] \in Nat)
  BY WeightType
<1>4. \A i \in S : old[i] <= new[h[i]]
  <2> SUFFICES ASSUME NEW i \in S PROVE old[i] <= new[h[i]]
    OBVIOUS
  <2>1. h[i] \in T /\ fs[i] = gs[h[i]]
    BY DEF Places
  <2>2. old[i] = new[h[i]]
    BY <2>1
  <2>3. old[i] \in Nat
    BY <1>3
  <2> HIDE DEF old, new
  <2>4. QED
    BY <2>2, <2>3
<1>5. SeverityScore(fs) = SumFunctionOnSet(old, S) /\ SeverityScore(gs) = SumFunctionOnSet(new, T)
  <2>1. DOMAIN old = S /\ DOMAIN new = T
    OBVIOUS
  <2>2. QED
    BY <2>1, SumOfFunction DEF SeverityScore
<1>6. h \in [S -> T] /\ \A i, j \in S : h[i] = h[j] => i = j
  BY DEF Places
<1> HIDE DEF S, T, old, new
<1>7. SeverityScore(fs) <= SeverityScore(gs)
  BY <1>2, <1>3, <1>4, <1>5, <1>6, SumOfMore
<1>8. CorrelationPoints(fs) <= CorrelationPoints(gs)
  BY <1>1, PointsGrow
<1>9. QED
  BY <1>1, <1>7, <1>8, ScoreParts, ScoreIs DEF BaseScore, Cap

\* The correlations depend on the set of the findings only.
LEMMA SameFindings ==
  ASSUME NEW fs, NEW gs, ToSet(fs) = ToSet(gs)
  PROVE  Correlations(fs) = Correlations(gs)
<1>1. Actionable(fs) = Actionable(gs)
  BY DEF Actionable
<1>2. \A service, res : ChecksAt(fs, service, res) = ChecksAt(gs, service, res)
  BY <1>1 DEF ChecksAt
<1>3. TokenUsers(fs) = TokenUsers(gs) /\ \A sa : GrantsOf(fs, sa) = GrantsOf(gs, sa)
  BY DEF TokenUsers, GrantsOf
<1>4. CloudTrailGaps(fs) = CloudTrailGaps(gs)
  BY <1>1 DEF CloudTrailGaps
<1>5. ResourceCorrelations(fs) = ResourceCorrelations(gs)
  <2>1. \A c : c \in ResourceCorrelations(fs) <=> c \in ResourceCorrelations(gs)
    BY <1>2, ResourceCorrelationIs
  <2>2. QED
    BY <2>1
<1>6. ServiceAccountCorrelations(fs) = ServiceAccountCorrelations(gs)
  <2>1. \A sa : OfAccount(fs, sa) = OfAccount(gs, sa)
    BY <1>3 DEF OfAccount
  <2>2. \A c : c \in ServiceAccountCorrelations(fs) <=> c \in ServiceAccountCorrelations(gs)
    BY <1>3, <2>1, ServiceAccountCorrelationIs
  <2>3. QED
    BY <2>2
<1>7. AccountCorrelations(fs) = AccountCorrelations(gs)
  BY <1>1, <1>4 DEF AccountCorrelations, AccountCorrelationList
<1>8. QED
  BY <1>5, <1>6, <1>7 DEF Correlations

\* What the rules find on a resource depends on what is found there only.
LEMMA SameFired ==
  ASSUME NEW fs, NEW gs, NEW f, NEW g, Actionable(fs) = Actionable(gs), SameGroup(f, g)
  PROVE  FiredOn(fs, f) = FiredOn(gs, g) /\ ListFiredOn(fs, f) = ListFiredOn(gs, g)
<1>1. ChecksAt(fs, f.service, f.resource) = ChecksAt(gs, g.service, g.resource)
  BY DEF ChecksAt, SameGroup
<1>2. FiredOn(fs, f) = FiredOn(gs, g)
  BY <1>1 DEF FiredOn, SameGroup
<1>3. f.resource = g.resource
  BY DEF SameGroup
<1>4. QED
  BY <1>2, <1>3 DEF ListFiredOn

\* The rest of the tuple has an order of its own.
LEMMA SameTail ==
  ASSUME NEW fs, NEW gs, Actionable(fs) = Actionable(gs), TokenUsers(fs) = TokenUsers(gs),
         \A sa : GrantsOf(fs, sa) = GrantsOf(gs, sa)
  PROVE  /\ ServiceAccountCorrelationList(fs) = ServiceAccountCorrelationList(gs)
         /\ AccountCorrelationList(fs) = AccountCorrelationList(gs)
<1>1. GrantedUsers(fs) = GrantedUsers(gs)
  BY DEF GrantedUsers
<1>2. \A sa : OfAccount(fs, sa) = OfAccount(gs, sa)
  BY DEF OfAccount
<1>3. CloudTrailGaps(fs) = CloudTrailGaps(gs)
  BY DEF CloudTrailGaps
<1>4. AccountCorrelationList(fs) = AccountCorrelationList(gs)
  BY <1>3 DEF AccountCorrelationList
<1>5. QED
  BY <1>1, <1>2, <1>4 DEF ServiceAccountCorrelationList

\* The blocks the first part of the tuple is made of, one per finding.
Blocks(fs) == [i \in DOMAIN fs |-> Adds(fs, i)]

\* All that may be in a block.
Possible == {OfResource(r, f.resource) : r \in ResourceRules, f \in Catalog}

LEMMA BlocksAreLists ==
  ASSUME NEW fs \in Seq(Catalog)
  PROVE  /\ Len(fs) \in Nat /\ DOMAIN fs = 1..Len(fs) /\ Len(Blocks(fs)) = Len(fs)
         /\ ListOfLists(Blocks(fs), Possible)
         /\ \A i \in 1..Len(fs) : Blocks(fs)[i] = Adds(fs, i) /\ Adds(fs, i) \in Seq(Possible)
         /\ ResourceCorrelationList(fs) = FlattenSeq(Blocks(fs))
<1>1. Len(fs) \in Nat /\ DOMAIN fs = 1..Len(fs)
  OBVIOUS
<1>2. ASSUME NEW i \in 1..Len(fs) PROVE Adds(fs, i) \in Seq(Possible)
  <2>1. fs[i] \in Catalog
    BY <1>1, <1>2
  <2>2. Added(fs, i) \subseteq Possible
    BY <2>1 DEF Added, FoundOn, FiredOn, Possible
  <2>3. Adds(fs, i) \in Seq(Added(fs, i))
    BY AddsLists DEF ListsAll
  <2>4. QED
    BY <2>2, <2>3
<1>3. /\ DOMAIN Blocks(fs) = 1..Len(fs)
      /\ \A i \in 1..Len(fs) : Blocks(fs)[i] = Adds(fs, i)
  BY <1>1 DEF Blocks
<1>4. Blocks(fs) \in Seq(Seq(Possible)) /\ Len(Blocks(fs)) = Len(fs)
  <2>1. Blocks(fs) = [i \in 1..Len(fs) |-> Adds(fs, i)]
    BY <1>1 DEF Blocks
  <2>2. QED
    BY <1>1, <1>2, <2>1
<1>5. ResourceCorrelationList(fs) = FlattenSeq(Blocks(fs))
  BY DEF ResourceCorrelationList, Blocks, Adds
<1>6. QED
  BY <1>1, <1>2, <1>3, <1>4, <1>5 DEF ListOfLists

\* A finding that is no evidence of a weakness adds nothing to either sum.
LEMMA NothingToSee ==
  ASSUME NEW fs \in Seq(Catalog), NEW f \in Catalog, f.severity \in {"PASS", "ERROR"}
  PROVE  AssessRisk(Append(fs, f)) = AssessRisk(fs)
<1> DEFINE gs == Append(fs, f)
           n == Len(fs)
           old == [i \in DOMAIN fs |-> Weight(fs[i])]
           new == [i \in DOMAIN gs |-> Weight(gs[i])]
<1>1. gs \in Seq(Catalog) /\ n \in Nat /\ ToSet(gs) = ToSet(fs) \cup {f}
  BY SetOfAppend
<1>2. f.severity \notin DOMAIN SeverityWeights
  BY DEF SeverityWeights
<1>3. Actionable(gs) = Actionable(fs)
  BY <1>1, <1>2 DEF Actionable
<1>4. \A sa : GrantsOf(gs, sa) = GrantsOf(fs, sa)
  BY <1>1, GrantsAssumption DEF GrantsOf
<1>5. TokenUsers(gs) = TokenUsers(fs)
  BY <1>1 DEF TokenUsers
<1>6. \A service, res : ChecksAt(fs, service, res) = ChecksAt(gs, service, res)
  BY <1>3 DEF ChecksAt
<1>7. Correlations(fs) = Correlations(gs)
  <2>1. ResourceCorrelations(fs) = ResourceCorrelations(gs)
    <3>1. \A c : c \in ResourceCorrelations(fs) <=> c \in ResourceCorrelations(gs)
      BY <1>6, ResourceCorrelationIs
    <3>2. QED
      BY <3>1
  <2>2. \A sa : OfAccount(fs, sa) = OfAccount(gs, sa)
    BY <1>4 DEF OfAccount
  <2>3. GrantedUsers(fs) = GrantedUsers(gs)
    BY <1>4, <1>5 DEF GrantedUsers
  <2>4. ServiceAccountCorrelations(fs) = ServiceAccountCorrelations(gs)
    BY <2>2, <2>3 DEF ServiceAccountCorrelations
  <2>5. AccountCorrelations(fs) = AccountCorrelations(gs)
    BY <1>3, <1>4, <1>5, SameTail DEF AccountCorrelations
  <2>6. QED
    BY <2>1, <2>4, <2>5 DEF Correlations
<1>8. CorrelationList(gs) = CorrelationList(fs)
  <2>1. n + 1 \in DOMAIN gs /\ gs[n + 1] = f /\ \A i \in 1..n : gs[i] = fs[i]
    BY <1>1
  <2>2. /\ Len(gs) = n + 1 /\ DOMAIN fs = 1..n /\ DOMAIN gs = 1..(n + 1)
    BY <1>1
  <2> HIDE DEF gs, n
  <2>3. \A i \in 1..n : Opens(gs, i) <=> Opens(fs, i)
    <3> SUFFICES ASSUME NEW i \in 1..n PROVE Opens(gs, i) <=> Opens(fs, i)
      OBVIOUS
    <3>1. gs[i] = fs[i] /\ \A j \in 1..(i - 1) : gs[j] = fs[j]
      BY <1>1, <2>1
    <3>2. QED
      BY <3>1 DEF Opens
  <2>4. \A i \in 1..n : Adds(gs, i) = Adds(fs, i)
    <3>1. \A i \in 1..n : /\ FiredOn(gs, gs[i]) = FiredOn(fs, fs[i])
                          /\ ListFiredOn(gs, gs[i]) = ListFiredOn(fs, fs[i])
      BY <1>3, <2>1, SameFired DEF SameGroup
    <3>2. QED
      BY <2>3, <3>1 DEF Adds
  <2>5. Adds(gs, n + 1) = <<>>
    BY <1>2, <2>1 DEF Adds, Opens
  <2>6. Blocks(gs) = Append(Blocks(fs), <<>>)
    <3>1. ListOfLists(Blocks(fs), Possible)
      BY BlocksAreLists
    <3>2. Len(Blocks(fs)) = n /\ \A i \in 1..n : Blocks(fs)[i] = Adds(fs, i)
      BY BlocksAreLists DEF n
    <3>3. Append(Blocks(fs), <<>>)
            = [i \in 1..(Len(Blocks(fs)) + 1) |->
                 IF i <= Len(Blocks(fs)) THEN Blocks(fs)[i] ELSE <<>>]
      BY <3>1, OneMoreBlock
    <3>4. Blocks(gs) = [i \in 1..(n + 1) |-> Adds(gs, i)]
      BY <2>2 DEF Blocks
    <3>5. \A i \in 1..(n + 1) : Adds(gs, i) = IF i <= n THEN Blocks(fs)[i] ELSE <<>>
      <4>1. \A i \in 1..(n + 1) : i \in 1..n \/ i = n + 1
        BY <1>1
      <4>2. \A i \in 1..n : i <= n
        BY <1>1
      <4>3. ~ (n + 1 <= n)
        BY <1>1
      <4>4. \A i \in 1..n : Blocks(fs)[i] = Adds(gs, i)
        BY <2>4, <3>2
      <4>5. QED
        BY <2>5, <4>1, <4>2, <4>3, <4>4
    <3>6. QED
      BY <3>2, <3>3, <3>4, <3>5
  <2>7. ResourceCorrelationList(gs) = ResourceCorrelationList(fs)
    BY <1>1, <2>6, BlocksAreLists, FlattenedWithNothing
  <2>8. QED
    BY <1>3, <1>4, <1>5, <2>7, SameTail DEF CorrelationList
<1>9. SeverityScore(gs) = SeverityScore(fs)
  <2>1. DOMAIN gs = 1..(n + 1) /\ DOMAIN fs = 1..n /\ DOMAIN new = DOMAIN gs
        /\ DOMAIN old = DOMAIN fs
    BY <1>1
  <2>2. DOMAIN fs = DOMAIN gs \ {n + 1} /\ n + 1 \in DOMAIN gs
    BY <1>1, <2>1
  <2>3. IsFiniteSet(DOMAIN gs) /\ IsFiniteSet(DOMAIN fs)
    BY <1>1, FiniteList
  <2>4. new[n + 1] = 0
    BY <1>1, <1>2, <2>2 DEF Weight
  <2>5. \A i \in DOMAIN gs : new[i] \in Nat
    BY <1>1, WeightType
  <2>6. \A i \in DOMAIN fs : old[i] \in Nat /\ new[i] = old[i]
    BY <1>1, <2>2, WeightType
  <2>7. /\ SeverityScore(gs) = SumFunctionOnSet(new, DOMAIN gs)
        /\ SeverityScore(fs) = SumFunctionOnSet(old, DOMAIN fs)
    BY <2>1, SumOfFunction DEF SeverityScore
  <2> HIDE DEF old, new, gs
  <2>8. SumFunctionOnSet(new, DOMAIN gs) = new[n + 1] + SumFunctionOnSet(new, DOMAIN gs \ {n + 1})
    BY <2>2, <2>3, <2>5, SumOverSet
  <2>9. SumFunctionOnSet(old, DOMAIN fs) = SumFunctionOnSet(new, DOMAIN fs)
    BY <2>3, <2>6, SumAgrees
  <2>10. SumFunctionOnSet(old, DOMAIN fs) \in Nat
    BY <2>3, <2>6, SumOverSet
  <2>11. QED
    BY <2>2, <2>4, <2>7, <2>8, <2>9, <2>10
<1>10. Score(gs) = Score(fs) /\ BaseScore(gs) = BaseScore(fs)
  <2>1. BaseScore(gs) = BaseScore(fs)
    BY <1>9 DEF BaseScore
  <2>2. CorrelationPoints(gs) = CorrelationPoints(fs)
    BY <1>7 DEF CorrelationPoints
  <2>3. QED
    BY <1>1, <2>1, <2>2, ScoreIs
<1> HIDE DEF gs
<1>11. AssessRisk(gs) = AssessRisk(fs)
  BY <1>1, <1>8, <1>10, ScoreIs
<1>12. QED
  BY <1>11 DEF gs

\* Two neighbours change places.
LEMMA SwappedList ==
  ASSUME NEW fs \in Seq(Catalog), NEW k \in 1..(Len(fs) - 1)
  PROVE  LET gs == Swapped(fs, k)
         IN  /\ gs \in Seq(Catalog) /\ Len(gs) = Len(fs) /\ DOMAIN gs = DOMAIN fs
             /\ gs[k] = fs[k + 1] /\ gs[k + 1] = fs[k]
             /\ \A j \in DOMAIN fs : j # k /\ j # k + 1 => gs[j] = fs[j]
             /\ ToSet(gs) = ToSet(fs)
             /\ Score(gs) = Score(fs) /\ BaseScore(gs) = BaseScore(fs)
<1> DEFINE gs == Swapped(fs, k)
           h == [i \in DOMAIN fs |-> IF i = k THEN k + 1 ELSE IF i = k + 1 THEN k ELSE i]
<1>1. Len(fs) \in Nat /\ k \in DOMAIN fs /\ k + 1 \in DOMAIN fs
  OBVIOUS
<1>2. gs \in Seq(Catalog) /\ Len(gs) = Len(fs) /\ DOMAIN gs = DOMAIN fs
  BY <1>1 DEF Swapped
<1>3. h \in [DOMAIN fs -> DOMAIN gs] /\ \A i, j \in DOMAIN fs : h[i] = h[j] => i = j
  BY <1>1, <1>2
<1>4. /\ gs[k] = fs[k + 1] /\ gs[k + 1] = fs[k]
      /\ \A j \in DOMAIN fs : j # k /\ j # k + 1 => gs[j] = fs[j]
  BY <1>1 DEF Swapped
<1>5. \A i \in DOMAIN fs : fs[i] = gs[h[i]] /\ gs[i] = fs[h[i]]
  <2> HIDE DEF gs
  <2>1. QED
    BY <1>1, <1>4
<1>6. Places(h, fs, gs) /\ Places(h, gs, fs)
  <2> HIDE DEF gs, h
  <2>1. QED
    BY <1>2, <1>3, <1>5 DEF Places
<1> HIDE DEF gs, h
<1>7. /\ ToSet(fs) \subseteq ToSet(gs) /\ SeverityScore(fs) <= SeverityScore(gs)
      /\ BaseScore(fs) <= BaseScore(gs) /\ Score(fs) <= Score(gs)
  BY <1>2, <1>6, ScoreGrows
<1>8. /\ ToSet(gs) \subseteq ToSet(fs) /\ SeverityScore(gs) <= SeverityScore(fs)
      /\ BaseScore(gs) <= BaseScore(fs) /\ Score(gs) <= Score(fs)
  BY <1>2, <1>6, ScoreGrows
<1>9. ToSet(gs) = ToSet(fs)
  BY <1>7, <1>8
<1>10. Score(gs) = Score(fs) /\ BaseScore(gs) = BaseScore(fs)
  <2>1. /\ BaseScore(fs) \in 0..100 /\ Score(fs) \in 0..100
        /\ BaseScore(gs) \in 0..100 /\ Score(gs) \in 0..100
    BY <1>2, ScoreRange
  <2>2. \A x, y \in 0..100 : x <= y /\ y <= x => x = y
    OBVIOUS
  <2>3. QED
    BY <1>7, <1>8, <2>1, <2>2
<1>11. QED
  BY <1>2, <1>4, <1>9, <1>10 DEF gs

\* Neighbours that are not both the first of their resource leave the tuple as it is.
LEMMA NeighboursKeepTheTuple ==
  ASSUME NEW fs \in Seq(Catalog), NEW k \in 1..(Len(fs) - 1),
         ~ (Opens(fs, k) /\ Opens(fs, k + 1))
  PROVE  ResourceCorrelationList(Swapped(fs, k)) = ResourceCorrelationList(fs)
<1> DEFINE gs == Swapped(fs, k)
           n == Len(fs)
           f == fs[k]
           g == fs[k + 1]
           A(x) == x.severity \in DOMAIN SeverityWeights
           New(x) == A(x) /\ \A j \in 1..(k - 1) : ~ (A(fs[j]) /\ SameGroup(fs[j], x))
           Block(x) == IF FiredOn(fs, x) # {} THEN ListFiredOn(fs, x) ELSE <<>>
<1>1. /\ gs \in Seq(Catalog) /\ Len(gs) = n /\ gs[k] = g /\ gs[k + 1] = f
      /\ \A j \in DOMAIN fs : j # k /\ j # k + 1 => gs[j] = fs[j]
      /\ ToSet(gs) = ToSet(fs)
  BY SwappedList
<1>2. n \in Nat /\ DOMAIN fs = 1..n /\ k \in 1..n /\ k + 1 \in 1..n /\ (k + 1) - 1 = k
  OBVIOUS
<1> HIDE DEF gs, n
<1>3. Actionable(gs) = Actionable(fs)
  BY <1>1 DEF Actionable
<1>4. \A x : FiredOn(gs, x) = FiredOn(fs, x) /\ ListFiredOn(gs, x) = ListFiredOn(fs, x)
  BY <1>3, SameFired DEF SameGroup
<1>5. \A j \in 1..(k - 1) : gs[j] = fs[j]
  BY <1>1, <1>2
<1>6. \A j \in 1..n : j # k /\ j # k + 1 => (Opens(gs, j) <=> Opens(fs, j))
  <2> SUFFICES ASSUME NEW j \in 1..n, j # k, j # k + 1 PROVE Opens(gs, j) <=> Opens(fs, j)
    OBVIOUS
  <2>1. gs[j] = fs[j]
    BY <1>1, <1>2
  <2>2. CASE j < k
    <3>1. \A i \in 1..(j - 1) : gs[i] = fs[i]
      BY <1>2, <1>5, <2>2
    <3>2. QED
      BY <2>1, <3>1 DEF Opens
  <2>3. CASE j > k + 1
    <3>1. k \in 1..(j - 1) /\ k + 1 \in 1..(j - 1)
      BY <1>2, <2>3
    <3>2. \A i \in 1..(j - 1) : i # k /\ i # k + 1 => gs[i] = fs[i]
      BY <1>1, <1>2
    <3>3. \A i \in 1..(j - 1) : \E m \in 1..(j - 1) : gs[i] = fs[m]
      BY <1>1, <3>1, <3>2
    <3>4. \A i \in 1..(j - 1) : \E m \in 1..(j - 1) : fs[i] = gs[m]
      BY <1>1, <3>1, <3>2
    <3>5. Opens(gs, j) => Opens(fs, j)
      BY <2>1, <3>4 DEF Opens
    <3>6. Opens(fs, j) => Opens(gs, j)
      BY <2>1, <3>3 DEF Opens
    <3>7. QED
      BY <3>5, <3>6
  <2>4. QED
    BY <1>2, <2>2, <2>3
<1>7. \A j \in 1..n : j # k /\ j # k + 1 => Adds(gs, j) = Adds(fs, j)
  BY <1>1, <1>2, <1>4, <1>6 DEF Adds
<1>8. /\ Opens(fs, k) <=> New(f)
      /\ Opens(fs, k + 1) <=> New(g) /\ ~ (A(f) /\ SameGroup(f, g))
  <2>1. Opens(fs, k) <=> New(f)
    BY DEF Opens
  <2>2. \A j \in 1..k : j = k \/ j \in 1..(k - 1)
    BY <1>2
  <2>3. k \in 1..k /\ \A j \in 1..(k - 1) : j \in 1..k
    BY <1>2
  <2>4. Opens(fs, k + 1) <=> A(g) /\ \A j \in 1..k : ~ (A(fs[j]) /\ SameGroup(fs[j], g))
    BY <1>2 DEF Opens
  <2>5. QED
    BY <2>1, <2>2, <2>3, <2>4
<1>9. /\ Opens(gs, k) <=> New(g)
      /\ Opens(gs, k + 1) <=> New(f) /\ ~ (A(g) /\ SameGroup(g, f))
  <2>1. Opens(gs, k) <=> New(g)
    BY <1>1, <1>5 DEF Opens
  <2>2. \A j \in 1..k : j = k \/ j \in 1..(k - 1)
    BY <1>2
  <2>3. k \in 1..k /\ \A j \in 1..(k - 1) : j \in 1..k
    BY <1>2
  <2>4. Opens(gs, k + 1) <=> A(f) /\ \A j \in 1..k : ~ (A(gs[j]) /\ SameGroup(gs[j], f))
    BY <1>1, <1>2 DEF Opens
  <2>5. QED
    BY <1>1, <1>5, <2>1, <2>2, <2>3, <2>4
<1>10. /\ A(f) /\ SameGroup(f, g) /\ ~ New(f) => ~ New(g)
       /\ A(g) /\ SameGroup(f, g) /\ ~ New(g) => ~ New(f)
       /\ SameGroup(f, g) <=> SameGroup(g, f)
       /\ New(f) => A(f)
       /\ New(g) => A(g)
  BY DEF SameGroup
<1>11. /\ Adds(fs, k) = (IF Opens(fs, k) THEN Block(f) ELSE <<>>)
       /\ Adds(fs, k + 1) = (IF Opens(fs, k + 1) THEN Block(g) ELSE <<>>)
       /\ Adds(gs, k) = (IF Opens(gs, k) THEN Block(g) ELSE <<>>)
       /\ Adds(gs, k + 1) = (IF Opens(gs, k + 1) THEN Block(f) ELSE <<>>)
  BY <1>1, <1>4 DEF Adds
<1>12. SameGroup(f, g) => Block(f) = Block(g)
  BY SameFired
<1> HIDE DEF New, A, Block, f, g
<1>13. \/ Adds(gs, k) = Adds(fs, k) /\ Adds(gs, k + 1) = Adds(fs, k + 1)
       \/ Adds(fs, k) = <<>> /\ Adds(gs, k + 1) = <<>> /\ Adds(gs, k) = Adds(fs, k + 1)
       \/ Adds(fs, k + 1) = <<>> /\ Adds(gs, k) = <<>> /\ Adds(gs, k + 1) = Adds(fs, k)
  <2>1. CASE ~ New(f)
    BY <2>1, <1>8, <1>9, <1>10, <1>11
  <2>2. CASE New(f) /\ ~ New(g)
    BY <2>2, <1>8, <1>9, <1>10, <1>11
  <2>3. CASE New(f) /\ New(g)
    BY <2>3, <1>8, <1>9, <1>10, <1>11, <1>12
  <2>4. QED
    BY <2>1, <2>2, <2>3
<1>14. Adds(fs, k) \in Seq(Possible) /\ Adds(fs, k + 1) \in Seq(Possible)
  BY <1>2, BlocksAreLists DEF n
<1>15. Adds(fs, k) \o Adds(fs, k + 1) = Adds(gs, k) \o Adds(gs, k + 1)
  <2>1. \A x \in Seq(Possible) : <<>> \o x = x \o <<>>
    OBVIOUS
  <2>2. QED
    BY <1>13, <1>14, <2>1
<1>16. SameNextTo(Blocks(fs), Blocks(gs), k)
  <2>1. Len(Blocks(fs)) = n /\ Len(Blocks(gs)) = n
    BY <1>1, BlocksAreLists DEF n
  <2>2. \A i \in 1..n : Blocks(fs)[i] = Adds(fs, i) /\ Blocks(gs)[i] = Adds(gs, i)
    BY <1>1, BlocksAreLists DEF n
  <2>3. QED
    BY <1>2, <1>7, <1>15, <2>1, <2>2 DEF SameNextTo
<1>17. FlattenSeq(Blocks(fs)) = FlattenSeq(Blocks(gs))
  <2>1. ListOfLists(Blocks(fs), Possible) /\ ListOfLists(Blocks(gs), Possible)
    BY <1>1, BlocksAreLists
  <2>2. k \in 1..(Len(Blocks(fs)) - 1)
    BY BlocksAreLists
  <2>3. QED
    BY <1>16, <2>1, <2>2, FlattenedNeighbours
<1>18. QED
  BY <1>1, <1>17, BlocksAreLists DEF gs

\* What the order of the findings shows in, and what it does not.
LEMMA SwapOnlyReorders ==
  ASSUME NEW fs \in Seq(Catalog), NEW k \in 1..(Len(fs) - 1)
  PROVE  LET gs == Swapped(fs, k)
             old == AssessRisk(fs)
             new == AssessRisk(gs)
         IN  /\ new.score = old.score /\ new.level = old.level /\ new.base = old.base
             /\ ListsOnce(old.correlations, Correlations(fs))
             /\ ListsOnce(new.correlations, ToSet(old.correlations))
             /\ \A i \in DOMAIN old.correlations :
                  old.correlations[i] \notin ResourceCorrelations(fs) =>
                    new.correlations[i] = old.correlations[i]
             /\ ~ (Opens(fs, k) /\ Opens(fs, k + 1)) => new = old
<1> DEFINE gs == Swapped(fs, k)
           old == AssessRisk(fs)
           new == AssessRisk(gs)
<1>1. /\ gs \in Seq(Catalog) /\ ToSet(gs) = ToSet(fs)
      /\ Score(gs) = Score(fs) /\ BaseScore(gs) = BaseScore(fs)
  BY SwappedList
<1> HIDE DEF gs
<1>2. /\ Actionable(gs) = Actionable(fs) /\ TokenUsers(gs) = TokenUsers(fs)
      /\ \A sa : GrantsOf(gs, sa) = GrantsOf(fs, sa)
  BY <1>1 DEF Actionable, TokenUsers, GrantsOf
<1>3. /\ old = [score |-> Score(fs), level |-> Level(Score(fs)),
                base |-> BaseScore(fs), correlations |-> CorrelationList(fs)]
      /\ new = [score |-> Score(fs), level |-> Level(Score(fs)),
                base |-> BaseScore(fs), correlations |-> CorrelationList(gs)]
  BY <1>1, ScoreIs
<1> HIDE DEF old, new
<1>4. Correlations(gs) = Correlations(fs)
  BY <1>1, SameFindings
<1>5. ResourceCorrelations(gs) = ResourceCorrelations(fs)
  <2>1. \A service, res : ChecksAt(gs, service, res) = ChecksAt(fs, service, res)
    BY <1>2 DEF ChecksAt
  <2>2. \A c : c \in ResourceCorrelations(gs) <=> c \in ResourceCorrelations(fs)
    BY <2>1, ResourceCorrelationIs
  <2>3. QED
    BY <2>2
<1> DEFINE R == ResourceCorrelationList(fs)
           Q == ResourceCorrelationList(gs)
           T == ServiceAccountCorrelationList(fs) \o AccountCorrelationList(fs)
<1>6. CorrelationList(fs) = R \o T /\ CorrelationList(gs) = Q \o T
  BY <1>2, SameTail DEF CorrelationList
<1>7. ListsAll(R, ResourceCorrelations(fs)) /\ ListsAll(Q, ResourceCorrelations(fs))
  BY <1>1, <1>5, ResourcePartLists
<1>8. Len(R) \in Nat /\ Len(Q) = Len(R) /\ \A i \in 1..Len(R) : R[i] \in ResourceCorrelations(fs)
  <2>1. Len(R) \in Nat /\ DOMAIN R = 1..Len(R) /\ Len(Q) = Len(R)
    BY <1>7, ListLength
  <2>2. \A i \in DOMAIN R : R[i] \in ToSet(R)
    BY DEF ToSet
  <2> HIDE DEF R, Q
  <2>3. QED
    BY <1>7, <2>1, <2>2 DEF ListsAll
<1>9. Len(T) \in Nat
  <2>1. /\ Len(ServiceAccountCorrelationList(fs)) \in Nat
        /\ Len(AccountCorrelationList(fs)) \in Nat
    BY ServiceAccountPartLists, AccountCorrelationsListed, ListLength
  <2>2. QED
    BY <2>1
<1>10. ListsAll(CorrelationList(fs), Correlations(fs))
       /\ ListsAll(CorrelationList(gs), Correlations(fs))
  BY <1>1, <1>4, TupleLists
<1>11. /\ ListsOnce(CorrelationList(fs), Correlations(fs))
       /\ ListsOnce(CorrelationList(gs), Correlations(fs))
       /\ ToSet(CorrelationList(fs)) = Correlations(fs)
  BY <1>10, ListLength DEF ListsAll, ListsOnce
<1> HIDE DEF R, Q, T
<1>12. \A i \in DOMAIN (R \o T) :
         (R \o T)[i] \notin ResourceCorrelations(fs) => (Q \o T)[i] = (R \o T)[i]
  <2> SUFFICES ASSUME NEW i \in DOMAIN (R \o T), (R \o T)[i] \notin ResourceCorrelations(fs)
               PROVE  (Q \o T)[i] = (R \o T)[i]
    OBVIOUS
  <2>1. i \in 1..(Len(R) + Len(T))
    BY <1>8, <1>9
  <2>2. i \notin 1..Len(R)
    BY <1>8, <1>9, <2>1
  <2>3. QED
    BY <1>8, <1>9, <2>1, <2>2
<1>13. ~ (Opens(fs, k) /\ Opens(fs, k + 1)) => Q = R
  BY NeighboursKeepTheTuple DEF Q, R, gs
<1>14. /\ new.score = old.score /\ new.level = old.level /\ new.base = old.base
       /\ ListsOnce(old.correlations, Correlations(fs))
       /\ ListsOnce(new.correlations, ToSet(old.correlations))
  BY <1>3, <1>11
<1>15. \A i \in DOMAIN old.correlations :
         old.correlations[i] \notin ResourceCorrelations(fs) =>
           new.correlations[i] = old.correlations[i]
  BY <1>3, <1>6, <1>12
<1>16. ~ (Opens(fs, k) /\ Opens(fs, k + 1)) => new = old
  BY <1>3, <1>6, <1>13
<1>17. QED
  BY <1>14, <1>15, <1>16 DEF gs, old, new

-----------------------------------------------------------------------------
(* The list of findings                                                    *)

ListOK == findings \in Seq(Catalog)

\* Scanners extend the list with findings and nothing else.
THEOREM ListIsOK == Spec => []ListOK
<1>1. Init => ListOK
  BY DEF Init, ListOK
<1>2. ListOK /\ [Next]_vars => ListOK'
  <2> SUFFICES ASSUME ListOK, [Next]_vars PROVE ListOK'
    OBVIOUS
  <2>1. CASE Report
    BY <2>1 DEF Report, ListOK
  <2>2. CASE Reorder
    BY <2>2, SwappedList DEF Reorder, ListOK
  <2>3. CASE UNCHANGED vars
    BY <2>3 DEF vars, ListOK
  <2>4. QED
    BY <2>1, <2>2, <2>3 DEF Next
<1>3. QED
  BY <1>1, <1>2, PTL DEF Spec

\* The list holds findings, and the score stays between the base score and 100.
THEOREM ScoreStaysInRange == Spec => []TypeOK
<1>1. ListOK => TypeOK
  <2> SUFFICES ASSUME ListOK PROVE TypeOK
    OBVIOUS
  <2>1. ToSet(findings) \subseteq Catalog
    BY FiniteList DEF ListOK
  <2>2. \A f \in ToSet(findings) : FindingOK(f)
    BY <2>1, CatalogAssumption
  <2>3. BaseScore(findings) <= Score(findings) /\ Score(findings) \in 0..100
    BY ScoreRange DEF ListOK
  <2>4. QED
    BY <2>2, <2>3 DEF TypeOK
<1>2. QED
  BY <1>1, ListIsOK, PTL

\* One more finding lowers neither the score nor the base score, whatever tier or resource
\* it adds to the correlations.
THEOREM EvidenceNeverHelps == Spec => OneMoreFindingNeverLowersTheScore
<1> DEFINE Monotone == Len(findings') > Len(findings) =>
                         /\ Score(findings') >= Score(findings)
                         /\ BaseScore(findings') >= BaseScore(findings)
<1>1. ListOK /\ [Next]_vars => [Monotone]_vars
  <2> SUFFICES ASSUME ListOK, Next, Len(findings') > Len(findings) PROVE Monotone
    OBVIOUS
  <2>1. CASE Report
    <3>1. PICK f \in Catalog : findings' = Append(findings, f)
      BY <2>1 DEF Report
    <3> DEFINE fs == findings
               gs == Append(findings, f)
               h == [i \in DOMAIN fs |-> i]
    <3>2. fs \in Seq(Catalog) /\ gs \in Seq(Catalog)
      BY DEF ListOK
    <3>3. Places(h, fs, gs)
      <4>1. DOMAIN fs = 1..Len(fs) /\ DOMAIN gs = 1..(Len(fs) + 1) /\ Len(fs) \in Nat
        BY <3>2
      <4>2. \A i \in DOMAIN fs : gs[i] = fs[i] /\ i \in DOMAIN gs
        BY <3>2, <4>1
      <4> HIDE DEF fs, gs
      <4>3. QED
        BY <4>2 DEF Places
    <3> HIDE DEF fs, gs, h
    <3>4. BaseScore(fs) <= BaseScore(gs) /\ Score(fs) <= Score(gs)
      BY <3>2, <3>3, ScoreGrows
    <3>5. QED
      BY <3>1, <3>4 DEF fs, gs
  <2>2. CASE Reorder
    BY <2>2, SwappedList DEF Reorder, ListOK
  <2>3. QED
    BY <2>1, <2>2 DEF Next
<1>2. QED
  BY <1>1, ListIsOK, PTL DEF Spec, OneMoreFindingNeverLowersTheScore

\* Two scanners that report in the other order reorder the correlations of two resources at
\* most: they move no score, lose or repeat no correlation, and leave everything as it is
\* when one of the two findings was not the first of its resource.
THEOREM OrderOnlyReorders == Spec => ReorderingOnlyReorders
<1> DEFINE Kept(i) == \A old \in {AssessRisk(findings)}, new \in {AssessRisk(findings')} :
             /\ new.score = old.score /\ new.level = old.level /\ new.base = old.base
             /\ ListsOnce(old.correlations, Correlations(findings))
             /\ ListsOnce(new.correlations, ToSet(old.correlations))
             /\ \A k \in DOMAIN old.correlations :
                  old.correlations[k] \notin ResourceCorrelations(findings) =>
                    new.correlations[k] = old.correlations[k]
             /\ ~ (Opens(findings, i) /\ Opens(findings, i + 1)) => new = old
           Reorders == \A i \in 1..(Len(findings) - 1) : findings' = Swapped(findings, i) => Kept(i)
<1>1. ListOK /\ [Next]_vars => [Reorders]_vars
  <2> SUFFICES ASSUME ListOK, NEW i \in 1..(Len(findings) - 1),
                      findings' = Swapped(findings, i)
               PROVE  Kept(i)
    OBVIOUS
  <2>1. findings \in Seq(Catalog)
    BY DEF ListOK
  <2>2. QED
    BY <2>1, SwapOnlyReorders
<1>2. QED
  BY <1>1, ListIsOK, PTL DEF Spec, ReorderingOnlyReorders

\* A PASS or an ERROR leaves the whole assessment as it was.
THEOREM NoEvidenceChangesNothing == Spec => NoEvidenceNoChange
<1> DEFINE Idle == Len(findings') > Len(findings) /\ Last(findings').severity \in {"PASS", "ERROR"}
                     => AssessRisk(findings') = AssessRisk(findings)
<1>1. ListOK /\ [Next]_vars => [Idle]_vars
  <2> SUFFICES ASSUME ListOK, Next, Len(findings') > Len(findings),
                      Last(findings').severity \in {"PASS", "ERROR"}
               PROVE  AssessRisk(findings') = AssessRisk(findings)
    OBVIOUS
  <2>1. CASE Report
    <3>1. PICK f \in Catalog : findings' = Append(findings, f)
      BY <2>1 DEF Report
    <3>2. Last(findings') = f
      BY <3>1 DEF ListOK, Last
    <3>3. QED
      BY <3>1, <3>2, NothingToSee DEF ListOK
  <2>2. CASE Reorder
    BY <2>2, SwappedList DEF Reorder, ListOK
  <2>3. QED
    BY <2>1, <2>2 DEF Next
<1>2. QED
  BY <1>1, ListIsOK, PTL DEF Spec, NoEvidenceNoChange

-----------------------------------------------------------------------------
(* Where a correlation comes from                                          *)

\* What is found at the place of finding g.
Around(fs, g) == {f \in ToSet(fs) : f.resource = g.resource /\ f.service = g.service}

\* The findings of one resource of one service are enough for the rules about it.
LEMMA LocalFindingsSuffice ==
  ASSUME NEW fs, NEW ls, NEW g, ToSet(ls) = Around(fs, g)
  PROVE  ChecksAt(ls, g.service, g.resource) = ChecksAt(fs, g.service, g.resource)
<1> DEFINE Here(l) == {f \in Actionable(l) : f.service = g.service /\ f.resource = g.resource}
<1>1. Here(ls) = Here(fs)
  BY DEF Around, Actionable
<1>2. QED
  BY <1>1 DEF ChecksAt

\* The correlations of a resource do not depend on what is found elsewhere.
THEOREM ResourceRulesAreLocal == Spec => []ResourceCorrelationsAreLocal
<1>1. ListOK => ResourceCorrelationsAreLocal
  <2> SUFFICES ASSUME ListOK PROVE ResourceCorrelationsAreLocal
    OBVIOUS
  <2> DEFINE fs == findings
             Listed(g) == SetToSeq(Around(fs, g))
             parts == UNION {ResourceCorrelations(Listed(g)) : g \in ToSet(fs)}
  <2>1. \A g \in ToSet(fs) : ToSet(Listed(g)) = Around(fs, g)
    <3> SUFFICES ASSUME NEW g \in ToSet(fs) PROVE ToSet(Listed(g)) = Around(fs, g)
      OBVIOUS
    <3>1. IsFiniteSet(ToSet(fs))
      BY FiniteList DEF ListOK
    <3>2. Around(fs, g) \subseteq ToSet(fs)
      BY DEF Around
    <3>3. IsFiniteSet(Around(fs, g))
      BY <3>1, <3>2, FS_Subset
    <3>4. QED
      BY <3>3, ListOfSet
  <2>2. ASSUME NEW c \in parts
        PROVE  c \in ResourceCorrelations(fs)
    <3>1. PICK g \in ToSet(fs) : c \in ResourceCorrelations(Listed(g))
      OBVIOUS
    <3>2. ToSet(Listed(g)) \subseteq ToSet(fs)
      BY <2>1 DEF Around
    <3> HIDE DEF Listed, fs
    <3>3. QED
      BY <3>1, <3>2, ResourceCorrelationIs, MoreIsSeen
  <2>3. ASSUME NEW c \in ResourceCorrelations(fs)
        PROVE  c \in parts
    <3>1. PICK r \in ResourceRules : \E res :
             r.needs \subseteq ChecksAt(fs, r.service, res) /\ c = OfResource(r, res)
      BY ResourceCorrelationIs
    <3>2. PICK res : r.needs \subseteq ChecksAt(fs, r.service, res) /\ c = OfResource(r, res)
      BY <3>1
    <3>3. ChecksAt(fs, r.service, res) # {}
      BY <3>2, ResourceRuleNames
    <3>4. PICK g \in Actionable(fs) : g.service = r.service /\ g.resource = res
      BY <3>3, ChecksAreFound
    <3>5. g \in ToSet(fs)
      BY <3>4 DEF Actionable
    <3>6. ChecksAt(Listed(g), r.service, res) = ChecksAt(fs, r.service, res)
      <4>1. ToSet(Listed(g)) = Around(fs, g)
        BY <2>1, <3>5
      <4> HIDE DEF Listed, fs
      <4>2. QED
        BY <3>4, <4>1, LocalFindingsSuffice
    <3>7. c \in ResourceCorrelations(Listed(g))
      <4> HIDE DEF Listed, fs
      <4>1. QED
        BY <3>2, <3>6, ResourceCorrelationIs
    <3>8. QED
      BY <3>5, <3>7
  <2>4. ResourceCorrelations(fs) = parts
    BY <2>2, <2>3
  <2>5. QED
    BY <2>4 DEF ResourceCorrelationsAreLocal, Around
<1>2. QED
  BY <1>1, ListIsOK, PTL

\* The tier of several checks is the strongest of their tiers.
LEMMA StrongestTier ==
  ASSUME NEW checks, checks # {}
  PROVE  /\ \E check \in checks : Tier({check}) = Tier(checks)
         /\ \A check \in checks : Tier({check}) <= Tier(checks)
BY DEF Tier

\* The ServiceAccount rule fires once per account, with the strongest tier of its grants.
THEOREM OneTierEach == Spec => []OneTierPerServiceAccount
<1>1. ListOK => OneTierPerServiceAccount
  <2> SUFFICES ASSUME ListOK, NEW sa \in TokenUsers(findings)
               PROVE  LET singles == {Tier({g.check}) : g \in GrantsOf(findings, sa)}
                      IN  ServiceAccountTier(findings, sa) =
                            IF singles = {} THEN {} ELSE {Max(singles)}
    BY DEF OneTierPerServiceAccount
  <2> DEFINE fs == findings
             checks == {g.check : g \in GrantsOf(fs, sa)}
             singles == {Tier({g.check}) : g \in GrantsOf(fs, sa)}
  <2>1. ToSet(fs) \subseteq Catalog
    BY FiniteList DEF ListOK
  <2>2. ASSUME NEW t \in TokenUsers(fs), sa \in OfAccount(fs, t).resources
        PROVE  t = sa
    <3>1. \A g \in GrantsOf(fs, t) : g.resource # sa
      BY <2>1, SubjectsAssumption DEF GrantsOf, TokenUsers
    <3>2. OfAccount(fs, t).resources = {t} \cup {g.resource : g \in GrantsOf(fs, t)}
      BY DEF OfAccount
    <3>3. QED
      BY <2>2, <3>1, <3>2
  <2>3. ASSUME GrantsOf(fs, sa) = {}
        PROVE  ServiceAccountTier(fs, sa) = {}
    <3>1. SUFFICES ASSUME NEW d \in ServiceAccountCorrelations(fs), sa \in d.resources
                   PROVE  FALSE
      BY DEF ServiceAccountTier
    <3>2. PICK t \in TokenUsers(fs) : GrantsOf(fs, t) # {} /\ d = OfAccount(fs, t)
      BY ServiceAccountCorrelationIs
    <3>3. t = sa
      BY <2>2, <3>1, <3>2
    <3>4. QED
      BY <2>3, <3>2, <3>3
  <2>4. ASSUME GrantsOf(fs, sa) # {}
        PROVE  ServiceAccountTier(fs, sa) = {Tier(checks)}
    <3>1. OfAccount(fs, sa) \in ServiceAccountCorrelations(fs)
      BY <2>4, ServiceAccountCorrelationIs
    <3>2. sa \in OfAccount(fs, sa).resources /\ OfAccount(fs, sa).points = Tier(checks)
      BY DEF OfAccount
    <3>3. ASSUME NEW d \in ServiceAccountCorrelations(fs), sa \in d.resources
          PROVE  d = OfAccount(fs, sa)
      <4>1. PICK t \in TokenUsers(fs) : d = OfAccount(fs, t)
        BY ServiceAccountCorrelationIs
      <4>2. QED
        BY <2>2, <3>3, <4>1
    <3>4. {d \in ServiceAccountCorrelations(fs) : sa \in d.resources} = {OfAccount(fs, sa)}
      BY <3>1, <3>2, <3>3
    <3> DEFINE named == {d \in ServiceAccountCorrelations(fs) : sa \in d.resources}
               a == OfAccount(fs, sa)
    <3>5. ServiceAccountTier(fs, sa) = {c.points : c \in named}
      BY DEF ServiceAccountTier
    <3>6. named = {a} /\ a.points = Tier(checks)
      BY <3>2, <3>4
    <3> HIDE DEF named, a, checks
    <3>7. QED
      BY <3>5, <3>6
  <2>5. ASSUME GrantsOf(fs, sa) # {}
        PROVE  Max(singles) = Tier(checks)
    <3>1. checks # {}
      BY <2>5
    <3>2. Tier(checks) \in singles
      <4>1. PICK check \in checks : Tier({check}) = Tier(checks)
        BY <3>1, StrongestTier
      <4>2. QED
        BY <4>1
    <3>3. \A x \in singles : x <= Tier(checks)
      BY <3>1, StrongestTier
    <3>4. \A x \in singles : x \in Nat
      BY DEF Tier
    <3> HIDE DEF singles, checks
    <3>5. \E x \in singles : \A y \in singles : x >= y
      BY <3>2, <3>3, <3>4
    <3>6. Max(singles) \in singles /\ \A y \in singles : Max(singles) >= y
      BY <3>5 DEF Max
    <3>7. QED
      BY <3>2, <3>3, <3>4, <3>6
  <2>6. CASE GrantsOf(fs, sa) = {}
    <3>1. singles = {}
      BY <2>6
    <3>2. QED
      BY <2>3, <2>6, <3>1
  <2>7. CASE GrantsOf(fs, sa) # {}
    <3>1. singles # {}
      BY <2>7
    <3>2. QED
      BY <2>4, <2>5, <2>7, <3>1
  <2>8. QED
    BY <2>6, <2>7
<1>2. QED
  BY <1>1, ListIsOK, PTL
=============================================================================
