-------------------------- MODULE DockerImageProofs --------------------------
(***************************************************************************)
(* What the package scan claims, proved for all packages, pages of OSV,    *)
(* batch and pool sizes, page limits and orders of completion, whether the *)
(* packages come from SBOM files or from an image.                         *)
(***************************************************************************)
EXTENDS DockerImage, FoldProofs

\* Before any query, while queries are sent, and while records are fetched.
Reading == {"parse", "packages"}
Querying == {"chunk", "page"}
Fetching == {"collect", "unwind"}

\* The parser's side, and the counters.
Documents ==
  /\ pc \in Reading \union Querying \union Fetching \union {"done", "crashed"}
  /\ osv \in [Keys -> Answers]
  /\ unread \in Seq(ToSet(unread)) /\ \A d \in ToSet(unread) : DocumentOK(d)
  /\ packages \in Seq(Keys) /\ IsInjective(packages)
  /\ pc = "parse" /\ unread = <<>> => packages = <<>>
  /\ skipped \in Nat /\ offset \in Nat /\ pageCount \in 0..PageLimit
  /\ garbled \subseteq ToSet(packages)

\* One set of ids for each package, once there are queries.
ResultLists == results \in [DOMAIN packages -> SUBSET Ids]

Lists ==
  /\ results = <<>> \/ ResultLists
  /\ pc \in Reading => results = <<>> /\ offset = 0 /\ garbled = {} /\ pageCount = 0
  /\ pc \in Querying \union Fetching => packages # <<>> /\ ResultLists

\* Queries are at a package that has been sent, at a page it has, and one for each.
QueriesOK(asked) ==
  /\ \A q \in asked : q.at \in DOMAIN packages /\ q.page \in DOMAIN Answer(q.at).pages
  /\ \A p, q \in asked : p.at = q.at => p = q

Pending ==
  /\ pc # "page" => pc = "done" \/ pc = "crashed" \/ pending = {}
  /\ QueriesOK(pending)
  /\ pending # {} => ResultLists
  /\ \A q \in pending : q.at <= offset

\* The ids on the pages before a page.
Prior(at, page) == UNION {Vulns(at, p) : p \in 1..(page - 1)}

\* What is known of a package none of whose items was garbled: nothing before it is sent,
\* the pages before its query, and all of it when there is no query any more.
Read(at) == ~Answer(at).endless /\ results[at] = Known(packages[at])

ReadSoFar(at) ==
  /\ at > offset => results[at] = {}
  /\ \A q \in pending : q.at = at /\ ~Answer(at).endless => results[at] = Prior(at, q.page)
  /\ at <= offset /\ at \notin Spots(pending) => Read(at)

Progress ==
  /\ pc \in Querying \union Fetching =>
       \A at \in DOMAIN packages : packages[at] \notin garbled => ReadSoFar(at)
  /\ pc \in Fetching => offset >= Len(packages)

\* The futures, between the pool and the main thread.
Futures ==
  /\ queue \subseteq Ids /\ running \subseteq Ids /\ DOMAIN finished \subseteq Ids
  /\ \A id \in DOMAIN finished : finished[id] \in {"record", "OSVClientError", "raised"}
  /\ records \subseteq Ids /\ errors \subseteq Ids /\ records \intersect errors = {}
  /\ Cardinality(running) <= PoolSize
  /\ pc \notin Fetching => PoolIdle
  /\ pc \in Reading \union Querying => finished = <<>> /\ records = {} /\ errors = {}
  /\ NoFutureIsLost

\* Findings of documents that could not be read, and what else a scan may end with.
Unread(f) == f.check = "parse" /\ f.severity = "ERROR" /\ f.ids = {}

NeverAsked ==
  /\ packages = <<>>
  /\ \A f \in findings :
       /\ f.check \notin {"known_vulnerabilities", "osv_query", "osv_details"}
       /\ f.severity \in {"INFO", "ERROR"} /\ f.ids = {}

QueryFailed ==
  /\ Finding("osv_query", "ERROR", "osv.dev", {}) \in findings
  /\ \A f \in findings :
       Unread(f) \/ (f.check = "osv_query" /\ f.severity = "ERROR" /\ f.ids = {})

\* What Report adds to the findings.
Verdict ==
  PackageFindings
    \union When(errors # {}, Finding("osv_details", "ERROR", "osv.dev", errors))
    \union When(PackageFindings = {}, Finding("known_vulnerabilities", "PASS", "SBOM", {}))
    \union When(skipped > 0, Finding("unqueryable_components", "INFO", "SBOM", {}))

Reported ==
  /\ packages # <<>> /\ ResultLists
  /\ \A at \in DOMAIN packages : packages[at] \notin garbled => Read(at)
  /\ records \union errors = AllIds
  /\ Verdict \subseteq findings
  /\ \A f \in findings : Unread(f) \/ f \in Verdict

Said ==
  IF pc = "done" THEN NeverAsked \/ QueryFailed \/ Reported
  ELSE \A f \in findings : Unread(f)

\* The inductive invariant of the matcher.
MatchInv == Documents /\ Lists /\ Pending /\ Progress /\ Futures /\ Said

\* The image scanner has touched nothing before it hands over an inventory.
Image ==
  /\ step \in {"sbom", "inspect", "syft", "match", "ended"}
  /\ step \in {"inspect", "syft"} => /\ tag \in Images /\ pc = "parse"
                                     /\ packages = <<>> /\ findings = {}

\* And of the scanner in front of it.
ImageInv == MatchInv /\ Image

-----------------------------------------------------------------------------
(* Merging documents                                                       *)

\* A finite set of numbers that is not empty has a greatest one.
LEMMA MaxIsThere ==
  ASSUME NEW S, IsFiniteSet(S), S \subseteq Nat
  PROVE  \A s \in SUBSET S : s # {} => Max(s) \in s
<1> DEFINE Greatest(s, x) == x \in s /\ \A y \in s : x >= y
           Good == {s \in SUBSET S : s # {} => \E x \in s : Greatest(s, x)}
<1>1. ASSUME NEW s \in SUBSET S, \A t \in SUBSET s : t # s => t \in Good
      PROVE  s \in Good
  <2> SUFFICES ASSUME s # {} PROVE \E x \in s : Greatest(s, x)
    OBVIOUS
  <2>1. PICK x \in s : TRUE
    OBVIOUS
  <2>2. CASE s \ {x} = {}
    BY <2>1, <2>2
  <2>3. CASE s \ {x} # {}
    <3>1. s \ {x} \in Good
      BY <1>1, <2>1
    <3>2. PICK y \in s \ {x} : Greatest(s \ {x}, y)
      BY <2>3, <3>1
    <3>3. Greatest(s, y) \/ Greatest(s, x)
      BY <2>1, <3>2
    <3>4. QED BY <2>1, <3>2, <3>3
  <2>4. QED BY <2>2, <2>3
<1>2. \A s \in SUBSET S : s \in Good
  <2> HIDE DEF Good
  <2>1. QED BY <1>1, SmallerSetsFirst
<1>3. QED BY <1>2 DEF Max

\* What Merge makes of the first elements of a list, to the prover.
Merged(known, new) ==
  CHOOSE iter : iter = [s \in SUBSET DOMAIN new |->
    IF s = {} THEN known
    ELSE IF Contains(iter[s \ {Max(s)}], new[Max(s)]) THEN iter[s \ {Max(s)}]
         ELSE Append(iter[s \ {Max(s)}], new[Max(s)])]

\* A list that holds no element twice, and an element it does not hold.
LEMMA OneMore ==
  ASSUME NEW S, NEW list \in Seq(S), IsInjective(list), NEW k \in S
  PROVE  LET more == IF Contains(list, k) THEN list ELSE Append(list, k)
         IN  more \in Seq(S) /\ IsInjective(more) /\ ToSet(more) = ToSet(list) \cup {k}
<1>1. Contains(list, k) <=> k \in ToSet(list)
  BY DEF Contains, ToSet
<1>2. CASE Contains(list, k)
  BY <1>1, <1>2
<1>3. CASE ~Contains(list, k)
  <2> DEFINE more == Append(list, k)
  <2>1. more \in Seq(S) /\ ToSet(more) = ToSet(list) \cup {k}
    BY SetOfAppend
  <2>2. /\ DOMAIN more = DOMAIN list \cup {Len(list) + 1} /\ DOMAIN list = 1..Len(list)
        /\ more[Len(list) + 1] = k /\ \A i \in DOMAIN list : more[i] = list[i]
    OBVIOUS
  <2>3. \A i \in DOMAIN list : list[i] # k
    BY <1>1, <1>3 DEF ToSet
  <2> HIDE DEF more
  <2>4. IsInjective(more)
    BY <2>2, <2>3 DEF IsInjective
  <2>5. QED BY <1>3, <2>1, <2>4 DEF more
<1>4. QED BY <1>2, <1>3

\* Merging lists every package of both once.
LEMMA MergeIsUnion ==
  ASSUME NEW S, NEW known \in Seq(S), IsInjective(known), NEW new \in Seq(S)
  PROVE  /\ Merge(known, new) \in Seq(S) /\ IsInjective(Merge(known, new))
         /\ ToSet(Merge(known, new)) = ToSet(known) \cup ToSet(new)
<1> DEFINE D == DOMAIN new
           V == {list \in Seq(S) : IsInjective(list)}
           Add(list, k) == IF Contains(list, k) THEN list ELSE Append(list, k)
           pick == [s \in SUBSET D |-> Max(s)]
           extend == [s \in SUBSET D |-> [v \in V |-> Add(v, new[pick[s]])]]
           Fits(iter) == iter = [s \in SUBSET D |-> IF s = {} THEN known
                                   ELSE Add(iter[s \ {Max(s)}], new[Max(s)])]
<1>1. IsFiniteSet(D) /\ D \subseteq Nat /\ \A i \in D : new[i] \in S
  BY FiniteList
<1>2. \A s \in SUBSET D : s # {} => Max(s) \in s
  BY <1>1, MaxIsThere
<1>3. \A v \in V, k \in S : Add(v, k) \in V /\ ToSet(Add(v, k)) = ToSet(v) \cup {k}
  BY OneMore
<1>4. Picks(pick, D) /\ StaysIn(extend, D, V) /\ known \in V
  <2>1. Picks(pick, D)
    BY <1>2 DEF Picks
  <2>2. StaysIn(extend, D, V)
    <3> SUFFICES ASSUME NEW s \in SUBSET D, NEW v \in V, s # {} PROVE extend[s][v] \in V
      BY DEF StaysIn
    <3>1. new[pick[s]] \in S
      BY <1>1, <1>2
    <3>2. extend[s][v] = Add(v, new[pick[s]])
      OBVIOUS
    <3> HIDE DEF V, Add, pick, extend
    <3>3. QED BY <1>3, <3>1, <3>2
  <2>3. QED BY <2>1, <2>2
<1>5. PICK g \in [SUBSET D -> V] : Recursive(g, D, known, pick, extend)
  <2> HIDE DEF pick, extend, V, D
  <2>1. QED BY <1>1, <1>4, SubsetRecursion
<1>6. Fits(g)
  <2>1. \A s \in SUBSET D : g[s] = IF s = {} THEN known ELSE extend[s][g[s \ {pick[s]}]]
    BY <1>5 DEF Recursive
  <2>2. \A s \in SUBSET D : g[s \ {pick[s]}] \in V
    OBVIOUS
  <2> HIDE DEF V, Add
  <2>3. \A s \in SUBSET D : g[s] = IF s = {} THEN known
                                   ELSE Add(g[s \ {Max(s)}], new[Max(s)])
    BY <2>1, <2>2
  <2>4. QED BY <2>3
<1> DEFINE lists == Merged(known, new)
<1>7. Fits(lists)
  <2>1. \E iter : Fits(iter)
    BY <1>6
  <2>2. Merged(known, new) = CHOOSE iter : Fits(iter)
    BY DEF Merged
  <2> HIDE DEF Fits
  <2>3. QED BY <2>1, <2>2
<1>8. \A s \in SUBSET D : lists[s] = IF s = {} THEN known
                                     ELSE Add(lists[s \ {Max(s)}], new[Max(s)])
  <2> HIDE DEF Add
  <2>1. QED BY <1>7
<1> DEFINE Firsts(s) == ToSet(known) \cup {new[i] : i \in s}
           Good == {s \in SUBSET D : lists[s] \in V /\ ToSet(lists[s]) = Firsts(s)}
<1>9. ASSUME NEW s \in SUBSET D, \A t \in SUBSET s : t # s => t \in Good
      PROVE  s \in Good
  <2> HIDE DEF lists, V, Add
  <2>1. CASE s = {}
    BY <1>4, <1>8, <2>1
  <2>2. CASE s # {}
    <3> DEFINE x == Max(s)
    <3>1. x \in s /\ new[x] \in S
      BY <1>1, <1>2, <2>2
    <3>2. s \ {x} \in Good
      BY <1>9, <3>1
    <3>3. lists[s] = Add(lists[s \ {x}], new[x])
      BY <1>8, <2>2
    <3> HIDE DEF x
    <3>4. lists[s] \in V /\ ToSet(lists[s]) = Firsts(s \ {x}) \cup {new[x]}
      <4> DEFINE rest == lists[s \ {x}]
      <4>1. rest \in V /\ ToSet(rest) = Firsts(s \ {x})
        BY <3>2
      <4> HIDE DEF rest, Firsts
      <4>2. Add(rest, new[x]) \in V /\ ToSet(Add(rest, new[x])) = ToSet(rest) \cup {new[x]}
        BY <1>3, <3>1, <4>1
      <4>3. QED BY <3>3, <4>1, <4>2 DEF rest
    <3>5. Firsts(s) = Firsts(s \ {x}) \cup {new[x]}
      BY <3>1
    <3>6. QED BY <3>4, <3>5
  <2>3. QED BY <2>1, <2>2
<1>10. \A s \in SUBSET D : s \in Good
  <2> HIDE DEF Good, D
  <2>1. QED BY <1>1, <1>9, SmallerSetsFirst
<1>11. Merge(known, new) = lists[D]
  BY DEF Merge, FoldLeft, MapThenFoldSet, Merged
<1>12. Firsts(D) = ToSet(known) \cup ToSet(new)
  BY DEF ToSet
<1> HIDE DEF lists
<1>13. QED BY <1>10, <1>11, <1>12

-----------------------------------------------------------------------------
(* Reading the documents                                                   *)

\* Of a list of documents that has a head, the head is one and the tail is a list of them.
LEMMA Documented ==
  ASSUME NEW list, list \in Seq(ToSet(list)), \A d \in ToSet(list) : DocumentOK(d), list # <<>>
  PROVE  /\ DocumentOK(Head(list))
         /\ Tail(list) \in Seq(ToSet(Tail(list)))
         /\ \A d \in ToSet(Tail(list)) : DocumentOK(d)
         /\ Len(list) # 1 => Tail(list) # <<>>
<1>1. /\ Len(list) \in Nat /\ DOMAIN list = 1..Len(list) /\ Len(list) # 0
      /\ Head(list) = list[1]
  OBVIOUS
<1>2. DocumentOK(Head(list))
  BY <1>1 DEF ToSet
<1>3. /\ Tail(list) \in Seq(ToSet(list)) /\ Len(Tail(list)) = Len(list) - 1
      /\ \A i \in 1..(Len(list) - 1) : Tail(list)[i] = list[i + 1]
  OBVIOUS
<1> DEFINE rest == Tail(list)
<1>4. DOMAIN rest = 1..Len(rest) /\ Len(rest) = Len(list) - 1
  BY <1>1, <1>3
<1>5. \A i \in DOMAIN rest : rest[i] = list[i + 1] /\ i + 1 \in DOMAIN list
  BY <1>1, <1>3, <1>4
<1>6. rest \in Seq(ToSet(list))
  BY <1>3
<1> HIDE DEF rest
<1>7. ToSet(rest) \subseteq ToSet(list)
  BY <1>5 DEF ToSet
<1>8. rest \in Seq(ToSet(rest))
  <2>1. rest = [i \in 1..Len(rest) |-> rest[i]] /\ Len(rest) \in Nat
    BY <1>6, <1>4
  <2>2. \A i \in 1..Len(rest) : rest[i] \in ToSet(rest)
    BY <1>4 DEF ToSet
  <2>3. rest \in [1..Len(rest) -> ToSet(rest)]
    BY <2>1, <2>2
  <2>4. QED BY <2>1, <2>3
<1>9. Len(list) # 1 => rest # <<>>
  BY <1>1, <1>4
<1>10. QED BY <1>2, <1>7, <1>8, <1>9 DEF rest

\* What OSV says of a package, while neither changes.
LEMMA SameAnswers ==
  ASSUME osv' = osv, packages' = packages
  PROVE  /\ \A at : Answer(at)' = Answer(at)
         /\ \A at, page : Vulns(at, page)' = Vulns(at, page)
         /\ \A k : Known(k)' = Known(k)
         /\ \A at, page : Prior(at, page)' = Prior(at, page)
BY DEF Answer, Vulns, Known, Prior

\* A scan starts in a state of the invariant.
LEMMA MatchStarts == Init => MatchInv
<1> SUFFICES ASSUME Init PROVE MatchInv
  OBVIOUS
<1>1. Documents
  <2>1. unread \in Seq(ToSet(unread)) /\ \A d \in ToSet(unread) : DocumentOK(d)
    BY FileAssumption DEF Init
  <2>2. packages \in Seq(Keys) /\ IsInjective(packages)
    BY DEF Init, IsInjective
  <2>3. skipped \in Nat /\ offset \in Nat /\ pageCount \in 0..PageLimit
    BY PoolAssumption DEF Init
  <2>4. QED BY <2>1, <2>2, <2>3 DEF Init, Documents, Reading
<1>2. Lists
  BY DEF Init, Lists, Reading, Querying, Fetching
<1>3. Pending
  BY DEF Init, Pending, QueriesOK
<1>4. Progress
  BY DEF Init, Progress, Querying, Fetching
<1>5. Futures
  <2>1. Cardinality({}) = 0
    BY FS_EmptySet
  <2>2. DOMAIN finished = {}
    BY DEF Init
  <2>3. QED
    BY <2>1, <2>2, PoolAssumption
       DEF Init, Futures, PoolIdle, Fetching, Reading, Querying, NoFutureIsLost
<1>6. Said
  BY DEF Init, Said
<1>7. QED BY <1>1, <1>2, <1>3, <1>4, <1>5, <1>6 DEF MatchInv

\* While nothing was asked yet, only the documents and the findings matter.
LEMMA BeforeQueries ==
  ASSUME MatchInv, pc \in Reading, UNCHANGED <<queryVars, poolVars, records, errors>>
  PROVE  /\ results' = <<>> /\ offset' = 0 /\ garbled' = {} /\ pageCount' = 0
         /\ pending' = {}
         /\ queue' = {} /\ running' = {} /\ finished' = <<>> /\ records' = {} /\ errors' = {}
         /\ \A f \in findings : Unread(f)
<1>1. /\ results = <<>> /\ offset = 0 /\ garbled = {} /\ pageCount = 0 /\ pending = {}
  BY DEF MatchInv, Lists, Pending, Reading
<1>2. queue = {} /\ running = {} /\ finished = <<>> /\ records = {} /\ errors = {}
  BY DEF MatchInv, Futures, PoolIdle, Reading, Fetching
<1>3. \A f \in findings : Unread(f)
  BY DEF MatchInv, Said, Reading
<1>4. QED BY <1>1, <1>2, <1>3 DEF queryVars, poolVars

\* So the rest of the invariant holds of any state before the queries, and of the end of a
\* scan that asks nothing.
LEMMA NothingAsked ==
  ASSUME results' = <<>>, offset' = 0, garbled' = {}, pageCount' = 0, pending' = {},
         queue' = {}, running' = {}, finished' = <<>>, records' = {}, errors' = {},
         pc' \in Reading \union {"done"}
  PROVE  Lists' /\ Pending' /\ Progress' /\ Futures'
<1>1. Lists'
  BY DEF Lists, Reading, Querying, Fetching
<1>2. Pending'
  BY DEF Pending, QueriesOK
<1>3. Progress'
  BY DEF Progress, Reading, Querying, Fetching
<1>4. Futures'
  <2>1. Cardinality({}) = 0
    BY FS_EmptySet
  <2>2. DOMAIN finished' = {}
    OBVIOUS
  <2>3. QED
    BY <2>1, <2>2, PoolAssumption
       DEF Futures, PoolIdle, Fetching, Reading, Querying, NoFutureIsLost
<1>5. QED BY <1>1, <1>2, <1>3, <1>4

\* A scan without files keeps the invariant.
LEMMA NoFilesStep == MatchInv /\ NoFiles => MatchInv'
<1> SUFFICES ASSUME MatchInv, NoFiles PROVE MatchInv'
  OBVIOUS
<1>1. /\ pc = "parse" /\ pc' = "done" /\ unread' = unread /\ packages' = packages
      /\ skipped' = skipped /\ osv' = osv
      /\ findings' = {Finding("discovery", "INFO", "path", {})}
  BY DEF NoFiles, docVars
<1>2. /\ results' = <<>> /\ offset' = 0 /\ garbled' = {} /\ pageCount' = 0 /\ pending' = {}
      /\ queue' = {} /\ running' = {} /\ finished' = <<>> /\ records' = {} /\ errors' = {}
  BY <1>1, BeforeQueries DEF NoFiles, Reading
<1>3. Lists' /\ Pending' /\ Progress' /\ Futures'
  BY <1>1, <1>2, NothingAsked
<1>4. Documents'
  BY <1>1, <1>2, PoolAssumption DEF MatchInv, Documents
<1>5. Said'
  <2>1. packages' = <<>>
    BY <1>1 DEF NoFiles, MatchInv, Documents
  <2>2. QED BY <1>1, <2>1 DEF Said, NeverAsked, Finding
<1>6. QED BY <1>3, <1>4, <1>5 DEF MatchInv

\* So does reading a document, or failing to.
LEMMA ParseStep == MatchInv /\ ParseSbom => MatchInv'
<1> SUFFICES ASSUME MatchInv, ParseSbom PROVE MatchInv'
  OBVIOUS
<1> DEFINE doc == Head(unread)
<1>1. /\ pc = "parse" /\ pc' \in Reading /\ unread # <<>> /\ unread' = Tail(unread) /\ osv' = osv
      /\ UNCHANGED <<queryVars, poolVars, records, errors>>
  BY DEF ParseSbom, Reading
<1>2. DocumentOK(doc) /\ unread' \in Seq(ToSet(unread')) /\ \A d \in ToSet(unread') : DocumentOK(d)
  BY <1>1, Documented DEF MatchInv, Documents
<1> HIDE DEF doc
<1>3. /\ \/ packages' = Merge(packages, doc.packages) /\ skipped' = skipped + doc.skipped
         \/ packages' = packages /\ skipped' = skipped
      /\ findings' \subseteq findings \union {Finding("parse", "ERROR", Len(unread), {})}
  BY DEF ParseSbom, doc
<1>4. packages' \in Seq(Keys) /\ IsInjective(packages') /\ skipped' \in Nat
  BY <1>2, <1>3, MergeIsUnion DEF MatchInv, Documents, DocumentOK
<1>5. /\ results' = <<>> /\ offset' = 0 /\ garbled' = {} /\ pageCount' = 0 /\ pending' = {}
      /\ queue' = {} /\ running' = {} /\ finished' = <<>> /\ records' = {} /\ errors' = {}
      /\ \A f \in findings : Unread(f)
  BY <1>1, BeforeQueries DEF Reading
<1>6. Lists' /\ Pending' /\ Progress' /\ Futures'
  BY <1>1, <1>5, NothingAsked
<1>7. Documents'
  <2>1. pc' = "parse" => Len(unread) # 1
    BY DEF ParseSbom
  <2>2. Len(unread) # 1 => Tail(unread) # <<>>
    BY <1>1, Documented DEF MatchInv, Documents
  <2>3. QED
    BY <1>1, <1>2, <1>4, <1>5, <2>1, <2>2, PoolAssumption DEF MatchInv, Documents
<1>8. Said'
  <2>1. \A f \in findings' : Unread(f)
    BY <1>3, <1>5 DEF Unread, Finding
  <2>2. QED BY <1>1, <2>1 DEF Said, Reading, Unread
<1>9. QED BY <1>6, <1>7, <1>8 DEF MatchInv

\* The queries start with a list of empty sets, or the scan ends without asking.
LEMMA StartStep == MatchInv /\ StartQueries => MatchInv'
<1> SUFFICES ASSUME MatchInv, StartQueries PROVE MatchInv'
  OBVIOUS
<1>1. /\ pc = "packages" /\ osv' = osv /\ unread' = unread /\ packages' = packages
      /\ skipped' = skipped /\ offset' = offset /\ pending' = pending /\ pageCount' = pageCount
      /\ garbled' = garbled /\ queue' = queue /\ running' = running /\ finished' = finished
      /\ records' = records /\ errors' = errors
  BY DEF StartQueries, docVars, poolVars
<1>2. /\ results = <<>> /\ offset = 0 /\ garbled = {} /\ pageCount = 0 /\ pending = {}
      /\ queue = {} /\ running = {} /\ finished = <<>> /\ records = {} /\ errors = {}
      /\ \A f \in findings : Unread(f)
  BY <1>1 DEF MatchInv, Lists, Pending, Futures, Said, PoolIdle, Reading, Querying, Fetching
<1>3. CASE packages = <<>>
  <2>1. /\ pc' = "done" /\ results' = results
        /\ findings' = findings \union {Finding("packages", "INFO", "source", {})}
    BY <1>3 DEF StartQueries
  <2>2. Lists' /\ Pending' /\ Progress' /\ Futures'
    BY <1>1, <1>2, <2>1, NothingAsked
  <2>3. Documents'
    BY <1>1, <2>1 DEF MatchInv, Documents
  <2>4. NeverAsked'
    BY <1>1, <1>2, <1>3, <2>1 DEF NeverAsked, Unread, Finding
  <2>5. Said'
    BY <2>1, <2>4 DEF Said
  <2>6. QED BY <2>2, <2>3, <2>5 DEF MatchInv
<1>4. CASE packages # <<>>
  <2>1. pc' = "chunk" /\ results' = [i \in DOMAIN packages |-> {}] /\ findings' = findings
    BY <1>4 DEF StartQueries
  <2>2. Documents'
    BY <1>1, <2>1 DEF MatchInv, Documents, Querying
  <2>3. Lists'
    BY <1>1, <1>4, <2>1 DEF Lists, ResultLists, Reading
  <2>4. Pending'
    BY <1>1, <1>2, <2>1 DEF Pending, QueriesOK
  <2>5. Progress'
    <3>1. ASSUME NEW at \in DOMAIN packages' PROVE ReadSoFar(at)'
      <4>1. results'[at] = {} /\ at > offset' /\ ~(at <= offset') /\ pending' = {}
        BY <1>1, <1>2, <2>1, <3>1 DEF MatchInv, Documents
      <4>2. QED BY <4>1 DEF ReadSoFar
    <3>2. QED BY <2>1, <3>1 DEF Progress, Fetching
  <2>6. Futures'
    <3>1. Cardinality({}) = 0
      BY FS_EmptySet
    <3>2. DOMAIN finished' = {}
      BY <1>1, <1>2
    <3>3. QED
      BY <1>1, <1>2, <2>1, <3>1, <3>2, PoolAssumption
         DEF Futures, PoolIdle, Fetching, Reading, Querying, NoFutureIsLost
  <2>7. Said'
    BY <1>2, <2>1 DEF Said, Unread
  <2>8. QED BY <2>2, <2>3, <2>4, <2>5, <2>6, <2>7 DEF MatchInv
<1>5. QED BY <1>3, <1>4

-----------------------------------------------------------------------------
(* Queries                                                                 *)

\* Every answer has a first page, and its pages hold ids.
LEMMA AnswerPages ==
  ASSUME Documents, NEW at \in DOMAIN packages
  PROVE  /\ Answer(at).pages \in Seq(SUBSET Ids)
         /\ Len(Answer(at).pages) \in Nat \ {0}
         /\ DOMAIN Answer(at).pages = 1..Len(Answer(at).pages)
         /\ Answer(at).endless \in BOOLEAN
         /\ \A page \in DOMAIN Answer(at).pages : Vulns(at, page) \subseteq Ids
<1>1. packages[at] \in Keys
  BY DEF Documents
<1>2. Answer(at) \in Answers
  BY <1>1 DEF Answer, Documents
<1>3. /\ Answer(at).pages \in Seq(SUBSET Ids) /\ Answer(at).pages # <<>>
      /\ Answer(at).endless \in BOOLEAN
  BY <1>2, AnswerAssumption
<1> DEFINE pages == Answer(at).pages
<1>4. pages \in Seq(SUBSET Ids) /\ pages # <<>>
  BY <1>3
<1> HIDE DEF pages
<1>5. /\ Len(pages) \in Nat \ {0} /\ DOMAIN pages = 1..Len(pages)
      /\ \A page \in DOMAIN pages : pages[page] \subseteq Ids
  BY <1>4
<1>6. QED BY <1>3, <1>5 DEF pages, Vulns

\* The pages of an answer hold what is known of its package.
LEMMA AllPages ==
  ASSUME Documents, NEW at \in DOMAIN packages
  PROVE  /\ Known(packages[at]) = Prior(at, Len(Answer(at).pages) + 1)
         /\ \A page \in DOMAIN Answer(at).pages :
              Prior(at, page + 1) = Prior(at, page) \union Vulns(at, page)
         /\ Prior(at, 1) = {}
<1> DEFINE n == Len(Answer(at).pages)
<1>1. n \in Nat \ {0} /\ DOMAIN Answer(at).pages = 1..n
  BY AnswerPages
<1>2. Known(packages[at]) = UNION {Vulns(at, p) : p \in 1..n}
  BY <1>1 DEF Known, Answer, Vulns, ToSet
<1> HIDE DEF n
<1>3. Known(packages[at]) = Prior(at, n + 1)
  <2>1. (n + 1) - 1 = n
    BY <1>1
  <2>2. QED BY <1>2, <2>1 DEF Prior
<1>4. \A page \in 1..n : Prior(at, page + 1) = Prior(at, page) \union Vulns(at, page)
  <2>1. SUFFICES ASSUME NEW page \in 1..n
                 PROVE  Prior(at, page + 1) = Prior(at, page) \union Vulns(at, page)
    OBVIOUS
  <2>2. 1..((page + 1) - 1) = (1..(page - 1)) \union {page}
    BY <1>1
  <2>3. QED BY <2>2 DEF Prior
<1>5. Prior(at, 1) = {}
  <2>1. 1..(1 - 1) = {}
    OBVIOUS
  <2>2. QED BY <2>1 DEF Prior
<1>6. QED BY <1>1, <1>3, <1>4, <1>5 DEF n

\* What the queries of a request know of their packages before it is sent.
Queued(asked) ==
  \A q \in asked :
    packages[q.at] \notin garbled /\ ~Answer(q.at).endless => results[q.at] = Prior(q.at, q.page)

\* A response adds a page for each of its queries, and leaves those with a next page.
LEMMA AbsorbResponse ==
  ASSUME Documents, ResultLists, packages' = packages, osv' = osv,
         NEW asked, QueriesOK(asked), Queued(asked), NEW bad \in SUBSET Spots(asked),
         Absorb(asked, bad)
  PROVE  /\ ResultLists' /\ QueriesOK(pending)'
         /\ garbled' \subseteq ToSet(packages) /\ garbled \subseteq garbled'
         /\ Spots(pending)' \subseteq Spots(asked)
         /\ \A i \in DOMAIN packages : i \notin Spots(asked) => results'[i] = results[i]
         /\ \A i \in Spots(asked) : packages[i] \notin garbled' =>
              /\ \A p \in pending' : p.at = i /\ ~Answer(i).endless =>
                   results'[i] = Prior(i, p.page)
              /\ i \notin Spots(pending)' =>
                   ~Answer(i).endless /\ results'[i] = Known(packages[i])
<1> DEFINE Page(i) == UNION {Vulns(q.at, q.page) : q \in {p \in asked : p.at = i /\ i \notin bad}}
<1>1. /\ results' = [i \in DOMAIN results |-> results[i] \union Page(i)]
      /\ garbled' = garbled \union {packages[at] : at \in bad}
      /\ pending' = FollowUps(asked)
  BY DEF Absorb
<1>2. Spots(asked) \subseteq DOMAIN packages /\ bad \subseteq DOMAIN packages
  BY DEF Spots, QueriesOK
<1>3. \A q \in asked : /\ q.at \in DOMAIN packages /\ q.page \in DOMAIN Answer(q.at).pages
                       /\ q.at \in Spots(asked)
  BY DEF QueriesOK, Spots
<1>4. ResultLists'
  <2>1. \A i \in DOMAIN packages : Page(i) \subseteq Ids
    BY <1>3, AnswerPages
  <2> HIDE DEF Page
  <2>2. QED BY <1>1, <2>1 DEF ResultLists
<1>5. \A p \in FollowUps(asked) : \E q \in asked :
        p.at = q.at /\ p.page = NextPage(q.at, q.page) /\ HasNext(q.at, q.page)
  BY DEF FollowUps
<1>6. \A at \in DOMAIN packages : \A page \in DOMAIN Answer(at).pages :
        /\ NextPage(at, page) \in DOMAIN Answer(at).pages
        /\ ~Answer(at).endless /\ HasNext(at, page) => NextPage(at, page) = page + 1
        /\ ~HasNext(at, page) => ~Answer(at).endless /\ page = Len(Answer(at).pages)
  <2>1. SUFFICES ASSUME NEW at \in DOMAIN packages, NEW page \in DOMAIN Answer(at).pages
                 PROVE  /\ NextPage(at, page) \in DOMAIN Answer(at).pages
                        /\ ~Answer(at).endless /\ HasNext(at, page) => NextPage(at, page) = page + 1
                        /\ ~HasNext(at, page) => /\ ~Answer(at).endless
                                                 /\ page = Len(Answer(at).pages)
    OBVIOUS
  <2> DEFINE n == Len(Answer(at).pages)
  <2>2. n \in Nat \ {0} /\ DOMAIN Answer(at).pages = 1..n /\ page \in 1..n
    BY <2>1, AnswerPages
  <2> HIDE DEF n
  <2>3. QED BY <2>2 DEF NextPage, HasNext, n
<1>7. QueriesOK(FollowUps(asked))
  <2>1. \A p \in FollowUps(asked) :
          p.at \in DOMAIN packages /\ p.page \in DOMAIN Answer(p.at).pages
    BY <1>3, <1>5, <1>6
  <2>2. ASSUME NEW p \in FollowUps(asked), NEW r \in FollowUps(asked), p.at = r.at
        PROVE  p = r
    <3>1. PICK q \in asked : p = [at |-> q.at, page |-> NextPage(q.at, q.page)]
      BY DEF FollowUps
    <3>2. PICK s \in asked : r = [at |-> s.at, page |-> NextPage(s.at, s.page)]
      BY DEF FollowUps
    <3>3. q = s
      BY <2>2, <3>1, <3>2 DEF QueriesOK
    <3>4. QED BY <3>1, <3>2, <3>3
  <2>3. QED BY <2>1, <2>2 DEF QueriesOK
<1>8. QueriesOK(pending)'
  BY <1>1, <1>7, SameAnswers DEF QueriesOK
<1>9. garbled' \subseteq ToSet(packages) /\ garbled \subseteq garbled'
  BY <1>1, <1>2 DEF ToSet, Documents
<1>10. Spots(pending)' = {p.at : p \in FollowUps(asked)} /\ Spots(pending)' \subseteq Spots(asked)
  BY <1>1, <1>3, <1>5 DEF Spots
<1>11. \A i \in DOMAIN packages : i \notin Spots(asked) => results'[i] = results[i]
  <2>1. \A i : i \notin Spots(asked) => Page(i) = {}
    BY <1>3
  <2> HIDE DEF Page
  <2>2. QED BY <1>1, <2>1 DEF ResultLists
<1>12. ASSUME NEW i \in Spots(asked), packages[i] \notin garbled'
       PROVE  /\ \A p \in pending' : p.at = i /\ ~Answer(i).endless =>
                   results'[i] = Prior(i, p.page)
              /\ i \notin Spots(pending)' =>
                   ~Answer(i).endless /\ results'[i] = Known(packages[i])
  <2>1. PICK q \in asked : q.at = i
    BY <1>12 DEF Spots
  <2>2. i \in DOMAIN packages /\ i \notin bad /\ packages[i] \notin garbled
    BY <1>1, <1>2, <1>12
  <2>3. \A p \in asked : p.at = i => p = q
    BY <2>1 DEF QueriesOK
  <2>4. Page(i) = Vulns(i, q.page)
    BY <2>1, <2>2, <2>3
  <2> HIDE DEF Page
  <2>5. results'[i] = results[i] \union Vulns(i, q.page)
    BY <1>1, <2>2, <2>4 DEF ResultLists
  <2>6. ~Answer(i).endless => results'[i] = Prior(i, q.page + 1)
    <3>1. ~Answer(i).endless => results[i] = Prior(i, q.page)
      BY <2>1, <2>2 DEF Queued
    <3>2. q.page \in DOMAIN Answer(i).pages
      BY <1>3, <2>1
    <3>3. QED BY <2>2, <2>5, <3>1, <3>2, AllPages
  <2>7. \A p \in pending' : p.at = i /\ ~Answer(i).endless => p.page = q.page + 1
    BY <1>1, <1>3, <1>5, <1>6, <2>1, <2>3
  <2>8. i \notin Spots(pending)' => ~HasNext(i, q.page)
    <3>1. HasNext(i, q.page) => [at |-> q.at, page |-> NextPage(q.at, q.page)] \in FollowUps(asked)
      BY <2>1 DEF FollowUps
    <3>2. QED BY <1>10, <2>1, <3>1
  <2>9. ~HasNext(i, q.page) => ~Answer(i).endless /\ q.page = Len(Answer(i).pages)
    BY <1>3, <1>6, <2>1
  <2>10. QED BY <2>2, <2>6, <2>7, <2>8, <2>9, AllPages
<1>13. QED BY <1>4, <1>8, <1>9, <1>10, <1>11, <1>12

\* A scan that stops between its queries leaves everything but its findings.
LEMMA QueryEnds ==
  ASSUME MatchInv, pc \in Querying, QueryFails \/ Escapes,
         UNCHANGED <<osv, docVars, poolVars, records, errors>>
  PROVE  MatchInv'
<1>1. /\ osv' = osv /\ unread' = unread /\ packages' = packages /\ skipped' = skipped
      /\ offset' = offset /\ results' = results /\ pending' = pending /\ pageCount' = pageCount
      /\ garbled' = garbled /\ queue' = queue /\ running' = running /\ finished' = finished
      /\ records' = records /\ errors' = errors /\ pc' \in {"done", "crashed"}
  BY DEF QueryFails, Escapes, docVars, poolVars
<1>2. Documents'
  BY <1>1 DEF MatchInv, Documents
<1>3. Lists'
  BY <1>1 DEF MatchInv, Lists, ResultLists, Reading, Querying, Fetching
<1>4. Pending'
  BY <1>1, SameAnswers DEF MatchInv, Pending, QueriesOK, ResultLists
<1>5. Progress'
  BY <1>1 DEF Progress, Querying, Fetching
<1>6. Futures'
  BY <1>1 DEF MatchInv, Futures, PoolIdle, NoFutureIsLost, Reading, Querying, Fetching
<1>7. \A f \in findings : Unread(f)
  BY DEF MatchInv, Said, Querying
<1>8. Said'
  <2>1. CASE QueryFails
    <3>1. /\ pc' = "done"
          /\ findings' = findings \union {Finding("osv_query", "ERROR", "osv.dev", {})}
      BY <2>1 DEF QueryFails
    <3>2. QueryFailed'
      BY <1>7, <3>1 DEF QueryFailed, Unread, Finding
    <3>3. QED BY <3>1, <3>2 DEF Said
  <2>2. CASE Escapes
    BY <1>7, <2>2 DEF Escapes, Said, Unread
  <2>3. QED BY <2>1, <2>2
<1>9. QED BY <1>2, <1>3, <1>4, <1>5, <1>6, <1>8 DEF MatchInv

\* A request that got its answer leaves the pool, the documents and the findings alone.
LEMMA QueryAnswered ==
  ASSUME MatchInv, pc \in Querying, pc' = "page", pageCount' \in 0..PageLimit, offset' \in Nat,
         garbled' \subseteq ToSet(packages), findings' = findings, ResultLists',
         UNCHANGED <<osv, docVars, poolVars, records, errors>>
  PROVE  Documents' /\ Lists' /\ Futures' /\ Said'
<1>1. /\ osv' = osv /\ unread' = unread /\ packages' = packages /\ skipped' = skipped
      /\ queue' = queue /\ running' = running /\ finished' = finished
      /\ records' = records /\ errors' = errors
  BY DEF docVars, poolVars
<1>2. Documents'
  BY <1>1 DEF MatchInv, Documents, Querying
<1>3. Lists'
  BY <1>1 DEF MatchInv, Lists, Reading, Querying
<1>4. Futures'
  BY <1>1 DEF MatchInv, Futures, PoolIdle, NoFutureIsLost, Reading, Querying, Fetching
<1>5. Said'
  BY DEF MatchInv, Said, Querying, Unread
<1>6. QED BY <1>2, <1>3, <1>4, <1>5

\* The first pages of a chunk.
LEMMA ChunkStep == MatchInv /\ QueryChunk => MatchInv'
<1> SUFFICES ASSUME MatchInv, QueryChunk PROVE MatchInv'
  OBVIOUS
<1>1. pc = "chunk" /\ UNCHANGED <<osv, docVars, poolVars, records, errors>>
  BY DEF QueryChunk
<1>2. CASE QueryFails \/ Escapes
  BY <1>1, <1>2, QueryEnds DEF Querying
<1>3. CASE ~(QueryFails \/ Escapes)
  <2>1. PICK bad \in SUBSET Spots(Chunk) : Absorb(Chunk, bad)
    BY <1>3 DEF QueryChunk
  <2>2. /\ offset' = offset + ChunkSize /\ pageCount' = 0 /\ pc' = "page"
        /\ findings' = findings /\ packages' = packages /\ osv' = osv
    BY <1>1, <1>3 DEF QueryChunk, docVars
  <2>3. Documents /\ ResultLists /\ pending = {} /\ packages \in Seq(Keys)
    BY <1>1 DEF MatchInv, Lists, Pending, Documents, Querying
  <2>4. /\ \A q \in Chunk : /\ q.at \in DOMAIN packages /\ q.page = 1
                            /\ offset < q.at /\ q.at <= offset + ChunkSize
        /\ Spots(Chunk) = {i \in DOMAIN packages : offset < i /\ i <= offset + ChunkSize}
    <3> DEFINE due == {i \in DOMAIN packages : offset < i /\ i <= offset + ChunkSize}
    <3>1. Chunk = {[at |-> i, page |-> 1] : i \in due}
      BY DEF Chunk
    <3>2. \A i \in due : /\ i \in DOMAIN packages
                         /\ offset < i /\ i <= offset + ChunkSize
      OBVIOUS
    <3> HIDE DEF due
    <3>3. Spots(Chunk) = due
      <4>1. \A q \in Chunk : q.at \in due
        BY <3>1
      <4>2. \A i \in due : [at |-> i, page |-> 1] \in Chunk /\ [at |-> i, page |-> 1].at = i
        BY <3>1
      <4>3. QED BY <4>1, <4>2 DEF Spots
    <3>4. QED BY <3>1, <3>2, <3>3 DEF due
  <2>5. QueriesOK(Chunk)
    <3>1. \A q \in Chunk : q.page \in DOMAIN Answer(q.at).pages
      BY <2>3, <2>4, AnswerPages
    <3>2. \A p, q \in Chunk : p.at = q.at => p = q
      BY DEF Chunk
    <3>3. QED BY <2>4, <3>1, <3>2 DEF QueriesOK
  <2>6. \A at \in DOMAIN packages : packages[at] \notin garbled => ReadSoFar(at)
    BY <1>1 DEF MatchInv, Progress, Querying
  <2>7. Queued(Chunk)
    <3>1. SUFFICES ASSUME NEW q \in Chunk, packages[q.at] \notin garbled
                   PROVE  results[q.at] = Prior(q.at, q.page)
      BY DEF Queued
    <3>2. results[q.at] = {}
      <4>1. q.at \in DOMAIN packages /\ q.at > offset
        BY <2>3, <2>4 DEF Documents
      <4>2. QED BY <2>6, <3>1, <4>1 DEF ReadSoFar
    <3>3. q.page = 1 /\ q.at \in DOMAIN packages
      BY <2>4
    <3>4. QED BY <2>3, <3>2, <3>3, AllPages
  <2> DEFINE asked == Chunk
  <2>8. Spots(asked) = {i \in DOMAIN packages : offset < i /\ i <= offset + ChunkSize}
    BY <2>4
  <2> HIDE DEF asked
  <2>9. /\ ResultLists' /\ QueriesOK(pending)'
        /\ garbled' \subseteq ToSet(packages) /\ garbled \subseteq garbled'
        /\ Spots(pending)' \subseteq Spots(asked)
        /\ \A i \in DOMAIN packages : i \notin Spots(asked) => results'[i] = results[i]
        /\ \A i \in Spots(asked) : packages[i] \notin garbled' =>
             /\ \A p \in pending' : p.at = i /\ ~Answer(i).endless =>
                  results'[i] = Prior(i, p.page)
             /\ i \notin Spots(pending)' =>
                  ~Answer(i).endless /\ results'[i] = Known(packages[i])
    BY <2>1, <2>2, <2>3, <2>5, <2>7, AbsorbResponse DEF asked
  <2>10. offset \in Nat /\ ChunkSize \in Nat \ {0} /\ DOMAIN packages \subseteq Nat
    BY <2>3, PoolAssumption DEF Documents
  <2>11. Documents' /\ Lists' /\ Futures' /\ Said'
    BY <1>1, <2>2, <2>9, <2>10, QueryAnswered, PoolAssumption DEF Querying
  <2>12. Pending'
    <3>1. \A q \in pending' : q.at <= offset'
      BY <2>2, <2>8, <2>9 DEF Spots
    <3>2. QED BY <2>2, <2>9, <3>1 DEF Pending
  <2>13. Progress'
    <3>1. ASSUME NEW at \in DOMAIN packages, packages[at] \notin garbled'
          PROVE  ReadSoFar(at)'
      <4>1. ReadSoFar(at)
        BY <2>6, <2>9, <3>1
      <4>2. CASE at \in Spots(asked)
        <5>1. ~(at > offset')
          BY <2>2, <2>8, <2>10, <4>2
        <5>2. QED
          BY <2>2, <2>9, <3>1, <4>2, <5>1, SameAnswers DEF ReadSoFar, Read
      <4>3. CASE at \notin Spots(asked)
        <5>1. results'[at] = results[at] /\ \A q \in pending' : q.at # at
          BY <2>9, <4>3 DEF Spots
        <5>2. at > offset' => at > offset
          BY <2>2, <2>10
        <5>3. at <= offset' => at <= offset
          BY <2>2, <2>8, <2>10, <4>3
        <5>4. at \notin Spots(pending)
          BY <2>3 DEF Spots
        <5>5. QED
          BY <2>2, <4>1, <5>1, <5>2, <5>3, <5>4, SameAnswers DEF ReadSoFar, Read
      <4>4. QED BY <4>2, <4>3
    <3>2. QED BY <2>2, <3>1 DEF Progress, Fetching
  <2>14. QED BY <2>11, <2>12, <2>13 DEF MatchInv
<1>4. QED BY <1>2, <1>3

\* The next pages of the queries that have one.
LEMMA PageStep == MatchInv /\ QueryPage => MatchInv'
<1> SUFFICES ASSUME MatchInv, QueryPage PROVE MatchInv'
  OBVIOUS
<1>1. pc = "page" /\ pending # {} /\ UNCHANGED <<osv, docVars, poolVars, records, errors>>
  BY DEF QueryPage
<1>2. CASE QueryFails \/ Escapes
  BY <1>1, <1>2, QueryEnds DEF Querying
<1>3. CASE ~(QueryFails \/ Escapes)
  <2>1. PICK bad \in SUBSET Spots(pending) : Absorb(pending, bad)
    BY <1>3 DEF QueryPage
  <2>2. /\ offset' = offset /\ pageCount < PageLimit /\ pageCount' = pageCount + 1
        /\ pc' = "page" /\ findings' = findings /\ packages' = packages /\ osv' = osv
    BY <1>1, <1>3 DEF QueryPage, docVars
  <2>3. Documents /\ ResultLists /\ QueriesOK(pending) /\ \A q \in pending : q.at <= offset
    BY <1>1 DEF MatchInv, Lists, Pending, Querying
  <2>4. \A at \in DOMAIN packages : packages[at] \notin garbled => ReadSoFar(at)
    BY <1>1 DEF MatchInv, Progress, Querying
  <2>5. Queued(pending)
    BY <2>3, <2>4 DEF Queued, ReadSoFar, QueriesOK
  <2> DEFINE asked == pending
  <2>6. \A i \in Spots(asked) : i <= offset /\ i \in DOMAIN packages
    BY <2>3 DEF Spots, QueriesOK
  <2> HIDE DEF asked
  <2>7. /\ ResultLists' /\ QueriesOK(pending)'
        /\ garbled' \subseteq ToSet(packages) /\ garbled \subseteq garbled'
        /\ Spots(pending)' \subseteq Spots(asked)
        /\ \A i \in DOMAIN packages : i \notin Spots(asked) => results'[i] = results[i]
        /\ \A i \in Spots(asked) : packages[i] \notin garbled' =>
             /\ \A p \in pending' : p.at = i /\ ~Answer(i).endless =>
                  results'[i] = Prior(i, p.page)
             /\ i \notin Spots(pending)' =>
                  ~Answer(i).endless /\ results'[i] = Known(packages[i])
    BY <2>1, <2>2, <2>3, <2>5, AbsorbResponse DEF asked
  <2>8. /\ offset \in Nat /\ pageCount \in Nat /\ PageLimit \in Nat /\ DOMAIN packages \subseteq Nat
    BY <2>3, PoolAssumption DEF Documents
  <2>9. Documents' /\ Lists' /\ Futures' /\ Said'
    BY <1>1, <2>2, <2>7, <2>8, QueryAnswered DEF Querying
  <2>10. Pending'
    <3>1. \A q \in pending' : q.at <= offset'
      BY <2>2, <2>6, <2>7 DEF Spots
    <3>2. QED BY <2>2, <2>7, <3>1 DEF Pending
  <2>11. Progress'
    <3>1. ASSUME NEW at \in DOMAIN packages, packages[at] \notin garbled'
          PROVE  ReadSoFar(at)'
      <4>1. ReadSoFar(at)
        BY <2>4, <2>7, <3>1
      <4>2. CASE at \in Spots(asked)
        <5>1. ~(at > offset')
          BY <2>2, <2>6, <2>8, <4>2
        <5>2. QED
          BY <2>2, <2>7, <3>1, <4>2, <5>1, SameAnswers DEF ReadSoFar, Read
      <4>3. CASE at \notin Spots(asked)
        <5>1. results'[at] = results[at] /\ \A q \in pending' : q.at # at
          BY <2>7, <4>3 DEF Spots
        <5>2. at \notin Spots(pending)
          BY <4>3 DEF asked
        <5>3. QED
          BY <2>2, <4>1, <5>1, <5>2, SameAnswers DEF ReadSoFar, Read
      <4>4. QED BY <4>2, <4>3
    <3>2. QED BY <2>2, <3>1 DEF Progress, Fetching
  <2>12. QED BY <2>9, <2>10, <2>11 DEF MatchInv
<1>4. QED BY <1>2, <1>3

\* The end of a chunk.
LEMMA NextChunkStep == MatchInv /\ NextChunk => MatchInv'
<1> SUFFICES ASSUME MatchInv, NextChunk PROVE MatchInv'
  OBVIOUS
<1>1. /\ osv' = osv /\ unread' = unread /\ packages' = packages /\ skipped' = skipped
      /\ offset' = offset /\ results' = results /\ pending' = pending /\ pageCount' = pageCount
      /\ garbled' = garbled /\ queue' = queue /\ running' = running /\ finished' = finished
      /\ records' = records /\ errors' = errors /\ findings' = findings
      /\ pc = "page" /\ pc' = "chunk" /\ pending = {}
  BY DEF NextChunk, docVars, poolVars, queryVars
<1>2. Documents'
  BY <1>1 DEF MatchInv, Documents, Querying
<1>3. Lists'
  BY <1>1 DEF MatchInv, Lists, ResultLists, Reading, Querying, Fetching
<1>4. Pending'
  BY <1>1 DEF Pending, QueriesOK
<1>5. Progress'
  BY <1>1, SameAnswers DEF MatchInv, Progress, ReadSoFar, Read, Spots, Querying, Fetching
<1>6. Futures'
  BY <1>1 DEF MatchInv, Futures, PoolIdle, NoFutureIsLost, Reading, Querying, Fetching
<1>7. Said'
  BY <1>1 DEF MatchInv, Said, Unread
<1>8. QED BY <1>2, <1>3, <1>4, <1>5, <1>6, <1>7 DEF MatchInv

-----------------------------------------------------------------------------
(* Futures                                                                 *)

\* All ids, and every set of them, are finite in number.
LEMMA FiniteIds == IsFiniteSet(Ids) /\ \A S \in SUBSET Ids : IsFiniteSet(S)
<1>1. IsFiniteSet(Ids)
  BY IdAssumption, FiniteList DEF Ids
<1>2. QED BY <1>1, FS_Subset

\* There are never more workers than the pool is given.
LEMMA WorkersFit ==
  ASSUME AllIds \subseteq Ids
  PROVE  Workers \in Nat /\ Workers <= PoolSize
<1>1. Cardinality(AllIds) \in Nat
  BY FiniteIds, FS_CardinalityType
<1>2. QED BY <1>1, PoolAssumption DEF Workers

\* What the queries found is ids.
LEMMA FoundIds ==
  ASSUME ResultLists
  PROVE  AllIds \subseteq Ids /\ \A at \in DOMAIN packages : results[at] \subseteq AllIds
BY DEF ResultLists, AllIds, ToSet

\* Steps of the pool and of the loop over as_completed leave the first parts alone.
LEMMA FetchKeeps ==
  ASSUME MatchInv, pc' \in Fetching \union {"done", "crashed"},
         pc' \in Fetching => pc \in Fetching,
         UNCHANGED <<osv, docVars, queryVars>>
  PROVE  Documents' /\ Lists' /\ Pending' /\ Progress'
<1>1. /\ osv' = osv /\ unread' = unread /\ packages' = packages /\ skipped' = skipped
      /\ offset' = offset /\ results' = results /\ pending' = pending /\ pageCount' = pageCount
      /\ garbled' = garbled
  BY DEF docVars, queryVars
<1>2. Documents'
  BY <1>1 DEF MatchInv, Documents, Fetching
<1>3. Lists'
  BY <1>1 DEF MatchInv, Lists, ResultLists, Reading, Querying, Fetching
<1>4. Pending'
  BY <1>1, SameAnswers DEF MatchInv, Pending, QueriesOK, ResultLists, Fetching
<1>5. Progress'
  BY <1>1, SameAnswers DEF MatchInv, Progress, ReadSoFar, Read, Spots, Querying, Fetching
<1>6. QED BY <1>2, <1>3, <1>4, <1>5

\* Every id the queries found becomes a future.
LEMMA SubmitStep == MatchInv /\ SubmitFutures => MatchInv'
<1> SUFFICES ASSUME MatchInv, SubmitFutures PROVE MatchInv'
  OBVIOUS
<1>1. /\ osv' = osv /\ unread' = unread /\ packages' = packages /\ skipped' = skipped
      /\ offset' = offset /\ results' = results /\ pending' = pending /\ pageCount' = pageCount
      /\ garbled' = garbled /\ queue' = AllIds /\ running' = running /\ finished' = finished
      /\ records' = records /\ errors' = errors /\ findings' = findings
      /\ pc = "chunk" /\ pc' = "collect" /\ offset >= Len(packages)
  BY DEF SubmitFutures, docVars, queryVars
<1>2. /\ running = {} /\ finished = <<>> /\ records = {} /\ errors = {} /\ ResultLists
      /\ pending = {}
  BY <1>1 DEF MatchInv, Futures, PoolIdle, Lists, Pending, Querying, Fetching
<1>3. Documents'
  BY <1>1 DEF MatchInv, Documents, Fetching
<1>4. Lists'
  BY <1>1 DEF MatchInv, Lists, ResultLists, Reading, Querying, Fetching
<1>5. Pending'
  BY <1>1, <1>2 DEF Pending, QueriesOK
<1>6. Progress'
  BY <1>1, SameAnswers DEF MatchInv, Progress, ReadSoFar, Read, Spots, Querying, Fetching
<1>7. Futures'
  <2>1. AllIds' = AllIds /\ AllIds \subseteq Ids
    BY <1>1, <1>2, FoundIds DEF AllIds
  <2>2. DOMAIN finished' = {}
    BY <1>1, <1>2
  <2>3. Cardinality({}) = 0
    BY FS_EmptySet
  <2>4. QED
    BY <1>1, <1>2, <2>1, <2>2, <2>3, PoolAssumption
       DEF Futures, NoFutureIsLost, Collected, Reading, Querying, Fetching
<1>8. Said'
  BY <1>1 DEF MatchInv, Said, Unread
<1>9. QED BY <1>3, <1>4, <1>5, <1>6, <1>7, <1>8 DEF MatchInv

\* A thread with something to do means that records are being fetched.
LEMMA BusyIsFetching ==
  ASSUME MatchInv, queue # {} \/ running # {}
  PROVE  pc \in Fetching
BY DEF MatchInv, Futures, PoolIdle

\* A thread takes the next future.
LEMMA TakeStep ==
  ASSUME MatchInv, NEW id \in Ids, ThreadTakes(id)
  PROVE  MatchInv'
<1>1. /\ id \in queue /\ Cardinality(running) < Workers
      /\ running' = running \union {id} /\ queue' = queue \ {id} /\ finished' = finished
      /\ records' = records /\ errors' = errors /\ findings' = findings /\ pc' = pc
      /\ UNCHANGED <<osv, docVars, queryVars>>
  BY DEF ThreadTakes, IsNext
<1>2. pc \in Fetching /\ ResultLists
  BY <1>1, BusyIsFetching DEF MatchInv, Lists
<1>3. Documents' /\ Lists' /\ Pending' /\ Progress'
  BY <1>1, <1>2, FetchKeeps
<1>4. Futures'
  <2>1. results' = results /\ AllIds' = AllIds
    BY <1>1 DEF queryVars, AllIds
  <2>2. Cardinality(running') <= PoolSize
    <3>1. running \subseteq Ids /\ running' \subseteq Ids
      BY <1>1 DEF MatchInv, Futures
    <3>2. Cardinality(running') <= Cardinality(running) + 1 /\ Cardinality(running) \in Nat
      BY <1>1, <3>1, FiniteIds, FS_AddElement, FS_CardinalityType
    <3>3. Workers \in Nat /\ Workers <= PoolSize
      BY <1>2, FoundIds, WorkersFit
    <3>4. Cardinality(running') \in Nat
      BY <3>1, FiniteIds, FS_CardinalityType
    <3>5. QED BY <1>1, <3>2, <3>3, <3>4, PoolAssumption
  <2>3. QED
    BY <1>1, <1>2, <2>1, <2>2
       DEF MatchInv, Futures, NoFutureIsLost, Collected, Reading, Querying, Fetching
<1>5. Said'
  BY <1>1, <1>2 DEF MatchInv, Said, Unread, Fetching
<1>6. QED BY <1>3, <1>4, <1>5 DEF MatchInv

\* A thread ends with a record, an error, or something else that was raised.
LEMMA FinishStep ==
  ASSUME MatchInv, NEW id \in Ids, ThreadFinishes(id)
  PROVE  MatchInv'
<1>1. /\ id \in running /\ running' = running \ {id} /\ queue' = queue
      /\ records' = records /\ errors' = errors /\ findings' = findings /\ pc' = pc
      /\ UNCHANGED <<osv, docVars, queryVars>>
  BY DEF ThreadFinishes
<1>2. pc \in Fetching /\ ResultLists
  BY <1>1, BusyIsFetching DEF MatchInv, Lists
<1>3. PICK how \in {"record", "OSVClientError", "raised"} :
        finished' = [f \in {id} \union DOMAIN finished |-> IF f = id THEN how ELSE finished[f]]
  BY DEF ThreadFinishes
<1>4. Documents' /\ Lists' /\ Pending' /\ Progress'
  BY <1>1, <1>2, FetchKeeps
<1>5. Futures'
  <2>1. results' = results /\ AllIds' = AllIds
    BY <1>1 DEF queryVars, AllIds
  <2>2. Cardinality(running') <= PoolSize
    <3>1. running \subseteq Ids /\ running' \subseteq Ids
      BY <1>1 DEF MatchInv, Futures
    <3>2. Cardinality(running') <= Cardinality(running)
      BY <1>1, <3>1, FiniteIds, FS_Subset
    <3>3. Cardinality(running') \in Nat /\ Cardinality(running) \in Nat
      BY <3>1, FiniteIds, FS_CardinalityType
    <3>4. QED BY <3>2, <3>3, PoolAssumption DEF MatchInv, Futures
  <2>3. id \notin DOMAIN finished /\ id \notin records \union errors /\ id \notin queue
    BY <1>1, <1>2 DEF MatchInv, Futures, NoFutureIsLost, Collected, Fetching
  <2>4. /\ DOMAIN finished' = {id} \union DOMAIN finished
        /\ \A f \in DOMAIN finished : finished'[f] = finished[f]
        /\ \A f \in DOMAIN finished' : finished'[f] \in {"record", "OSVClientError", "raised"}
    BY <1>3, <2>3 DEF MatchInv, Futures
  <2>5. records' = {r \in records' \union errors' : finished'[r] = "record"}
    <3>1. /\ records = {r \in records \union errors : finished[r] = "record"}
          /\ records \union errors \subseteq DOMAIN finished
      BY <1>2 DEF MatchInv, Futures, NoFutureIsLost, Collected, Fetching
    <3>2. QED BY <1>1, <2>4, <3>1
  <2>6. NoFutureIsLost'
    BY <1>1, <1>2, <2>1, <2>3, <2>4, <2>5
       DEF MatchInv, Futures, NoFutureIsLost, Collected, Fetching
  <2>7. QED
    BY <1>1, <1>2, <2>1, <2>2, <2>3, <2>4, <2>6
       DEF MatchInv, Futures, NoFutureIsLost, Collected, Reading, Querying, Fetching
<1>6. Said'
  BY <1>1, <1>2 DEF MatchInv, Said, Unread, Fetching
<1>7. QED BY <1>4, <1>5, <1>6 DEF MatchInv

\* The main thread files what a future came to.
LEMMA CollectStep ==
  ASSUME MatchInv, NEW id \in Ids, Collect(id)
  PROVE  MatchInv'
<1>1. /\ pc = "collect" /\ id \in DOMAIN finished \ Collected
      /\ queue' = queue /\ running' = running /\ finished' = finished /\ findings' = findings
      /\ UNCHANGED <<osv, docVars, queryVars>>
  BY DEF Collect, poolVars
<1>2. \/ /\ finished[id] = "record" /\ records' = records \union {id}
         /\ errors' = errors /\ pc' = pc
      \/ /\ finished[id] = "OSVClientError" /\ errors' = errors \union {id}
         /\ records' = records /\ pc' = pc
      \/ pc' = "unwind" /\ records' = records /\ errors' = errors
  <2>1. finished[id] \in {"record", "OSVClientError", "raised"}
    BY <1>1 DEF MatchInv, Futures
  <2>2. CASE finished[id] = "record"
    BY <2>2 DEF Collect
  <2>3. CASE finished[id] = "OSVClientError"
    BY <2>3 DEF Collect
  <2>4. CASE finished[id] = "raised"
    BY <2>4 DEF Collect
  <2>5. QED BY <2>1, <2>2, <2>3, <2>4
<1>3. pc' \in Fetching /\ pc \in Fetching
  BY <1>1, <1>2 DEF Fetching
<1>4. Documents' /\ Lists' /\ Pending' /\ Progress'
  BY <1>1, <1>3, FetchKeeps
<1>5. Futures'
  <2>1. results' = results /\ AllIds' = AllIds
    BY <1>1 DEF queryVars, AllIds
  <2>2. id \notin records /\ id \notin errors /\ id \in Ids
    BY <1>1 DEF Collected
  <2>3. /\ records = {r \in records \union errors : finished[r] = "record"}
        /\ records \union errors \subseteq DOMAIN finished
    BY <1>1 DEF MatchInv, Futures, NoFutureIsLost, Collected
  <2>4. records' = {r \in records' \union errors' : finished'[r] = "record"}
    BY <1>1, <1>2, <2>2, <2>3
  <2>5. /\ records' \subseteq Ids /\ errors' \subseteq Ids /\ records' \intersect errors' = {}
        /\ Collected' \subseteq DOMAIN finished'
    BY <1>1, <1>2, <2>2, <2>3 DEF Collected, MatchInv, Futures
  <2>6. NoFutureIsLost'
    BY <1>1, <2>1, <2>4, <2>5 DEF MatchInv, Futures, NoFutureIsLost
  <2>7. QED
    BY <1>1, <1>3, <2>5, <2>6 DEF MatchInv, Futures, Reading, Querying, Fetching
<1>6. Said'
  BY <1>1, <1>3 DEF MatchInv, Said, Unread, Fetching
<1>7. QED BY <1>4, <1>5, <1>6 DEF MatchInv

\* Leaving the pool changes nothing but the place in the program.
LEMMA UnwindStep == MatchInv /\ Unwind => MatchInv'
<1> SUFFICES ASSUME MatchInv, Unwind PROVE MatchInv'
  OBVIOUS
<1>1. /\ queue' = queue /\ running' = running /\ finished' = finished /\ findings' = findings
      /\ records' = records /\ errors' = errors /\ UNCHANGED <<osv, docVars, queryVars>>
      /\ pc = "unwind" /\ pc' = "crashed" /\ queue = {} /\ running = {}
  BY DEF Unwind, poolVars, PoolIdle
<1>2. Documents' /\ Lists' /\ Pending' /\ Progress'
  BY <1>1, FetchKeeps DEF Fetching
<1>3. Futures'
  BY <1>1
     DEF MatchInv, Futures, PoolIdle, NoFutureIsLost, Collected, Reading, Querying, Fetching
<1>4. Said'
  BY <1>1 DEF MatchInv, Said, Unread
<1>5. QED BY <1>2, <1>3, <1>4 DEF MatchInv

\* The report is made when every package was read and every future filed.
LEMMA ReportStep == MatchInv /\ Report => MatchInv'
<1> SUFFICES ASSUME MatchInv, Report PROVE MatchInv'
  OBVIOUS
<1>1. /\ queue' = queue /\ running' = running /\ finished' = finished
      /\ records' = records /\ errors' = errors /\ UNCHANGED <<osv, docVars, queryVars>>
      /\ pc = "collect" /\ pc' = "done" /\ queue = {} /\ running = {}
      /\ Collected = AllIds /\ findings' = findings \union Verdict
  BY DEF Report, poolVars, PoolIdle, Verdict
<1>2. Documents' /\ Lists' /\ Pending' /\ Progress'
  BY <1>1, FetchKeeps DEF Fetching
<1>3. Futures'
  BY <1>1
     DEF MatchInv, Futures, PoolIdle, NoFutureIsLost, Collected, Reading, Querying, Fetching
<1>4. /\ osv' = osv /\ packages' = packages /\ results' = results /\ skipped' = skipped
      /\ garbled' = garbled
  BY <1>1 DEF docVars, queryVars
<1>5. Verdict' = Verdict
  BY <1>1, <1>4 DEF Verdict, When, PackageFindings, Finding
<1>6. /\ packages # <<>> /\ ResultLists /\ pending = {}
      /\ \A at \in DOMAIN packages : packages[at] \notin garbled => ReadSoFar(at)
      /\ offset >= Len(packages) /\ packages \in Seq(Keys) /\ offset \in Nat
      /\ \A f \in findings : Unread(f)
  BY <1>1 DEF MatchInv, Lists, Progress, Documents, Pending, Said, Fetching
<1>7. \A at \in DOMAIN packages : packages[at] \notin garbled => Read(at)
  <2>1. \A at \in DOMAIN packages : at <= offset
    BY <1>6
  <2>2. Spots(pending) = {}
    BY <1>6 DEF Spots
  <2>3. QED BY <1>6, <2>1, <2>2 DEF ReadSoFar
<1>8. Reported'
  <2>1. \A at \in DOMAIN packages' : packages'[at] \notin garbled' => Read(at)'
    BY <1>4, <1>7, SameAnswers DEF Read
  <2>2. ResultLists' /\ packages' # <<>>
    BY <1>4, <1>6 DEF ResultLists
  <2>3. (records \union errors = AllIds)'
    BY <1>1, <1>4 DEF Collected, AllIds
  <2>4. \A f \in findings' : Unread(f) \/ f \in Verdict'
    BY <1>1, <1>5, <1>6
  <2>5. Verdict' \subseteq findings'
    BY <1>1, <1>5
  <2>6. QED BY <2>1, <2>2, <2>3, <2>4, <2>5 DEF Reported, Unread
<1>9. QED BY <1>1, <1>2, <1>3, <1>8 DEF MatchInv, Said

\* A step that changes nothing of the matcher.
LEMMA MatchStutter == MatchInv /\ UNCHANGED vars => MatchInv'
<1> SUFFICES ASSUME MatchInv, UNCHANGED vars PROVE MatchInv'
  OBVIOUS
<1>1. /\ osv' = osv /\ unread' = unread /\ packages' = packages /\ skipped' = skipped
      /\ offset' = offset /\ results' = results /\ pending' = pending /\ pageCount' = pageCount
      /\ garbled' = garbled /\ queue' = queue /\ running' = running /\ finished' = finished
      /\ records' = records /\ errors' = errors /\ findings' = findings /\ pc' = pc
  BY DEF vars, docVars, poolVars, queryVars
<1>2. Documents'
  BY <1>1 DEF MatchInv, Documents
<1>3. Lists'
  BY <1>1 DEF MatchInv, Lists, ResultLists
<1>4. Pending'
  BY <1>1, SameAnswers DEF MatchInv, Pending, QueriesOK, ResultLists
<1>5. Progress'
  BY <1>1, SameAnswers DEF MatchInv, Progress, ReadSoFar, Read, Spots
<1>6. Futures'
  BY <1>1 DEF MatchInv, Futures, PoolIdle, NoFutureIsLost, Collected, AllIds
<1>7. Said'
  <2>1. Verdict' = Verdict /\ AllIds' = AllIds
    BY <1>1 DEF Verdict, When, PackageFindings, Finding, AllIds
  <2>2. QED
    BY <1>1, <2>1, SameAnswers
       DEF MatchInv, Said, NeverAsked, QueryFailed, Reported, Read, ResultLists, Unread, Finding
<1>8. QED BY <1>2, <1>3, <1>4, <1>5, <1>6, <1>7 DEF MatchInv

\* Every step of the matcher keeps its invariant.
LEMMA MatchSteps == MatchInv /\ Next => MatchInv'
BY NoFilesStep, ParseStep, StartStep, ChunkStep, PageStep, NextChunkStep, SubmitStep,
   CollectStep, UnwindStep, ReportStep, TakeStep, FinishStep DEF Next, Main, Threads

-----------------------------------------------------------------------------
(* The image scanner                                                       *)

\* Before the hand-over nothing has happened in the matcher.
LEMMA Untouched ==
  ASSUME ImageInv, step \in {"inspect", "syft"}
  PROVE  /\ tag \in Images /\ pc = "parse" /\ packages = <<>> /\ findings = {}
         /\ results = <<>> /\ offset = 0 /\ garbled = {} /\ pageCount = 0 /\ pending = {}
         /\ queue = {} /\ running = {} /\ finished = <<>> /\ records = {} /\ errors = {}
BY DEF ImageInv, Image, MatchInv, Lists, Pending, Futures, PoolIdle, Reading, Fetching

\* Giving up ends the scan with one finding, which is not about packages.
LEMMA GiveUpStep ==
  ASSUME ImageInv, step \in {"inspect", "syft"},
         NEW check \in {"image_target", "image_inspect", "image_inventory"},
         NEW severity \in {"INFO", "ERROR"}, GiveUp(check, severity)
  PROVE  ImageInv'
<1>1. /\ osv' = osv /\ unread' = unread /\ packages' = packages /\ skipped' = skipped
      /\ offset' = offset /\ results' = results /\ pending' = pending /\ pageCount' = pageCount
      /\ garbled' = garbled /\ queue' = queue /\ running' = running /\ finished' = finished
      /\ records' = records /\ errors' = errors /\ pc' = "done" /\ step' = "ended"
      /\ findings' = {Finding(check, severity, imageId, {})}
  BY DEF GiveUp, docVars, poolVars, queryVars
<1>2. Lists' /\ Pending' /\ Progress' /\ Futures'
  BY <1>1, Untouched, NothingAsked
<1>3. Documents'
  BY <1>1 DEF ImageInv, MatchInv, Documents
<1>4. Said'
  BY <1>1, Untouched DEF Said, NeverAsked, Finding
<1>5. QED BY <1>1, <1>2, <1>3, <1>4 DEF ImageInv, MatchInv, Image

\* The hand-over starts the matcher on the inventory of the image.
LEMMA SyftStep == ImageInv /\ RunSyft => ImageInv'
<1> SUFFICES ASSUME ImageInv, RunSyft PROVE ImageInv'
  OBVIOUS
<1>1. step = "syft"
  BY DEF RunSyft
<1>2. CASE GiveUp("image_inventory", "ERROR")
  BY <1>1, <1>2, GiveUpStep
<1>3. CASE ~GiveUp("image_inventory", "ERROR")
  <2> DEFINE doc == Inventory[tag]
  <2>1. /\ packages' = Merge(<<>>, doc.packages) /\ skipped' = doc.skipped
        /\ pc' = "packages" /\ step' = "match"
        /\ osv' = osv /\ unread' = unread /\ findings' = findings
        /\ UNCHANGED <<queryVars, poolVars, records, errors>>
    BY <1>3 DEF RunSyft
  <2>2. DocumentOK(doc)
    BY <1>1, Untouched, InventoryAssumption
  <2> HIDE DEF doc
  <2>3. <<>> \in Seq(Keys) /\ IsInjective(<<>>)
    BY DEF IsInjective
  <2>4. packages' \in Seq(Keys) /\ IsInjective(packages') /\ skipped' \in Nat
    BY <2>1, <2>2, <2>3, MergeIsUnion DEF DocumentOK
  <2>5. /\ results' = <<>> /\ offset' = 0 /\ garbled' = {} /\ pageCount' = 0 /\ pending' = {}
        /\ queue' = {} /\ running' = {} /\ finished' = <<>> /\ records' = {} /\ errors' = {}
    BY <1>1, <2>1, Untouched DEF queryVars, poolVars
  <2>6. Lists' /\ Pending' /\ Progress' /\ Futures'
    BY <2>1, <2>5, NothingAsked DEF Reading
  <2>7. Documents'
    BY <2>1, <2>4, <2>5, PoolAssumption DEF ImageInv, MatchInv, Documents, Reading
  <2>8. Said'
    BY <1>1, <2>1, Untouched DEF Said
  <2>9. QED BY <2>1, <2>6, <2>7, <2>8 DEF ImageInv, MatchInv, Image
<1>4. QED BY <1>2, <1>3

\* Every step of the scanner keeps the invariant.
LEMMA ImageSteps == ImageInv /\ ImageNext => ImageInv'
<1> SUFFICES ASSUME ImageInv, ImageNext PROVE ImageInv'
  OBVIOUS
<1>1. CASE CheckTarget
  BY <1>1, GiveUpStep DEF CheckTarget
<1>2. CASE InspectImage
  <2>1. CASE GiveUp("image_inspect", "ERROR")
    BY <1>2, <2>1, GiveUpStep DEF InspectImage
  <2>2. CASE step' = "syft" /\ UNCHANGED <<vars, tag, inventoried>>
    <3>1. MatchInv'
      BY <2>2, MatchStutter DEF ImageInv
    <3>2. Image'
      BY <1>2, <2>2, Untouched DEF InspectImage, Image, vars, docVars
    <3>3. QED BY <3>1, <3>2 DEF ImageInv
  <2>3. QED BY <1>2, <2>1, <2>2 DEF InspectImage
<1>3. CASE RunSyft
  BY <1>3, SyftStep
<1>4. CASE Retag
  <2>1. MatchInv'
    BY <1>4, MatchStutter DEF Retag, ImageInv
  <2>2. Image'
    BY <1>4, Untouched DEF Retag, Image, vars, docVars
  <2>3. QED BY <2>1, <2>2 DEF ImageInv
<1>5. CASE MatchMain \/ MatchThreads
  <2>1. MatchInv'
    BY <1>5, MatchSteps DEF MatchMain, MatchThreads, ImageInv, Next
  <2>2. Image'
    BY <1>5 DEF MatchMain, MatchThreads, Matching, imageVars, Image
  <2>3. QED BY <2>1, <2>2 DEF ImageInv
<1>6. QED BY <1>1, <1>2, <1>3, <1>4, <1>5 DEF ImageNext, Scan

\* The invariant of every package scan, of SBOM files or of an image.
THEOREM ImageInvariant == ImageSpec => []ImageInv
<1>1. ImageInit => ImageInv
  <2>1. ImageInit => MatchInv
    BY MatchStarts DEF ImageInit
  <2>2. ImageInit => Image
    BY DEF ImageInit, Init, Image
  <2>3. QED BY <2>1, <2>2 DEF ImageInv
<1>2. ImageInv /\ UNCHANGED allVars => ImageInv'
  <2>1. SUFFICES ASSUME ImageInv, UNCHANGED allVars PROVE ImageInv'
    OBVIOUS
  <2>2. MatchInv'
    BY <2>1, MatchStutter DEF allVars, ImageInv
  <2>3. Image'
    BY <2>1 DEF allVars, vars, docVars, imageVars, ImageInv, Image
  <2>4. QED BY <2>2, <2>3 DEF ImageInv
<1>3. ImageInv /\ [ImageNext]_allVars => ImageInv'
  BY <1>2, ImageSteps
<1>4. QED BY <1>1, <1>3, PTL DEF ImageSpec

-----------------------------------------------------------------------------
(* Severities                                                              *)

\* The severities, from the least.
LEMMA Ranks ==
  /\ DOMAIN Rank = {"INFO", "LOW", "MEDIUM", "HIGH", "CRITICAL"}
  /\ Rank["INFO"] = 0 /\ Rank["LOW"] = 1 /\ Rank["MEDIUM"] = 2 /\ Rank["HIGH"] = 3
  /\ Rank["CRITICAL"] = 4
BY DEF Rank

\* A set of severities has a strongest.
LEMMA StrongestIsThere ==
  ASSUME NEW S \in SUBSET DOMAIN Rank, S # {}
  PROVE  Strongest(S) \in S
<1>1. \E s \in S : \A t \in S : Rank[t] <= Rank[s]
  <2>1. CASE "CRITICAL" \in S
    BY <2>1, Ranks
  <2>2. CASE "CRITICAL" \notin S /\ "HIGH" \in S
    BY <2>2, Ranks
  <2>3. CASE "CRITICAL" \notin S /\ "HIGH" \notin S /\ "MEDIUM" \in S
    BY <2>3, Ranks
  <2>4. CASE "CRITICAL" \notin S /\ "HIGH" \notin S /\ "MEDIUM" \notin S /\ "LOW" \in S
    BY <2>4, Ranks
  <2>5. CASE S = {"INFO"}
    BY <2>5, Ranks
  <2>6. QED BY <2>1, <2>2, <2>3, <2>4, <2>5, Ranks
<1>2. QED BY <1>1 DEF Strongest

\* A record has one of the severities.
LEMMA RecordSeverities == \A r : RecordSeverity(r) \in DOMAIN Rank
<1>1. \A values : Categorical(values) \in DOMAIN Rank
  <2>1. TAKE values
  <2> DEFINE named == [LOW |-> "LOW", MODERATE |-> "MEDIUM", MEDIUM |-> "MEDIUM",
                       HIGH |-> "HIGH", CRITICAL |-> "CRITICAL"]
             S == {"INFO"} \union {named[v] : v \in values \intersect DOMAIN named}
  <2>2. \A v \in DOMAIN named : named[v] \in DOMAIN Rank
    BY Ranks
  <2>3. Categorical(values) = Strongest(S)
    BY DEF Categorical
  <2> HIDE DEF named
  <2>4. S \in SUBSET DOMAIN Rank /\ S # {}
    BY <2>2, Ranks
  <2> HIDE DEF S
  <2>5. QED BY <2>3, <2>4, StrongestIsThere
<1>2. \A scores : Scored(scores) \in DOMAIN Rank
  BY Ranks DEF Scored
<1>3. QED BY <1>1, <1>2 DEF RecordSeverity

\* A package has a severity: INFO, or the strongest of its records.
LEMMA PackageSeverity ==
  ASSUME NEW S
  PROVE  Strongest({"INFO"} \union {RecordSeverity(Records[id]) : id \in S}) \in DOMAIN Rank
<1> DEFINE T == {"INFO"} \union {RecordSeverity(Records[id]) : id \in S}
<1>1. T \in SUBSET DOMAIN Rank /\ T # {}
  BY RecordSeverities, Ranks
<1> HIDE DEF T
<1>2. Strongest(T) \in DOMAIN Rank
  BY <1>1, StrongestIsThere
<1>3. QED BY <1>2 DEF T

\* The fields of a finding.
LEMMA FindingFields ==
  \A c, s, o, i : LET f == Finding(c, s, o, i)
                  IN  f.check = c /\ f.severity = s /\ f.on = o /\ f.ids = i
BY DEF Finding

\* The findings about packages, one for each that has ids.
SeverityOf(i) ==
  Strongest({"INFO"} \union {RecordSeverity(Records[id]) : id \in results[i] \intersect records})

Match(i) == Finding("known_vulnerabilities", SeverityOf(i), packages[i], results[i])

LEMMA MatchFields ==
  \A i : /\ Match(i).check = "known_vulnerabilities" /\ Match(i).severity = SeverityOf(i)
         /\ Match(i).on = packages[i] /\ Match(i).ids = results[i]
         /\ SeverityOf(i) \in DOMAIN Rank
<1>1. \A i : SeverityOf(i) \in DOMAIN Rank
  BY PackageSeverity DEF SeverityOf
<1>2. QED BY <1>1, FindingFields DEF Match

LEMMA MatchesFound ==
  PackageFindings = {Match(i) : i \in {j \in DOMAIN results : results[j] # {}}}
BY DEF PackageFindings, Match, SeverityOf

-----------------------------------------------------------------------------
(* The theorems                                                            *)

\* Every variable keeps its type, and the pool its size.
THEOREM MatchTypes == ImageSpec => []TypeOK
<1>1. ImageInv => TypeOK
  <2> SUFFICES ASSUME ImageInv PROVE TypeOK
    OBVIOUS
  <2>1. /\ pc \in {"parse", "packages", "chunk", "page", "collect", "unwind", "done", "crashed"}
        /\ osv \in [Keys -> Answers]
        /\ ToSet(packages) \subseteq Keys /\ IsInjective(packages)
        /\ skipped \in Nat /\ offset \in Nat /\ pageCount \in 0..PageLimit
        /\ garbled \subseteq ToSet(packages)
    BY DEF ImageInv, MatchInv, Documents, Reading, Querying, Fetching, ToSet
  <2>2. DOMAIN results \subseteq DOMAIN packages /\ ToSet(results) \subseteq SUBSET Ids
    BY DEF ImageInv, MatchInv, Lists, ResultLists, ToSet
  <2>3. \A q \in pending : q.at \in DOMAIN results /\ q.page \in DOMAIN Answer(q.at).pages
    BY DEF ImageInv, MatchInv, Pending, QueriesOK, ResultLists
  <2>4. /\ queue \subseteq Ids /\ running \subseteq Ids /\ Cardinality(running) <= PoolSize
        /\ DOMAIN finished \subseteq Ids
        /\ records \subseteq Ids /\ errors \subseteq Ids /\ records \intersect errors = {}
    BY DEF ImageInv, MatchInv, Futures
  <2>5. \A f \in findings :
          f.severity \in {"PASS", "ERROR"} \union DOMAIN Rank /\ f.ids \subseteq Ids
    <3>1. \A f \in PackageFindings :
            ResultLists => f.severity \in DOMAIN Rank /\ f.ids \subseteq Ids
      BY MatchesFound, MatchFields DEF ResultLists
    <3>2. ResultLists => \A f \in Verdict :
            f.severity \in {"PASS", "ERROR"} \union DOMAIN Rank /\ f.ids \subseteq Ids
      BY <2>4, <3>1, Ranks DEF Verdict, When, Finding
    <3>3. \A f \in findings : Unread(f) =>
            f.severity \in {"PASS", "ERROR"} \union DOMAIN Rank /\ f.ids \subseteq Ids
      BY DEF Unread
    <3>4. QED
      BY <3>2, <3>3, Ranks DEF ImageInv, MatchInv, Said, NeverAsked, QueryFailed, Reported
  <2>6. QED BY <2>1, <2>2, <2>3, <2>4, <2>5 DEF TypeOK
<1>2. QED BY ImageInvariant, <1>1, PTL

\* No future is lost or filed twice between the pool and the main thread.
THEOREM FuturesAreKept == ImageSpec => []NoFutureIsLost
<1>1. ImageInv => NoFutureIsLost
  BY DEF ImageInv, MatchInv, Futures
<1>2. QED BY ImageInvariant, <1>1, PTL

\* The findings about packages of a scan that reports: one for each package with ids, or
\* a PASS when there is none.
LEMMA PackagesReported ==
  ASSUME Reported
  PROVE  /\ \A f \in findings : f.check = "known_vulnerabilities" <=>
              \/ f \in PackageFindings
              \/ PackageFindings = {} /\ f = Finding("known_vulnerabilities", "PASS", "SBOM", {})
         /\ \A f \in findings : f.check = "osv_details" <=>
              errors # {} /\ f = Finding("osv_details", "ERROR", "osv.dev", errors)
         /\ \A f \in findings : f.check # "osv_query"
<1>1. \A f \in PackageFindings : f.check = "known_vulnerabilities"
  BY MatchesFound, MatchFields
<1>2. \A f : Unread(f) => f.check = "parse"
  BY DEF Unread
<1>3. \A c, s, o, i : Finding(c, s, o, i).check = c
  BY DEF Finding
<1>4. QED BY <1>1, <1>2, <1>3 DEF Reported, Verdict, When

\* A PASS is only given when every page of every package was read and held no id.
THEOREM CleanClaimIsEarned == ImageSpec => []PassIsEarned
<1>1. ImageInv => PassIsEarned
  <2> SUFFICES ASSUME ImageInv, NEW f \in Of("known_vulnerabilities"), f.severity = "PASS"
               PROVE  /\ packages # <<>>
                      /\ \A k \in ToSet(packages) \ garbled : Known(k) = {} /\ ~osv[k].endless
                      /\ Of("known_vulnerabilities")
                           = {Finding("known_vulnerabilities", "PASS", "SBOM", {})}
                      /\ ~Failed("osv_query") /\ ~Failed("osv_details")
    BY DEF PassIsEarned
  <2>1. f \in findings /\ f.check = "known_vulnerabilities"
    BY DEF Of
  <2>2. Reported
    BY <2>1 DEF ImageInv, MatchInv, Said, NeverAsked, QueryFailed, Unread
  <2>3. PackageFindings = {} /\ f = Finding("known_vulnerabilities", "PASS", "SBOM", {})
    <3>1. \A g \in PackageFindings : g.severity \in DOMAIN Rank
      BY MatchesFound, MatchFields
    <3>2. "PASS" \notin DOMAIN Rank
      BY Ranks
    <3>3. QED BY <2>1, <2>2, <3>1, <3>2, PackagesReported
  <2>4. \A at \in DOMAIN packages : results[at] = {}
    BY <2>2, <2>3, MatchesFound DEF Reported, ResultLists
  <2>5. \A k \in ToSet(packages) \ garbled : Known(k) = {} /\ ~osv[k].endless
    BY <2>2, <2>4 DEF Reported, Read, Answer, ToSet
  <2>6. Of("known_vulnerabilities") = {f}
    BY <2>1, <2>2, <2>3, PackagesReported DEF Of
  <2>7. errors = {}
    <3>1. AllIds = {}
      BY <2>2, <2>4 DEF Reported, AllIds, ResultLists, ToSet
    <3>2. QED BY <2>2, <3>1 DEF Reported
  <2>8. ~Failed("osv_query") /\ ~Failed("osv_details")
    BY <2>2, <2>7, PackagesReported DEF Failed, Of
  <2>9. QED BY <2>2, <2>3, <2>5, <2>6, <2>8 DEF Reported
<1>2. QED BY ImageInvariant, <1>1, PTL

\* Whatever order pages and records come in, every package gets the ids OSV knows for it,
\* and the strongest severity of the records that came.
THEOREM MatchesComplete == ImageSpec => []MatchesAreComplete
<1>1. ImageInv => MatchesAreComplete
  <2> SUFFICES ASSUME ImageInv, pc = "done", packages # <<>>, ~Failed("osv_query"),
                      NEW k \in ToSet(packages) \ garbled
               PROVE  LET mine == {f \in Of("known_vulnerabilities") : f.on = k}
                          seen == {id \in Known(k) : \A f \in Of("osv_details") : id \notin f.ids}
                      IN  IF Known(k) = {} THEN mine = {}
                          ELSE \E f \in mine :
                            /\ mine = {f} /\ f.ids = Known(k)
                            /\ f.severity = Strongest({"INFO"} \union
                                              {RecordSeverity(Records[id]) : id \in seen})
    BY DEF MatchesAreComplete
  <2> DEFINE mine == {f \in Of("known_vulnerabilities") : f.on = k}
             seen == {id \in Known(k) : \A f \in Of("osv_details") : id \notin f.ids}
  <2>1. Reported
    <3>1. ~QueryFailed
      BY DEF QueryFailed, Failed, Of, Finding
    <3>2. QED BY <3>1 DEF ImageInv, MatchInv, Said, NeverAsked
  <2>2. PICK at \in DOMAIN packages : packages[at] = k
    BY DEF ToSet
  <2>3. results[at] = Known(k) /\ \A i \in DOMAIN packages : packages[i] = k => i = at
    BY <2>1, <2>2 DEF Reported, Read, ImageInv, MatchInv, Documents, IsInjective
  <2>4. \A f : f \in mine <=> results[at] # {} /\ f = Match(at)
    <3>1. DOMAIN results = DOMAIN packages
      BY <2>1 DEF Reported, ResultLists
    <3>2. ASSUME NEW f \in mine PROVE results[at] # {} /\ f = Match(at)
      <4>1. f \in findings /\ f.check = "known_vulnerabilities" /\ f.on = k
        BY DEF Of
      <4>2. k # "SBOM"
        BY KeyAssumption DEF ToSet, ImageInv, MatchInv, Documents
      <4>3. f \in PackageFindings
        <5>1. Finding("known_vulnerabilities", "PASS", "SBOM", {}).on = "SBOM"
          BY DEF Finding
        <5>2. QED BY <2>1, <4>1, <4>2, <5>1, PackagesReported
      <4>4. PICK i \in DOMAIN results : results[i] # {} /\ f = Match(i)
        BY <4>3, MatchesFound
      <4>5. i = at
        BY <2>3, <3>1, <4>1, <4>4, MatchFields
      <4>6. QED BY <4>4, <4>5
    <3>3. ASSUME results[at] # {} PROVE Match(at) \in mine
      <4>1. Match(at) \in PackageFindings
        BY <2>2, <3>1, <3>3, MatchesFound
      <4>2. Match(at) \in findings
        BY <2>1, <4>1 DEF Reported, Verdict
      <4>3. QED BY <2>2, <4>2, MatchFields DEF Of
    <3>4. QED BY <3>2, <3>3
  <2>5. seen = results[at] \intersect records
    <3>1. \A id \in Known(k) : (\A f \in Of("osv_details") : id \notin f.ids) <=> id \notin errors
      <4> DEFINE told == Finding("osv_details", "ERROR", "osv.dev", errors)
      <4>1. told.ids = errors /\ told.check = "osv_details"
        BY DEF Finding
      <4>2. \A f \in Of("osv_details") : f.ids = errors
        BY <2>1, <4>1, PackagesReported DEF Of
      <4>3. errors # {} => told \in Of("osv_details")
        BY <2>1, <4>1 DEF Of, Reported, Verdict, When
      <4>4. QED BY <4>1, <4>2, <4>3
    <3>2. results[at] \subseteq records \union errors
      BY <2>1, <2>2, FoundIds DEF Reported
    <3>3. records \intersect errors = {}
      BY DEF ImageInv, MatchInv, Futures
    <3>4. QED BY <2>3, <3>1, <3>2, <3>3
  <2>6. CASE Known(k) = {}
    BY <2>3, <2>4, <2>6
  <2>7. CASE Known(k) # {}
    <3>1. mine = {Match(at)} /\ Match(at) \in mine
      BY <2>3, <2>4, <2>7
    <3>2. /\ Match(at).ids = Known(k)
          /\ Match(at).severity = Strongest({"INFO"} \union
                                     {RecordSeverity(Records[id]) : id \in seen})
      BY <2>3, <2>5, MatchFields DEF SeverityOf
    <3>3. QED BY <2>7, <3>1, <3>2
  <2>8. QED BY <2>6, <2>7
<1>2. QED BY ImageInvariant, <1>1, PTL
=============================================================================
