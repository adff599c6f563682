------------------------------ MODULE OsvMatch ------------------------------
(***************************************************************************)
(* DockerSBOMScanner and OSVClient (scanners/docker/sbom.py): read the     *)
(* SBOM documents, ask OSV.dev page by page for the vulnerability ids of   *)
(* every package, fetch the records of all ids on a pool of threads, and   *)
(* turn what came back into findings.  OSV.dev is the environment: it      *)
(* answers with the page asked for, garbles an item, or fails.             *)
(***************************************************************************)
EXTENDS Integers, SequencesExt

CONSTANTS
  Keys,        \* package coordinates (SBOMPackage.query_key)
  IdOrder,     \* the vulnerability ids, sorted
  Records,     \* id |-> the severity data of its OSV record
  Answers,     \* what OSV may have to say about a package: pages of ids
  FileLists,   \* the lists of SBOM files _discover_sboms may return
  ChunkSize,   \* queries per batch (500 in the code)
  PageLimit,   \* follow-up pages before giving up (10 in the code)
  PoolSize     \* threads (8 in the code)

Ids == ToSet(IdOrder)

ASSUME PoolAssumption == ChunkSize \in Nat \ {0} /\ PageLimit \in Nat /\ PoolSize \in Nat \ {0}
ASSUME IdAssumption ==
  IdOrder \in Seq(DOMAIN Records) /\ IsInjective(IdOrder) /\ DOMAIN Records = Ids
ASSUME AnswerAssumption ==
  \A a \in Answers : a.pages \in Seq(SUBSET Ids) /\ a.pages # <<>> /\ a.endless \in BOOLEAN

\* Only coordinates that start with "pkg:" are kept, so none is called SBOM.
ASSUME KeyAssumption == "SBOM" \notin Keys

\* What _parse_sbom makes of a file.
DocumentOK(d) == d.readable \in BOOLEAN /\ d.packages \in Seq(Keys) /\ d.skipped \in Nat

ASSUME FileAssumption ==
  \A list \in FileLists : list \in Seq(ToSet(list)) /\ \A d \in ToSet(list) : DocumentOK(d)

-----------------------------------------------------------------------------
(* Severities of OSV records                                               *)

Rank == [INFO |-> 0, LOW |-> 1, MEDIUM |-> 2, HIGH |-> 3, CRITICAL |-> 4]

Strongest(S) == CHOOSE s \in S : \A t \in S : Rank[t] <= Rank[s]

Categorical(values) ==
  LET named == [LOW |-> "LOW", MODERATE |-> "MEDIUM", MEDIUM |-> "MEDIUM",
                HIGH |-> "HIGH", CRITICAL |-> "CRITICAL"]
  IN  Strongest({"INFO"} \union {named[v] : v \in values \intersect DOMAIN named})

\* Scores are in tenths; the strings float() rejects (CVSS vectors) are not in scores.
Scored(scores) ==
  LET best == IF scores = {} THEN 0 ELSE Max(scores)
  IN  IF best >= 90 THEN "CRITICAL" ELSE IF best >= 70 THEN "HIGH"
      ELSE IF best >= 40 THEN "MEDIUM" ELSE IF best > 0 THEN "LOW" ELSE "INFO"

\* _record_severity: a categorical value, if there is one, wins over any score.
RecordSeverity(r) ==
  IF Categorical(r.categories) # "INFO" THEN Categorical(r.categories) ELSE Scored(r.scores)

-----------------------------------------------------------------------------
VARIABLES
  osv,        \* OSV's answer for each package, fixed while the scan lasts
  pc,
  unread,     \* the SBOM files not parsed yet
  packages,   \* packages_by_key, in the order of first appearance
  skipped,    \* skipped_components
  offset,     \* packages before it have been asked for
  results,    \* query_batch's list of sets
  pending,    \* the queries of this chunk with a next page: index and token, by index
  pageCount,
  garbled,    \* history: packages about which OSV sent an item without a vulns list
  queue,      \* futures no thread has taken; they are taken in the order of the ids
  running,    \* futures a thread is working on
  finished,   \* future |-> how it ended
  records,    \* ids whose record arrived
  errors,     \* ids whose record could not be retrieved
  findings

docVars == <<unread, packages, skipped>>
queryVars == <<offset, results, pending, pageCount, garbled>>
poolVars == <<queue, running, finished>>
vars == <<osv, pc, docVars, queryVars, poolVars, records, errors, findings>>

Finding(check, severity, on, ids) ==
  [check |-> check, severity |-> severity, on |-> on, ids |-> ids]

Init ==
  /\ osv \in [Keys -> Answers]
  /\ unread \in FileLists
  /\ pc = "parse"
  /\ packages = <<>> /\ skipped = 0
  /\ offset = 0 /\ results = <<>> /\ pending = {} /\ pageCount = 0 /\ garbled = {}
  /\ queue = {} /\ running = {} /\ finished = <<>>
  /\ records = {} /\ errors = {} /\ findings = {}

-----------------------------------------------------------------------------
(* DockerSBOMScanner.scan                                                  *)

NoFiles ==
  /\ pc = "parse" /\ unread = <<>>
  /\ findings' = {Finding("discovery", "INFO", "path", {})}
  /\ pc' = "done"
  /\ UNCHANGED <<osv, docVars, queryVars, poolVars, records, errors>>

\* setdefault on the query key: the first of equal coordinates stays.
Merge(known, new) ==
  FoldLeft(LAMBDA seq, k : IF Contains(seq, k) THEN seq ELSE Append(seq, k), known, new)

ParseSbom ==
  /\ pc = "parse" /\ unread # <<>>
  /\ LET doc == Head(unread)
     IN  IF doc.readable
         THEN /\ packages' = Merge(packages, doc.packages)
              /\ skipped' = skipped + doc.skipped
              /\ UNCHANGED findings
         ELSE /\ findings' = findings \union {Finding("parse", "ERROR", Len(unread), {})}
              /\ UNCHANGED <<packages, skipped>>
  /\ unread' = Tail(unread)
  /\ pc' = IF Len(unread) = 1 THEN "packages" ELSE "parse"
  /\ UNCHANGED <<osv, queryVars, poolVars, records, errors>>

\* scan_packages, up to the queries
StartQueries ==
  /\ pc = "packages"
  /\ IF packages = <<>>
     THEN /\ findings' = findings \union {Finding("packages", "INFO", "source", {})}
          /\ pc' = "done"
          /\ UNCHANGED results
     ELSE /\ results' = [i \in DOMAIN packages |-> {}]
          /\ pc' = "chunk"
          /\ UNCHANGED findings
  /\ UNCHANGED <<osv, docVars, offset, pending, pageCount, garbled, poolVars, records, errors>>

-----------------------------------------------------------------------------
(* OSVClient.query_batch.  A query is a position in packages and a page; a  *)
(* request asks several, in the order of their positions, and a response    *)
(* is a list with one item for each of them.                                *)

Answer(at) == osv[packages[at]]
Vulns(at, page) == Answer(at).pages[page]

\* The token of the page after this one; an endless answer starts over.
NextPage(at, page) == IF page < Len(Answer(at).pages) THEN page + 1 ELSE 1

\* Mutant: an empty page is taken for the last one.
HasNextUnlessEmpty(at, page) == page < Len(Answer(at).pages) /\ Vulns(at, page) # {}

HasNext(at, page) == page < Len(Answer(at).pages) \/ Answer(at).endless

\* The queries that still have a page to come.
FollowUps(asked) ==
  {[at |-> q.at, page |-> NextPage(q.at, q.page)] : q \in {p \in asked : HasNext(p.at, p.page)}}

\* The place of a query in its request, and of its item in the response.
Place(asked, q) == Cardinality({p \in asked : p.at <= q.at})

\* Mutant: an item is filed under its place in the response.
AbsorbByPlace(asked, bad) ==
  /\ results' = [i \in DOMAIN results |->
       results[i] \union UNION {Vulns(q.at, q.page) : q \in {p \in asked :
                                                  Place(asked, p) = i /\ p.at \notin bad}}]
  /\ garbled' = garbled \union {packages[at] : at \in bad}
  /\ pending' = FollowUps(asked)

(* A well-shaped response to the queries "asked".  The items of "bad" have  *)
(* no list under "vulns" and count as no vulnerability at all.              *)
Absorb(asked, bad) ==
  /\ results' = [i \in DOMAIN results |->
       results[i] \union UNION {Vulns(q.at, q.page) : q \in {p \in asked :
                                                       p.at = i /\ i \notin bad}}]
  /\ garbled' = garbled \union {packages[at] : at \in bad}
  /\ pending' = FollowUps(asked)

\* OSVClientError out of query_batch: no HTTP answer, not JSON, or the wrong shape.
QueryFails ==
  /\ pc' = "done"
  /\ findings' = findings \union {Finding("osv_query", "ERROR", "osv.dev", {})}
  /\ UNCHANGED <<offset, results, pending, pageCount, garbled>>

\* An exception _request_json does not translate, http.client's IncompleteRead for one.
Escapes ==
  /\ pc' = "crashed"
  /\ UNCHANGED <<findings, offset, results, pending, pageCount, garbled>>

Chunk == {[at |-> i, page |-> 1] : i \in {j \in DOMAIN packages : /\ offset < j
                                                                 /\ j <= offset + ChunkSize}}

Spots(asked) == {q.at : q \in asked}

QueryChunk ==
  /\ pc = "chunk" /\ offset < Len(packages)
  /\ \/ /\ \E bad \in SUBSET Spots(Chunk) : Absorb(Chunk, bad)
        /\ offset' = offset + ChunkSize /\ pageCount' = 0
        /\ pc' = "page" /\ UNCHANGED findings
     \/ QueryFails \/ Escapes
  /\ UNCHANGED <<osv, docVars, poolVars, records, errors>>

\* Mutant: the page counter starts over with every response.
QueryPageUncounted ==
  /\ pc = "page" /\ pending # {}
  /\ \/ /\ pageCount < PageLimit
        /\ \E bad \in SUBSET Spots(pending) : Absorb(pending, bad)
        /\ UNCHANGED <<pc, findings, offset, pageCount>>
     \/ QueryFails \/ Escapes
  /\ UNCHANGED <<osv, docVars, poolVars, records, errors>>

QueryPage ==
  /\ pc = "page" /\ pending # {}
  /\ \/ /\ pageCount < PageLimit
        /\ \E bad \in SUBSET Spots(pending) : Absorb(pending, bad)
        /\ pageCount' = pageCount + 1
        /\ UNCHANGED <<pc, findings, offset>>
     \/ QueryFails         \* a request that fails, or the page limit
     \/ pageCount < PageLimit /\ Escapes
  /\ UNCHANGED <<osv, docVars, poolVars, records, errors>>

NextChunk ==
  /\ pc = "page" /\ pending = {}
  /\ pc' = "chunk"
  /\ UNCHANGED <<osv, docVars, queryVars, poolVars, records, errors, findings>>

-----------------------------------------------------------------------------
(* OSVClient.fetch_records                                                 *)

AllIds == UNION ToSet(results)
Workers == IF Cardinality(AllIds) < PoolSize THEN Cardinality(AllIds) ELSE PoolSize

SubmitFutures ==
  /\ pc = "chunk" /\ offset >= Len(packages)
  /\ queue' = AllIds
  /\ pc' = "collect"
  /\ UNCHANGED <<osv, docVars, queryVars, running, finished, records, errors, findings>>

\* Futures are submitted in the order of their ids, and taken in that order.
Earlier(id, other) == \E i, j \in DOMAIN IdOrder : IdOrder[i] = id /\ IdOrder[j] = other /\ i <= j
IsNext(id) == id \in queue /\ \A other \in queue : Earlier(id, other)

\* Mutant: one thread more than the pool was given.
ThreadTakesOneMore(id) ==
  /\ IsNext(id) /\ Cardinality(running) <= Workers
  /\ running' = running \union {id}
  /\ queue' = queue \ {id}
  /\ UNCHANGED <<osv, pc, docVars, queryVars, finished, records, errors, findings>>

ThreadTakes(id) ==
  /\ IsNext(id) /\ Cardinality(running) < Workers
  /\ running' = running \union {id}
  /\ queue' = queue \ {id}
  /\ UNCHANGED <<osv, pc, docVars, queryVars, finished, records, errors, findings>>

ThreadFinishes(id) ==
  /\ id \in running
  /\ running' = running \ {id}
  /\ \E how \in {"record", "OSVClientError", "raised"} :
       finished' = [f \in {id} \union DOMAIN finished |-> IF f = id THEN how ELSE finished[f]]
  /\ UNCHANGED <<osv, pc, docVars, queryVars, queue, records, errors, findings>>

Collected == records \union errors

\* Mutant: a failed request leaves an empty record.
CollectEmpty(id) ==
  /\ pc = "collect" /\ id \in DOMAIN finished \ Collected
  /\ records' = records \union {id}
  /\ UNCHANGED <<osv, pc, docVars, queryVars, poolVars, errors, findings>>

\* The main thread's loop over as_completed, in any order of completion.
Collect(id) ==
  /\ pc = "collect" /\ id \in DOMAIN finished \ Collected
  /\ CASE finished[id] = "record" -> records' = records \union {id} /\ UNCHANGED <<errors, pc>>
       [] finished[id] = "OSVClientError" ->
            errors' = errors \union {id} /\ UNCHANGED <<records, pc>>
       [] finished[id] = "raised" -> pc' = "unwind" /\ UNCHANGED <<records, errors>>
  /\ UNCHANGED <<osv, docVars, queryVars, poolVars, findings>>

\* Leaving the "with" waits for every future, taken or not.
PoolIdle == queue = {} /\ running = {}

Unwind ==
  /\ pc = "unwind" /\ PoolIdle
  /\ pc' = "crashed"
  /\ UNCHANGED <<osv, docVars, queryVars, poolVars, records, errors, findings>>

-----------------------------------------------------------------------------
(* scan_packages, after the records                                        *)

\* _package_finding: records that did not arrive do not count.
PackageFindings ==
  {Finding("known_vulnerabilities",
           Strongest({"INFO"} \union
                     {RecordSeverity(Records[id]) : id \in results[i] \intersect records}),
           packages[i], results[i]) : i \in {j \in DOMAIN results : results[j] # {}}}

When(condition, finding) == IF condition THEN {finding} ELSE {}

Report ==
  /\ pc = "collect" /\ PoolIdle /\ Collected = AllIds
  /\ findings' = findings \union PackageFindings
       \union When(errors # {}, Finding("osv_details", "ERROR", "osv.dev", errors))
       \union When(PackageFindings = {}, Finding("known_vulnerabilities", "PASS", "SBOM", {}))
       \union When(skipped > 0, Finding("unqueryable_components", "INFO", "SBOM", {}))
  /\ pc' = "done"
  /\ UNCHANGED <<osv, docVars, queryVars, poolVars, records, errors>>

Threads == \E id \in Ids : ThreadTakes(id) \/ ThreadFinishes(id)

Main ==
  \/ NoFiles \/ ParseSbom \/ StartQueries
  \/ QueryChunk \/ QueryPage \/ NextChunk
  \/ SubmitFutures \/ (\E id \in Ids : Collect(id)) \/ Unwind \/ Report

Next == Main \/ Threads

\* Every request has a timeout, and a thread that took a future finishes it.
Spec == Init /\ [][Next]_vars /\ WF_vars(Main) /\ WF_vars(Threads)

-----------------------------------------------------------------------------
(* Properties                                                              *)

TypeOK ==
  /\ pc \in {"parse", "packages", "chunk", "page", "collect", "unwind", "done", "crashed"}
  /\ osv \in [Keys -> Answers]
  /\ ToSet(packages) \subseteq Keys /\ IsInjective(packages)
  /\ skipped \in Nat /\ offset \in Nat /\ pageCount \in 0..PageLimit
  /\ DOMAIN results \subseteq DOMAIN packages /\ ToSet(results) \subseteq SUBSET Ids
  /\ \A q \in pending : q.at \in DOMAIN results /\ q.page \in DOMAIN Answer(q.at).pages
  /\ garbled \subseteq ToSet(packages)
  /\ queue \subseteq Ids /\ running \subseteq Ids /\ Cardinality(running) <= PoolSize
  /\ DOMAIN finished \subseteq Ids
  /\ records \subseteq Ids /\ errors \subseteq Ids /\ records \intersect errors = {}
  /\ \A f \in findings : f.severity \in {"PASS", "ERROR"} \union DOMAIN Rank /\ f.ids \subseteq Ids

Known(k) == UNION ToSet(osv[k].pages)

Of(check) == {f \in findings : f.check = check}
Failed(check) == \E f \in Of(check) : f.severity = "ERROR"

\* "A vulnerability-clean claim" (the PASS finding) is only made after every page
\* of every package that any readable SBOM lists was read to the end and held
\* no id, and it never stands beside a match or a failed query.
PassIsEarned ==
  (\E f \in Of("known_vulnerabilities") : f.severity = "PASS") =>
    /\ packages # <<>>
    /\ \A k \in ToSet(packages) \ garbled : Known(k) = {} /\ ~osv[k].endless
    /\ Of("known_vulnerabilities") = {Finding("known_vulnerabilities", "PASS", "SBOM", {})}
    /\ ~Failed("osv_query") /\ ~Failed("osv_details")

\* A finished scan whose query went through reports, for every package and whatever
\* order pages and records came in, exactly the ids OSV knows for it; an id whose
\* record is missing is still reported, and then the details error says so.
MatchesAreComplete ==
  pc = "done" /\ packages # <<>> /\ ~Failed("osv_query") =>
    \A k \in ToSet(packages) \ garbled :
      LET mine == {f \in Of("known_vulnerabilities") : f.on = k}
          seen == {id \in Known(k) : \A f \in Of("osv_details") : id \notin f.ids}
      IN  IF Known(k) = {} THEN mine = {}
          ELSE \E f \in mine :
                 /\ mine = {f} /\ f.ids = Known(k)
                 /\ f.severity = Strongest({"INFO"} \union
                                           {RecordSeverity(Records[id]) : id \in seen})

\* Every id the query returned is in one place only: waiting, with a thread,
\* answered and not read yet, or filed as a record or as an error; nothing is
\* lost or filed twice between the pool and the main thread.
NoFutureIsLost ==
  pc \in {"collect", "unwind"} =>
    /\ AllIds = queue \union running \union DOMAIN finished
    /\ queue \intersect (running \union DOMAIN finished) = {}
    /\ running \intersect DOMAIN finished = {}
    /\ records = {id \in records \union errors : finished[id] = "record"}
    /\ Collected \subseteq DOMAIN finished

\* The scan ends although OSV may hand out page tokens for ever.
Terminates == <>(pc \in {"done", "crashed"})
=============================================================================
