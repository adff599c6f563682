--------------------------- MODULE DashboardProofs ---------------------------
(***************************************************************************)
(* The safety of Dashboard for any accounts and any number of scans,       *)
(* changes and restarts: its invariants, and that the database implements  *)
(* ScanStore.                                                              *)
(***************************************************************************)
EXTENDS Dashboard, FiniteSetTheorems, SequenceTheorems, TLAPS

PCs == {"idle", "listed", "scanned", "writing", "fetch", "lookup", "insert", "details",
        "alert", "account"}

\* The states in which a process holds the report it saves.
Holding == {"lookup", "insert", "details", "alert"}

\* The states in which a process may still insert the row of its scan.
Waiting == {"listed", "scanned", "writing", "fetch", "lookup", "insert"}

Pending(p) == IF pc[p] \in Waiting THEN 1 ELSE 0

Rows == [time : Seconds, by : Processes, of : Scans, details : Contents \union {NoDetails}]

Shown(i) ==
  [n \in DOMAIN rows[i].details.buckets |-> RiskLevel(rows[i].details.buckets[n].score)]

-----------------------------------------------------------------------------
(* The inductive invariant                                                 *)

Types ==
  /\ account \in DOMAIN Accounts /\ changes \in 0..MaxChanges /\ now \in Seconds
  /\ scans \in 0..MaxScans /\ crashes \in 0..MaxCrashes
  /\ pc \in [Processes -> PCs]
  /\ DOMAIN draft = Processes /\ DOMAIN report = Processes /\ DOMAIN row = Processes
  /\ rows \in Seq(Rows)
  /\ \A i \in DOMAIN rows : rows[i].time = rows[i].of.time

FilesOK ==
  /\ DOMAIN files \subseteq Seconds
  /\ \A t \in DOMAIN files : files[t].content \in Scans \union {Torn} /\ files[t].mix \subseteq Scans
  /\ files = <<>> \/ newest \in DOMAIN files

LocalOK(p) ==
  /\ pc[p] \in {"idle", "account"} => draft[p] = NoScan
  /\ pc[p] = "listed" => draft[p].time \in Seconds
  /\ pc[p] \in {"scanned", "writing"} => draft[p] \in Scans
  /\ pc[p] = "writing" => draft[p].time \in DOMAIN files
  /\ pc[p] = "fetch" => draft[p] \in Scans \union {NoScan}
  /\ pc[p] \in Holding => report[p] \in Scans

LocalsOK == \A p \in Processes : LocalOK(p)

Budget == Len(rows) + Pending("web") + Pending("job") <= scans

\* Each writer still holds the row it inserted, and nobody else does.
WriterOK(p) ==
  pc[p] \in {"details", "alert"} =>
    /\ row[p] \in DOMAIN rows /\ rows[row[p]].by = p /\ rows[row[p]].of = report[p]
    /\ pc[p] = "details" => row[p] \notin unsaved /\ ~Whole(row[p])
    /\ pc[p] = "alert" => Whole(row[p]) /\ CriticalFindings(rows[row[p]].details) # {}

Writers == \A p \in Processes : WriterOK(p)

Histories == unsaved \subseteq DOMAIN rows /\ unalerted \subseteq DOMAIN rows

\* A process that is about to insert has no row of that second.
InserterOK(p) ==
  pc[p] = "insert" => \A i \in DOMAIN rows : rows[i].by = p => rows[i].time # report[p].time

Inserters == \A p \in Processes : InserterOK(p)

MailsOK ==
  /\ mails \in Seq(Nat) /\ \A n \in DOMAIN mails : mails[n] \in WholeIds
  /\ \A p \in Processes : pc[p] = "alert" => \A n \in DOMAIN mails : mails[n] # row[p]

\* While nobody disturbs it, the request finds in the newest file what it wrote there.
Undisturbed ==
  ~disturbed =>
    /\ pc["web"] \in {"listed", "scanned", "writing", "fetch"} => pc["job"] # "writing"
    /\ pc["web"] = "writing" => files[draft["web"].time].mix = {draft["web"]}
    /\ pc["web"] = "fetch" /\ draft["web"] # NoScan =>
         files # <<>> /\ Newest.content = draft["web"]
    /\ pc["web"] \in Holding /\ draft["web"] # NoScan => report["web"] = draft["web"]

\* What is critical has been mailed about, is at the mail or has been given up; and
\* nothing else is mailed about.
AlertsOK ==
  \A i \in WholeIds :
    /\ MailedAbout(i) => CriticalFindings(rows[i].details) # {}
    /\ CriticalFindings(rows[i].details) # {} =>
         MailedAbout(i) \/ AtItsMail(i) \/ i \in unalerted

PageOK ==
  pc["web"] = "account" =>
    /\ page.id \in DOMAIN rows /\ page.time = rows[page.id].time
    /\ DOMAIN page.buckets = {} \/ (Whole(page.id) /\ page.buckets = Shown(page.id))

DashInv ==
  /\ Types /\ FilesOK /\ LocalsOK /\ Budget /\ Writers /\ Histories /\ Inserters
  /\ NoProcessSavesTwice /\ EmptyScanHasAReason /\ MailsOK /\ AlertsOK /\ Undisturbed /\ PageOK

-----------------------------------------------------------------------------
(* Scans and what is stored of them                                        *)

LEMMA ScanFields ==
  ASSUME NEW s \in Scans
  PROVE  /\ s.time \in Seconds /\ s.account \in DOMAIN Accounts
         /\ s.names \subseteq BucketNames(s.account) /\ s.denied \in Denials
         /\ s # NoScan /\ s # Torn
<1>1. PICK a \in DOMAIN Accounts :
        s \in [time : Seconds, names : SUBSET BucketNames(a), account : {a}, denied : Denials]
  BY DEF Scans
<1>2. s.time # 0
  BY <1>1, DashboardAssumption DEF Seconds
<1>3. NoScan.time = 0 /\ Torn.time = 0
  BY DEF NoScan, Torn
<1>4. QED BY <1>1, <1>2, <1>3

LEMMA ScanMade ==
  ASSUME NEW t \in Seconds, NEW a \in DOMAIN Accounts, NEW names \in SUBSET BucketNames(a),
         NEW denied \in Denials
  PROVE  [time |-> t, names |-> names, account |-> a, denied |-> denied] \in Scans
BY DEF Scans

\* Every scan has findings: the CloudTrail check always reports something.
LEMMA DetailsAreSome ==
  ASSUME NEW s PROVE DetailsOf(s) # NoDetails
<1> DEFINE seen == Seen(s)
           found == AccountFindings(seen, s.denied)
<1>1. \E f : f \in found
  BY DEF AccountFindings
<1>2. \E f : f \in Stored(found)
  BY <1>1 DEF Stored
<1>3. DetailsOf(s).account = Stored(found)
  BY DEF DetailsOf, Details, Report
<1>4. NoDetails.account = {}
  BY DEF NoDetails
<1>5. QED BY <1>2, <1>3, <1>4

LEMMA DetailsAreContents ==
  ASSUME NEW s \in Scans
  PROVE  /\ DetailsOf(s) \in Contents
         /\ CriticalFindings(DetailsOf(s)) # {} => DetailsOf(s) \in Alarming
BY DEF Contents, Alarming

-----------------------------------------------------------------------------
LEMMA InitInv == Init => DashInv
<1> SUFFICES ASSUME Init PROVE DashInv
  OBVIOUS
<1> USE DashboardAssumption DEF Init, Processes
<1>1. rows \in Seq(Rows) /\ DOMAIN rows = {} /\ Len(rows) = 0
  OBVIOUS
<1>2. Types
  BY <1>1 DEF Types, PCs, Seconds
<1>3. DOMAIN files = {}
  OBVIOUS
<1>4. FilesOK /\ LocalsOK
  BY <1>3 DEF FilesOK, LocalsOK, LocalOK, Holding
<1>5. Budget
  BY <1>1 DEF Budget, Pending, Waiting
<1>6. Writers /\ Histories /\ Inserters
  BY DEF Writers, WriterOK, Histories, Inserters, InserterOK
<1>7. NoProcessSavesTwice /\ EmptyScanHasAReason
  BY <1>1 DEF NoProcessSavesTwice, EmptyScanHasAReason
<1>8. MailsOK /\ AlertsOK
  BY <1>1 DEF MailsOK, AlertsOK, WholeIds
<1>9. Undisturbed /\ PageOK
  BY DEF Undisturbed, PageOK, Holding
<1>10. QED BY <1>2, <1>4, <1>5, <1>6, <1>7, <1>8, <1>9 DEF DashInv

-----------------------------------------------------------------------------
(* What the two commits do to the scan table                               *)

LEMMA InsertFacts ==
  ASSUME DashInv, NEW p \in Processes, Insert(p), rows' # rows
  PROVE  /\ rows' \in Seq(Rows) /\ Len(rows') = Len(rows) + 1
         /\ DOMAIN rows' = DOMAIN rows \union {Len(rows) + 1}
         /\ Len(rows) + 1 \notin DOMAIN rows
         /\ \A i \in DOMAIN rows : rows'[i] = rows[i]
         /\ rows'[Len(rows) + 1] =
              [time |-> report[p].time, by |-> p, of |-> report[p], details |-> NoDetails]
         /\ rows'[Len(rows) + 1].by = p /\ rows'[Len(rows) + 1].time = report[p].time
         /\ row' = [row EXCEPT ![p] = Len(rows) + 1]
         /\ pc' = [pc EXCEPT ![p] = "details"]
<1> DEFINE new == [time |-> report[p].time, by |-> p, of |-> report[p], details |-> NoDetails]
<1>1. report[p] \in Scans /\ rows \in Seq(Rows)
  BY DEF DashInv, Types, LocalsOK, LocalOK, Insert, Holding
<1>2. report[p].time \in Seconds
  BY <1>1, ScanFields
<1>3. new \in Rows
  BY <1>1, <1>2 DEF Rows
<1>4. /\ rows' = Append(rows, new) /\ row' = [row EXCEPT ![p] = Len(rows) + 1]
      /\ pc' = [pc EXCEPT ![p] = "details"]
  BY DEF Insert, NewId
<1> HIDE DEF new
<1>5. rows' \in Seq(Rows) /\ Len(rows') = Len(rows) + 1
  BY <1>1, <1>3, <1>4
<1>6. DOMAIN rows = 1..Len(rows) /\ DOMAIN rows' = 1..Len(rows') /\ Len(rows) \in Nat
  BY <1>1, <1>5
<1>7. DOMAIN rows' = DOMAIN rows \union {Len(rows) + 1} /\ Len(rows) + 1 \notin DOMAIN rows
  BY <1>5, <1>6
<1>8. (\A i \in DOMAIN rows : rows'[i] = rows[i]) /\ rows'[Len(rows) + 1] = new
  <2>1. /\ \A i \in 1..Len(rows) : Append(rows, new)[i] = rows[i]
        /\ Append(rows, new)[Len(rows) + 1] = new
    BY <1>1, <1>3, AppendProperties
  <2>2. QED BY <2>1, <1>4, <1>6
<1>9. QED BY <1>4, <1>5, <1>7, <1>8 DEF new

LEMMA SaveFacts ==
  ASSUME DashInv, NEW p \in Processes, Save(p), rows' # rows
  PROVE  /\ rows' \in Seq(Rows) /\ DOMAIN rows' = DOMAIN rows /\ Len(rows') = Len(rows)
         /\ row[p] \in DOMAIN rows /\ rows[row[p]].of = report[p] /\ report[p] \in Scans
         /\ \A i \in DOMAIN rows :
              /\ rows'[i].time = rows[i].time /\ rows'[i].by = rows[i].by
              /\ rows'[i].of = rows[i].of
              /\ i # row[p] => rows'[i] = rows[i]
         /\ rows'[row[p]].details = DetailsOf(report[p])
         /\ UNCHANGED <<unsaved, mails>>
         /\ \/ /\ UNCHANGED unalerted
               /\ IF CriticalFindings(DetailsOf(report[p])) = {} THEN Return(p) ELSE Go(p, "alert")
            \/ Return(p) /\ unalerted' = unalerted \union {row[p]}
<1> DEFINE new == [rows[row[p]] EXCEPT !.details = DetailsOf(report[p])]
<1>1. report[p] \in Scans /\ rows \in Seq(Rows) /\ pc[p] = "details"
  BY DEF DashInv, Types, LocalsOK, LocalOK, Save, Holding
<1>2. row[p] \in DOMAIN rows /\ rows[row[p]].of = report[p]
  BY <1>1 DEF DashInv, Writers, WriterOK
<1>3. /\ rows' = [rows EXCEPT ![row[p]] = new] /\ UNCHANGED <<unsaved, mails>>
      /\ \/ /\ UNCHANGED unalerted
            /\ IF CriticalFindings(DetailsOf(report[p])) = {} THEN Return(p) ELSE Go(p, "alert")
         \/ Return(p) /\ unalerted' = unalerted \union {row[p]}
  BY DEF Save, RowOf
<1>4. rows[row[p]] \in Rows /\ DOMAIN rows = 1..Len(rows)
  BY <1>1, <1>2
<1>5. /\ new \in Rows /\ new.details = DetailsOf(report[p])
      /\ new.time = rows[row[p]].time /\ new.by = rows[row[p]].by /\ new.of = rows[row[p]].of
  BY <1>1, <1>4, DetailsAreContents DEF Rows
<1> HIDE DEF new
<1>6. rows' \in Seq(Rows) /\ DOMAIN rows' = DOMAIN rows /\ Len(rows') = Len(rows)
  BY <1>1, <1>2, <1>3, <1>4, <1>5
<1>7. \A i \in DOMAIN rows : rows'[i] = IF i = row[p] THEN new ELSE rows[i]
  BY <1>1, <1>2, <1>3, <1>4
<1>8. QED BY <1>1, <1>2, <1>3, <1>5, <1>6, <1>7

\* An insert that is not refused makes a row.
LEMMA InsertedIsNew ==
  ASSUME DashInv, NEW p \in Processes, Insert(p), rows' = rows
  PROVE  Return(p)
<1> DEFINE new == [time |-> report[p].time, by |-> p, of |-> report[p], details |-> NoDetails]
<1>1. SUFFICES ASSUME rows' = Append(rows, new) PROVE FALSE
  BY DEF Insert
<1>2. report[p] \in Scans /\ rows \in Seq(Rows)
  BY DEF DashInv, Types, LocalsOK, LocalOK, Insert, Holding
<1>3. new \in Rows
  BY <1>2, ScanFields DEF Rows
<1> HIDE DEF new
<1>4. Len(rows') = Len(rows) + 1 /\ Len(rows) \in Nat
  BY <1>1, <1>2, <1>3, AppendProperties
<1>5. QED BY <1>4

\* A save that is not refused writes the details, which are new.
LEMMA SavedIsNew ==
  ASSUME DashInv, NEW p \in Processes, Save(p), rows' = rows
  PROVE  Return(p) /\ unsaved' = unsaved \union {row[p]}
<1>1. SUFFICES ASSUME rows' = [rows EXCEPT ![row[p]].details = DetailsOf(report[p])] PROVE FALSE
  BY DEF Save, RowOf
<1>2. row[p] \in DOMAIN rows /\ rows[row[p]].details = NoDetails /\ rows \in Seq(Rows)
  BY DEF DashInv, Types, Writers, WriterOK, Save, Whole
<1>3. rows[row[p]] \in Rows
  BY <1>2
<1>4. rows'[row[p]].details = DetailsOf(report[p])
  BY <1>1, <1>2, <1>3 DEF Rows
<1>5. QED BY <1>2, <1>4, DetailsAreSome

\* Only these two touch it.
LEMMA RowsKept ==
  ASSUME [Next]_vars, rows' # rows
  PROVE  \E p \in Processes : Insert(p) \/ Save(p)
BY DEF Next, Continue, vars, envVars, procVars, historyVars, fileVars, List, Inspect, Open, Close,
       Fetch, ViewAccount, Lookup, Alert, View, Reconfigure, Crash

-----------------------------------------------------------------------------
(* Each part of the invariant is kept by every step                        *)

LEMMA TypesStep == DashInv /\ [Next]_vars => Types'
<1> SUFFICES ASSUME DashInv, [Next]_vars PROVE Types'
  OBVIOUS
<1> USE DashboardAssumption DEF vars, envVars, procVars, historyVars, fileVars, Go, Return,
       GoWith, Types, PCs, Processes, Seconds
<1>0. Types
  BY DEF DashInv
<1>1. CASE UNCHANGED vars
  BY <1>1, <1>0
<1>2. ASSUME NEW p \in Processes, List(p) PROVE Types'
  BY <1>2, <1>0 DEF List
<1>3. ASSUME NEW p \in Processes, Inspect(p) PROVE Types'
  BY <1>3, <1>0 DEF Inspect
<1>4. ASSUME NEW p \in Processes, Open(p) PROVE Types'
  BY <1>4, <1>0 DEF Open
<1>5. ASSUME NEW p \in Processes, Close(p) PROVE Types'
  BY <1>5, <1>0 DEF Close
<1>6. ASSUME NEW p \in Processes, Lookup(p) PROVE Types'
  BY <1>6, <1>0 DEF Lookup
<1>7. ASSUME NEW p \in Processes, Insert(p) PROVE Types'
  <2>1. CASE rows' = rows
    BY <1>7, <2>1, <1>0 DEF Insert
  <2>2. CASE rows' # rows
    BY <1>7, <2>2, <1>0, InsertFacts DEF Insert
  <2>3. QED BY <2>1, <2>2
<1>8. ASSUME NEW p \in Processes, Save(p) PROVE Types'
  <2>0. pc' \in [Processes -> PCs] /\ DOMAIN draft' = Processes /\ DOMAIN report' = Processes
        /\ DOMAIN row' = Processes /\ UNCHANGED <<account, changes, now, scans, crashes>>
    BY <1>8, <1>0 DEF Save
  <2>1. CASE rows' = rows
    BY <1>8, <2>1, <1>0 DEF Save
  <2>2. CASE rows' # rows
    <3>1. rows' \in Seq(Rows) /\ \A i \in DOMAIN rows' : rows'[i].time = rows'[i].of.time
      BY <1>8, <2>2, <1>0, SaveFacts
    <3>2. QED BY <3>1, <2>0, <1>0
  <2>3. QED BY <2>1, <2>2
<1>9. ASSUME NEW p \in Processes, Alert(p) PROVE Types'
  BY <1>9, <1>0 DEF Alert
<1>10. CASE Fetch
  BY <1>10, <1>0 DEF Fetch
<1>11. CASE ViewAccount
  BY <1>11, <1>0 DEF ViewAccount
<1>12. CASE View
  BY <1>12, <1>0 DEF View
<1>13. CASE Reconfigure
  BY <1>13, <1>0 DEF Reconfigure
<1>14. CASE Crash
  BY <1>14, <1>0 DEF Crash
<1>15. QED BY <1>1, <1>2, <1>3, <1>4, <1>5, <1>6, <1>7, <1>8, <1>9, <1>10, <1>11, <1>12, <1>13,
       <1>14 DEF Next, Continue

\* The sum over both processes, of which one has moved on.
LEMMA BudgetSum ==
  ASSUME NEW before \in Nat, NEW after \in Nat, NEW old \in Nat, NEW new \in Nat,
         NEW other \in Nat, NEW had \in Nat, NEW has \in Nat,
         after + new - old - before <= has - had, before + old + other <= had
  PROVE  after + new + other <= has
OBVIOUS

LEMMA BudgetKept ==
  ASSUME pc \in [Processes -> PCs], Len(rows) \in Nat, scans \in Nat, Budget,
         NEW p \in Processes, NEW to, pc' = [pc EXCEPT ![p] = to],
         \/ Len(rows') = Len(rows) /\ UNCHANGED scans /\ (to \in Waiting => pc[p] \in Waiting)
         \/ Len(rows') = Len(rows) /\ scans' = scans + 1 /\ pc[p] = "idle"
         \/ Len(rows') = Len(rows) + 1 /\ UNCHANGED scans /\ pc[p] \in Waiting /\ to \notin Waiting
  PROVE  Budget'
<1> USE DEF Budget, Pending
<1>1. \A q \in Processes : pc'[q] = IF q = p THEN to ELSE pc[q]
  OBVIOUS
<1>2. "idle" \notin Waiting
  BY DEF Waiting
<1> DEFINE new == IF to \in Waiting THEN 1 ELSE 0
           old == IF pc[p] \in Waiting THEN 1 ELSE 0
<1>3. \A q \in Processes : Pending(q) \in 0..1
  OBVIOUS
<1>4. /\ new \in 0..1 /\ (new = 1 <=> to \in Waiting)
      /\ old \in 0..1 /\ (old = 1 <=> pc[p] \in Waiting)
  OBVIOUS
<1>5. Pending(p)' = new /\ Pending(p) = old
  BY <1>1
<1>6. \A q \in Processes : q # p => Pending(q)' = Pending(q)
  BY <1>1
<1> HIDE DEF new, old, Pending
<1>7. Len(rows') \in Nat /\ scans' \in Nat /\ Len(rows') + new - old - Len(rows) <= scans' - scans
  BY <1>2, <1>4
<1>8. Len(rows) + Pending("web") + Pending("job") <= scans
  OBVIOUS
<1>9. Len(rows') + Pending("web")' + Pending("job")' <= scans'
  <2> DEFINE before == Len(rows)
             after == Len(rows')
             web == Pending("web")
             job == Pending("job")
             newWeb == Pending("web")'
             newJob == Pending("job")'
  <2>1. /\ before \in Nat /\ after \in Nat /\ scans \in Nat /\ scans' \in Nat
        /\ after + new - old - before <= scans' - scans /\ before + web + job <= scans
    BY <1>7, <1>8
  <2>2. web \in Nat /\ job \in Nat /\ old \in Nat /\ new \in Nat
    BY <1>3, <1>4 DEF Processes
  <2>3. \/ newJob = job /\ newWeb = new /\ web = old
        \/ newWeb = web /\ newJob = new /\ job = old
    <3>1. CASE p = "web"
      BY <1>5, <1>6, <3>1 DEF Processes
    <3>2. CASE p = "job"
      BY <1>5, <1>6, <3>2 DEF Processes
    <3>3. QED BY <3>1, <3>2 DEF Processes
  <2> HIDE DEF before, after, web, job, newWeb, newJob
  <2>4. after + newWeb + newJob <= scans'
    <3>1. CASE newJob = job /\ newWeb = new /\ web = old
      <4>1. after + new + job <= scans'
        BY <2>1, <2>2, <3>1, BudgetSum
      <4>2. QED BY <3>1, <4>1
    <3>2. CASE newWeb = web /\ newJob = new /\ job = old
      <4>1. before + old + web <= scans
        BY <2>1, <2>2, <3>2
      <4>2. after + new + web <= scans'
        BY <2>1, <2>2, <4>1, BudgetSum
      <4>3. QED BY <2>1, <2>2, <3>2, <4>2
    <3>3. QED BY <2>3, <3>1, <3>2
  <2>5. QED BY <2>4 DEF after, newWeb, newJob
<1>10. QED BY <1>9

LEMMA BudgetStep == DashInv /\ [Next]_vars => Budget'
<1> SUFFICES ASSUME DashInv, [Next]_vars PROVE Budget'
  OBVIOUS
<1> USE DEF vars, envVars, procVars, historyVars, fileVars, Go, Return, GoWith, Waiting
<1>0. pc \in [Processes -> PCs] /\ Len(rows) \in Nat /\ scans \in Nat /\ Budget
      /\ "web" \in Processes
  BY DEF DashInv, Types, Processes
<1>1. CASE UNCHANGED vars
  BY <1>1, <1>0 DEF Budget, Pending
<1>2. ASSUME NEW p \in Processes, List(p) PROVE Budget'
  <2>1. UNCHANGED rows /\ scans' = scans + 1 /\ pc[p] = "idle"
        /\ \E to : pc' = [pc EXCEPT ![p] = to]
    BY <1>2 DEF List
  <2>2. QED BY <2>1, <1>0, BudgetKept
<1>3. ASSUME NEW p \in Processes, Inspect(p) PROVE Budget'
  <2>1. UNCHANGED <<rows, scans>> /\ \E to : pc' = [pc EXCEPT ![p] = to]
                                   /\ (to \in Waiting => pc[p] \in Waiting)
    BY <1>3 DEF Inspect
  <2>2. QED BY <2>1, <1>0, BudgetKept
<1>4. ASSUME NEW p \in Processes, Open(p) PROVE Budget'
  <2>1. UNCHANGED <<rows, scans>> /\ \E to : pc' = [pc EXCEPT ![p] = to]
                                   /\ (to \in Waiting => pc[p] \in Waiting)
    BY <1>4 DEF Open
  <2>2. QED BY <2>1, <1>0, BudgetKept
<1>5. ASSUME NEW p \in Processes, Close(p) PROVE Budget'
  <2>1. UNCHANGED <<rows, scans>> /\ \E to : pc' = [pc EXCEPT ![p] = to]
                                   /\ (to \in Waiting => pc[p] \in Waiting)
    BY <1>5 DEF Close
  <2>2. QED BY <2>1, <1>0, BudgetKept
<1>6. ASSUME NEW p \in Processes, Lookup(p) PROVE Budget'
  <2>1. UNCHANGED <<rows, scans>> /\ \E to : pc' = [pc EXCEPT ![p] = to]
                                   /\ (to \in Waiting => pc[p] \in Waiting)
    BY <1>6 DEF Lookup
  <2>2. QED BY <2>1, <1>0, BudgetKept
<1>7. ASSUME NEW p \in Processes, Insert(p) PROVE Budget'
  <2>1. CASE rows' = rows
    <3>1. UNCHANGED scans /\ pc[p] \in Waiting /\ \E to : pc' = [pc EXCEPT ![p] = to]
      BY <1>7, <2>1 DEF Insert
    <3>2. QED BY <3>1, <2>1, <1>0, BudgetKept
  <2>2. CASE rows' # rows
    <3>1. UNCHANGED scans /\ pc[p] \in Waiting /\ "details" \notin Waiting
      BY <1>7 DEF Insert
    <3>2. Len(rows') = Len(rows) + 1 /\ pc' = [pc EXCEPT ![p] = "details"]
      BY <1>7, <2>2, InsertFacts
    <3>3. QED BY <3>1, <3>2, <1>0, BudgetKept
  <2>3. QED BY <2>1, <2>2
<1>8. ASSUME NEW p \in Processes, Save(p) PROVE Budget'
  <2>1. Len(rows') = Len(rows)
    BY <1>8, SaveFacts
  <2>2. UNCHANGED scans /\ \E to : pc' = [pc EXCEPT ![p] = to] /\ to \notin Waiting
    BY <1>8 DEF Save
  <2>3. QED BY <2>1, <2>2, <1>0, BudgetKept
<1>9. ASSUME NEW p \in Processes, Alert(p) PROVE Budget'
  <2>1. UNCHANGED <<rows, scans>> /\ pc' = [pc EXCEPT ![p] = "idle"] /\ "idle" \notin Waiting
    BY <1>9 DEF Alert
  <2>2. QED BY <2>1, <1>0, BudgetKept
<1>10. CASE Fetch
  <2>1. UNCHANGED <<rows, scans>> /\ \E to : pc' = [pc EXCEPT !["web"] = to]
                                   /\ (to \in Waiting => pc["web"] \in Waiting)
    BY <1>10 DEF Fetch
  <2>2. QED BY <2>1, <1>0, BudgetKept
<1>11. CASE ViewAccount
  <2>1. UNCHANGED <<rows, scans>> /\ pc' = [pc EXCEPT !["web"] = "idle"] /\ "idle" \notin Waiting
    BY <1>11 DEF ViewAccount
  <2>2. QED BY <2>1, <1>0, BudgetKept
<1>12. CASE View
  <2>1. UNCHANGED <<rows, scans>> /\ pc' = [pc EXCEPT !["web"] = "account"] /\ "account" \notin Waiting
    BY <1>12 DEF View
  <2>2. QED BY <2>1, <1>0, BudgetKept
<1>13. CASE Reconfigure
  BY <1>13, <1>0 DEF Reconfigure, Budget, Pending
<1>14. CASE Crash
  <2>1. pc'["web"] = "idle" /\ pc'["job"] = "idle" /\ UNCHANGED <<rows, scans>>
    BY <1>14 DEF Crash, Processes
  <2>2. Pending("web")' = 0 /\ Pending("job")' = 0 /\ Pending("web") \in Nat /\ Pending("job") \in Nat
    BY <2>1 DEF Pending
  <2>3. QED BY <2>1, <2>2, <1>0 DEF Budget
<1>15. QED BY <1>1, <1>2, <1>3, <1>4, <1>5, <1>6, <1>7, <1>8, <1>9, <1>10, <1>11, <1>12, <1>13,
       <1>14 DEF Next, Continue

LEMMA FilesStep == DashInv /\ [Next]_vars => FilesOK'
<1> SUFFICES ASSUME DashInv, [Next]_vars PROVE FilesOK'
  OBVIOUS
<1> USE DEF vars, envVars, procVars, historyVars, fileVars, Go, Return, GoWith, FilesOK
<1>0. /\ pc \in [Processes -> PCs]
      /\ DOMAIN draft = Processes /\ DOMAIN report = Processes /\ DOMAIN row = Processes
      /\ account \in DOMAIN Accounts /\ now \in Seconds /\ "web" \in Processes
      /\ FilesOK /\ LocalsOK
  BY DEF DashInv, Types, Processes
<1>00. ASSUME NEW t \in Seconds, NEW file, Write(t, file),
             file.content \in Scans \union {Torn}, file.mix \subseteq Scans
      PROVE  FilesOK'
  BY <1>0, <1>00 DEF Write
<1>1. CASE UNCHANGED vars
  BY <1>1, <1>0
<1>2. ASSUME NEW p \in Processes, List(p) PROVE FilesOK'
  BY <1>2, <1>0 DEF List
<1>3. ASSUME NEW p \in Processes, Inspect(p) PROVE FilesOK'
  BY <1>3, <1>0 DEF Inspect
<1>4. ASSUME NEW p \in Processes, Open(p) PROVE FilesOK'
  <2> DEFINE t == draft[p].time
             mix == {draft[q] : q \in {q \in Others(p) : WritesTo(q, t)}}
  <2>1. draft[p] \in Scans /\ t \in Seconds
    BY <1>4, <1>0, ScanFields DEF Open, LocalsOK, LocalOK
  <2>2. mix \subseteq Scans
    BY <1>0 DEF LocalsOK, LocalOK, WritesTo, Others
  <2>3. Write(t, [content |-> Torn, mix |-> mix \union {draft[p]}])
    BY <1>4 DEF Open
  <2> HIDE DEF mix
  <2>4. QED BY <2>1, <2>2, <2>3, <1>00
<1>5. ASSUME NEW p \in Processes, Close(p) PROVE FilesOK'
  <2> DEFINE t == draft[p].time
             f == files[t]
             mix == IF \E q \in Others(p) : WritesTo(q, t) THEN f.mix ELSE {}
  <2>1. draft[p] \in Scans /\ t \in Seconds /\ t \in DOMAIN files
    BY <1>5, <1>0, ScanFields DEF Close, LocalsOK, LocalOK
  <2>2. f.mix \subseteq Scans /\ mix \subseteq Scans
    BY <2>1, <1>0
  <2>3. \E content \in f.mix \union {Torn} : Write(t, [content |-> content, mix |-> mix])
    BY <1>5 DEF Close
  <2> HIDE DEF mix
  <2>4. QED BY <2>1, <2>2, <2>3, <1>00
<1>6. ASSUME NEW p \in Processes, Lookup(p) PROVE FilesOK'
  BY <1>6, <1>0 DEF Lookup
<1>7. ASSUME NEW p \in Processes, Insert(p) PROVE FilesOK'
  BY <1>7, <1>0 DEF Insert
<1>8. ASSUME NEW p \in Processes, Save(p) PROVE FilesOK'
  BY <1>8, <1>0 DEF Save
<1>9. ASSUME NEW p \in Processes, Alert(p) PROVE FilesOK'
  BY <1>9, <1>0 DEF Alert
<1>10. CASE Fetch
  BY <1>10, <1>0 DEF Fetch
<1>11. CASE ViewAccount
  BY <1>11, <1>0 DEF ViewAccount
<1>12. CASE View
  BY <1>12, <1>0 DEF View
<1>13. CASE Reconfigure
  BY <1>13, <1>0 DEF Reconfigure
<1>14. CASE Crash
  <2>1. CASE UNCHANGED fileVars
    BY <2>1, <1>0
  <2>2. CASE files' = <<>>
    BY <2>2
  <2>3. QED BY <1>14, <2>1, <2>2 DEF Crash
<1>15. QED BY <1>1, <1>2, <1>3, <1>4, <1>5, <1>6, <1>7, <1>8, <1>9, <1>10, <1>11, <1>12, <1>13,
       <1>14 DEF Next, Continue

LEMMA LocalsStep == DashInv /\ [Next]_vars => LocalsOK'
<1> SUFFICES ASSUME DashInv, [Next]_vars PROVE LocalsOK'
  OBVIOUS
<1> USE DEF vars, envVars, procVars, historyVars, fileVars, Go, Return, GoWith, LocalsOK, LocalOK,
       Holding
<1>0. /\ pc \in [Processes -> PCs]
      /\ DOMAIN draft = Processes /\ DOMAIN report = Processes /\ DOMAIN row = Processes
      /\ account \in DOMAIN Accounts /\ now \in Seconds /\ "web" \in Processes
      /\ FilesOK /\ LocalsOK
  BY DEF DashInv, Types, Processes
<1>1. CASE UNCHANGED vars
  BY <1>1, <1>0
<1>2. ASSUME NEW p \in Processes, List(p) PROVE LocalsOK'
  <2>1. ASSUME NEW q \in Processes, q # p PROVE LocalOK(q)'
    <3>1. /\ pc'[q] = pc[q] /\ draft'[q] = draft[q] /\ report'[q] = report[q]
          /\ DOMAIN files \subseteq DOMAIN files'
      BY <1>2, <2>1, <1>0 DEF List
    <3>2. QED BY <2>1, <3>1, <1>0
  <2>2. LocalOK(p)'
    <3>1. now' \in Seconds
      BY <1>2, DashboardAssumption, <1>0 DEF List, Seconds
    <3>2. QED BY <1>2, <3>1, <1>0 DEF List
  <2>3. QED BY <2>1, <2>2
<1>3. ASSUME NEW p \in Processes, Inspect(p) PROVE LocalsOK'
  <2>1. ASSUME NEW q \in Processes, q # p PROVE LocalOK(q)'
    <3>1. /\ pc'[q] = pc[q] /\ draft'[q] = draft[q] /\ report'[q] = report[q]
          /\ DOMAIN files \subseteq DOMAIN files'
      BY <1>3, <2>1, <1>0 DEF Inspect
    <3>2. QED BY <2>1, <3>1, <1>0
  <2>2. LocalOK(p)'
    <3>1. CASE Return(p)
      BY <1>3, <3>1, <1>0 DEF Inspect
    <3>2. CASE ~Return(p)
      <4>1. draft[p].time \in Seconds /\ draft[p].names \subseteq BucketNames(account)
        BY <1>3, <3>2, <1>0 DEF Inspect
      <4>2. PICK denied \in Denials :
              GoWith(p, "scanned", [time |-> draft[p].time, names |-> draft[p].names,
                                    account |-> account, denied |-> denied])
        BY <1>3, <3>2 DEF Inspect
      <4> DEFINE scan == [time |-> draft[p].time, names |-> draft[p].names,
                          account |-> account, denied |-> denied]
      <4>3. scan \in Scans
        BY <4>1, <1>0, ScanMade
      <4> HIDE DEF scan
      <4>4. pc'[p] = "scanned" /\ draft'[p] = scan
        BY <4>2, <1>0 DEF scan
      <4>5. QED BY <4>3, <4>4
    <3>3. QED BY <3>1, <3>2
  <2>3. QED BY <2>1, <2>2
<1>4. ASSUME NEW p \in Processes, Open(p) PROVE LocalsOK'
  <2>1. ASSUME NEW q \in Processes, q # p PROVE LocalOK(q)'
    <3>1. /\ pc'[q] = pc[q] /\ draft'[q] = draft[q] /\ report'[q] = report[q]
          /\ DOMAIN files \subseteq DOMAIN files'
      BY <1>4, <2>1, <1>0 DEF Open, Write
    <3>2. QED BY <2>1, <3>1, <1>0
  <2>2. LocalOK(p)'
    <3>1. draft[p] \in Scans /\ pc'[p] = "writing" /\ draft'[p] = draft[p]
      BY <1>4, <1>0 DEF Open
    <3>2. draft[p].time \in DOMAIN files'
      BY <1>4 DEF Open, Write
    <3>3. QED BY <3>1, <3>2
  <2>3. QED BY <2>1, <2>2
<1>5. ASSUME NEW p \in Processes, Close(p) PROVE LocalsOK'
  <2>1. ASSUME NEW q \in Processes, q # p PROVE LocalOK(q)'
    <3>1. /\ pc'[q] = pc[q] /\ draft'[q] = draft[q] /\ report'[q] = report[q]
          /\ DOMAIN files \subseteq DOMAIN files'
      BY <1>5, <2>1, <1>0 DEF Close, Write
    <3>2. QED BY <2>1, <3>1, <1>0
  <2>2. LocalOK(p)'
    <3>1. draft[p] \in Scans /\ draft'[p] = draft[p]
      BY <1>5, <1>0 DEF Close
    <3>2. pc'[p] = "fetch" \/ (pc'[p] = "lookup" /\ report'[p] = draft[p])
      BY <1>5, <1>0 DEF Close, Processes
    <3>3. QED BY <3>1, <3>2
  <2>3. QED BY <2>1, <2>2
<1>6. ASSUME NEW p \in Processes, Lookup(p) PROVE LocalsOK'
  BY <1>6, <1>0 DEF Lookup
<1>7. ASSUME NEW p \in Processes, Insert(p) PROVE LocalsOK'
  BY <1>7, <1>0 DEF Insert
<1>8. ASSUME NEW p \in Processes, Save(p) PROVE LocalsOK'
  BY <1>8, <1>0 DEF Save
<1>9. ASSUME NEW p \in Processes, Alert(p) PROVE LocalsOK'
  BY <1>9, <1>0 DEF Alert
<1>10. CASE Fetch
  <2>1. ASSUME NEW q \in Processes, q # "web" PROVE LocalOK(q)'
    <3>1. /\ pc'[q] = pc[q] /\ draft'[q] = draft[q] /\ report'[q] = report[q]
          /\ DOMAIN files \subseteq DOMAIN files'
      BY <1>10, <2>1, <1>0 DEF Fetch
    <3>2. QED BY <2>1, <3>1, <1>0
  <2>2. LocalOK("web")'
    <3>1. CASE Return("web")
      BY <1>10, <3>1, <1>0 DEF Fetch
    <3>2. CASE ~Return("web")
      <4>1. files # <<>> /\ Newest.content # Torn /\ pc'["web"] = "lookup"
            /\ report'["web"] = Newest.content
        BY <1>10, <3>2, <1>0 DEF Fetch
      <4>2. Newest.content \in Scans
        BY <4>1, <1>0 DEF FilesOK, Newest
      <4>3. QED BY <4>1, <4>2
    <3>3. QED BY <3>1, <3>2
  <2>3. QED BY <2>1, <2>2
<1>11. CASE ViewAccount
  BY <1>11, <1>0 DEF ViewAccount
<1>12. CASE View
  BY <1>12, <1>0 DEF View
<1>13. CASE Reconfigure
  BY <1>13, <1>0 DEF Reconfigure
<1>14. CASE Crash
  <2>1. \A q \in Processes : pc'[q] = "idle" /\ draft'[q] = NoScan
    BY <1>14 DEF Crash
  <2>2. QED BY <2>1
<1>15. QED BY <1>1, <1>2, <1>3, <1>4, <1>5, <1>6, <1>7, <1>8, <1>9, <1>10, <1>11, <1>12, <1>13,
       <1>14 DEF Next, Continue

\* A row keeps who saved what and when; its details come from its writer, once.
LEMMA RowsGrow ==
  ASSUME DashInv, [Next]_vars
  PROVE  /\ rows \in Seq(Rows) /\ DOMAIN rows \subseteq DOMAIN rows'
         /\ \A i \in DOMAIN rows :
              \/ rows'[i] = rows[i]
              \/ /\ rows'[i].time = rows[i].time /\ rows'[i].by = rows[i].by
                 /\ rows'[i].of = rows[i].of /\ rows'[i].details = DetailsOf(rows[i].of)
                 /\ ~Whole(i) /\ row[rows[i].by] = i /\ pc[rows[i].by] = "details"
<1>0. rows \in Seq(Rows) /\ Writers
  BY DEF DashInv, Types
<1>1. CASE rows' = rows
  BY <1>0, <1>1
<1>2. CASE rows' # rows
  <2>1. PICK p \in Processes : Insert(p) \/ Save(p)
    BY <1>2, RowsKept
  <2>2. CASE Insert(p)
    BY <1>0, <1>2, <2>2, InsertFacts
  <2>3. CASE Save(p)
    <3>1. pc[p] = "details" /\ rows[row[p]].by = p /\ ~Whole(row[p])
      BY <2>3, <1>0 DEF Save, Writers, WriterOK
    <3>2. QED BY <1>0, <1>2, <2>3, <3>1, SaveFacts
  <2>4. QED BY <2>1, <2>2, <2>3
<1>3. QED BY <1>1, <1>2

\* Two writers never hold the same row.
LEMMA WritersApart ==
  ASSUME DashInv, NEW p \in Processes, NEW q \in Processes, p # q,
         pc[p] \in {"details", "alert"}, pc[q] \in {"details", "alert"}
  PROVE  row[p] # row[q]
BY DEF DashInv, Writers, WriterOK

LEMMA WritersStep == DashInv /\ [Next]_vars => Writers'
<1> SUFFICES ASSUME DashInv, [Next]_vars PROVE Writers'
  OBVIOUS
<1> USE DEF vars, envVars, procVars, historyVars, fileVars, Go, Return, GoWith, Writers, WriterOK
<1>0. /\ pc \in [Processes -> PCs]
      /\ DOMAIN draft = Processes /\ DOMAIN report = Processes /\ DOMAIN row = Processes
      /\ "web" \in Processes /\ Writers /\ unsaved \subseteq DOMAIN rows
  BY DEF DashInv, Types, Processes, Histories
<1>1. CASE UNCHANGED vars
  BY <1>1, <1>0 DEF Whole
<1>2. ASSUME NEW p \in Processes, List(p) PROVE Writers'
  <2>1. ASSUME NEW q \in Processes, q # p, pc[q] \in {"details", "alert"} PROVE WriterOK(q)'
    <3>1. /\ pc'[q] = pc[q] /\ row'[q] = row[q] /\ report'[q] = report[q]
      BY <1>2, <2>1, <1>0 DEF List
    <3>2. row[q] \in DOMAIN rows /\ rows'[row[q]] = rows[row[q]] /\ row[q] \in DOMAIN rows'
      BY <1>2, <2>1, <1>0 DEF List
    <3>3. pc[q] = "details" => row[q] \notin unsaved'
      BY <1>2, <2>1, <1>0 DEF List
    <3>4. QED BY <2>1, <3>1, <3>2, <3>3, <1>0 DEF Whole
  <2>2. ASSUME NEW q \in Processes, q # p, pc[q] \notin {"details", "alert"} PROVE WriterOK(q)'
    <3>1. pc'[q] = pc[q]
      BY <1>2, <2>2, <1>0 DEF List
    <3>2. QED BY <2>2, <3>1
  <2>3. WriterOK(p)'
    BY <1>2, <1>0 DEF List
  <2>4. QED BY <2>1, <2>2, <2>3
<1>3. ASSUME NEW p \in Processes, Inspect(p) PROVE Writers'
  <2>1. ASSUME NEW q \in Processes, q # p, pc[q] \in {"details", "alert"} PROVE WriterOK(q)'
    <3>1. /\ pc'[q] = pc[q] /\ row'[q] = row[q] /\ report'[q] = report[q]
      BY <1>3, <2>1, <1>0 DEF Inspect
    <3>2. row[q] \in DOMAIN rows /\ rows'[row[q]] = rows[row[q]] /\ row[q] \in DOMAIN rows'
      BY <1>3, <2>1, <1>0 DEF Inspect
    <3>3. pc[q] = "details" => row[q] \notin unsaved'
      BY <1>3, <2>1, <1>0 DEF Inspect
    <3>4. QED BY <2>1, <3>1, <3>2, <3>3, <1>0 DEF Whole
  <2>2. ASSUME NEW q \in Processes, q # p, pc[q] \notin {"details", "alert"} PROVE WriterOK(q)'
    <3>1. pc'[q] = pc[q]
      BY <1>3, <2>2, <1>0 DEF Inspect
    <3>2. QED BY <2>2, <3>1
  <2>3. WriterOK(p)'
    BY <1>3, <1>0 DEF Inspect
  <2>4. QED BY <2>1, <2>2, <2>3
<1>4. ASSUME NEW p \in Processes, Open(p) PROVE Writers'
  <2>1. ASSUME NEW q \in Processes, q # p, pc[q] \in {"details", "alert"} PROVE WriterOK(q)'
    <3>1. /\ pc'[q] = pc[q] /\ row'[q] = row[q] /\ report'[q] = report[q]
      BY <1>4, <2>1, <1>0 DEF Open
    <3>2. row[q] \in DOMAIN rows /\ rows'[row[q]] = rows[row[q]] /\ row[q] \in DOMAIN rows'
      BY <1>4, <2>1, <1>0 DEF Open
    <3>3. pc[q] = "details" => row[q] \notin unsaved'
      BY <1>4, <2>1, <1>0 DEF Open
    <3>4. QED BY <2>1, <3>1, <3>2, <3>3, <1>0 DEF Whole
  <2>2. ASSUME NEW q \in Processes, q # p, pc[q] \notin {"details", "alert"} PROVE WriterOK(q)'
    <3>1. pc'[q] = pc[q]
      BY <1>4, <2>2, <1>0 DEF Open
    <3>2. QED BY <2>2, <3>1
  <2>3. WriterOK(p)'
    BY <1>4, <1>0 DEF Open
  <2>4. QED BY <2>1, <2>2, <2>3
<1>5. ASSUME NEW p \in Processes, Close(p) PROVE Writers'
  <2>1. ASSUME NEW q \in Processes, q # p, pc[q] \in {"details", "alert"} PROVE WriterOK(q)'
    <3>1. /\ pc'[q] = pc[q] /\ row'[q] = row[q] /\ report'[q] = report[q]
      BY <1>5, <2>1, <1>0 DEF Close
    <3>2. row[q] \in DOMAIN rows /\ rows'[row[q]] = rows[row[q]] /\ row[q] \in DOMAIN rows'
      BY <1>5, <2>1, <1>0 DEF Close
    <3>3. pc[q] = "details" => row[q] \notin unsaved'
      BY <1>5, <2>1, <1>0 DEF Close
    <3>4. QED BY <2>1, <3>1, <3>2, <3>3, <1>0 DEF Whole
  <2>2. ASSUME NEW q \in Processes, q # p, pc[q] \notin {"details", "alert"} PROVE WriterOK(q)'
    <3>1. pc'[q] = pc[q]
      BY <1>5, <2>2, <1>0 DEF Close
    <3>2. QED BY <2>2, <3>1
  <2>3. WriterOK(p)'
    BY <1>5, <1>0 DEF Close
  <2>4. QED BY <2>1, <2>2, <2>3
<1>6. ASSUME NEW p \in Processes, Lookup(p) PROVE Writers'
  <2>1. ASSUME NEW q \in Processes, q # p, pc[q] \in {"details", "alert"} PROVE WriterOK(q)'
    <3>1. /\ pc'[q] = pc[q] /\ row'[q] = row[q] /\ report'[q] = report[q]
      BY <1>6, <2>1, <1>0 DEF Lookup
    <3>2. row[q] \in DOMAIN rows /\ rows'[row[q]] = rows[row[q]] /\ row[q] \in DOMAIN rows'
      BY <1>6, <2>1, <1>0 DEF Lookup
    <3>3. pc[q] = "details" => row[q] \notin unsaved'
      BY <1>6, <2>1, <1>0 DEF Lookup
    <3>4. QED BY <2>1, <3>1, <3>2, <3>3, <1>0 DEF Whole
  <2>2. ASSUME NEW q \in Processes, q # p, pc[q] \notin {"details", "alert"} PROVE WriterOK(q)'
    <3>1. pc'[q] = pc[q]
      BY <1>6, <2>2, <1>0 DEF Lookup
    <3>2. QED BY <2>2, <3>1
  <2>3. WriterOK(p)'
    BY <1>6, <1>0 DEF Lookup
  <2>4. QED BY <2>1, <2>2, <2>3
<1>7. ASSUME NEW p \in Processes, Insert(p) PROVE Writers'
  <2>1. ASSUME NEW q \in Processes, q # p, pc[q] \in {"details", "alert"} PROVE WriterOK(q)'
    <3>1. /\ pc'[q] = pc[q] /\ row'[q] = row[q] /\ report'[q] = report[q]
      BY <1>7, <2>1, <1>0 DEF Insert
    <3>2. row[q] \in DOMAIN rows /\ rows'[row[q]] = rows[row[q]] /\ row[q] \in DOMAIN rows'
      <4>1. row[q] \in DOMAIN rows
        BY <2>1, <1>0
      <4>2. CASE rows' = rows
        BY <4>1, <4>2
      <4>3. CASE rows' # rows
        BY <1>7, <4>1, <4>3, InsertFacts
      <4>4. QED BY <4>1, <4>2, <4>3
    <3>3. pc[q] = "details" => row[q] \notin unsaved'
      BY <1>7, <2>1, <1>0 DEF Insert
    <3>4. QED BY <2>1, <3>1, <3>2, <3>3, <1>0 DEF Whole
  <2>2. ASSUME NEW q \in Processes, q # p, pc[q] \notin {"details", "alert"} PROVE WriterOK(q)'
    <3>1. pc'[q] = pc[q]
      BY <1>7, <2>2, <1>0 DEF Insert
    <3>2. QED BY <2>2, <3>1
  <2>3. WriterOK(p)'
    <3>1. CASE rows' = rows
      <4>1. Return(p)
        BY <1>7, <3>1, <1>0, InsertedIsNew DEF Insert
      <4>2. QED BY <4>1, <1>0
    <3>2. CASE rows' # rows
      <4> DEFINE new == Len(rows) + 1
      <4>1. row'[p] = new /\ pc'[p] = "details" /\ report'[p] = report[p] /\ UNCHANGED unsaved
        BY <1>7, <3>2, <1>0, InsertFacts DEF Insert
      <4>2. /\ rows'[new] =
                 [time |-> report[p].time, by |-> p, of |-> report[p], details |-> NoDetails]
            /\ new \in DOMAIN rows' /\ new \notin DOMAIN rows
        BY <1>7, <3>2, InsertFacts
      <4>3. new \notin unsaved
        BY <4>2, <1>0
      <4> HIDE DEF new
      <4>4. QED BY <4>1, <4>2, <4>3 DEF Whole
    <3>3. QED BY <3>1, <3>2
  <2>4. QED BY <2>1, <2>2, <2>3
<1>8. ASSUME NEW p \in Processes, Save(p) PROVE Writers'
  <2>1. ASSUME NEW q \in Processes, q # p, pc[q] \in {"details", "alert"} PROVE WriterOK(q)'
    <3>1. /\ pc'[q] = pc[q] /\ row'[q] = row[q] /\ report'[q] = report[q]
      BY <1>8, <2>1, <1>0 DEF Save
    <3>2. row[q] \in DOMAIN rows /\ rows'[row[q]] = rows[row[q]] /\ row[q] \in DOMAIN rows'
      <4>1. row[q] \in DOMAIN rows /\ row[p] # row[q]
        BY <1>8, <2>1, <1>0, WritersApart DEF Save
      <4>2. CASE rows' = rows
        BY <4>1, <4>2
      <4>3. CASE rows' # rows
        BY <1>8, <4>1, <4>3, SaveFacts
      <4>4. QED BY <4>1, <4>2, <4>3
    <3>3. pc[q] = "details" => row[q] \notin unsaved'
      <4>1. row[p] # row[q]
        BY <1>8, <2>1, WritersApart DEF Save
      <4>2. QED BY <1>8, <2>1, <4>1, <1>0 DEF Save
    <3>4. QED BY <2>1, <3>1, <3>2, <3>3, <1>0 DEF Whole
  <2>2. ASSUME NEW q \in Processes, q # p, pc[q] \notin {"details", "alert"} PROVE WriterOK(q)'
    <3>1. pc'[q] = pc[q]
      BY <1>8, <2>2, <1>0 DEF Save
    <3>2. QED BY <2>2, <3>1
  <2>3. WriterOK(p)'
    <3>1. CASE rows' = rows
      BY <1>8, <3>1, <1>0, SavedIsNew
    <3>2. CASE rows' # rows
      <4>1. CASE Return(p)
        BY <4>1, <1>0
      <4>2. CASE ~Return(p)
        <5>1. Go(p, "alert") /\ CriticalFindings(DetailsOf(report[p])) # {}
          BY <1>8, <3>2, <4>2, SaveFacts
        <5>2. rows'[row[p]].details = DetailsOf(report[p]) /\ row[p] \in DOMAIN rows'
              /\ rows'[row[p]].by = rows[row[p]].by /\ rows'[row[p]].of = rows[row[p]].of
          BY <1>8, <3>2, SaveFacts
        <5>3. pc[p] = "details"
          BY <1>8 DEF Save
        <5>4. QED BY <5>1, <5>2, <5>3, <1>0, DetailsAreSome DEF Whole
      <4>3. QED BY <4>1, <4>2
    <3>3. QED BY <3>1, <3>2
  <2>4. QED BY <2>1, <2>2, <2>3
<1>9. ASSUME NEW p \in Processes, Alert(p) PROVE Writers'
  <2>1. ASSUME NEW q \in Processes, q # p, pc[q] \in {"details", "alert"} PROVE WriterOK(q)'
    <3>1. /\ pc'[q] = pc[q] /\ row'[q] = row[q] /\ report'[q] = report[q]
      BY <1>9, <2>1, <1>0 DEF Alert
    <3>2. row[q] \in DOMAIN rows /\ rows'[row[q]] = rows[row[q]] /\ row[q] \in DOMAIN rows'
      BY <1>9, <2>1, <1>0 DEF Alert
    <3>3. pc[q] = "details" => row[q] \notin unsaved'
      BY <1>9, <2>1, <1>0 DEF Alert
    <3>4. QED BY <2>1, <3>1, <3>2, <3>3, <1>0 DEF Whole
  <2>2. ASSUME NEW q \in Processes, q # p, pc[q] \notin {"details", "alert"} PROVE WriterOK(q)'
    <3>1. pc'[q] = pc[q]
      BY <1>9, <2>2, <1>0 DEF Alert
    <3>2. QED BY <2>2, <3>1
  <2>3. WriterOK(p)'
    BY <1>9, <1>0 DEF Alert
  <2>4. QED BY <2>1, <2>2, <2>3
<1>10. CASE Fetch
  <2>1. ASSUME NEW q \in Processes, q # "web", pc[q] \in {"details", "alert"} PROVE WriterOK(q)'
    <3>1. /\ pc'[q] = pc[q] /\ row'[q] = row[q] /\ report'[q] = report[q]
      BY <1>10, <2>1, <1>0 DEF Fetch
    <3>2. row[q] \in DOMAIN rows /\ rows'[row[q]] = rows[row[q]] /\ row[q] \in DOMAIN rows'
      BY <1>10, <2>1, <1>0 DEF Fetch
    <3>3. pc[q] = "details" => row[q] \notin unsaved'
      BY <1>10, <2>1, <1>0 DEF Fetch
    <3>4. QED BY <2>1, <3>1, <3>2, <3>3, <1>0 DEF Whole
  <2>2. ASSUME NEW q \in Processes, q # "web", pc[q] \notin {"details", "alert"} PROVE WriterOK(q)'
    <3>1. pc'[q] = pc[q]
      BY <1>10, <2>2, <1>0 DEF Fetch
    <3>2. QED BY <2>2, <3>1
  <2>3. WriterOK("web")'
    BY <1>10, <1>0 DEF Fetch
  <2>4. QED BY <2>1, <2>2, <2>3
<1>11. CASE ViewAccount
  <2>1. ASSUME NEW q \in Processes, q # "web", pc[q] \in {"details", "alert"} PROVE WriterOK(q)'
    <3>1. /\ pc'[q] = pc[q] /\ row'[q] = row[q] /\ report'[q] = report[q]
      BY <1>11, <2>1, <1>0 DEF ViewAccount
    <3>2. row[q] \in DOMAIN rows /\ rows'[row[q]] = rows[row[q]] /\ row[q] \in DOMAIN rows'
      BY <1>11, <2>1, <1>0 DEF ViewAccount
    <3>3. pc[q] = "details" => row[q] \notin unsaved'
      BY <1>11, <2>1, <1>0 DEF ViewAccount
    <3>4. QED BY <2>1, <3>1, <3>2, <3>3, <1>0 DEF Whole
  <2>2. ASSUME NEW q \in Processes, q # "web", pc[q] \notin {"details", "alert"} PROVE WriterOK(q)'
    <3>1. pc'[q] = pc[q]
      BY <1>11, <2>2, <1>0 DEF ViewAccount
    <3>2. QED BY <2>2, <3>1
  <2>3. WriterOK("web")'
    BY <1>11, <1>0 DEF ViewAccount
  <2>4. QED BY <2>1, <2>2, <2>3
<1>12. CASE View
  <2>1. ASSUME NEW q \in Processes, q # "web", pc[q] \in {"details", "alert"} PROVE WriterOK(q)'
    <3>1. /\ pc'[q] = pc[q] /\ row'[q] = row[q] /\ report'[q] = report[q]
      BY <1>12, <2>1, <1>0 DEF View
    <3>2. row[q] \in DOMAIN rows /\ rows'[row[q]] = rows[row[q]] /\ row[q] \in DOMAIN rows'
      BY <1>12, <2>1, <1>0 DEF View
    <3>3. pc[q] = "details" => row[q] \notin unsaved'
      BY <1>12, <2>1, <1>0 DEF View
    <3>4. QED BY <2>1, <3>1, <3>2, <3>3, <1>0 DEF Whole
  <2>2. ASSUME NEW q \in Processes, q # "web", pc[q] \notin {"details", "alert"} PROVE WriterOK(q)'
    <3>1. pc'[q] = pc[q]
      BY <1>12, <2>2, <1>0 DEF View
    <3>2. QED BY <2>2, <3>1
  <2>3. WriterOK("web")'
    BY <1>12, <1>0 DEF View
  <2>4. QED BY <2>1, <2>2, <2>3
<1>13. CASE Reconfigure
  BY <1>13, <1>0 DEF Reconfigure, Whole
<1>14. CASE Crash
  <2>1. \A q \in Processes : pc'[q] = "idle"
    BY <1>14 DEF Crash
  <2>2. QED BY <2>1
<1>15. QED BY <1>1, <1>2, <1>3, <1>4, <1>5, <1>6, <1>7, <1>8, <1>9, <1>10, <1>11, <1>12, <1>13,
       <1>14 DEF Next, Continue

\* A row whose writer stops is recorded as unsaved, unless it has just got its details.
WriterSteps ==
  /\ unsaved \subseteq unsaved'
  /\ \A i \in unsaved' \ unsaved : \E p \in Processes : pc[p] = "details" /\ row[p] = i
  /\ \A p \in Processes : pc[p] = "details" =>
       \/ pc'[p] = "details" /\ row'[p] = row[p]
       \/ row[p] \in unsaved'
       \/ rows'[row[p]] # rows[row[p]]
  /\ rows' # rows => UNCHANGED unsaved

LEMMA WriterStops == DashInv /\ [Next]_vars => WriterSteps
<1> SUFFICES ASSUME DashInv, [Next]_vars PROVE WriterSteps
  OBVIOUS
<1> USE DEF vars, envVars, procVars, historyVars, fileVars, Go, Return, GoWith, WriterSteps
<1>0. /\ pc \in [Processes -> PCs]
      /\ DOMAIN draft = Processes /\ DOMAIN report = Processes /\ DOMAIN row = Processes
      /\ "web" \in Processes /\ Writers
  BY DEF DashInv, Types, Processes
<1>1. CASE UNCHANGED vars
  BY <1>1, <1>0
<1>2. ASSUME NEW p \in Processes, List(p) PROVE WriterSteps
  <2>1. UNCHANGED <<unsaved, rows>> /\ \A q \in Processes : pc[q] = "details" =>
          pc'[q] = "details" /\ row'[q] = row[q]
    BY <1>2, <1>0 DEF List
  <2>2. QED BY <2>1
<1>3. ASSUME NEW p \in Processes, Inspect(p) PROVE WriterSteps
  <2>1. UNCHANGED <<unsaved, rows>> /\ \A q \in Processes : pc[q] = "details" =>
          pc'[q] = "details" /\ row'[q] = row[q]
    BY <1>3, <1>0 DEF Inspect
  <2>2. QED BY <2>1
<1>4. ASSUME NEW p \in Processes, Open(p) PROVE WriterSteps
  <2>1. UNCHANGED <<unsaved, rows>> /\ \A q \in Processes : pc[q] = "details" =>
          pc'[q] = "details" /\ row'[q] = row[q]
    BY <1>4, <1>0 DEF Open
  <2>2. QED BY <2>1
<1>5. ASSUME NEW p \in Processes, Close(p) PROVE WriterSteps
  <2>1. UNCHANGED <<unsaved, rows>> /\ \A q \in Processes : pc[q] = "details" =>
          pc'[q] = "details" /\ row'[q] = row[q]
    BY <1>5, <1>0 DEF Close
  <2>2. QED BY <2>1
<1>6. ASSUME NEW p \in Processes, Lookup(p) PROVE WriterSteps
  <2>1. UNCHANGED <<unsaved, rows>> /\ \A q \in Processes : pc[q] = "details" =>
          pc'[q] = "details" /\ row'[q] = row[q]
    BY <1>6, <1>0 DEF Lookup
  <2>2. QED BY <2>1
<1>7. ASSUME NEW p \in Processes, Insert(p) PROVE WriterSteps
  <2>1. UNCHANGED unsaved /\ \A q \in Processes : pc[q] = "details" =>
          pc'[q] = "details" /\ row'[q] = row[q]
    BY <1>7, <1>0 DEF Insert
  <2>2. QED BY <2>1
<1>8. ASSUME NEW p \in Processes, Save(p) PROVE WriterSteps
  <2>1. \A q \in Processes : q # p => pc'[q] = pc[q] /\ row'[q] = row[q]
    BY <1>8, <1>0 DEF Save
  <2>2. pc[p] = "details"
    BY <1>8 DEF Save
  <2>3. CASE rows' = rows
    <3>1. unsaved' = unsaved \union {row[p]}
      BY <1>8, <2>3, SavedIsNew
    <3>2. QED BY <2>1, <2>2, <2>3, <3>1
  <2>4. CASE rows' # rows
    <3>1. UNCHANGED unsaved /\ rows'[row[p]].details = DetailsOf(report[p])
      BY <1>8, <2>4, SaveFacts
    <3>2. rows[row[p]].details = NoDetails
      BY <2>2, <1>0 DEF Writers, WriterOK, Whole
    <3>3. rows'[row[p]] # rows[row[p]]
      BY <3>1, <3>2, DetailsAreSome
    <3>4. QED BY <2>1, <2>2, <3>1, <3>3
  <2>5. QED BY <2>3, <2>4
<1>9. ASSUME NEW p \in Processes, Alert(p) PROVE WriterSteps
  <2>1. UNCHANGED <<unsaved, rows>> /\ \A q \in Processes : pc[q] = "details" =>
          pc'[q] = "details" /\ row'[q] = row[q]
    BY <1>9, <1>0 DEF Alert
  <2>2. QED BY <2>1
<1>10. CASE Fetch
  <2>1. UNCHANGED <<unsaved, rows>> /\ \A q \in Processes : pc[q] = "details" =>
          pc'[q] = "details" /\ row'[q] = row[q]
    BY <1>10, <1>0 DEF Fetch
  <2>2. QED BY <2>1
<1>11. CASE ViewAccount
  <2>1. UNCHANGED <<unsaved, rows>> /\ \A q \in Processes : pc[q] = "details" =>
          pc'[q] = "details" /\ row'[q] = row[q]
    BY <1>11, <1>0 DEF ViewAccount
  <2>2. QED BY <2>1
<1>12. CASE View
  <2>1. UNCHANGED <<unsaved, rows>> /\ \A q \in Processes : pc[q] = "details" =>
          pc'[q] = "details" /\ row'[q] = row[q]
    BY <1>12, <1>0 DEF View
  <2>2. QED BY <2>1
<1>13. CASE Reconfigure
  <2>1. UNCHANGED <<unsaved, rows>> /\ \A q \in Processes : pc[q] = "details" =>
          pc'[q] = "details" /\ row'[q] = row[q]
    BY <1>13, <1>0 DEF Reconfigure
  <2>2. QED BY <2>1
<1>14. CASE Crash
  <2>1. UNCHANGED rows /\ unsaved' = unsaved \union {row[p] : p \in {q \in Processes : pc[q] = "details"}}
    BY <1>14 DEF Crash
  <2>2. QED BY <2>1
<1>15. QED BY <1>1, <1>2, <1>3, <1>4, <1>5, <1>6, <1>7, <1>8, <1>9, <1>10, <1>11, <1>12, <1>13,
       <1>14 DEF Next, Continue

LEMMA HistoriesStep == DashInv /\ [Next]_vars => Histories'
<1> SUFFICES ASSUME DashInv, [Next]_vars PROVE Histories'
  OBVIOUS
<1>1. Histories /\ Writers /\ DOMAIN rows \subseteq DOMAIN rows'
  BY RowsGrow DEF DashInv
<1>2. unsaved' \subseteq DOMAIN rows'
  BY <1>1, WriterStops DEF WriterSteps, Histories, Writers, WriterOK
<1>3. \A i \in unalerted' \ unalerted :
        \E p \in Processes : pc[p] \in {"details", "alert"} /\ row[p] = i
  <2>1. CASE \E p \in Processes : Alert(p) \/ Save(p)
    BY <2>1 DEF Alert, Save
  <2>2. CASE Crash
    BY <2>2 DEF Crash
  <2>3. CASE ~Crash /\ ~\E p \in Processes : Alert(p) \/ Save(p)
    <3>1. UNCHANGED unalerted
      BY <2>3 DEF Next, Continue, vars, envVars, procVars, historyVars, fileVars, List, Inspect,
                  Open, Close, Fetch, ViewAccount, Lookup, Insert, View, Reconfigure
    <3>2. QED BY <3>1
  <2>4. QED BY <2>1, <2>2, <2>3
<1>4. unalerted' \subseteq DOMAIN rows'
  BY <1>1, <1>3 DEF Histories, Writers, WriterOK
<1>5. QED BY <1>2, <1>4 DEF Histories

LEMMA InsertersStep == DashInv /\ [Next]_vars => Inserters'
<1> SUFFICES ASSUME DashInv, [Next]_vars PROVE Inserters'
  OBVIOUS
<1> USE DEF vars, envVars, procVars, historyVars, fileVars, Go, Return, GoWith, Inserters,
       InserterOK
<1>0. /\ pc \in [Processes -> PCs]
      /\ DOMAIN draft = Processes /\ DOMAIN report = Processes /\ DOMAIN row = Processes
      /\ "web" \in Processes /\ Inserters
  BY DEF DashInv, Types, Processes
<1>1. CASE UNCHANGED vars
  BY <1>1, <1>0
<1>2. ASSUME NEW p \in Processes, List(p) PROVE Inserters'
  <2>1. UNCHANGED rows /\ \A q \in Processes : pc'[q] = "insert" =>
          pc[q] = "insert" /\ report'[q] = report[q]
    BY <1>2, <1>0 DEF List, Processes
  <2>2. QED BY <2>1, <1>0
<1>3. ASSUME NEW p \in Processes, Inspect(p) PROVE Inserters'
  <2>1. UNCHANGED rows /\ \A q \in Processes : pc'[q] = "insert" =>
          pc[q] = "insert" /\ report'[q] = report[q]
    BY <1>3, <1>0 DEF Inspect, Processes
  <2>2. QED BY <2>1, <1>0
<1>4. ASSUME NEW p \in Processes, Open(p) PROVE Inserters'
  <2>1. UNCHANGED rows /\ \A q \in Processes : pc'[q] = "insert" =>
          pc[q] = "insert" /\ report'[q] = report[q]
    BY <1>4, <1>0 DEF Open, Processes
  <2>2. QED BY <2>1, <1>0
<1>5. ASSUME NEW p \in Processes, Close(p) PROVE Inserters'
  <2>1. UNCHANGED rows /\ \A q \in Processes : pc'[q] = "insert" =>
          pc[q] = "insert" /\ report'[q] = report[q]
    BY <1>5, <1>0 DEF Close, Processes
  <2>2. QED BY <2>1, <1>0
<1>6. ASSUME NEW p \in Processes, Lookup(p) PROVE Inserters'
  <2>1. UNCHANGED rows /\ \A q \in Processes : q # p => pc'[q] = pc[q] /\ report'[q] = report[q]
    BY <1>6, <1>0 DEF Lookup
  <2>2. pc'[p] = "insert" => report'[p] = report[p] /\ ~AlreadySaved(report[p].time)
    BY <1>6, <1>0 DEF Lookup
  <2>3. QED BY <2>1, <2>2, <1>0 DEF AlreadySaved
<1>7. ASSUME NEW p \in Processes, Insert(p) PROVE Inserters'
  <2>1. pc'[p] # "insert" /\ \A q \in Processes : q # p => pc'[q] = pc[q] /\ report'[q] = report[q]
    BY <1>7, <1>0 DEF Insert
  <2>2. CASE rows' = rows
    BY <2>1, <2>2, <1>0
  <2>3. CASE rows' # rows
    <3>1. DOMAIN rows' = DOMAIN rows \union {Len(rows) + 1} /\ rows'[Len(rows) + 1].by = p
      BY <1>7, <2>3, InsertFacts
    <3>2. \A i \in DOMAIN rows : rows'[i] = rows[i]
      BY <1>7, <2>3, InsertFacts
    <3>3. QED BY <2>1, <3>1, <3>2, <1>0
  <2>4. QED BY <2>2, <2>3
<1>8. ASSUME NEW p \in Processes, Save(p) PROVE Inserters'
  <2>1. pc'[p] # "insert" /\ \A q \in Processes : q # p => pc'[q] = pc[q] /\ report'[q] = report[q]
    BY <1>8, <1>0 DEF Save
  <2>2. CASE rows' = rows
    BY <2>1, <2>2, <1>0
  <2>3. CASE rows' # rows
    <3>1. DOMAIN rows' = DOMAIN rows
          /\ \A i \in DOMAIN rows : rows'[i].by = rows[i].by /\ rows'[i].time = rows[i].time
      BY <1>8, <2>3, SaveFacts
    <3>2. QED BY <2>1, <3>1, <1>0
  <2>4. QED BY <2>2, <2>3
<1>9. ASSUME NEW p \in Processes, Alert(p) PROVE Inserters'
  <2>1. UNCHANGED rows /\ \A q \in Processes : pc'[q] = "insert" =>
          pc[q] = "insert" /\ report'[q] = report[q]
    BY <1>9, <1>0 DEF Alert, Processes
  <2>2. QED BY <2>1, <1>0
<1>10. CASE Fetch
  <2>1. UNCHANGED rows /\ \A q \in Processes : pc'[q] = "insert" =>
          pc[q] = "insert" /\ report'[q] = report[q]
    BY <1>10, <1>0 DEF Fetch, Processes
  <2>2. QED BY <2>1, <1>0
<1>11. CASE ViewAccount
  <2>1. UNCHANGED rows /\ \A q \in Processes : pc'[q] = "insert" =>
          pc[q] = "insert" /\ report'[q] = report[q]
    BY <1>11, <1>0 DEF ViewAccount, Processes
  <2>2. QED BY <2>1, <1>0
<1>12. CASE View
  <2>1. UNCHANGED rows /\ \A q \in Processes : pc'[q] = "insert" =>
          pc[q] = "insert" /\ report'[q] = report[q]
    BY <1>12, <1>0 DEF View, Processes
  <2>2. QED BY <2>1, <1>0
<1>13. CASE Reconfigure
  <2>1. UNCHANGED rows /\ \A q \in Processes : pc'[q] = "insert" =>
          pc[q] = "insert" /\ report'[q] = report[q]
    BY <1>13, <1>0 DEF Reconfigure, Processes
  <2>2. QED BY <2>1, <1>0
<1>14. CASE Crash
  <2>1. \A q \in Processes : pc'[q] = "idle"
    BY <1>14 DEF Crash
  <2>2. QED BY <2>1
<1>15. QED BY <1>1, <1>2, <1>3, <1>4, <1>5, <1>6, <1>7, <1>8, <1>9, <1>10, <1>11, <1>12, <1>13,
       <1>14 DEF Next, Continue

LEMMA SavesTwiceStep == DashInv /\ [Next]_vars => NoProcessSavesTwice'
<1> SUFFICES ASSUME DashInv, [Next]_vars PROVE NoProcessSavesTwice'
  OBVIOUS
<1>0. NoProcessSavesTwice /\ Inserters
  BY DEF DashInv
<1>1. CASE rows' = rows
  BY <1>0, <1>1 DEF NoProcessSavesTwice
<1>2. CASE rows' # rows
  <2>1. PICK p \in Processes : Insert(p) \/ Save(p)
    BY <1>2, RowsKept
  <2>2. CASE Insert(p)
    <3> DEFINE new == Len(rows) + 1
    <3>1. DOMAIN rows' = DOMAIN rows \union {new} /\ \A i \in DOMAIN rows : rows'[i] = rows[i]
      BY <1>2, <2>2, InsertFacts
    <3>2. rows'[new].by = p /\ rows'[new].time = report[p].time
      BY <1>2, <2>2, InsertFacts
    <3>3. \A i \in DOMAIN rows : rows[i].by = p => rows[i].time # report[p].time
      BY <2>2, <1>0 DEF Inserters, InserterOK, Insert
    <3> HIDE DEF new
    <3>4. QED BY <3>1, <3>2, <3>3, <1>0 DEF NoProcessSavesTwice
  <2>3. CASE Save(p)
    <3>1. DOMAIN rows' = DOMAIN rows
          /\ \A i \in DOMAIN rows : rows'[i].by = rows[i].by /\ rows'[i].time = rows[i].time
      BY <1>2, <2>3, SaveFacts
    <3>2. QED BY <3>1, <1>0 DEF NoProcessSavesTwice
  <2>4. QED BY <2>1, <2>2, <2>3
<1>3. QED BY <1>1, <1>2

LEMMA EmptyStep == DashInv /\ [Next]_vars => EmptyScanHasAReason'
<1> SUFFICES ASSUME DashInv, [Next]_vars, NEW i \in DOMAIN rows'
             PROVE  (IF Whole(i) THEN i \notin unsaved /\ rows[i].details = DetailsOf(rows[i].of)
                     ELSE i \in unsaved \/ (pc[rows[i].by] = "details" /\ row[rows[i].by] = i))'
  BY DEF EmptyScanHasAReason
<1>0. EmptyScanHasAReason /\ Writers /\ Histories /\ rows \in Seq(Rows)
  BY DEF DashInv, Types
<1>00. \A j \in DOMAIN rows : rows[j].by \in Processes
  <2>1. \A j \in DOMAIN rows : rows[j] \in Rows
    BY <1>0
  <2>2. QED BY <2>1 DEF Rows
<1>1. WriterSteps
  BY WriterStops
<1>2. CASE i \notin DOMAIN rows
  <2>1. PICK p \in Processes : Insert(p) \/ Save(p)
    BY <1>2, RowsKept
  <2>2. rows' # rows
    BY <1>2
  <2>3. Insert(p)
    BY <1>2, <2>1, <2>2, SaveFacts
  <2>4. i = Len(rows) + 1
    <3>1. DOMAIN rows' = DOMAIN rows \union {Len(rows) + 1}
      BY <2>2, <2>3, InsertFacts
    <3>2. QED BY <1>2, <3>1
  <2>5. /\ rows'[i] = [time |-> report[p].time, by |-> p, of |-> report[p], details |-> NoDetails]
        /\ row' = [row EXCEPT ![p] = i] /\ pc' = [pc EXCEPT ![p] = "details"]
    <3>1. rows'[Len(rows) + 1] =
            [time |-> report[p].time, by |-> p, of |-> report[p], details |-> NoDetails]
      BY <2>2, <2>3, InsertFacts
    <3>2. row' = [row EXCEPT ![p] = Len(rows) + 1] /\ pc' = [pc EXCEPT ![p] = "details"]
      BY <2>2, <2>3, InsertFacts
    <3>3. QED BY <3>1, <3>2, <2>4
  <2>6. DOMAIN pc = Processes /\ DOMAIN row = Processes
    BY DEF DashInv, Types
  <2>7. QED BY <2>5, <2>6 DEF Whole
<1>3. CASE i \in DOMAIN rows /\ rows'[i] # rows[i]
  <2>1. /\ rows'[i].of = rows[i].of /\ rows'[i].details = DetailsOf(rows[i].of) /\ UNCHANGED unsaved
        /\ row[rows[i].by] = i /\ pc[rows[i].by] = "details"
    BY <1>1, <1>3, RowsGrow DEF WriterSteps
  <2>2. i \notin unsaved
    BY <2>1, <1>0, <1>00, <1>3 DEF Writers, WriterOK
  <2>3. QED BY <2>1, <2>2, DetailsAreSome DEF Whole
<1>4. CASE i \in DOMAIN rows /\ rows'[i] = rows[i]
  <2>1. CASE Whole(i)
    <3>1. i \notin unsaved /\ rows[i].details = DetailsOf(rows[i].of)
      BY <2>1, <1>0, <1>4 DEF EmptyScanHasAReason
    <3>2. i \notin unsaved'
      BY <3>1, <2>1, <1>0, <1>1 DEF WriterSteps, Writers, WriterOK
    <3>3. QED BY <3>1, <3>2, <2>1, <1>4 DEF Whole
  <2>2. CASE ~Whole(i)
    <3>1. i \in unsaved \/ (pc[rows[i].by] = "details" /\ row[rows[i].by] = i)
      BY <2>2, <1>0, <1>4 DEF EmptyScanHasAReason
    <3>2. i \in unsaved' \/ (pc'[rows[i].by] = "details" /\ row'[rows[i].by] = i)
      BY <3>1, <1>00, <1>1, <1>4 DEF WriterSteps
    <3>3. QED BY <3>2, <2>2, <1>4 DEF Whole
  <2>3. QED BY <2>1, <2>2
<1>5. QED BY <1>2, <1>3, <1>4

\* What is archived stays as it is.
LEMMA WholeStays ==
  ASSUME DashInv, [Next]_vars, NEW i \in WholeIds
  PROVE  i \in WholeIds' /\ rows'[i] = rows[i]
BY RowsGrow DEF WholeIds, Whole

\* A process is about to send a mail because it was, or has just saved the details.
AlertReached(p) ==
  pc'[p] = "alert" =>
    row'[p] = row[p] /\ (pc[p] = "details" \/ (pc[p] = "alert" /\ ~Alert(p)))

LEMMA AlertIsReached == DashInv /\ [Next]_vars => (\A q \in Processes : AlertReached(q))
<1> SUFFICES ASSUME DashInv, [Next]_vars PROVE (\A q \in Processes : AlertReached(q))
  OBVIOUS
<1> USE DEF vars, envVars, procVars, historyVars, fileVars, Go, Return, GoWith, AlertReached, Alert
<1>0. /\ pc \in [Processes -> PCs]
      /\ DOMAIN draft = Processes /\ DOMAIN report = Processes /\ DOMAIN row = Processes
      /\ "web" \in Processes
  BY DEF DashInv, Types, Processes
<1>1. CASE UNCHANGED vars
  BY <1>1, <1>0
<1>2. ASSUME NEW p \in Processes, List(p) PROVE (\A q \in Processes : AlertReached(q))
  BY <1>2, <1>0 DEF List
<1>3. ASSUME NEW p \in Processes, Inspect(p) PROVE (\A q \in Processes : AlertReached(q))
  BY <1>3, <1>0 DEF Inspect
<1>4. ASSUME NEW p \in Processes, Open(p) PROVE (\A q \in Processes : AlertReached(q))
  BY <1>4, <1>0 DEF Open
<1>5. ASSUME NEW p \in Processes, Close(p) PROVE (\A q \in Processes : AlertReached(q))
  BY <1>5, <1>0 DEF Close
<1>6. ASSUME NEW p \in Processes, Lookup(p) PROVE (\A q \in Processes : AlertReached(q))
  BY <1>6, <1>0 DEF Lookup
<1>7. ASSUME NEW p \in Processes, Insert(p) PROVE (\A q \in Processes : AlertReached(q))
  BY <1>7, <1>0 DEF Insert
<1>8. ASSUME NEW p \in Processes, Save(p) PROVE (\A q \in Processes : AlertReached(q))
  BY <1>8, <1>0 DEF Save
<1>9. ASSUME NEW p \in Processes, Alert(p) PROVE (\A q \in Processes : AlertReached(q))
  BY <1>9, <1>0 DEF Alert
<1>10. CASE Fetch
  BY <1>10, <1>0 DEF Fetch
<1>11. CASE ViewAccount
  BY <1>11, <1>0 DEF ViewAccount
<1>12. CASE View
  BY <1>12, <1>0 DEF View
<1>13. CASE Reconfigure
  BY <1>13, <1>0 DEF Reconfigure
<1>14. CASE Crash
  BY <1>14, <1>0 DEF Crash
<1>15. QED BY <1>1, <1>2, <1>3, <1>4, <1>5, <1>6, <1>7, <1>8, <1>9, <1>10, <1>11, <1>12, <1>13,
       <1>14 DEF Next, Continue

LEMMA OnlyAlertMails ==
  ASSUME [Next]_vars, mails' # mails
  PROVE  \E p \in Processes : Alert(p)
BY DEF Next, Continue, vars, envVars, procVars, historyVars, fileVars, List, Inspect, Open, Close,
       Fetch, ViewAccount, Lookup, Insert, Save, View, Reconfigure, Crash

\* A mail that gets through is the last one, and about the row its writer holds.
LEMMA MailGoesOut ==
  ASSUME DashInv, NEW p \in Processes, Alert(p), mails' # mails
  PROVE  /\ row[p] \in WholeIds /\ pc[p] = "alert"
         /\ mails' \in Seq(Nat) /\ DOMAIN mails' = DOMAIN mails \union {Len(mails) + 1}
         /\ mails'[Len(mails) + 1] = row[p] /\ \A n \in DOMAIN mails : mails'[n] = mails[n]
<1>1. mails' = Append(mails, row[p]) /\ pc[p] = "alert"
  BY DEF Alert
<1>2. row[p] \in WholeIds /\ row[p] \in Nat
  <2>1. row[p] \in DOMAIN rows /\ Whole(row[p])
    BY <1>1 DEF DashInv, Writers, WriterOK
  <2>2. DOMAIN rows \subseteq Nat
    BY DEF DashInv, Types
  <2>3. QED BY <2>1, <2>2 DEF WholeIds
<1>3. mails \in Seq(Nat)
  BY DEF DashInv, MailsOK
<1>4. /\ Append(mails, row[p]) \in Seq(Nat)
      /\ Len(Append(mails, row[p])) = Len(mails) + 1
      /\ \A n \in 1..Len(mails) : Append(mails, row[p])[n] = mails[n]
      /\ Append(mails, row[p])[Len(mails) + 1] = row[p]
  BY <1>2, <1>3, AppendProperties
<1>5. DOMAIN mails = 1..Len(mails) /\ DOMAIN mails' = 1..Len(mails') /\ Len(mails) \in Nat
  BY <1>1, <1>3, <1>4
<1>6. DOMAIN mails' = DOMAIN mails \union {Len(mails) + 1}
  <2> DEFINE n == Len(mails)
  <2>1. DOMAIN mails = 1..n /\ DOMAIN mails' = 1..(n + 1) /\ n \in Nat
    BY <1>1, <1>4, <1>5
  <2> HIDE DEF n
  <2>2. QED BY <2>1 DEF n
<1>7. QED BY <1>1, <1>2, <1>4, <1>5, <1>6

LEMMA MailsStep == DashInv /\ [Next]_vars => MailsOK'
<1> SUFFICES ASSUME DashInv, [Next]_vars PROVE MailsOK'
  OBVIOUS
<1>0. MailsOK /\ Writers /\ WholeIds \subseteq WholeIds' /\ \A q \in Processes : AlertReached(q)
  BY WholeStays, AlertIsReached DEF DashInv
<1>1. CASE UNCHANGED mails
  <2>1. mails' \in Seq(Nat) /\ \A n \in DOMAIN mails' : mails'[n] \in WholeIds'
    BY <1>0, <1>1 DEF MailsOK
  <2>2. ASSUME NEW q \in Processes, pc'[q] = "alert", NEW n \in DOMAIN mails'
        PROVE  mails'[n] # row'[q]
    <3>1. row'[q] = row[q] /\ (pc[q] = "details" \/ pc[q] = "alert")
      BY <1>0, <2>2 DEF AlertReached
    <3>2. pc[q] = "details" => row[q] \notin WholeIds
      BY <1>0 DEF Writers, WriterOK, WholeIds
    <3>3. QED BY <1>0, <1>1, <2>2, <3>1, <3>2 DEF MailsOK
  <2>3. QED BY <2>1, <2>2 DEF MailsOK
<1>2. CASE ~UNCHANGED mails
  <2>1. PICK p \in Processes : Alert(p)
    BY <1>2, OnlyAlertMails
  <2>2. /\ row[p] \in WholeIds /\ pc[p] = "alert"
        /\ mails' \in Seq(Nat) /\ DOMAIN mails' = DOMAIN mails \union {Len(mails) + 1}
        /\ mails'[Len(mails) + 1] = row[p] /\ \A n \in DOMAIN mails : mails'[n] = mails[n]
    BY <1>2, <2>1, MailGoesOut
  <2>4. mails \in Seq(Nat) /\ \A n \in DOMAIN mails : mails[n] \in WholeIds
    BY <1>0 DEF MailsOK
  <2>6. \A n \in DOMAIN mails' : mails'[n] \in WholeIds'
    BY <1>0, <2>2, <2>4
  <2>7. ASSUME NEW q \in Processes, pc'[q] = "alert", NEW n \in DOMAIN mails'
        PROVE  mails'[n] # row'[q]
    <3>1. row'[q] = row[q] /\ (pc[q] = "details" \/ (pc[q] = "alert" /\ q # p))
      BY <1>0, <2>1, <2>7 DEF AlertReached
    <3>2. row[q] # row[p]
      BY <2>2, <3>1, WritersApart
    <3>3. pc[q] = "details" => row[q] \notin WholeIds
      BY <1>0 DEF Writers, WriterOK, WholeIds
    <3>4. \A m \in DOMAIN mails : mails[m] # row[q]
      BY <1>0, <2>4, <3>1, <3>3 DEF MailsOK
    <3>5. QED BY <2>2, <2>7, <3>1, <3>2, <3>4
  <2>8. QED BY <2>2, <2>6, <2>7 DEF MailsOK
<1>3. QED BY <1>1, <1>2

\* What is appended makes a list longer.
LEMMA AppendIsNew ==
  ASSUME NEW list \in Seq(Nat), NEW e PROVE Append(list, e) # list
<1>1. Len(Append(list, e)) = Len(list) + 1 /\ Len(list) \in Nat
  OBVIOUS
<1>2. QED BY <1>1

\* A process leaves its mail when it went out, when it failed, or when it is killed.
AlertLeft(p) ==
  pc[p] = "alert" =>
    (pc'[p] = "alert" /\ row'[p] = row[p]) \/ row[p] \in unalerted' \/ (Alert(p) /\ mails' # mails)

LEMMA AlertIsLeft ==
  DashInv /\ [Next]_vars =>
    unalerted \subseteq unalerted' /\ \A q \in Processes : AlertLeft(q)
<1> SUFFICES ASSUME DashInv, [Next]_vars
             PROVE  unalerted \subseteq unalerted' /\ \A q \in Processes : AlertLeft(q)
  OBVIOUS
<1> USE DEF vars, envVars, procVars, historyVars, fileVars, Go, Return, GoWith, AlertLeft
<1>0. /\ pc \in [Processes -> PCs]
      /\ DOMAIN draft = Processes /\ DOMAIN report = Processes /\ DOMAIN row = Processes
      /\ "web" \in Processes
  BY DEF DashInv, Types, Processes
<1> DEFINE Stays == UNCHANGED unalerted /\ \A q \in Processes :
                      pc[q] = "alert" => pc'[q] = "alert" /\ row'[q] = row[q]
<1>1. CASE UNCHANGED vars
  BY <1>1
<1>2. ASSUME NEW p \in Processes, List(p)
      PROVE  unalerted \subseteq unalerted' /\ \A q \in Processes : AlertLeft(q)
  <2>1. Stays
    BY <1>2, <1>0 DEF List
  <2>2. QED BY <2>1
<1>3. ASSUME NEW p \in Processes, Inspect(p)
      PROVE  unalerted \subseteq unalerted' /\ \A q \in Processes : AlertLeft(q)
  <2>1. Stays
    BY <1>3, <1>0 DEF Inspect
  <2>2. QED BY <2>1
<1>4. ASSUME NEW p \in Processes, Open(p)
      PROVE  unalerted \subseteq unalerted' /\ \A q \in Processes : AlertLeft(q)
  <2>1. Stays
    BY <1>4, <1>0 DEF Open
  <2>2. QED BY <2>1
<1>5. ASSUME NEW p \in Processes, Close(p)
      PROVE  unalerted \subseteq unalerted' /\ \A q \in Processes : AlertLeft(q)
  <2>1. Stays
    BY <1>5, <1>0 DEF Close
  <2>2. QED BY <2>1
<1>6. ASSUME NEW p \in Processes, Lookup(p)
      PROVE  unalerted \subseteq unalerted' /\ \A q \in Processes : AlertLeft(q)
  <2>1. Stays
    BY <1>6, <1>0 DEF Lookup
  <2>2. QED BY <2>1
<1>7. ASSUME NEW p \in Processes, Insert(p)
      PROVE  unalerted \subseteq unalerted' /\ \A q \in Processes : AlertLeft(q)
  <2>1. Stays
    BY <1>7, <1>0 DEF Insert
  <2>2. QED BY <2>1
<1>8. ASSUME NEW p \in Processes, Save(p)
      PROVE  unalerted \subseteq unalerted' /\ \A q \in Processes : AlertLeft(q)
  <2>1. unalerted \subseteq unalerted'
    BY <1>8 DEF Save
  <2>2. \A q \in Processes : pc[q] = "alert" => pc'[q] = "alert" /\ row'[q] = row[q]
    BY <1>8, <1>0 DEF Save
  <2>3. QED BY <2>1, <2>2
<1>9. ASSUME NEW p \in Processes, Alert(p)
      PROVE  unalerted \subseteq unalerted' /\ \A q \in Processes : AlertLeft(q)
  <2>1. unalerted \subseteq unalerted' /\ \A q \in Processes : q # p =>
          pc'[q] = pc[q] /\ row'[q] = row[q]
    BY <1>9, <1>0 DEF Alert
  <2>2. mails' # mails \/ row[p] \in unalerted'
    <3>1. Append(mails, row[p]) # mails
      BY AppendIsNew DEF DashInv, MailsOK
    <3>2. QED BY <1>9, <3>1 DEF Alert
  <2>3. QED BY <1>9, <2>1, <2>2
<1>10. CASE Fetch
  <2>1. Stays
    BY <1>10, <1>0 DEF Fetch
  <2>2. QED BY <2>1
<1>11. CASE ViewAccount
  <2>1. Stays
    BY <1>11, <1>0 DEF ViewAccount
  <2>2. QED BY <2>1
<1>12. CASE View
  <2>1. Stays
    BY <1>12, <1>0 DEF View
  <2>2. QED BY <2>1
<1>13. CASE Reconfigure
  <2>1. Stays
    BY <1>13, <1>0 DEF Reconfigure
  <2>2. QED BY <2>1
<1>14. CASE Crash
  <2>1. unalerted' = unalerted \union {row[q] : q \in {q \in Processes : pc[q] = "alert"}}
    BY <1>14 DEF Crash
  <2>2. QED BY <2>1
<1>15. QED BY <1>1, <1>2, <1>3, <1>4, <1>5, <1>6, <1>7, <1>8, <1>9, <1>10, <1>11, <1>12, <1>13,
       <1>14 DEF Next, Continue

LEMMA AlertsStep == DashInv /\ [Next]_vars => AlertsOK'
<1> SUFFICES ASSUME DashInv, [Next]_vars, NEW i \in WholeIds'
             PROVE  /\ MailedAbout(i)' => CriticalFindings(rows'[i].details) # {}
                    /\ CriticalFindings(rows'[i].details) # {} =>
                         MailedAbout(i)' \/ AtItsMail(i)' \/ i \in unalerted'
  BY DEF AlertsOK
<1>0. /\ AlertsOK /\ MailsOK /\ Writers
      /\ unalerted \subseteq unalerted' /\ \A q \in Processes : AlertLeft(q)
  BY AlertIsLeft DEF DashInv
<1>1. CASE i \in WholeIds
  <2>1. rows'[i] = rows[i]
    BY <1>1, WholeStays
  <2>2. MailedAbout(i) => MailedAbout(i)'
    BY OnlyAlertMails, MailGoesOut DEF MailedAbout
  <2>3. MailedAbout(i)' => CriticalFindings(rows[i].details) # {}
    <3>1. ASSUME MailedAbout(i)', ~MailedAbout(i)
          PROVE  CriticalFindings(rows[i].details) # {}
      <4>1. PICK p \in Processes : Alert(p) /\ mails' # mails
        BY <3>1, OnlyAlertMails DEF MailedAbout
      <4>2. row[p] = i /\ pc[p] = "alert"
        BY <3>1, <4>1, MailGoesOut DEF MailedAbout
      <4>3. QED BY <1>0, <4>2 DEF Writers, WriterOK
    <3>2. QED BY <1>0, <1>1, <3>1 DEF AlertsOK
  <2>4. AtItsMail(i) => MailedAbout(i)' \/ AtItsMail(i)' \/ i \in unalerted'
    <3>1. ASSUME NEW p \in Processes, pc[p] = "alert", row[p] = i
          PROVE  MailedAbout(i)' \/ AtItsMail(i)' \/ i \in unalerted'
      <4>1. CASE Alert(p) /\ mails' # mails
        BY <3>1, <4>1, MailGoesOut DEF MailedAbout
      <4>2. QED BY <1>0, <3>1, <4>1 DEF AlertLeft, AtItsMail
    <3>2. QED BY <3>1 DEF AtItsMail
  <2>5. QED BY <1>0, <1>1, <2>1, <2>2, <2>3, <2>4 DEF AlertsOK
<1>2. CASE i \notin WholeIds
  <2>1. rows' # rows
    BY <1>2 DEF WholeIds, Whole
  <2>2. PICK p \in Processes : Insert(p) \/ Save(p)
    BY <2>1, RowsKept
  <2>3. ~Insert(p)
    <3>1. SUFFICES ASSUME Insert(p) PROVE FALSE
      OBVIOUS
    <3>2. /\ DOMAIN rows' = DOMAIN rows \union {Len(rows) + 1}
          /\ \A j \in DOMAIN rows : rows'[j] = rows[j]
      BY <2>1, <3>1, InsertFacts
    <3>3. rows'[Len(rows) + 1] =
            [time |-> report[p].time, by |-> p, of |-> report[p], details |-> NoDetails]
      BY <2>1, <3>1, InsertFacts
    <3>4. rows'[Len(rows) + 1].details = NoDetails
      BY <3>3
    <3>5. QED BY <1>2, <3>2, <3>4 DEF WholeIds, Whole
  <2>4. Save(p) /\ i = row[p] /\ rows'[i].details = DetailsOf(report[p]) /\ UNCHANGED mails
    BY <1>2, <2>1, <2>2, <2>3, SaveFacts DEF WholeIds, Whole
  <2>5. ~MailedAbout(i)'
    BY <1>0, <1>2, <2>4 DEF MailedAbout, MailsOK
  <2>6. ASSUME CriticalFindings(DetailsOf(report[p])) # {}
        PROVE  AtItsMail(i)' \/ i \in unalerted'
    <3>1. Go(p, "alert") \/ i \in unalerted'
      BY <2>1, <2>4, <2>6, SaveFacts
    <3>2. Go(p, "alert") => pc'[p] = "alert" /\ row'[p] = i
      BY <2>4 DEF Go, DashInv, Types
    <3>3. QED BY <3>1, <3>2 DEF AtItsMail
  <2>7. QED BY <2>4, <2>5, <2>6
<1>3. QED BY <1>1, <1>2

LEMMA UndisturbedStep == DashInv /\ [Next]_vars => Undisturbed'
<1> SUFFICES ASSUME DashInv, [Next]_vars PROVE Undisturbed'
  OBVIOUS
<1> USE DEF vars, envVars, procVars, historyVars, fileVars, Go, Return, GoWith, Undisturbed, Holding
<1>0. /\ pc \in [Processes -> PCs]
      /\ DOMAIN draft = Processes /\ DOMAIN report = Processes /\ DOMAIN row = Processes
      /\ "web" \in Processes
      /\ Undisturbed /\ LocalsOK /\ FilesOK
  BY DEF DashInv, Types, Processes
<1>1. CASE UNCHANGED vars
  BY <1>1, <1>0 DEF Newest
<1>2. ASSUME NEW p \in Processes, List(p) PROVE Undisturbed'
  <2>1. CASE p = "job"
    <3>1. /\ pc'["web"] = pc["web"] /\ draft'["web"] = draft["web"] /\ report'["web"] = report["web"]
          /\ pc'["job"] # "writing" /\ UNCHANGED <<files, newest, disturbed>>
      BY <1>2, <2>1, <1>0 DEF List
    <3>2. QED BY <3>1, <1>0 DEF Newest
  <2>2. CASE p = "web"
    <3>1. disturbed' = (pc["job"] = "writing") /\ pc'["job"] = pc["job"]
      BY <1>2, <2>2, <1>0 DEF List, Processes
    <3>2. pc'["web"] = "listed" \/ (pc'["web"] = "fetch" /\ draft'["web"] = NoScan)
      BY <1>2, <2>2, <1>0 DEF List, LocalsOK, LocalOK
    <3>3. QED BY <3>1, <3>2
  <2>3. QED BY <2>1, <2>2 DEF Processes
<1>3. ASSUME NEW p \in Processes, Inspect(p) PROVE Undisturbed'
  <2>1. CASE p = "job"
    <3>1. /\ pc'["web"] = pc["web"] /\ draft'["web"] = draft["web"] /\ report'["web"] = report["web"]
          /\ pc'["job"] # "writing" /\ UNCHANGED <<files, newest, disturbed>>
      BY <1>3, <2>1, <1>0 DEF Inspect
    <3>2. QED BY <3>1, <1>0 DEF Newest
  <2>2. CASE p = "web"
    <3>1. /\ pc'["web"] \in {"scanned", "idle"} /\ pc'["job"] = pc["job"]
          /\ pc["web"] = "listed" /\ UNCHANGED disturbed
      <4>1. pc["web"] = "listed" /\ UNCHANGED disturbed
        BY <1>3, <2>2 DEF Inspect
      <4>2. Return("web") \/ pc' = [pc EXCEPT !["web"] = "scanned"]
        BY <1>3, <2>2 DEF Inspect
      <4>3. QED BY <4>1, <4>2, <1>0 DEF Processes
    <3>2. QED BY <3>1, <1>0 DEF Newest
  <2>3. QED BY <2>1, <2>2 DEF Processes
<1>4. ASSUME NEW p \in Processes, Open(p) PROVE Undisturbed'
  <2>1. CASE p = "job"
    <3>1. disturbed' = (disturbed \/ pc["web"] # "idle") /\ pc'["web"] = pc["web"]
      BY <1>4, <2>1, <1>0 DEF Open, Disturb
    <3>2. QED BY <3>1
  <2>2. CASE p = "web"
    <3> DEFINE t == draft["web"].time
    <3>1. /\ pc'["web"] = "writing" /\ pc'["job"] = pc["job"] /\ draft'["web"] = draft["web"]
          /\ (disturbed' <=> disturbed) /\ pc["web"] = "scanned"
      <4>1. Go("web", "writing") /\ Disturb("web") /\ pc["web"] = "scanned"
        BY <1>4, <2>2 DEF Open
      <4>2. pc \in [Processes -> PCs]
        BY <1>0
      <4>3. disturbed' <=> disturbed
        BY <4>1 DEF Disturb
      <4>4. QED BY <4>1, <4>2, <4>3 DEF Processes
    <3>2. ~disturbed => \A q \in Others("web") : ~WritesTo(q, t)
      BY <3>1, <1>0 DEF Others, WritesTo, Processes
    <3> DEFINE mix == {draft[q] : q \in {q \in Others("web") : WritesTo(q, t)}}
    <3>3. ~disturbed => mix = {}
      BY <3>2
    <3>4. Write(t, [content |-> Torn, mix |-> mix \union {draft["web"]}])
      BY <1>4, <2>2 DEF Open
    <3> HIDE DEF mix
    <3>5. files'[t].mix = mix \union {draft["web"]}
      BY <3>4 DEF Write
    <3>6. QED BY <3>1, <3>3, <3>5, <1>0
  <2>3. QED BY <2>1, <2>2 DEF Processes
<1>5. ASSUME NEW p \in Processes, Close(p) PROVE Undisturbed'
  <2>1. CASE p = "job"
    <3>1. disturbed' = (disturbed \/ pc["web"] # "idle") /\ pc'["web"] = pc["web"]
      BY <1>5, <2>1, <1>0 DEF Close, Disturb
    <3>2. QED BY <3>1
  <2>2. CASE p = "web" /\ ~disturbed
    <3> DEFINE t == draft["web"].time
    <3>1. /\ pc'["web"] = "fetch" /\ pc'["job"] = pc["job"] /\ draft'["web"] = draft["web"]
          /\ pc["web"] = "writing" /\ pc["job"] # "writing" /\ files[t].mix = {draft["web"]}
      BY <1>5, <2>2, <1>0 DEF Close, Processes
    <3>2. ~\E q \in Others("web") : WritesTo(q, t)
      BY <3>1 DEF Others, WritesTo, Processes
    <3>3. ~(Cardinality(files[t].mix) > 1)
      <4>1. Cardinality({draft["web"]}) = 1
        BY FS_Singleton
      <4>2. QED BY <3>1, <4>1
    <3>4. PICK content \in files[t].mix : Write(t, [content |-> content, mix |-> {}])
      BY <1>5, <2>2, <3>2, <3>3 DEF Close
    <3>5. newest' = t /\ files'[t].content = draft["web"] /\ t \in DOMAIN files'
      BY <3>1, <3>4 DEF Write
    <3>6. files' # <<>>
      BY <3>5
    <3>7. QED BY <3>1, <3>5, <3>6 DEF Newest
  <2>3. CASE p = "web" /\ disturbed
    BY <1>5, <2>3 DEF Close, Disturb
  <2>4. QED BY <2>1, <2>2, <2>3 DEF Processes
<1>6. ASSUME NEW p \in Processes, Lookup(p) PROVE Undisturbed'
  <2>1. CASE p = "job"
    <3>1. /\ pc'["web"] = pc["web"] /\ draft'["web"] = draft["web"] /\ report'["web"] = report["web"]
          /\ pc'["job"] # "writing" /\ UNCHANGED <<files, newest, disturbed>>
      BY <1>6, <2>1, <1>0 DEF Lookup
    <3>2. QED BY <3>1, <1>0 DEF Newest
  <2>2. CASE p = "web"
    BY <1>6, <2>2, <1>0 DEF Lookup
  <2>3. QED BY <2>1, <2>2 DEF Processes
<1>7. ASSUME NEW p \in Processes, Insert(p) PROVE Undisturbed'
  <2>1. CASE p = "job"
    <3>1. /\ pc'["web"] = pc["web"] /\ draft'["web"] = draft["web"] /\ report'["web"] = report["web"]
          /\ pc'["job"] # "writing" /\ UNCHANGED <<files, newest, disturbed>>
      BY <1>7, <2>1, <1>0 DEF Insert
    <3>2. QED BY <3>1, <1>0 DEF Newest
  <2>2. CASE p = "web"
    BY <1>7, <2>2, <1>0 DEF Insert
  <2>3. QED BY <2>1, <2>2 DEF Processes
<1>8. ASSUME NEW p \in Processes, Save(p) PROVE Undisturbed'
  <2>1. CASE p = "job"
    <3>1. /\ pc'["web"] = pc["web"] /\ draft'["web"] = draft["web"] /\ report'["web"] = report["web"]
          /\ pc'["job"] # "writing" /\ UNCHANGED <<files, newest, disturbed>>
      BY <1>8, <2>1, <1>0 DEF Save
    <3>2. QED BY <3>1, <1>0 DEF Newest
  <2>2. CASE p = "web"
    BY <1>8, <2>2, <1>0 DEF Save
  <2>3. QED BY <2>1, <2>2 DEF Processes
<1>9. ASSUME NEW p \in Processes, Alert(p) PROVE Undisturbed'
  <2>1. CASE p = "job"
    <3>1. /\ pc'["web"] = pc["web"] /\ draft'["web"] = draft["web"] /\ report'["web"] = report["web"]
          /\ pc'["job"] # "writing" /\ UNCHANGED <<files, newest, disturbed>>
      BY <1>9, <2>1, <1>0 DEF Alert
    <3>2. QED BY <3>1, <1>0 DEF Newest
  <2>2. CASE p = "web"
    BY <1>9, <2>2, <1>0 DEF Alert
  <2>3. QED BY <2>1, <2>2 DEF Processes
<1>10. CASE Fetch
  BY <1>10, <1>0 DEF Fetch
<1>11. CASE ViewAccount
  <2>1. pc'["web"] \notin {"listed", "scanned", "writing", "fetch"} /\ pc'["web"] \notin Holding
    BY <1>11, <1>0 DEF ViewAccount
  <2>2. QED BY <2>1
<1>12. CASE View
  <2>1. pc'["web"] \notin {"listed", "scanned", "writing", "fetch"} /\ pc'["web"] \notin Holding
    BY <1>12, <1>0 DEF View
  <2>2. QED BY <2>1
<1>13. CASE Reconfigure
  BY <1>13, <1>0 DEF Reconfigure, Newest
<1>14. CASE Crash
  <2>1. pc'["web"] \notin {"listed", "scanned", "writing", "fetch"} /\ pc'["web"] \notin Holding
    BY <1>14, <1>0 DEF Crash
  <2>2. QED BY <2>1
<1>15. QED BY <1>1, <1>2, <1>3, <1>4, <1>5, <1>6, <1>7, <1>8, <1>9, <1>10, <1>11, <1>12, <1>13,
       <1>14 DEF Next, Continue

LEMMA PageStep == DashInv /\ [Next]_vars => PageOK'
<1> SUFFICES ASSUME DashInv, [Next]_vars PROVE PageOK'
  OBVIOUS
<1> USE DEF vars, envVars, procVars, historyVars, fileVars, Go, Return, GoWith, PageOK
<1>0. /\ pc \in [Processes -> PCs]
      /\ DOMAIN draft = Processes /\ DOMAIN report = Processes /\ DOMAIN row = Processes
      /\ "web" \in Processes
      /\ PageOK /\ rows \in Seq(Rows)
  BY DEF DashInv, Types, Processes
<1>00. ASSUME UNCHANGED page, pc'["web"] = "account" => pc["web"] = "account" PROVE PageOK'
  <2>1. CASE pc'["web"] # "account"
    BY <2>1
  <2>2. CASE pc["web"] = "account"
    <3>1. page.id \in DOMAIN rows /\ page.time = rows[page.id].time
          /\ (DOMAIN page.buckets = {} \/ (Whole(page.id) /\ page.buckets = Shown(page.id)))
      BY <2>2, <1>0
    <3>2. page.id \in DOMAIN rows' /\ rows'[page.id].time = rows[page.id].time
      BY <3>1, RowsGrow
    <3>3. Whole(page.id) => rows'[page.id] = rows[page.id] /\ Whole(page.id)'
      BY <3>1, <1>00, WholeStays DEF WholeIds, Whole
    <3>4. QED BY <3>1, <3>2, <3>3, <1>00 DEF Shown, Whole
  <2>3. QED BY <2>1, <2>2, <1>00
<1>1. CASE UNCHANGED vars
  BY <1>1, <1>00
<1>2. ASSUME NEW p \in Processes, List(p) PROVE PageOK'
  <2>1. UNCHANGED page /\ (pc'["web"] = "account" => pc["web"] = "account")
    BY <1>2, <1>0 DEF List
  <2>2. QED BY <2>1, <1>00
<1>3. ASSUME NEW p \in Processes, Inspect(p) PROVE PageOK'
  <2>1. UNCHANGED page /\ (pc'["web"] = "account" => pc["web"] = "account")
    BY <1>3, <1>0 DEF Inspect
  <2>2. QED BY <2>1, <1>00
<1>4. ASSUME NEW p \in Processes, Open(p) PROVE PageOK'
  <2>1. UNCHANGED page /\ (pc'["web"] = "account" => pc["web"] = "account")
    BY <1>4, <1>0 DEF Open
  <2>2. QED BY <2>1, <1>00
<1>5. ASSUME NEW p \in Processes, Close(p) PROVE PageOK'
  <2>1. UNCHANGED page /\ (pc'["web"] = "account" => pc["web"] = "account")
    BY <1>5, <1>0 DEF Close
  <2>2. QED BY <2>1, <1>00
<1>6. ASSUME NEW p \in Processes, Lookup(p) PROVE PageOK'
  <2>1. UNCHANGED page /\ (pc'["web"] = "account" => pc["web"] = "account")
    BY <1>6, <1>0 DEF Lookup
  <2>2. QED BY <2>1, <1>00
<1>7. ASSUME NEW p \in Processes, Insert(p) PROVE PageOK'
  <2>1. UNCHANGED page /\ (pc'["web"] = "account" => pc["web"] = "account")
    BY <1>7, <1>0 DEF Insert
  <2>2. QED BY <2>1, <1>00
<1>8. ASSUME NEW p \in Processes, Save(p) PROVE PageOK'
  <2>1. UNCHANGED page /\ (pc'["web"] = "account" => pc["web"] = "account")
    BY <1>8, <1>0 DEF Save
  <2>2. QED BY <2>1, <1>00
<1>9. ASSUME NEW p \in Processes, Alert(p) PROVE PageOK'
  <2>1. UNCHANGED page /\ (pc'["web"] = "account" => pc["web"] = "account")
    BY <1>9, <1>0 DEF Alert
  <2>2. QED BY <2>1, <1>00
<1>10. CASE Fetch
  <2>1. UNCHANGED page /\ (pc'["web"] = "account" => pc["web"] = "account")
    BY <1>10, <1>0 DEF Fetch
  <2>2. QED BY <2>1, <1>00
<1>11. CASE ViewAccount
  BY <1>11, <1>0 DEF ViewAccount
<1>12. CASE View
  <2>1. PICK i \in DOMAIN rows : page' = [id |-> i, time |-> rows[i].time, buckets |-> Shown(i)]
    BY <1>12 DEF View, Shown
  <2>2. UNCHANGED rows
    BY <1>12 DEF View
  <2>3. page'.id = i /\ page'.time = rows[i].time /\ page'.buckets = Shown(i)
    BY <2>1
  <2>4. ~Whole(i) => DOMAIN Shown(i) = {}
    BY DEF Whole, Shown, NoDetails
  <2>5. Shown(i)' = Shown(i) /\ (Whole(i)' <=> Whole(i))
    BY <2>2 DEF Shown, Whole
  <2>6. QED BY <2>2, <2>3, <2>4, <2>5
<1>13. CASE Reconfigure
  <2>1. UNCHANGED page /\ (pc'["web"] = "account" => pc["web"] = "account")
    BY <1>13, <1>0 DEF Reconfigure
  <2>2. QED BY <2>1, <1>00
<1>14. CASE Crash
  BY <1>14, <1>0 DEF Crash
<1>15. QED BY <1>1, <1>2, <1>3, <1>4, <1>5, <1>6, <1>7, <1>8, <1>9, <1>10, <1>11, <1>12, <1>13,
       <1>14 DEF Next, Continue

-----------------------------------------------------------------------------
(* The theorems                                                            *)

\* The invariant everything below rests on holds of every run of the dashboard.
THEOREM DashboardInvariant == Spec => []DashInv
<1>1. DashInv /\ [Next]_vars => DashInv'
  BY TypesStep, FilesStep, LocalsStep, BudgetStep, WritersStep, HistoriesStep, InsertersStep,
     SavesTwiceStep, EmptyStep, MailsStep, AlertsStep, UndisturbedStep, PageStep DEF DashInv
<1>2. QED BY InitInv, <1>1, PTL DEF Spec

\* Type correctness: rows are inserted by scans, and pointers and histories are rows.
THEOREM DashboardTypes == Spec => []TypeOK
<1>1. DashInv => TypeOK
  <2>1. SUFFICES ASSUME DashInv PROVE TypeOK
    OBVIOUS
  <2>2. \A i \in DOMAIN rows : rows[i].by \in Processes /\ rows[i].time = rows[i].of.time
    <3>1. \A i \in DOMAIN rows : rows[i] \in Rows
      BY <2>1 DEF DashInv, Types
    <3>2. QED BY <2>1, <3>1 DEF DashInv, Types, Rows
  <2>3. Len(rows) <= scans
    <3>1. Len(rows) \in Nat /\ scans \in Nat
      BY <2>1 DEF DashInv, Types
    <3>2. Pending("web") \in {0, 1} /\ Pending("job") \in {0, 1}
      BY DEF Pending
    <3>3. Len(rows) + Pending("web") + Pending("job") <= scans
      BY <2>1 DEF DashInv, Budget
    <3> HIDE DEF Pending
    <3>4. QED BY <3>1, <3>2, <3>3
  <2>4. \A p \in Processes : pc[p] \in {"details", "alert"} => row[p] \in DOMAIN rows
    BY <2>1 DEF DashInv, Writers, WriterOK
  <2>5. unsaved \union unalerted \subseteq DOMAIN rows
    BY <2>1 DEF DashInv, Histories
  <2>6. /\ account \in DOMAIN Accounts /\ changes \in 0..MaxChanges /\ now \in Seconds
        /\ pc \in [Processes -> PCs] /\ scans \in 0..MaxScans /\ crashes \in 0..MaxCrashes
    BY <2>1 DEF DashInv, Types
  <2>7. QED BY <2>2, <2>3, <2>4, <2>5, <2>6 DEF TypeOK, PCs
<1>2. QED BY DashboardInvariant, <1>1, PTL

\* The duplicate check keeps each process from saving a scan twice, however often it is
\* restarted or refused.
THEOREM SavedOncePerProcess == Spec => []NoProcessSavesTwice
<1>1. DashInv => NoProcessSavesTwice
  BY DEF DashInv
<1>2. QED BY DashboardInvariant, <1>1, PTL

\* A scan row stays empty only when its writer was stopped between its two commits.
THEOREM EmptyScansExplained == Spec => []EmptyScanHasAReason
<1>1. DashInv => EmptyScanHasAReason
  BY DEF DashInv
<1>2. QED BY DashboardInvariant, <1>1, PTL

\* A request that the job does not disturb saves the report of its own scan.
THEOREM OwnReportSaved == Spec => []UndisturbedRequestSavesItsOwn
<1>1. DashInv => UndisturbedRequestSavesItsOwn
  BY DEF DashInv, Undisturbed, UndisturbedRequestSavesItsOwn, Holding
<1>2. QED BY DashboardInvariant, <1>1, PTL

\* Whoever reads the database through the scans that have findings sees a store in which
\* a scan appears at once and whole, is never changed, and is mailed about at most once.
THEOREM DatabaseIsAStore == Spec => ImplementsStore
<1> DEFINE archive == [i \in WholeIds |-> rows[i].details]
<1>1. Init => Store!Init
  <2>1. SUFFICES ASSUME Init PROVE Store!Init
    OBVIOUS
  <2>2. WholeIds = {}
    BY <2>1 DEF Init, WholeIds
  <2>3. QED BY <2>1, <2>2 DEF Init, Store!Init
<1>2. DashInv /\ [Next]_vars => [Store!Next]_(Store!storeVars)
  <2> SUFFICES ASSUME DashInv, [Next]_vars, ~UNCHANGED <<archive, mails>> PROVE Store!Next
    BY DEF Store!storeVars
  <2>2. rows \in Seq(Rows) /\ Writers /\ MailsOK /\ Len(rows) <= MaxScans
    <3>1. Len(rows) \in Nat /\ scans \in Nat /\ scans <= MaxScans /\ rows \in Seq(Rows)
      BY DashboardAssumption DEF DashInv, Types
    <3>2. Pending("web") \in {0, 1} /\ Pending("job") \in {0, 1}
      BY DEF Pending
    <3>3. Len(rows) + Pending("web") + Pending("job") <= scans
      BY DEF DashInv, Budget
    <3> HIDE DEF Pending
    <3>4. Len(rows) <= MaxScans
      BY <3>1, <3>2, <3>3, DashboardAssumption
    <3>5. QED BY <3>1, <3>4 DEF DashInv
  <2>3. DOMAIN rows \subseteq Ids
    BY <2>2, DashboardAssumption DEF Ids
  <2>4. CASE \E p \in Processes : Save(p) /\ rows' # rows
    <3>1. PICK p \in Processes : Save(p) /\ rows' # rows
      BY <2>4
    <3>0. PICK i \in DOMAIN rows : i = row[p]
      BY <3>1, SaveFacts
    <3>2. /\ i \in DOMAIN rows /\ ~Whole(i) /\ UNCHANGED mails
          /\ DOMAIN rows' = DOMAIN rows /\ \A j \in DOMAIN rows : j # i => rows'[j] = rows[j]
          /\ rows'[i].details = DetailsOf(report[p]) /\ report[p] \in Scans
      BY <3>0, <3>1, <2>2, SaveFacts DEF Writers, WriterOK, Save
    <3>3. WholeIds' = WholeIds \union {i} /\ i \notin WholeIds
      BY <3>2, DetailsAreSome DEF WholeIds, Whole
    <3>4. /\ archive'[i] = DetailsOf(report[p])
          /\ \A j \in WholeIds : archive'[j] = archive[j]
      BY <3>2, <3>3 DEF WholeIds
    <3>5. DetailsOf(report[p]) \in Contents
      BY <3>2, DetailsAreContents
    <3>6. DOMAIN archive = WholeIds /\ DOMAIN archive' = WholeIds'
      OBVIOUS
    <3> HIDE DEF archive
    <3>7. Store!Archive(i)
      BY <3>2, <3>3, <3>4, <3>5, <3>6 DEF Store!Archive, archive
    <3>8. QED BY <2>3, <3>2, <3>7 DEF Store!Next
  <2>5. CASE \E p \in Processes : Alert(p) /\ ~UNCHANGED mails
    <3>1. PICK p \in Processes : Alert(p) /\ ~UNCHANGED mails
      BY <2>5
    <3>0. PICK i \in DOMAIN rows : i = row[p]
      BY <3>1, <2>2 DEF Alert, Writers, WriterOK
    <3>2. pc[p] = "alert" /\ mails' = Append(mails, i) /\ UNCHANGED rows
      BY <3>0, <3>1 DEF Alert
    <3>3. i \in DOMAIN rows /\ Whole(i) /\ CriticalFindings(rows[i].details) # {}
      BY <2>2, <3>0, <3>2 DEF Writers, WriterOK
    <3>4. rows[i].details \in Alarming
      <4>1. rows[i] \in Rows
        BY <2>2, <3>3
      <4>2. rows[i].details \in Contents
        BY <3>3, <4>1 DEF Rows, Whole
      <4>3. QED BY <3>3, <4>2 DEF Alarming
    <3>5. \A n \in DOMAIN mails : mails[n] # i
      BY <2>2, <3>0, <3>2 DEF MailsOK
    <3>6. i \in WholeIds /\ archive[i] = rows[i].details /\ UNCHANGED archive
      BY <3>2, <3>3 DEF WholeIds, Whole
    <3>7. Store!Mail(i)
      BY <3>2, <3>4, <3>5, <3>6 DEF Store!Mail
    <3>8. QED BY <2>3, <3>3, <3>7 DEF Store!Next
  <2>6. CASE UNCHANGED <<rows, mails>>
    BY <2>6 DEF WholeIds, Whole
  <2>7. CASE \E p \in Processes : Insert(p) /\ rows' # rows
    <3>1. PICK p \in Processes : Insert(p) /\ rows' # rows
      BY <2>7
    <3>2. UNCHANGED mails
      BY <3>1 DEF Insert
    <3>3. /\ DOMAIN rows' = DOMAIN rows \union {Len(rows) + 1}
          /\ \A j \in DOMAIN rows : rows'[j] = rows[j]
      BY <3>1, InsertFacts
    <3>4. rows'[Len(rows) + 1] =
            [time |-> report[p].time, by |-> p, of |-> report[p], details |-> NoDetails]
      BY <3>1, InsertFacts
    <3>5. rows'[Len(rows) + 1].details = NoDetails
      BY <3>4
    <3>6. WholeIds' = WholeIds /\ \A j \in WholeIds : rows'[j] = rows[j]
      BY <3>3, <3>5 DEF WholeIds, Whole
    <3>7. archive' = archive
      BY <3>6
    <3>8. QED BY <3>2, <3>7
  <2>8. UNCHANGED mails \/ \E p \in Processes : Alert(p)
    BY DEF Next, Continue, vars, envVars, procVars, historyVars, fileVars, List, Inspect, Open,
           Close, Fetch, ViewAccount, Lookup, Insert, Save, View, Reconfigure, Crash
  <2>9. UNCHANGED rows \/ \E p \in Processes : Insert(p) \/ Save(p)
    BY RowsKept
  <2>10. QED BY <2>4, <2>5, <2>6, <2>7, <2>8, <2>9
<1>3. QED BY DashboardInvariant, <1>1, <1>2, PTL DEF Spec, ImplementsStore, Store!Spec

-----------------------------------------------------------------------------
(* What is critical is what is exposed                                     *)

IsCritical(f) == f.severity = "CRITICAL"

LEMMA CriticalSeverity ==
  ASSUME NEW c, NEW s, NEW v PROVE IsCritical(Found(c, s, v)) <=> v = "CRITICAL"
BY DEF IsCritical, Found

\* Storing the findings keeps the critical ones, and makes none.
LEMMA StoringKeepsCriticals ==
  ASSUME NEW findings, \A f \in findings : \E c, s, v : f = Found(c, s, v)
  PROVE  (\E f \in Stored(findings) : IsCritical(f)) <=> (\E f \in findings : IsCritical(f))
<1>1. ASSUME NEW f \in findings, f.severity = "ERROR"
      PROVE  [f EXCEPT !.severity = "INFO"].severity # "CRITICAL"
  BY <1>1 DEF Found
<1>2. QED BY <1>1 DEF Stored, IsCritical

\* A bucket's findings are critical when its block is off or its policy public, and the
\* check of it was not denied.
LEMMA BucketCriticals ==
  ASSUME NEW n, NEW b, NEW denied, b.pab \in {"all", "part", "none"}
  PROVE  (\E f \in BucketFindings(n, b, denied) : IsCritical(f)) <=>
           \/ b.pab = "none" /\ "public_access" \notin denied
           \/ b.policy = "public" /\ "policy" \notin denied
<1>1. (\E f \in BucketFindings(n, b, denied) : IsCritical(f)) <=>
        \E c \in BucketChecks : BucketSeverity(b, c, denied) = "CRITICAL"
  <2>1. \A c : IsCritical(Found(c, n, BucketSeverity(b, c, denied))) <=>
                BucketSeverity(b, c, denied) = "CRITICAL"
    BY CriticalSeverity
  <2>2. QED BY <2>1 DEF BucketFindings
<1>2. BucketSeverity(b, "public_access", denied) = "CRITICAL" <=>
        b.pab = "none" /\ "public_access" \notin denied
  BY DEF BucketSeverity
<1>3. BucketSeverity(b, "policy", denied) = "CRITICAL" <=>
        b.policy = "public" /\ "policy" \notin denied
  BY DEF BucketSeverity
<1>4. \A c \in {"encryption", "versioning", "logging"} :
        BucketSeverity(b, c, denied) # "CRITICAL"
  BY DEF BucketSeverity
<1>5. QED BY <1>1, <1>2, <1>3, <1>4 DEF BucketChecks

\* The account's findings are critical when SSH is open to the world, or a database is
\* public and the databases could be listed.
LEMMA AccountCriticality ==
  ASSUME NEW a, NEW denied
  PROVE  (\E f \in AccountFindings(a, denied) : IsCritical(f)) <=>
           \/ \E g \in a.groups : g.world /\ g.port = 22
           \/ "rds" \notin denied /\ \E d \in a.databases : d.public
<1>1. CloudTrail(a, denied) # "CRITICAL" /\ RootMfa(a, denied) # "CRITICAL"
  BY DEF CloudTrail, RootMfa
<1>2. \A f \in AccessKeys(a, denied) : ~IsCritical(f)
  BY DEF AccessKeys, Found, IsCritical
<1>3. (\E f \in SecurityGroups(a) : IsCritical(f)) <=> \E g \in a.groups : g.world /\ g.port = 22
  <2> DEFINE Level(g) == IF g.port = 22 THEN "CRITICAL" ELSE "WARNING"
             open == {h \in a.groups : h.world /\ h.port \in {22, 5000}}
  <2>1. \A g : IsCritical(Found("security_group", g.name, Level(g))) <=> g.port = 22
    <3>1. \A g : Level(g) = "CRITICAL" <=> g.port = 22
      OBVIOUS
    <3> HIDE DEF Level
    <3>2. QED BY <3>1, CriticalSeverity
  <2>2. SecurityGroups(a) = {Found("security_group", g.name, Level(g)) : g \in open}
    BY DEF SecurityGroups
  <2> HIDE DEF Level
  <2>3. QED BY <2>1, <2>2
<1>4. (\E f \in Databases(a, denied) : IsCritical(f)) <=>
        "rds" \notin denied /\ \E d \in a.databases : d.public
  <2>1. CASE "rds" \in denied
    BY <2>1 DEF Databases, Found, IsCritical
  <2>2. CASE "rds" \notin denied /\ a.databases = {}
    BY <2>2 DEF Databases, Found, IsCritical
  <2>3. CASE "rds" \notin denied /\ a.databases # {}
    <3>1. Databases(a, denied) =
            {Found("rds", d.name, IF d.public THEN "CRITICAL" ELSE "PASS") : d \in a.databases}
      BY <2>3 DEF Databases
    <3> DEFINE Level(d) == IF d.public THEN "CRITICAL" ELSE "PASS"
    <3>2. \A d : IsCritical(Found("rds", d.name, Level(d))) <=> d.public
      <4>1. \A d : Level(d) = "CRITICAL" <=> d.public
        OBVIOUS
      <4> HIDE DEF Level
      <4>2. QED BY <4>1, CriticalSeverity
    <3>3. Databases(a, denied) = {Found("rds", d.name, Level(d)) : d \in a.databases}
      BY <3>1
    <3> HIDE DEF Level
    <3>4. QED BY <2>3, <3>2, <3>3
  <2>4. QED BY <2>1, <2>2, <2>3
<1>5. /\ ~IsCritical(Found("cloudtrail", "account", CloudTrail(a, denied)))
      /\ ~IsCritical(Found("root_mfa", "account", RootMfa(a, denied)))
  BY <1>1, CriticalSeverity
<1>6. QED BY <1>2, <1>3, <1>4, <1>5 DEF AccountFindings

\* A scan has critical findings just when the account it saw was exposed.
LEMMA CriticalMeansExposed ==
  ASSUME NEW s \in Scans
  PROVE  CriticalFindings(DetailsOf(s)) # {} <=> Exposed(s)
<1> DEFINE seen == Seen(s)
           found == AccountFindings(seen, s.denied)
           of(n) == BucketFindings(n, seen.buckets[n], s.denied)
<1>1. /\ DOMAIN seen.buckets = s.names
      /\ \A n \in s.names : seen.buckets[n] = Accounts[s.account].buckets[n]
  BY ScanFields, DashboardAssumption DEF Seen
<1>2. \A n \in s.names : seen.buckets[n].pab \in {"all", "part", "none"}
  BY <1>1, ScanFields, AccessAssumption DEF BucketNames
<1>3. /\ DetailsOf(s).account = Stored(found)
      /\ DOMAIN DetailsOf(s).buckets = s.names
      /\ \A n \in s.names : DetailsOf(s).buckets[n].findings = Stored(of(n))
  BY <1>1 DEF DetailsOf, Details, Report
<1>4. CriticalFindings(DetailsOf(s)) # {} <=>
        \/ \E f \in Stored(found) : IsCritical(f)
        \/ \E n \in s.names : \E f \in Stored(of(n)) : IsCritical(f)
  <2> HIDE DEF found, of
  <2>1. QED BY <1>3 DEF CriticalFindings, IsCritical
<1>5. \A f \in found : \E c, t, v : f = Found(c, t, v)
  BY DEF AccountFindings, AccessKeys, SecurityGroups, Databases
<1>6. \A n \in s.names : \A f \in of(n) : \E c, t, v : f = Found(c, t, v)
  BY DEF BucketFindings
<1>7. (\E f \in Stored(found) : IsCritical(f)) <=>
        \/ \E g \in seen.groups : g.world /\ g.port = 22
        \/ "rds" \notin s.denied /\ \E d \in seen.databases : d.public
  <2>1. (\E f \in Stored(found) : IsCritical(f)) <=> \E f \in found : IsCritical(f)
    <3> HIDE DEF found
    <3>1. QED BY <1>5, StoringKeepsCriticals
  <2>2. QED BY <2>1, AccountCriticality
<1>8. ASSUME NEW n \in s.names
      PROVE  (\E f \in Stored(of(n)) : IsCritical(f)) <=>
               \/ seen.buckets[n].pab = "none" /\ "public_access" \notin s.denied
               \/ seen.buckets[n].policy = "public" /\ "policy" \notin s.denied
  <2>1. (\E f \in Stored(of(n)) : IsCritical(f)) <=> \E f \in of(n) : IsCritical(f)
    <3>1. \A f \in of(n) : \E c, t, v : f = Found(c, t, v)
      BY <1>6
    <3> HIDE DEF of
    <3>2. QED BY <3>1, StoringKeepsCriticals
  <2>2. QED BY <1>2, <2>1, BucketCriticals
<1> HIDE DEF found, of
<1>9. QED BY <1>4, <1>7, <1>8 DEF Exposed

\* Every saved scan of an exposed account is mailed about, is at its mail, or was given
\* up right before it; and no other scan is mailed about.
THEOREM ExposureIsNotPassedOver == Spec => []AlertsFollowExposure
<1>1. DashInv => AlertsFollowExposure
  <2> SUFFICES ASSUME DashInv, NEW i \in WholeIds
               PROVE  /\ MailedAbout(i) => Exposed(rows[i].of)
                      /\ Exposed(rows[i].of) =>
                           MailedAbout(i) \/ AtItsMail(i) \/ i \in unalerted
    BY DEF AlertsFollowExposure
  <2>1. rows[i].details = DetailsOf(rows[i].of)
    BY DEF DashInv, EmptyScanHasAReason, WholeIds
  <2>2. rows[i].of \in Scans
    <3>1. rows[i] \in Rows
      BY DEF DashInv, Types, WholeIds
    <3>2. QED BY <3>1 DEF Rows
  <2>3. CriticalFindings(rows[i].details) # {} <=> Exposed(rows[i].of)
    BY <2>1, <2>2, CriticalMeansExposed
  <2>4. QED BY <2>3 DEF DashInv, AlertsOK
<1>2. QED BY DashboardInvariant, <1>1, PTL

-----------------------------------------------------------------------------
\* The score of a bucket that is public, or whose policy could not be read, has lost the
\* fifty points of that check.
LEMMA ExposedBucketScore ==
  ASSUME NEW b, NEW denied, b.pab = "none" \/ b.policy = "public" \/ "policy" \in denied
  PROVE  RiskLevel(SecurityScore(b, denied)) \in {"HIGH", "CRITICAL"}
<1> DEFINE C(check) == Cost(b, check, denied)
<1>1. /\ C("public_access") \in {0, 50} /\ C("encryption") \in {0, 25}
      /\ C("versioning") \in {0, 10} /\ C("logging") \in {0, 10} /\ C("policy") \in {0, 50}
  BY DEF Cost
<1>2. C("public_access") = 50 \/ C("policy") = 50
  <2>1. CASE b.pab = "none"
    <3>1. BucketSeverity(b, "public_access", denied) \in {"ERROR", "CRITICAL"}
      BY <2>1 DEF BucketSeverity
    <3>2. QED BY <3>1 DEF Cost
  <2>2. CASE b.policy = "public" \/ "policy" \in denied
    <3>1. "policy" \in denied => BucketSeverity(b, "policy", denied) = "ERROR"
      BY DEF BucketSeverity
    <3>2. "policy" \notin denied => BucketSeverity(b, "policy", denied) = "CRITICAL"
      BY <2>2 DEF BucketSeverity
    <3>3. QED BY <3>1, <3>2 DEF Cost
  <2>3. QED BY <2>1, <2>2
<1> DEFINE score == SecurityScore(b, denied)
<1>3. score = 100 - C("public_access") - C("encryption") - C("versioning") - C("logging")
                  - C("policy")
  BY DEF SecurityScore
<1> HIDE DEF C
<1>4. score \in Int /\ score <= 50
  BY <1>1, <1>2, <1>3
<1> HIDE DEF score
<1>5. ~(score >= 90) /\ ~(score >= 70)
  BY <1>4
<1>6. RiskLevel(score) \in {"HIGH", "CRITICAL"}
  BY <1>5 DEF RiskLevel
<1>7. QED BY <1>6 DEF score

\* A page is about one scan: its buckets and the account's findings belong together, and
\* no bucket that is public, or could not be looked at, is shown as a lesser risk.
THEOREM PagesAreWhole == Spec => []PageIsOfOneScan
<1>1. DashInv => PageIsOfOneScan
  <2> SUFFICES ASSUME DashInv, pc["web"] = "account"
               PROVE  /\ page.time = rows[page.id].of.time
                      /\ DOMAIN page.buckets # {} =>
                           AccountShown = DetailsOf(rows[page.id].of).account
                      /\ \A n \in DOMAIN page.buckets :
                           LET b == Seen(rows[page.id].of).buckets[n]
                           IN  b.pab = "none" \/ b.policy = "public"
                                 \/ "policy" \in rows[page.id].of.denied =>
                               page.buckets[n] \in {"HIGH", "CRITICAL"}
    BY DEF PageIsOfOneScan
  <2> DEFINE scan == rows[page.id].of
  <2>1. /\ page.id \in DOMAIN rows /\ page.time = rows[page.id].time
        /\ DOMAIN page.buckets = {} \/ (Whole(page.id) /\ page.buckets = Shown(page.id))
    BY DEF DashInv, PageOK
  <2>2. page.time = scan.time
    BY <2>1 DEF DashInv, Types
  <2>3. ASSUME DOMAIN page.buckets # {}
        PROVE  rows[page.id].details = DetailsOf(scan) /\ page.buckets = Shown(page.id)
    BY <2>1, <2>3 DEF DashInv, EmptyScanHasAReason
  <2>4. DOMAIN page.buckets # {} => AccountShown = DetailsOf(scan).account
    BY <2>3 DEF AccountShown
  <2>5. ASSUME NEW n \in DOMAIN page.buckets,
               \/ Seen(scan).buckets[n].pab = "none" \/ Seen(scan).buckets[n].policy = "public"
               \/ "policy" \in scan.denied
        PROVE  page.buckets[n] \in {"HIGH", "CRITICAL"}
    <3> DEFINE b == Seen(scan).buckets[n]
               report0 == Report(scan.time, Seen(scan), scan.denied)
    <3>1. rows[page.id].details = DetailsOf(scan) /\ page.buckets = Shown(page.id)
      BY <2>3
    <3>2. /\ n \in DOMAIN DetailsOf(scan).buckets
          /\ page.buckets[n] = RiskLevel(DetailsOf(scan).buckets[n].score)
      BY <3>1 DEF Shown
    <3>3. DetailsOf(scan).buckets = [m \in DOMAIN report0.buckets |->
            [score |-> report0.buckets[m].score, findings |-> Stored(report0.buckets[m].findings)]]
      BY DEF DetailsOf, Details
    <3> HIDE DEF report0, b
    <3>4. /\ n \in DOMAIN report0.buckets
          /\ DetailsOf(scan).buckets[n].score = report0.buckets[n].score
      BY <3>2, <3>3
    <3>5. report0.buckets[n].score = SecurityScore(b, scan.denied)
      BY <3>4 DEF Report, report0, b
    <3>6. RiskLevel(SecurityScore(b, scan.denied)) \in {"HIGH", "CRITICAL"}
      BY <2>5, ExposedBucketScore DEF b
    <3>7. QED BY <3>2, <3>4, <3>5, <3>6
  <2>6. QED BY <2>2, <2>4, <2>5
<1>2. QED BY DashboardInvariant, <1>1, PTL
=============================================================================
