----------------------------- MODULE Dashboard ------------------------------
(***************************************************************************)
(* The legacy CloudGuard dashboard (legacy/cloudguard_flask): one gunicorn *)
(* worker that serves one request at a time ("web"), the scheduler thread  *)
(* in the same process ("job"), the report files and the database they     *)
(* share, and the AWS account both scan.  The worker may be killed, or the *)
(* container replaced, at any moment; the database survives, and the       *)
(* report files survive a kill.                                            *)
(***************************************************************************)
EXTENDS LegacyChecks

CONSTANTS
  Accounts,      \* what others may make of the account: a key |-> the account
  Denials,       \* the sets of checks an account may deny
  MaxChanges,    \* bound: changes others make to the account
  MaxTime,       \* bound: seconds of the clock
  MaxScans,      \* bound: scans started
  MaxCrashes     \* bound: kills and redeployments

Processes == {"web", "job"}
Seconds == 1..MaxTime
Ids == 1..MaxScans

ASSUME DashboardAssumption ==
  /\ MaxChanges \in Nat /\ MaxTime \in Nat \ {0} /\ MaxScans \in Nat /\ MaxCrashes \in Nat
  /\ DOMAIN Accounts # {}
  /\ \A a \in DOMAIN Accounts : "buckets" \in DOMAIN Accounts[a]

\* get_public_access_block answers with all four switches on, with less, or not at all.
ASSUME AccessAssumption ==
  \A a \in DOMAIN Accounts : \A n \in DOMAIN Accounts[a].buckets :
    Accounts[a].buckets[n].pab \in {"all", "part", "none"}

VARIABLES
  account, changes,    \* what the AWS account is now, and how often it has changed
  now,                 \* the second of the clock when it was last read
  files,               \* reports/*.json: the second it is named after |-> [content, mix]
  newest,              \* the name of the file that was changed last
  rows,                \* the scan table: [time, by, of, details]
  pc, draft, report,   \* per process: where it is, its own scan, the report it saves
  row,                 \* per process: the scan row it inserted
  mails,               \* ids of the rows an alert mail went out for, in order
  page,                \* what the page being served has read so far
  scans, crashes,      \* how many there have been
  disturbed,           \* history: others touched the files during this request
  unsaved, unalerted   \* history: rows whose writer was stopped before the details, the mail

envVars == <<account, changes, now>>
fileVars == <<files, newest>>
procVars == <<pc, draft, report, row>>
historyVars == <<disturbed, unsaved, unalerted>>
vars == <<envVars, fileVars, rows, procVars, mails, page, scans, crashes, historyVars>>

Torn == [time |-> 0]     \* the content of a file that is no JSON document
NoScan == [time |-> 0]
NoPage == [id |-> 0]
NoDetails == [account |-> {}, buckets |-> <<>>]

BucketNames(a) == DOMAIN Accounts[a].buckets

\* The part of an account a scan, which has listed some buckets, has looked at.
Seen(scan) ==
  [Accounts[scan.account] EXCEPT !.buckets = [n \in scan.names |-> @[n]]]

Init ==
  /\ account \in DOMAIN Accounts /\ changes = 0 /\ now = 1
  /\ files = <<>> /\ newest = 0 /\ rows = <<>>
  /\ pc = [p \in Processes |-> "idle"]
  /\ draft = [p \in Processes |-> NoScan] /\ report = [p \in Processes |-> NoScan]
  /\ row = [p \in Processes |-> 0]
  /\ mails = <<>> /\ page = NoPage
  /\ scans = 0 /\ crashes = 0
  /\ disturbed = FALSE /\ unsaved = {} /\ unalerted = {}

Go(p, to) == pc' = [pc EXCEPT ![p] = to] /\ UNCHANGED <<draft, report, row>>

\* The call is over, and its local variables are gone.
Return(p) ==
  /\ pc' = [pc EXCEPT ![p] = "idle"]
  /\ draft' = [draft EXCEPT ![p] = NoScan] /\ report' = [report EXCEPT ![p] = NoScan]
  /\ row' = [row EXCEPT ![p] = 0]

GoWith(p, to, scan) ==
  /\ pc' = [pc EXCEPT ![p] = to] /\ draft' = [draft EXCEPT ![p] = scan]
  /\ UNCHANGED <<report, row>>

\* A request that has begun is disturbed by what the job does to the files.
Disturb(p) == disturbed' = (disturbed \/ (p = "job" /\ pc["web"] # "idle"))

-----------------------------------------------------------------------------
(* list_s3_buckets                                                         *)

\* list_buckets, and the time the report is named after.  Without buckets it returns
\* at once: the request goes on to the newest report there is, the job is done.
List(p) ==
  /\ pc[p] = "idle" /\ scans < MaxScans
  /\ scans' = scans + 1
  /\ now' \in now..MaxTime
  /\ IF BucketNames(account) = {}
     THEN Go(p, IF p = "web" THEN "fetch" ELSE "idle")
     ELSE GoWith(p, "listed", [time |-> now', names |-> BucketNames(account)])
  /\ disturbed' = IF p = "web" THEN pc["job"] = "writing" ELSE disturbed
  /\ UNCHANGED <<account, changes, fileVars, rows, mails, page, crashes, unsaved, unalerted>>

\* The checks.  An error of the versioning, logging or security group calls is not
\* caught: such a denial, or one bucket that is gone by now, ends the scan without a report.
Inspect(p) ==
  /\ pc[p] = "listed"
  /\ \/ /\ draft[p].names \subseteq BucketNames(account)
        /\ \E denied \in {d \in Denials : d \cap Uncaught = {}} :
             GoWith(p, "scanned", [time |-> draft[p].time, names |-> draft[p].names,
                                   account |-> account, denied |-> denied])
     \/ Return(p)
  /\ UNCHANGED <<envVars, fileVars, rows, mails, page, scans, crashes, historyVars>>

WritesTo(q, time) == pc[q] = "writing" /\ draft[q].time = time
Others(p) == Processes \ {p}

Write(t, file) ==
  /\ files' = [u \in DOMAIN files \union {t} |-> IF u = t THEN file ELSE files[u]]
  /\ newest' = t

\* open(json_report_path, "w") truncates; who else has the same second's file open
\* writes into it as well.
Open(p) ==
  /\ pc[p] = "scanned"
  /\ LET t == draft[p].time
         mix == {draft[q] : q \in {q \in Others(p) : WritesTo(q, t)}}
     IN  Write(t, [content |-> Torn, mix |-> mix \union {draft[p]}])
  /\ Go(p, "writing") /\ Disturb(p)
  /\ UNCHANGED <<envVars, rows, mails, page, scans, crashes, unsaved, unalerted>>

\* json.dump and close: what the file holds, when two scans of one second share it,
\* is the report of either, or a mixture as long as they differ or one still writes.
Close(p) ==
  /\ pc[p] = "writing"
  /\ LET t == draft[p].time
         f == files[t]
         shared == \E q \in Others(p) : WritesTo(q, t)
         torn == shared \/ Cardinality(f.mix) > 1
     IN  \E content \in f.mix \union (IF torn THEN {Torn} ELSE {}) :
           Write(t, [content |-> content, mix |-> IF shared THEN f.mix ELSE {}])
  /\ pc' = [pc EXCEPT ![p] = IF p = "web" THEN "fetch" ELSE "lookup"]
  /\ report' = IF p = "job" THEN [report EXCEPT ![p] = draft[p]] ELSE report
  /\ Disturb(p)
  /\ UNCHANGED <<envVars, rows, draft, row, mails, page, scans, crashes, unsaved, unalerted>>

-----------------------------------------------------------------------------
(* run_scan and save_report_to_database                                    *)

\* Mutant: the first name is taken, not the file changed last.
FirstNamed == files[CHOOSE t \in DOMAIN files : \A u \in DOMAIN files : t <= u]

Newest == files[newest]

\* get_last_report: no file is a KeyError in the caller, a torn one a JSON error;
\* either way the request ends with an error page.
Fetch ==
  /\ pc["web"] = "fetch"
  /\ IF files = <<>> \/ Newest.content = Torn
     THEN Return("web")
     ELSE /\ pc' = [pc EXCEPT !["web"] = "lookup"]
          /\ report' = [report EXCEPT !["web"] = Newest.content]
          /\ UNCHANGED <<draft, row>>
  /\ UNCHANGED <<envVars, fileVars, rows, mails, page, scans, crashes, historyVars>>

\* Mutant: the time is not looked up before the row is inserted.
NeverSaved(time) == FALSE

AlreadySaved(time) == \E i \in DOMAIN rows : rows[i].time = time

Lookup(p) ==
  /\ pc[p] = "lookup"
  /\ IF AlreadySaved(report[p].time) THEN Return(p) ELSE Go(p, "insert")
  /\ UNCHANGED <<envVars, fileVars, rows, mails, page, scans, crashes, historyVars>>

\* Mutant: ids count from zero.
IdFromZero == Len(rows)

NewId == Len(rows) + 1

\* The Scan row is committed on its own, or the database refuses.
Insert(p) ==
  /\ pc[p] = "insert"
  /\ \/ /\ rows' = Append(rows, [time |-> report[p].time, by |-> p, of |-> report[p],
                                 details |-> NoDetails])
        /\ row' = [row EXCEPT ![p] = NewId]
        /\ pc' = [pc EXCEPT ![p] = "details"] /\ UNCHANGED <<draft, report>>
     \/ Return(p) /\ UNCHANGED rows
  /\ UNCHANGED <<envVars, fileVars, mails, page, scans, crashes, historyVars>>

DetailsOf(scan) == Details(Report(scan.time, Seen(scan), scan.denied))

\* Mutant: the details go to the newest row.
NewestRow(p) == Len(rows)

RowOf(p) == row[p]

\* Then all the findings, in a second transaction, which the database may refuse.  What
\* is critical is queried from the database again: an error there reaches the caller,
\* the scan is saved and nobody is told.
Save(p) ==
  /\ pc[p] = "details"
  /\ LET details == DetailsOf(report[p])
     IN  \/ /\ rows' = [rows EXCEPT ![RowOf(p)].details = details]
            /\ \/ /\ IF CriticalFindings(details) = {} THEN Return(p) ELSE Go(p, "alert")
                  /\ UNCHANGED unalerted
               \/ Return(p) /\ unalerted' = unalerted \union {row[p]}
            /\ UNCHANGED unsaved
         \/ /\ Return(p) /\ unsaved' = unsaved \union {row[p]}
            /\ UNCHANGED <<rows, unalerted>>
  /\ UNCHANGED <<envVars, fileVars, mails, page, scans, crashes, disturbed>>

\* Mutant: a failed mail is tried once more, although it may have got through.
AlertTwice(p) ==
  /\ pc[p] = "alert"
  /\ \/ mails' = mails \o <<row[p], row[p]>> /\ UNCHANGED unalerted
     \/ unalerted' = unalerted \union {row[p]} /\ UNCHANGED mails
  /\ Return(p)
  /\ UNCHANGED <<envVars, fileVars, rows, page, scans, crashes, disturbed, unsaved>>

\* send_critical_alert_email: a missing setting or an error of the mail server is
\* printed, and nobody tries again.  smtplib.SMTP_SSL is given no timeout: a process whose
\* mail server does not answer may stay here, the job for good (the scheduler starts no
\* second one meanwhile), the request until the worker is killed.
Alert(p) ==
  /\ pc[p] = "alert"
  /\ \/ mails' = Append(mails, row[p]) /\ UNCHANGED unalerted
     \/ unalerted' = unalerted \union {row[p]} /\ UNCHANGED mails
  /\ Return(p)
  /\ UNCHANGED <<envVars, fileVars, rows, page, scans, crashes, disturbed, unsaved>>

-----------------------------------------------------------------------------
(* Pages                                                                   *)

\* dashboard() reads the newest scan and view_report any, with the score of each of
\* its buckets shown as a risk level; then, in a query of its own, what was found in
\* the account, and the page is rendered.
View ==
  /\ pc["web"] = "idle"
  /\ \E i \in DOMAIN rows :
       page' = [id |-> i, time |-> rows[i].time,
                buckets |-> [n \in DOMAIN rows[i].details.buckets |->
                              RiskLevel(rows[i].details.buckets[n].score)]]
  /\ Go("web", "account")
  /\ UNCHANGED <<envVars, fileVars, rows, mails, scans, crashes, historyVars>>

AccountShown == rows[page.id].details.account

ViewAccount ==
  /\ pc["web"] = "account"
  /\ page' = NoPage /\ Go("web", "idle")
  /\ UNCHANGED <<envVars, fileVars, rows, mails, scans, crashes, historyVars>>

-----------------------------------------------------------------------------
(* The environment                                                         *)

Reconfigure ==
  /\ changes < MaxChanges /\ changes' = changes + 1
  /\ account' \in DOMAIN Accounts \ {account}
  /\ UNCHANGED <<now, fileVars, rows, procVars, mails, page, scans, crashes, historyVars>>

\* The worker is killed (a request over 120 seconds, a restart), or the container is
\* replaced, and then its report files are gone as well.
Crash ==
  /\ crashes < MaxCrashes /\ crashes' = crashes + 1
  /\ UNCHANGED fileVars \/ (files' = <<>> /\ newest' = 0)
  /\ pc' = [p \in Processes |-> "idle"] /\ page' = NoPage
  /\ draft' = [p \in Processes |-> NoScan] /\ report' = [p \in Processes |-> NoScan]
  /\ row' = [p \in Processes |-> 0]
  /\ unsaved' = unsaved \union {row[p] : p \in {q \in Processes : pc[q] = "details"}}
  /\ unalerted' = unalerted \union {row[p] : p \in {q \in Processes : pc[q] = "alert"}}
  /\ disturbed' = FALSE
  /\ UNCHANGED <<envVars, rows, mails, scans>>

\* What a process that has begun does next.
Continue(p) ==
  \/ Inspect(p) \/ Open(p) \/ Close(p)
  \/ p = "web" /\ (Fetch \/ ViewAccount)
  \/ Lookup(p) \/ Insert(p) \/ Save(p) \/ Alert(p)

Next ==
  \/ \E p \in Processes : List(p) \/ Continue(p)
  \/ View \/ Reconfigure \/ Crash

\* No fairness: neither the database driver nor the mail client has a timeout.
Spec == Init /\ [][Next]_vars

-----------------------------------------------------------------------------
(* Properties                                                              *)

Scans ==
  UNION {[time : Seconds, names : SUBSET BucketNames(a), account : {a}, denied : Denials] :
           a \in DOMAIN Accounts}

Whole(i) == rows[i].details # NoDetails
WholeIds == {i \in DOMAIN rows : Whole(i)}

TypeOK ==
  /\ account \in DOMAIN Accounts /\ changes \in 0..MaxChanges /\ now \in Seconds
  /\ pc \in [Processes -> {"idle", "listed", "scanned", "writing", "fetch", "lookup", "insert",
                          "details", "alert", "account"}]
  /\ \A i \in DOMAIN rows : rows[i].by \in Processes /\ rows[i].time = rows[i].of.time
  /\ Len(rows) <= scans /\ scans \in 0..MaxScans /\ crashes \in 0..MaxCrashes
  /\ \A p \in Processes : pc[p] \in {"details", "alert"} => row[p] \in DOMAIN rows
  /\ unsaved \union unalerted \subseteq DOMAIN rows

\* The duplicate check of save_report_to_database keeps each process from saving a
\* scan it has saved before, across restarts and refused commits: two rows of one
\* second come from the request and the job, whose checks ran before either insert.
NoProcessSavesTwice ==
  \A i, j \in DOMAIN rows : i # j /\ rows[i].time = rows[j].time => rows[i].by # rows[j].by

\* A scan row without findings is being written, or its writer was stopped between its
\* two commits, and then it stays empty: it is the row's own writer that fills it.
EmptyScanHasAReason ==
  \A i \in DOMAIN rows :
    IF Whole(i) THEN i \notin unsaved /\ rows[i].details = DetailsOf(rows[i].of)
    ELSE i \in unsaved \/ (pc[rows[i].by] = "details" /\ row[rows[i].by] = i)

\* A /scan request whose account has buckets saves the report of its own scan, although
\* it goes through "the newest file", unless the job wrote to the files meanwhile.
UndisturbedRequestSavesItsOwn ==
  pc["web"] \in {"lookup", "insert", "details", "alert"} /\ ~disturbed /\ draft["web"] # NoScan
    => report["web"] = draft["web"]

\* A page never mixes two scans, nor half of one: its buckets are those of the scan
\* whose time it shows, and when it has buckets it has the findings of the account too.
\* And its risk level never plays down a bucket that is public or could not be looked at.
PageIsOfOneScan ==
  pc["web"] = "account" =>
    /\ page.time = rows[page.id].of.time
    /\ DOMAIN page.buckets # {} => AccountShown = DetailsOf(rows[page.id].of).account
    /\ \A n \in DOMAIN page.buckets :
         LET b == Seen(rows[page.id].of).buckets[n]
         IN  b.pab = "none" \/ b.policy = "public" \/ "policy" \in rows[page.id].of.denied =>
               page.buckets[n] \in {"HIGH", "CRITICAL"}

\* What the alert is for, in the account a scan saw: a bucket open to the world, SSH open
\* to the world, a public database; unless the check of it was denied.
Exposed(scan) ==
  LET seen == Seen(scan)
  IN  \/ \E n \in scan.names :
           \/ seen.buckets[n].pab = "none" /\ "public_access" \notin scan.denied
           \/ seen.buckets[n].policy = "public" /\ "policy" \notin scan.denied
      \/ \E g \in seen.groups : g.world /\ g.port = 22
      \/ "rds" \notin scan.denied /\ \E d \in seen.databases : d.public

MailedAbout(i) == \E n \in DOMAIN mails : mails[n] = i
AtItsMail(i) == \E p \in Processes : pc[p] = "alert" /\ row[p] = i

\* Mails go out about accounts that were exposed when they were scanned, and about no
\* other.  An exposed account that has been saved is not passed over: it is mailed about,
\* its writer is at the mail (and may hang there), or the look-up or the mail failed or the
\* worker was killed right before it.
AlertsFollowExposure ==
  \A i \in WholeIds :
    /\ MailedAbout(i) => Exposed(rows[i].of)
    /\ Exposed(rows[i].of) => MailedAbout(i) \/ AtItsMail(i) \/ i \in unalerted

Contents == {DetailsOf(s) : s \in Scans}

Alarming == {c \in Contents : CriticalFindings(c) # {}}

Store == INSTANCE ScanStore WITH
  ScanIds <- Ids,
  archive <- [i \in WholeIds |-> rows[i].details], mailed <- mails

\* The database, read through the scans that have findings, is a store: every scan
\* appears at once and whole, stays as it is, and is mailed about at most once and only
\* when it is alarming.
ImplementsStore == Store!Spec
=============================================================================
