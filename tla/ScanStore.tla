----------------------------- MODULE ScanStore ------------------------------
(***************************************************************************)
(* What the legacy dashboard's database promises to those who read it: a   *)
(* scan appears with all its findings at once, is never changed or dropped *)
(* afterwards, and is mailed about at most once, when it is alarming and   *)
(* can be looked up.                                                       *)
(***************************************************************************)
EXTENDS Sequences

CONSTANTS ScanIds,       \* the ids a scan may get
          Contents,      \* what a scan may have found
          Alarming       \* the contents a mail goes out for

VARIABLES archive,       \* scan id |-> its content
          mailed         \* the ids mailed about, in order

storeVars == <<archive, mailed>>

Init == archive = <<>> /\ mailed = <<>>

Archive(i) ==
  /\ i \notin DOMAIN archive
  /\ DOMAIN archive' = DOMAIN archive \union {i}
  /\ archive'[i] \in Contents
  /\ \A j \in DOMAIN archive : archive'[j] = archive[j]
  /\ UNCHANGED mailed

Mail(i) ==
  /\ i \in DOMAIN archive /\ archive[i] \in Alarming
  /\ \A n \in DOMAIN mailed : mailed[n] # i
  /\ mailed' = Append(mailed, i)
  /\ UNCHANGED archive

Next == \E i \in ScanIds : Archive(i) \/ Mail(i)

Spec == Init /\ [][Next]_storeVars
=============================================================================
