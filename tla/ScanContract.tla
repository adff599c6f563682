---------------------------- MODULE ScanContract ----------------------------
(***************************************************************************)
(* What one "blacklight scan" invocation promises to the pipeline that     *)
(* started it, whatever the provider, the scanners and their order: every  *)
(* scanner in scope is inspected, the report is published, and only then   *)
(* the exit code is decided, by what the inspection showed.  The only      *)
(* other way to end is to abort, with one of AbortCodes.                   *)
(***************************************************************************)
EXTENDS Naturals

CONSTANTS Scanners,     \* every scanner name
          AbortCodes    \* exit codes an aborted invocation may have

VARIABLES scope,        \* the scanners this invocation selected
          strict,       \* is full coverage required
          seen,         \* what became of each scanner's inspection
          alarm,        \* has a finding reached the --fail-on threshold
          published,    \* has the report been printed or written
          verdict       \* the exit code, or Open

vars == <<scope, strict, seen, alarm, published, verdict>>

Open == 256

Clean(s) == seen[s] = "clean"

Init == /\ scope \in SUBSET Scanners
        /\ strict \in BOOLEAN
        /\ seen = [s \in Scanners |-> "pending"]
        /\ alarm = FALSE
        /\ published = FALSE
        /\ verdict = Open

\* In any order; an alarm, once raised, stays.
Inspect(s) ==
    /\ verdict = Open /\ ~published
    /\ s \in scope /\ seen[s] = "pending"
    /\ \E v \in {"clean", "affected"} : seen' = [seen EXCEPT ![s] = v]
    /\ alarm' \in {alarm, TRUE}
    /\ UNCHANGED <<scope, strict, published, verdict>>

Publish ==
    /\ verdict = Open /\ ~published
    /\ \A s \in scope : seen[s] # "pending"
    /\ published' = TRUE
    /\ UNCHANGED <<scope, strict, seen, alarm, verdict>>

Judgement ==
    IF \/ scope # {} /\ \A s \in scope : ~Clean(s)
       \/ strict /\ ~(scope # {} /\ \A s \in scope : Clean(s))
    THEN 2
    ELSE IF alarm THEN 1 ELSE 0

Judge ==
    /\ verdict = Open /\ published
    /\ verdict' = Judgement
    /\ UNCHANGED <<scope, strict, seen, alarm, published>>

Abort ==
    /\ verdict = Open /\ ~published
    /\ verdict' \in AbortCodes
    /\ UNCHANGED <<scope, strict, seen, alarm, published>>

Next == (\E s \in Scanners : Inspect(s)) \/ Publish \/ Judge \/ Abort

Safe == Init /\ [][Next]_vars
Spec == Safe /\ WF_vars(Next)
=============================================================================
