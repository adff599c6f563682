---------------------------- MODULE MCDashboard -----------------------------
(* An account with buckets open in either way, one with SSH open to the     *)
(* world, one with a public database, and one without any bucket.  The      *)
(* denials leave one of the two buckets as the one that is seen to be open, *)
(* hide the database, or end the scan.                                      *)
EXTENDS Dashboard, TLC

Bucket(pab, policy) ==
  [pab |-> pab, encrypted |-> TRUE, versioned |-> TRUE, logged |-> FALSE, policy |-> policy]
Key(old, used) == [old |-> old, used |-> used]

Closed ==
  [buckets |-> "web" :> Bucket("all", "none"), trails |-> {},
   rootMfa |-> FALSE, keys |-> <<Key(FALSE, "never"), Key(TRUE, "recently")>>,
   groups |-> {[name |-> "sg", port |-> 5000, world |-> TRUE]},
   databases |-> {[name |-> "db", public |-> FALSE]}]
Public ==
  [Closed EXCEPT !.buckets = "logs" :> Bucket("none", "none") @@ "web" :> Bucket("all", "public")]
Ssh == [Closed EXCEPT !.groups = {[name |-> "sg", port |-> 22, world |-> TRUE]}]
Database == [Closed EXCEPT !.databases = {[name |-> "db", public |-> TRUE]}]
Bare == [Closed EXCEPT !.buckets = <<>>]

MCAccounts == "public" :> Public @@ "ssh" :> Ssh @@ "database" :> Database @@ "bare" :> Bare
MCDenials == {{"policy"}, {"public_access", "rds"}, {"logging"}}
=============================================================================
