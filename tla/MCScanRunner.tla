---------------------------- MODULE MCScanRunner ----------------------------
(* Small instance: two or three scanners per provider, and tallies that     *)
(* cross every judgement: nothing, one or two errors, a finding below, at   *)
(* or above a threshold, and an error beside a finding.                     *)
EXTENDS ScanRunner

MCOrder == [aws |-> <<"ec2", "iam", "s3">>,
            docker |-> <<"dockerfile", "image">>,
            kubernetes |-> <<"cluster", "manifest">>,
            server |-> <<"baseline", "tls">>]

One(sev) == [NoFindings EXCEPT ![sev] = 1]

MCTallies == {One("PASS"), One("ERROR"), One("MEDIUM"),
              [One("HIGH") EXCEPT !["ERROR"] = 2]}
=============================================================================
