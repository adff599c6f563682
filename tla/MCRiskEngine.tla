---------------------------- MODULE MCRiskEngine ----------------------------
(* A catalog with both halves of every kind of rule, on two resources where *)
(* that matters, beside findings that must not take part: PASS and ERROR    *)
(* findings of the same checks.                                             *)
EXTENDS RiskEngine

F(service, check, severity, resource) ==
  [service |-> service, check |-> check, severity |-> severity, resource |-> resource,
   subjects |-> {}, writable |-> FALSE]

Of(f, sas) == [f EXCEPT !.subjects = sas]

MCCatalog == {
  F("daemon", "privileged", "CRITICAL", "c1"), F("daemon", "docker_socket_mount", "HIGH", "c1"),
  F("daemon", "root_user", "LOW", "c1"), F("daemon", "root_user", "LOW", "c2"),
  [F("daemon", "sensitive_host_mount", "HIGH", "c2") EXCEPT !.writable = TRUE],
  F("s3", "public_policy", "CRITICAL", "b"), F("s3", "access_logging", "LOW", "b"),
  F("s3", "access_logging", "PASS", "b"), F("s3", "public_access_block", "ERROR", "b"),
  F("cloudtrail", "logging", "HIGH", "t"), F("iam", "root_mfa", "CRITICAL", "root"),
  F("guardduty", "detector_enabled", "HIGH", "region"),
  F("rds", "public_access", "HIGH", "db"),
  Of(F("posture", "service_account_token_usage", "INFO", "sa1"), {"sa1"}),
  Of(F("rbac", "cluster_admin_binding", "INFO", "b1"), {"sa1", "sa2"}),
  Of(F("rbac", "bound_wildcard", "HIGH", "b1"), {"sa1"}),
  Of(F("rbac", "secret_read", "HIGH", "b2"), {"sa1"})}
=============================================================================
