-------------------------- MODULE MCWebhookServer --------------------------
(***************************************************************************)
(* Two replicas that race for one secret, and one namespace: what a        *)
(* replica does for a namespace depends on no other namespace. It may be   *)
(* created and deleted twice, and two requests may fail or processes crash.*)
(***************************************************************************)
EXTENDS WebhookServer

CONSTANTS r1, r2, n1

MCReplica == {r1, r2}
MCNamespace == {n1}
MCConfigurations ==
  {[MetricsEnabled |-> TRUE, EnableCertRotation |-> TRUE],
   [MetricsEnabled |-> FALSE, EnableCertRotation |-> TRUE],
   [MetricsEnabled |-> TRUE, EnableCertRotation |-> FALSE]}
=============================================================================
