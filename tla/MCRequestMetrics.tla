-------------------------- MODULE MCRequestMetrics --------------------------
(* Small instances of RequestMetrics for TLC. *)
EXTENDS RequestMetrics, MCDecryptPath

\* A load balancer's check, a preflight and a wrong method on a decrypting
\* route, a scanner.
OtherTraffic ==
  {[method |-> "GET", path |-> "/healthz"], [method |-> "OPTIONS", path |-> "/v2/decrypt"],
   [method |-> "GET", path |-> "/v2/decrypt"], [method |-> "FOOBAR", path |-> "/.env"]}
=============================================================================
