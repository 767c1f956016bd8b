----------------------------- MODULE MCTelemetry -----------------------------
(* A small instance of Telemetry for TLC: two named dependencies, a chain, *)
(* and an export that fits one request until a series is added.            *)
EXTENDS Telemetry

MCDependencies == <<"ct_source", "commitment_registry", "42161">>
=============================================================================
