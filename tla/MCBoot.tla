------------------------------- MODULE MCBoot -------------------------------
(* Small instances of Boot for TLC. *)
EXTENDS Boot

CONSTANTS c1, c2

\* A deployment every check accepts.
Sound ==
  [known_env |-> TRUE, vars_parse |-> TRUE, require_permit |-> TRUE, 
   enable_commitment_verification |-> TRUE, commitment_block |-> TRUE, task_manager_ids |-> {c1, c2}, threshold |-> 2,
   permit_chains |-> {c1, c2}, bad_rpc_urls |-> {}, registry_rpc_url |-> TRUE, timeout_ms |-> 50,
   cache_size |-> 1, cache_ttl |-> 1]

\* The sound ones, and every single slip an operator or a policy could make.
MCDeployments ==
  {Sound,
   [Sound EXCEPT !.threshold = 3],
   [Sound EXCEPT !.permit_chains = {c1}],
   [Sound EXCEPT !.require_permit = FALSE],
   [Sound EXCEPT !.enable_commitment_verification = FALSE, !.commitment_block = FALSE,
                 !.registry_rpc_url = FALSE],
   [Sound EXCEPT !.known_env = FALSE],
   [Sound EXCEPT !.vars_parse = FALSE],
   [Sound EXCEPT !.bad_rpc_urls = {c2}],
   [Sound EXCEPT !.commitment_block = FALSE],
   [Sound EXCEPT !.enable_commitment_verification = FALSE],
   [Sound EXCEPT !.enable_commitment_verification = FALSE, !.commitment_block = FALSE],
   [Sound EXCEPT !.task_manager_ids = {}, !.permit_chains = {}],
   [Sound EXCEPT !.task_manager_ids = {c2}],
   [Sound EXCEPT !.permit_chains = {}],
   [Sound EXCEPT !.registry_rpc_url = FALSE],
   [Sound EXCEPT !.timeout_ms = 49],
   [Sound EXCEPT !.cache_size = 0],
   [Sound EXCEPT !.cache_ttl = 0],
   [Sound EXCEPT !.threshold = 0],
   [Sound EXCEPT !.threshold = 1],
   [Sound EXCEPT !.threshold = 4]}
=============================================================================
