-------------------------------- MODULE Boot --------------------------------
(***************************************************************************)
(* How a Teecryptor process comes up (src/main.rs, src/boot.rs,            *)
(* src/key_source.rs, src/env_policy.rs, and the address-book resolution   *)
(* of src/permit.rs), in the attested build: the configuration is          *)
(* validated, every served chain's TaskManager is resolved, each partner   *)
(* is federated with, the key is reconstructed, the gates are installed    *)
(* and the servers start.  A step is one remote call with its timeout.     *)
(*                                                                         *)
(* The gates and bounds a booted process has are the constants AcpGate,    *)
(* AclChains, CommitmentGate, WarnOnly, Capacity, TTL and RpcTimeout of    *)
(* CommitmentCache and DecryptPath.                                        *)
(***************************************************************************)
EXTENDS Integers, FiniteSets

CONSTANTS
  HostChains,      \* host chains an operator may configure
  TaskManagers,    \* non-zero addresses
  ZeroAddress,     \* Address::ZERO
  Unset,           \* no address: an id the book does not know, or not resolved yet
  Partners,        \* the baked partner projects
  Retries,         \* further attempts of an address-book query
  MinThreshold,    \* cofhe_keys::shamir::MIN_THRESHOLD
  MinTimeoutMs,    \* the least COMMITMENT_TIMEOUT_MS
  Deployments      \* the deployments considered

(***************************************************************************)
(* A deployment: the baked policy COFHE_ENV selects, the baked threshold,  *)
(* and what the operator's environment variables add.  vars_parse: every   *)
(* required variable is set and every variable parses; bad_rpc_urls: the   *)
(* chains whose rpc_url is none, which is only noticed when it is used.    *)
(***************************************************************************)
Deployment ==
  [known_env : BOOLEAN, vars_parse : BOOLEAN, require_permit : BOOLEAN, 
   enable_commitment_verification : BOOLEAN, commitment_block : BOOLEAN, task_manager_ids : SUBSET HostChains, threshold : Nat,
   permit_chains : SUBSET HostChains, bad_rpc_urls : SUBSET HostChains, registry_rpc_url : BOOLEAN, timeout_ms : Nat,
   cache_size : Nat, cache_ttl : Nat]

ASSUME BootAssumption ==
  /\ IsFiniteSet(Partners)
  /\ ZeroAddress \notin TaskManagers /\ Unset \notin TaskManagers \cup {ZeroAddress}
  /\ Retries \in Nat
  /\ MinThreshold \in Nat \ {0}
  /\ MinTimeoutMs \in Nat \ {0}
  /\ Deployments \subseteq Deployment

VARIABLES
  dep,             \* the deployment being booted
  book,            \* the address book of each chain: its answer to getTm
  share,           \* what each partner's secret manager holds
  secret,          \* what the shares reconstruct to
  stage,           \* where the boot is
  cause,           \* why it was abandoned
  pending,         \* chains not resolved yet
  attempt,         \* retries used on the chain being resolved
  transients,      \* history: failed queries per chain
  tm,              \* TaskManager resolved for each chain
  untried,         \* partners not federated with yet
  tokens,          \* partners whose federated token was obtained
  failed,          \* partners excluded at federation
  keys,            \* are the key and the signer in memory?
  acp_verifier,    \* is the ACP gate installed?
  commitment_verifier  \* is the commitment gate installed?

world == <<dep, share, secret>>
acpVars == <<pending, attempt, transients, tm>>
keyVars == <<untried, tokens, failed, keys>>
gates == <<acp_verifier, commitment_verifier>>
bootVars == <<dep, book, share, secret, stage, cause, pending, attempt, transients, tm,
              untried, tokens, failed, keys, acp_verifier, commitment_verifier>>

Stages == {"config", "resolve", "federate", "metadata", "read", "gates", "bind",
           "serving", "aborted", "exited"}
Causes == {"none", "config", "book_misconfigured", "book_unreachable", "metadata",
           "manifest", "partners", "secret", "ct_source", "registry", "bind"}

BootTypeOK ==
  /\ dep \in Deployments
  /\ book \in [HostChains -> TaskManagers \cup {ZeroAddress, Unset}]
  /\ share \in [Partners -> {"good", "bad"}]
  /\ secret \in {"good", "bad_signer", "bad_key"}
  /\ stage \in Stages
  /\ cause \in Causes
  /\ pending \subseteq HostChains
  /\ attempt \in 0..Retries
  /\ transients \in [HostChains -> 0..(Retries + 1)]
  /\ tm \in [HostChains -> TaskManagers \cup {Unset}]
  /\ untried \subseteq Partners
  /\ tokens \subseteq Partners
  /\ failed \subseteq Partners
  /\ {keys, acp_verifier, commitment_verifier} \subseteq BOOLEAN

BootInit ==
  /\ dep \in Deployments
  /\ book \in [HostChains -> TaskManagers \cup {ZeroAddress, Unset}]
  /\ share \in [Partners -> {"good", "bad"}]
  /\ secret \in {"good", "bad_signer", "bad_key"}
  /\ stage = "config"
  /\ cause = "none"
  /\ pending = {}
  /\ attempt = 0
  /\ transients = [c \in HostChains |-> 0]
  /\ tm = [c \in HostChains |-> Unset]
  /\ untried = Partners
  /\ tokens = {}
  /\ failed = {}
  /\ keys = FALSE
  /\ acp_verifier = FALSE
  /\ commitment_verifier = FALSE

Goes(s) == stage' = s /\ UNCHANGED cause

\* An error returned from main: the process exits.
Abort(why) == stage' = "aborted" /\ cause' = why

-----------------------------------------------------------------------------
(* Configuration *)

\* EnvPolicy::for_env and parse.
PolicyOk(d) ==
  /\ d.known_env
  /\ d.enable_commitment_verification = d.commitment_block
  /\ d.require_permit => d.task_manager_ids # {}

\* parse_permit_chains, and the gate that needs it.
PermitChainsOk(d) ==
  /\ d.permit_chains \subseteq d.task_manager_ids
  /\ d.require_permit => d.permit_chains # {}

\* parse_commitment_config, and the gate that needs it.
CommitmentConfigOk(d) ==
  /\ d.registry_rpc_url =>
       /\ d.commitment_block
       /\ d.timeout_ms >= MinTimeoutMs
       /\ d.cache_size # 0
       /\ d.cache_ttl # 0
  /\ d.enable_commitment_verification => d.registry_rpc_url

\* Faulty variant: the threshold is only compared with the partner count.
ThresholdUpperOnly(threshold) == threshold <= Cardinality(Partners)

validate_threshold(threshold) ==
  threshold >= MinThreshold /\ threshold <= Cardinality(Partners)

from_env ==
  LET ok == /\ dep.vars_parse
            /\ PolicyOk(dep)
            /\ PermitChainsOk(dep)
            /\ CommitmentConfigOk(dep)
            /\ validate_threshold(dep.threshold)
  IN
  /\ stage = "config"
  /\ \/ ~ok /\ Abort("config") /\ UNCHANGED pending
     \/ /\ ok
        /\ Goes("resolve")
        /\ pending' = IF dep.require_permit THEN dep.permit_chains ELSE {}
  /\ UNCHANGED <<world, book, attempt, transients, tm, keyVars, gates>>

-----------------------------------------------------------------------------
(* The address book *)

\* A chain once begun is finished before the next is begun.
BeingResolved(c) ==
  c \in pending /\ (attempt > 0 => transients[c] > 0)

Asked(c) == BeingResolved(c) /\ c \notin dep.bad_rpc_urls

\* Faulty variant: the zero address is taken for a TaskManager.
GetTmZeroIsFine(c) ==
  /\ stage = "resolve"
  /\ Asked(c)
  /\ \/ book[c] = Unset /\ Abort("book_misconfigured") /\ UNCHANGED <<pending, attempt, tm>>
     \/ /\ book[c] # Unset
        /\ tm' = [tm EXCEPT ![c] = book[c]]
        /\ pending' = pending \ {c}
        /\ attempt' = 0
        /\ UNCHANGED <<stage, cause>>
  /\ UNCHANGED <<world, book, transients, keyVars, gates>>

\* The book answers: a revert or the zero address is final.
GetTm(c) ==
  /\ stage = "resolve"
  /\ Asked(c)
  /\ \/ /\ book[c] \in {Unset, ZeroAddress}
        /\ Abort("book_misconfigured")
        /\ UNCHANGED <<pending, attempt, tm>>
     \/ /\ book[c] \in TaskManagers
        /\ tm' = [tm EXCEPT ![c] = book[c]]
        /\ pending' = pending \ {c}
        /\ attempt' = 0
        /\ UNCHANGED <<stage, cause>>
  /\ UNCHANGED <<world, book, transients, keyVars, gates>>

\* Faulty variant: the last attempt is not granted.
GetTmGivesUpEarly(c) ==
  /\ stage = "resolve"
  /\ Asked(c)
  /\ transients' = [transients EXCEPT ![c] = @ + 1]
  /\ \/ attempt + 1 < Retries /\ attempt' = attempt + 1 /\ UNCHANGED <<stage, cause>>
     \/ attempt + 1 >= Retries /\ Abort("book_unreachable") /\ UNCHANGED attempt
  /\ UNCHANGED <<world, book, pending, tm, keyVars, gates>>

\* Faulty variant: attempts are not counted.
GetTmRetriesForever(c) ==
  /\ stage = "resolve"
  /\ Asked(c)
  /\ transients' = [transients EXCEPT ![c] = IF @ = 0 THEN 1 ELSE 0]
  /\ UNCHANGED <<world, book, stage, cause, pending, attempt, tm, keyVars, gates>>

\* A transport error or a timeout is retried while attempts are left.
GetTmFails(c) ==
  /\ stage = "resolve"
  /\ Asked(c)
  /\ transients' = [transients EXCEPT ![c] = @ + 1]
  /\ \/ attempt < Retries /\ attempt' = attempt + 1 /\ UNCHANGED <<stage, cause>>
     \/ attempt >= Retries /\ Abort("book_unreachable") /\ UNCHANGED attempt
  /\ UNCHANGED <<world, book, pending, tm, keyVars, gates>>

\* The URL of the chain does not parse: no attempt is made.
BadRpcUrl(c) ==
  /\ stage = "resolve"
  /\ BeingResolved(c) /\ c \in dep.bad_rpc_urls
  /\ Abort("book_misconfigured")
  /\ UNCHANGED <<world, book, acpVars, keyVars, gates>>

resolve_acp ==
  /\ stage = "resolve"
  /\ pending = {}
  /\ Goes("federate")
  /\ UNCHANGED <<world, book, acpVars, keyVars, gates>>

-----------------------------------------------------------------------------
(* The key *)

\* Faulty variant: the first partner that fails ends the loop.
PartnerFailsStops(p) ==
  /\ stage = "federate"
  /\ p \in untried
  /\ failed' = failed \cup {p}
  /\ untried' = {}
  /\ UNCHANGED <<world, book, stage, cause, acpVars, tokens, keys, gates>>

\* Attestation or token exchange fails or times out: the partner is excluded.
PartnerFails(p) ==
  /\ stage = "federate"
  /\ p \in untried
  /\ failed' = failed \cup {p}
  /\ untried' = untried \ {p}
  /\ UNCHANGED <<world, book, stage, cause, acpVars, tokens, keys, gates>>

partner_token(p) ==
  /\ stage = "federate"
  /\ p \in untried
  /\ tokens' = tokens \cup {p}
  /\ untried' = untried \ {p}
  /\ UNCHANGED <<world, book, stage, cause, acpVars, failed, keys, gates>>

load_partner_tokens ==
  /\ stage = "federate"
  /\ untried = {}
  /\ Goes("metadata")
  /\ UNCHANGED <<world, book, acpVars, keyVars, gates>>

\* The bearer for the public material, from the metadata server.
MetadataToken ==
  /\ stage = "metadata"
  /\ Goes("read") \/ Abort("metadata")
  /\ UNCHANGED <<world, book, acpVars, keyVars, gates>>

\* The reader drops bad shares and reconstructs from those left.
GoodShares == {p \in tokens : share[p] = "good"}

\* assemble: the signer has 32 bytes, key and signer load.
assemble == secret = "good"

\* read_fhe_priv, then assemble.
load_keys ==
  LET quorum == Cardinality(GoodShares) >= dep.threshold IN
  /\ stage = "read"
  /\ \/ Abort("manifest") /\ UNCHANGED keys
     \/ ~quorum /\ Abort("partners") /\ UNCHANGED keys
     \/ quorum /\ ~assemble /\ Abort("secret") /\ UNCHANGED keys
     \/ quorum /\ assemble /\ Goes("gates") /\ keys' = TRUE
  /\ UNCHANGED <<world, book, acpVars, untried, tokens, failed, gates>>

-----------------------------------------------------------------------------
(* The service *)

\* The ct-server client is built, the gates go in, the commitment gate behind
\* a probe of its registry, and the process is ready.
InstallGates ==
  /\ stage = "gates"
  /\ \/ Abort("ct_source") /\ UNCHANGED gates
     \/ /\ dep.enable_commitment_verification
        /\ acp_verifier' = dep.require_permit
        /\ Abort("registry")
        /\ UNCHANGED commitment_verifier
     \/ /\ Goes("bind")
        /\ acp_verifier' = dep.require_permit
        /\ commitment_verifier' = dep.enable_commitment_verification
  /\ UNCHANGED <<world, book, acpVars, keyVars>>

\* Both listeners are bound, or the process exits.
serve ==
  /\ stage = "bind"
  /\ Goes("serving") \/ Abort("bind")
  /\ UNCHANGED <<world, book, acpVars, keyVars, gates>>

\* A server dies or ctrl-c: both stop.
Stop ==
  /\ stage = "serving"
  /\ Goes("exited")
  /\ UNCHANGED <<world, book, acpVars, keyVars, gates>>

\* The owner of a chain's book registers or unsets the TaskManager.
SetTm(c, a) ==
  /\ a # book[c]
  /\ book' = [book EXCEPT ![c] = a]
  /\ UNCHANGED <<world, stage, cause, acpVars, keyVars, gates>>

ResolveStep ==
  resolve_acp \/ \E c \in HostChains : GetTm(c) \/ GetTmFails(c) \/ BadRpcUrl(c)

FederateStep ==
  load_partner_tokens \/ \E p \in Partners : partner_token(p) \/ PartnerFails(p)

BootNext ==
  \/ from_env
  \/ ResolveStep
  \/ FederateStep
  \/ MetadataToken
  \/ load_keys
  \/ InstallGates
  \/ serve
  \/ Stop
  \/ \E c \in HostChains, a \in TaskManagers \cup {ZeroAddress, Unset} : SetTm(c, a)

BootSpec == BootInit /\ [][BootNext]_bootVars

\* Every remote call of src/ is bounded by a timeout.  The reader's own calls
\* are the library's: nothing is assumed of load_keys.
BootFairness ==
  WF_bootVars(from_env \/ ResolveStep \/ FederateStep \/ MetadataToken \/ InstallGates
                \/ serve)

BootLiveSpec == BootSpec /\ BootFairness

-----------------------------------------------------------------------------
(* Properties *)

\* set_ready has been called.
Ready == stage \in {"bind", "serving", "exited"}

(* Fail closed: a process that gets ready has every gate its baked policy  *)
(* turns on and no other; the ACP gate knows a real TaskManager for every  *)
(* chain the operator configured, each one the policy has an id for; the   *)
(* commitment cache has a size, a TTL and a timeout that are not zero.     *)
ReadyMeansGated ==
  Ready =>
    /\ acp_verifier = dep.require_permit
    /\ acp_verifier =>
         /\ dep.permit_chains # {} /\ dep.permit_chains \subseteq dep.task_manager_ids
         /\ \A c \in dep.permit_chains : tm[c] \in TaskManagers \ {ZeroAddress}
    /\ commitment_verifier = dep.enable_commitment_verification
    /\ commitment_verifier => dep.cache_size > 0 /\ dep.cache_ttl > 0 /\ dep.timeout_ms > 0

(* Keys are only ever in memory when a threshold of partners that passed   *)
(* federation held good shares, and that threshold is never one partner.   *)
KeysNeedQuorum ==
  keys =>
    /\ Cardinality({p \in Partners \ failed : share[p] = "good"}) >= dep.threshold
    /\ dep.threshold >= MinThreshold

(* A chain gets its Retries attempts after the first and no more: it is    *)
(* given up as unreachable after exactly Retries + 1 failures, and a chain *)
(* that was resolved had fewer.                                            *)
RetriesExact ==
  /\ \A c \in HostChains : tm[c] # Unset => transients[c] <= Retries
  /\ cause = "book_unreachable" <=> \E c \in HostChains : transients[c] = Retries + 1

(* A partner that fails costs only its own share: the boot gives up on the *)
(* partners only when too few of those that did not fail hold good shares. *)
PartnersTolerated ==
  cause = "partners" =>
    Cardinality({p \in Partners \ failed : share[p] = "good"}) < dep.threshold

(* A boot never hangs, whatever endpoint does not answer, except inside    *)
(* the key reader.                                                         *)
BootEnds == <>[](stage \in {"serving", "exited", "aborted", "read"})
=============================================================================
