----------------------------- MODULE BootProofs -----------------------------
(***************************************************************************)
(* What a boot guarantees, for every deployment, every set of chains and   *)
(* partners, and every number of retries.  The invariant BootInv says what *)
(* each stage of the boot leaves behind for the next.                      *)
(***************************************************************************)
EXTENDS Boot, FiniteSetTheorems, TLAPS

Accepted ==
  /\ PolicyOk(dep)
  /\ PermitChainsOk(dep)
  /\ CommitmentConfigOk(dep)
  /\ validate_threshold(dep.threshold)

\* The stages of a boot that has not ended, from a stage on.
FromGates == {"gates", "bind", "serving", "exited"}
FromMetadata == {"metadata", "read"} \cup FromGates
FromFederate == {"federate"} \cup FromMetadata
FromResolve == {"resolve"} \cup FromFederate

Progressed ==
  /\ stage = "aborted" <=> cause # "none"
  /\ stage \in FromResolve => Accepted
  /\ stage \in FromFederate => pending = {}
  /\ stage \in FromMetadata => untried = {}
  /\ stage = "config" => pending = {} /\ attempt = 0
  /\ stage \in {"config", "resolve", "federate", "metadata", "read"} => ~keys
  /\ keys => Accepted

Resolving ==
  /\ \A c \in pending : tm[c] = Unset
  /\ stage \in FromResolve =>
       /\ pending \subseteq dep.permit_chains
       /\ \A c \in pending : transients[c] \in {0, attempt}
       /\ \A c, j \in pending : transients[c] > 0 /\ transients[j] > 0 => c = j
       /\ dep.require_permit =>
            \A c \in dep.permit_chains \ pending : tm[c] \in TaskManagers
  /\ stage = "config" => \A c \in HostChains : transients[c] = 0 /\ tm[c] = Unset
  /\ cause # "book_unreachable" => \A c \in HostChains : transients[c] <= Retries

Federating ==
  /\ tokens \cap failed = {}
  /\ tokens \cup failed \cup untried = Partners
  /\ untried \cap (tokens \cup failed) = {}

\* The shares that count are those of the partners that did not fail.
QuorumSet == {p \in Partners \ failed : share[p] = "good"}

Gated ==
  stage \in {"bind", "serving", "exited"} =>
    /\ acp_verifier = dep.require_permit
    /\ commitment_verifier = dep.enable_commitment_verification

BootInv ==
  /\ BootTypeOK
  /\ Progressed
  /\ Resolving
  /\ RetriesExact
  /\ Federating
  /\ KeysNeedQuorum
  /\ PartnersTolerated
  /\ Gated

\* A boot starts in the invariant.
LEMMA BootInitInv == BootInit => BootInv
<1> SUFFICES ASSUME BootInit PROVE BootInv
  OBVIOUS
<1> USE BootAssumption DEF BootInit
<1>1. BootTypeOK
  <2>1. 0 \in 0..Retries /\ 0 \in 0..(Retries + 1)
    OBVIOUS
  <2>2. transients \in [HostChains -> 0..(Retries + 1)]
    BY <2>1
  <2>3. {keys, acp_verifier, commitment_verifier} \subseteq BOOLEAN
    OBVIOUS
  <2> QED
    BY <2>1, <2>2, <2>3 DEF BootTypeOK, Stages, Causes
<1>2. Progressed /\ Gated
  BY DEF Progressed, Gated, FromGates, FromMetadata, FromFederate, FromResolve
<1>3. Resolving
  BY DEF Resolving, FromGates, FromMetadata, FromFederate, FromResolve
<1>4. RetriesExact
  BY DEF RetriesExact
<1>5. Federating /\ KeysNeedQuorum /\ PartnersTolerated
  BY DEF Federating, KeysNeedQuorum, PartnersTolerated
<1> QED
  BY <1>1, <1>2, <1>3, <1>4, <1>5 DEF BootInv

\* Every step of a boot, and of a book owner, preserves it.
LEMMA BootNextInv == BootInv /\ [BootNext]_bootVars => BootInv'
<1> SUFFICES ASSUME BootInv, [BootNext]_bootVars
             PROVE  BootInv'
  OBVIOUS
<1> USE BootAssumption DEF Stages, Causes, FromGates, FromMetadata, FromFederate, FromResolve
<1>1. CASE from_env
  <2>1. BootTypeOK'
    BY <1>1 DEF BootInv, BootTypeOK, from_env, Abort, Goes, world, keyVars, gates, Deployment
  <2>2. Progressed' /\ Gated'
    BY <1>1 DEF BootInv, BootTypeOK, Progressed, Gated, Accepted, from_env, Abort, Goes, world,
                keyVars, gates
  <2>3. Resolving' /\ RetriesExact'
    BY <1>1, <2>1 DEF BootInv, BootTypeOK, Progressed, Resolving, RetriesExact, from_env,
                Abort, Goes, world, keyVars, gates, Deployment
  <2>4. Federating' /\ KeysNeedQuorum' /\ PartnersTolerated'
    BY <1>1 DEF BootInv, BootTypeOK, Progressed, Federating, KeysNeedQuorum,
                PartnersTolerated, from_env, Abort, Goes, world, keyVars, gates
  <2> QED
    BY <2>1, <2>2, <2>3, <2>4 DEF BootInv
<1>2. ASSUME NEW c \in HostChains, GetTm(c)
      PROVE  BootInv'
  <2>1. BootTypeOK'
    BY <1>2 DEF BootInv, BootTypeOK, GetTm, BeingResolved, Asked, Abort, world, keyVars, gates
  <2>2. Progressed' /\ Gated'
    BY <1>2 DEF BootInv, BootTypeOK, Progressed, Gated, Accepted, GetTm, BeingResolved, Asked, Abort,
                world, keyVars, gates
  <2>3. c \in pending /\ tm[c] = Unset /\ transients[c] <= Retries
    BY <1>2 DEF BootInv, BootTypeOK, Progressed, Resolving, GetTm, BeingResolved, Asked
  <2>4. Resolving'
    <3>1. CASE Abort("book_misconfigured") /\ UNCHANGED <<pending, attempt, tm>>
      BY <1>2, <2>3, <3>1 DEF BootInv, BootTypeOK, Progressed, Resolving, GetTm, Abort, world
    <3>2. CASE /\ book[c] \in TaskManagers
               /\ tm' = [tm EXCEPT ![c] = book[c]]
               /\ pending' = pending \ {c}
               /\ attempt' = 0
               /\ UNCHANGED <<stage, cause>>
      <4>1. \A j \in pending' : transients[j] = 0
        BY <1>2, <3>2 DEF BootInv, BootTypeOK, Resolving, GetTm, BeingResolved, Asked
      <4>2. transients' = transients /\ dep' = dep
        BY <1>2 DEF GetTm, world
      <4> QED
        BY <1>2, <2>3, <3>2, <4>1, <4>2 DEF BootInv, BootTypeOK, Progressed, Resolving, GetTm
    <3> QED
      BY <1>2, <3>1, <3>2 DEF GetTm
  <2>5. RetriesExact'
    BY <1>2, <2>3 DEF BootInv, BootTypeOK, Progressed, Resolving, RetriesExact, GetTm, Abort,
                world, keyVars, gates
  <2>6. Federating' /\ KeysNeedQuorum' /\ PartnersTolerated'
    BY <1>2 DEF BootInv, BootTypeOK, Progressed, Federating, KeysNeedQuorum,
                PartnersTolerated, GetTm, Abort, world, keyVars, gates
  <2> QED
    BY <2>1, <2>2, <2>4, <2>5, <2>6 DEF BootInv
<1>3. ASSUME NEW c \in HostChains, GetTmFails(c)
      PROVE  BootInv'
  <2>1. c \in pending /\ tm[c] = Unset /\ transients[c] = attempt /\ cause = "none"
    BY <1>3 DEF BootInv, BootTypeOK, Progressed, Resolving, GetTmFails, BeingResolved, Asked
  <2>2. BootTypeOK'
    BY <1>3, <2>1 DEF BootInv, BootTypeOK, GetTmFails, Abort, world, keyVars, gates
  <2>3. Progressed' /\ Gated'
    BY <1>3 DEF BootInv, BootTypeOK, Progressed, Gated, Accepted, GetTmFails, Abort,
                world, keyVars, gates
  <2>4. Resolving'
    BY <1>3, <2>1, <2>2 DEF BootInv, BootTypeOK, Progressed, Resolving, GetTmFails,
                BeingResolved, Asked, Abort, world, keyVars, gates
  <2>5. RetriesExact'
    BY <1>3, <2>1, <2>2, <2>4 DEF BootInv, BootTypeOK, Progressed, Resolving, RetriesExact,
                GetTmFails, Abort, world, keyVars, gates
  <2>6. Federating' /\ KeysNeedQuorum' /\ PartnersTolerated'
    BY <1>3 DEF BootInv, BootTypeOK, Progressed, Federating, KeysNeedQuorum,
                PartnersTolerated, GetTmFails, Abort, world, keyVars, gates
  <2> QED
    BY <2>2, <2>3, <2>4, <2>5, <2>6 DEF BootInv
<1>10. ASSUME NEW c \in HostChains, BadRpcUrl(c)
      PROVE  BootInv'
  <2>1. BootTypeOK' /\ Progressed' /\ Gated'
    BY <1>10 DEF BootInv, BootTypeOK, Progressed, Gated, Accepted, BadRpcUrl, Abort, world,
                 acpVars, keyVars, gates
  <2>2. Resolving' /\ RetriesExact'
    BY <1>10 DEF BootInv, BootTypeOK, Progressed, Resolving, RetriesExact, BadRpcUrl, Abort,
                 world, acpVars, keyVars, gates
  <2>3. Federating' /\ KeysNeedQuorum' /\ PartnersTolerated'
    BY <1>10 DEF BootInv, BootTypeOK, Progressed, Federating, KeysNeedQuorum,
                 PartnersTolerated, BadRpcUrl, Abort, world, acpVars, keyVars, gates
  <2> QED
    BY <2>1, <2>2, <2>3 DEF BootInv
<1>4. CASE resolve_acp \/ load_partner_tokens \/ MetadataToken
  <2>1. BootTypeOK' /\ Progressed' /\ Gated'
    BY <1>4 DEF BootInv, BootTypeOK, Progressed, Gated, Accepted, resolve_acp,
                load_partner_tokens, MetadataToken, Abort, Goes, world, acpVars, keyVars, gates
  <2>2. Resolving' /\ RetriesExact'
    BY <1>4 DEF BootInv, BootTypeOK, Progressed, Resolving, RetriesExact, resolve_acp,
                load_partner_tokens, MetadataToken, Abort, Goes, world, acpVars, keyVars, gates
  <2>3. Federating' /\ KeysNeedQuorum' /\ PartnersTolerated'
    BY <1>4 DEF BootInv, BootTypeOK, Progressed, Federating, KeysNeedQuorum,
                PartnersTolerated, resolve_acp, load_partner_tokens, MetadataToken, Abort, Goes,
                world, acpVars, keyVars, gates
  <2> QED
    BY <2>1, <2>2, <2>3 DEF BootInv
<1>5. ASSUME NEW p \in Partners, partner_token(p) \/ PartnerFails(p)
      PROVE  BootInv'
  <2>1. BootTypeOK' /\ Progressed' /\ Gated'
    BY <1>5 DEF BootInv, BootTypeOK, Progressed, Gated, Accepted, partner_token,
                PartnerFails, world, acpVars, gates
  <2>2. Resolving' /\ RetriesExact'
    BY <1>5 DEF BootInv, BootTypeOK, Progressed, Resolving, RetriesExact, partner_token,
                PartnerFails, world, acpVars, gates
  <2>3. Federating'
    BY <1>5 DEF BootInv, BootTypeOK, Federating, partner_token, PartnerFails
  <2>4. KeysNeedQuorum' /\ PartnersTolerated'
    BY <1>5 DEF BootInv, BootTypeOK, Progressed, KeysNeedQuorum, PartnersTolerated,
                partner_token, PartnerFails, world, acpVars, gates
  <2> QED
    BY <2>1, <2>2, <2>3, <2>4 DEF BootInv
<1>6. CASE load_keys
  <2>1. GoodShares = QuorumSet
    BY <1>6 DEF BootInv, BootTypeOK, Progressed, Federating, GoodShares, QuorumSet, load_keys
  <2>2. Cardinality(QuorumSet) \in Nat /\ dep.threshold \in Nat
    <3>1. IsFiniteSet(QuorumSet)
      BY FS_Subset DEF QuorumSet
    <3> QED
      BY <3>1, FS_CardinalityType DEF BootInv, BootTypeOK, Deployment
  <2>3. BootTypeOK' /\ Gated'
    BY <1>6 DEF BootInv, BootTypeOK, Gated, load_keys, Abort, Goes, world, acpVars, gates
  <2>4. Progressed'
    BY <1>6 DEF BootInv, BootTypeOK, Progressed, Accepted, load_keys, Abort, Goes, world,
                acpVars, gates
  <2>5. Resolving' /\ RetriesExact'
    BY <1>6 DEF BootInv, BootTypeOK, Progressed, Resolving, RetriesExact, load_keys, Abort,
                Goes, world, acpVars, gates
  <2>6. Federating'
    BY <1>6 DEF BootInv, BootTypeOK, Federating, load_keys
  <2>7. QuorumSet' = QuorumSet /\ dep' = dep
    BY <1>6 DEF QuorumSet, load_keys, world
  <2>8. /\ keys' => Cardinality(QuorumSet) >= dep.threshold
        /\ cause' = "partners" => Cardinality(QuorumSet) < dep.threshold
    <3>1. cause = "none" /\ ~keys
      BY <1>6 DEF BootInv, Progressed, load_keys
    <3>2. /\ keys' => Cardinality(GoodShares) >= dep.threshold
          /\ cause' = "partners" => ~(Cardinality(GoodShares) >= dep.threshold)
      BY <1>6, <3>1 DEF load_keys, Abort, Goes
    <3> QED
      BY <2>1, <2>2, <3>2
  <2>9. Accepted
    BY <1>6 DEF BootInv, Progressed, load_keys
  <2>10. KeysNeedQuorum' /\ PartnersTolerated'
    BY <2>7, <2>8, <2>9 DEF KeysNeedQuorum, PartnersTolerated, QuorumSet, Accepted,
                validate_threshold
  <2> QED
    BY <2>3, <2>4, <2>5, <2>6, <2>10 DEF BootInv
<1>7. CASE InstallGates \/ serve \/ Stop
  <2>1. BootTypeOK'
    BY <1>7 DEF BootInv, BootTypeOK, InstallGates, serve, Stop, Abort, Goes,
                world, acpVars, keyVars, gates, Deployment
  <2>2. Progressed' /\ Gated'
    BY <1>7 DEF BootInv, BootTypeOK, Progressed, Gated, Accepted, InstallGates, serve, Stop,
                Abort, Goes, world, acpVars, keyVars, gates
  <2>3. Resolving' /\ RetriesExact'
    BY <1>7 DEF BootInv, BootTypeOK, Progressed, Resolving, RetriesExact, InstallGates, serve,
                Stop, Abort, Goes, world, acpVars, keyVars, gates
  <2>4. UNCHANGED <<dep, share, keys, untried, tokens, failed>>
    BY <1>7 DEF InstallGates, serve, Stop, world, keyVars
  <2>5. Federating'
    BY <2>4 DEF BootInv, Federating
  <2>6. KeysNeedQuorum'
    BY <2>4 DEF BootInv, KeysNeedQuorum
  <2>7. PartnersTolerated'
    <3>1. cause' # "partners"
      BY <1>7 DEF BootInv, Progressed, InstallGates, serve, Stop, Abort, Goes
    <3> QED
      BY <3>1 DEF PartnersTolerated
  <2> QED
    BY <2>1, <2>2, <2>3, <2>5, <2>6, <2>7 DEF BootInv
<1>8. ASSUME NEW c \in HostChains, NEW a \in TaskManagers \cup {ZeroAddress, Unset},
             SetTm(c, a)
      PROVE  BootInv'
  BY <1>8 DEF BootInv, BootTypeOK, Progressed, Accepted, Resolving, RetriesExact, Federating,
              KeysNeedQuorum, PartnersTolerated, Gated, SetTm, world, acpVars, keyVars, gates
<1>9. CASE UNCHANGED bootVars
  BY <1>9 DEF BootInv, BootTypeOK, Progressed, Accepted, Resolving, RetriesExact, Federating,
              KeysNeedQuorum, PartnersTolerated, Gated, bootVars
<1> QED
  BY <1>1, <1>2, <1>3, <1>4, <1>5, <1>6, <1>7, <1>8, <1>9, <1>10
  DEF BootNext, ResolveStep, FederateStep

(* Each stage of a boot leaves behind what the later ones rely on.         *)
THEOREM BootInvariant == BootSpec => []BootInv
  BY BootInitInv, BootNextInv, PTL DEF BootSpec

(* Every variable of the boot keeps its type: in particular retries never  *)
(* exceed their number and only real addresses are taken for TaskManagers. *)
THEOREM BootTyping == BootSpec => []BootTypeOK
  BY BootInvariant, PTL DEF BootInv

(* A process that gets ready has every gate its policy turns on.           *)
THEOREM BootFailsClosed == BootSpec => []ReadyMeansGated
<1>1. BootInv => ReadyMeansGated
  <2> SUFFICES ASSUME BootInv, Ready
               PROVE  ReadyMeansGated
    BY DEF ReadyMeansGated
  <2>1. Accepted /\ pending = {} /\ stage \in {"bind", "serving", "exited"}
    BY DEF BootInv, Progressed, Ready, FromGates, FromMetadata, FromFederate, FromResolve
  <2>2. dep \in Deployment
    BY BootAssumption DEF BootInv, BootTypeOK
  <2>3. dep.require_permit => \A c \in dep.permit_chains : tm[c] \in TaskManagers
    BY <2>1 DEF BootInv, Resolving, FromGates, FromMetadata, FromFederate, FromResolve
  <2>4. /\ acp_verifier = dep.require_permit
        /\ commitment_verifier = dep.enable_commitment_verification
    BY <2>1 DEF BootInv, Gated
  <2>5. dep.enable_commitment_verification =>
          dep.cache_size > 0 /\ dep.cache_ttl > 0 /\ dep.timeout_ms > 0
    BY <2>1, <2>2, BootAssumption DEF Accepted, CommitmentConfigOk, Deployment
  <2> QED
    BY <2>1, <2>3, <2>4, <2>5, BootAssumption DEF ReadyMeansGated, Accepted, PermitChainsOk
<1> QED
  BY <1>1, BootInvariant, PTL

(* Keys are reconstructed only from a threshold of federated partners.     *)
THEOREM QuorumIsNeeded == BootSpec => []KeysNeedQuorum
  BY BootInvariant, PTL DEF BootInv

(* A chain gets exactly its retries.                                       *)
THEOREM RetriesAreExact == BootSpec => []RetriesExact
  BY BootInvariant, PTL DEF BootInv

(* A failing partner costs only its own share.                             *)
THEOREM PartnerFaultsAreTolerated == BootSpec => []PartnersTolerated
  BY BootInvariant, PTL DEF BootInv
=============================================================================
