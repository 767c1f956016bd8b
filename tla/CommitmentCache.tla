-------------------------- MODULE CommitmentCache --------------------------
(***************************************************************************)
(* The commitment verifier of src/commitment.rs: positive registry answers *)
(* are kept in an LRU cache with a time to live, shared by all requests.   *)
(*                                                                         *)
(* A lookup (fetch_commitment) consults the cache and otherwise makes one  *)
(* getCommitment call bounded by a timeout; refresh_commitment always      *)
(* calls.  The chain is read at some instant of the call and the cache is  *)
(* reconciled when the answer arrives, so lookups of several requests and  *)
(* a redeployment of the registry interleave between the two.              *)
(*                                                                         *)
(* Time is relative: a cache entry carries its age (stored_at.elapsed()),  *)
(* a call the time it has been running.  Ages stop growing at the value    *)
(* beyond which the code cannot tell them apart, so time itself needs no   *)
(* bound.                                                                  *)
(***************************************************************************)
EXTENDS Integers, SequencesExt

CONSTANTS
  Tasks,         \* the requests that look commitments up, one lookup at a time
  Handles,       \* ciphertext handles
  Chains,        \* host chain ids; part of the cache key, never sent on the wire
  Hashes,        \* non-zero commit hashes
  ZERO,          \* bytes32(0), the registry's answer for "no commitment"
  Capacity,      \* COMMITMENT_CACHE_SIZE
  TTL,           \* COMMITMENT_CACHE_TTL_SECS
  RpcTimeout,    \* the bound on one registry call
  MaxRedeploys   \* bound of the model: how often the environment is wiped

ASSUME CacheAssumption ==
  /\ ZERO \notin Hashes
  /\ Capacity \in Nat \ {0}
  /\ TTL \in Nat \ {0}
  /\ RpcTimeout \in Nat \ {0}
  /\ MaxRedeploys \in Nat
  /\ Chains # {} /\ Handles # {}

VARIABLES
  registry,      \* the registry on chain: handle -> commit hash or ZERO
  redeploys,     \* how often chain and registry were wiped so far
  cache,         \* the LruCache's map: cached keys -> [commit, age]
  lru,           \* the LruCache's order: cached keys, most recently used first
  call           \* per task: its current or last lookup

cacheVars == <<cache, lru>>
chainVars == <<registry, redeploys>>
ccVars == <<registry, redeploys, cache, lru, call>>

Keys == Chains \X Handles
Answers == Hashes \cup {ZERO}

Entry == [commit : Answers, age : 0..TTL]

(***************************************************************************)
(* A lookup: "rpc" while getCommitment has not been executed yet,          *)
(* "answered" once the chain was read, "done" when the caller has the      *)
(* result.                                                                 *)
(***************************************************************************)
Call ==
  [st : {"idle", "rpc", "answered", "done"}, key : Keys, elapsed : 0..RpcTimeout,
   ans : Answers, res : {"none", "ok", "not_found", "timeout", "transport"},
   from_cache : BOOLEAN]

CCTypeOK ==
  /\ registry \in [Handles -> Answers]
  /\ redeploys \in 0..MaxRedeploys
  /\ DOMAIN cache \subseteq Keys /\ cache \in [DOMAIN cache -> Entry]
  /\ lru \in Seq(Keys)
  /\ call \in [Tasks -> Call]

\* No lookup; k is a placeholder for the key.
Idle(k) ==
  [st |-> "idle", key |-> k, elapsed |-> 0, ans |-> ZERO, res |-> "none",
   from_cache |-> FALSE]

CCInit ==
  /\ registry = [h \in Handles |-> ZERO]
  /\ redeploys = 0
  /\ cache = [k \in {} |-> ZERO]
  /\ lru = <<>>
  /\ call = [t \in Tasks |-> Idle(CHOOSE k \in Keys : TRUE)]

-----------------------------------------------------------------------------
(* The LRU cache *)

\* get_from_cache finds an entry younger than cache_ttl.
Live(k) == k \in DOMAIN cache /\ cache[k].age < TTL

\* LruCache::get moves the entry to the front.
Touch(k) == <<k>> \o RemoveFirst(lru, k)

\* LruCache::pop, the eviction of one key.
evict_from_cache(k) ==
  /\ cache' = [j \in DOMAIN cache \ {k} |-> cache[j]]
  /\ lru' = RemoveFirst(lru, k)

\* The key LruCache::put pushes out to make room for a new one.
Victims(k) ==
  IF k \notin DOMAIN cache /\ Len(lru) >= Capacity THEN {Last(lru)} ELSE {}

\* Faulty variant: the cache is not bounded.
PutUnbounded(k, v) ==
  /\ cache' = [j \in DOMAIN cache \cup {k} |->
                 IF j = k THEN [commit |-> v, age |-> 0] ELSE cache[j]]
  /\ lru' = Touch(k)

\* LruCache::put with a fresh stored_at.
put_in_cache(k, v) ==
  /\ cache' = [j \in (DOMAIN cache \ Victims(k)) \cup {k} |->
                 IF j = k THEN [commit |-> v, age |-> 0] ELSE cache[j]]
  /\ lru' = IF k \notin DOMAIN cache /\ Len(lru) >= Capacity
            THEN <<k>> \o Front(lru)
            ELSE Touch(k)

-----------------------------------------------------------------------------
(* Lookups *)

MayLookUp(t) == call[t].st \in {"idle", "done"}

Calling(k) ==
  [st |-> "rpc", key |-> k, elapsed |-> 0, ans |-> ZERO, res |-> "none",
   from_cache |-> FALSE]

\* A lookup the cache answers.
Hit(k) ==
  [st |-> "done", key |-> k, elapsed |-> 0, ans |-> cache[k].commit, res |-> "ok",
   from_cache |-> TRUE]

Finished(c, result) == [c EXCEPT !.st = "done", !.res = result, !.elapsed = 0]

\* Faulty variant: a hit restamps the entry, so the TTL slides.
FetchSlidingTtl(t, k) ==
  /\ MayLookUp(t)
  /\ \/ /\ Live(k)
        /\ lru' = Touch(k)
        /\ cache' = [cache EXCEPT ![k].age = 0]
        /\ call' = [call EXCEPT ![t] = Hit(k)]
     \/ /\ ~Live(k)
        /\ evict_from_cache(k)
        /\ call' = [call EXCEPT ![t] = Calling(k)]
  /\ UNCHANGED chainVars

\* Faulty variant: an expired entry is reported as a missing commitment.
FetchExpiredIsAbsent(t, k) ==
  /\ MayLookUp(t)
  /\ evict_from_cache(k)
  /\ call' = [call EXCEPT ![t] =
                IF k \in DOMAIN cache THEN Finished(Calling(k), "not_found") ELSE Calling(k)]
  /\ UNCHANGED chainVars

\* The fast path: a live entry is served and touched; an expired one is
\* dropped, and like an absent one makes the caller read the registry.
fetch_commitment(t, k) ==
  /\ MayLookUp(t)
  /\ \/ /\ Live(k)
        /\ lru' = Touch(k)
        /\ call' = [call EXCEPT ![t] = Hit(k)]
        /\ UNCHANGED cache
     \/ /\ ~Live(k)
        /\ evict_from_cache(k)
        /\ call' = [call EXCEPT ![t] = Calling(k)]
  /\ UNCHANGED chainVars

\* The same without the fast path.
refresh_commitment(t, k) ==
  /\ MayLookUp(t)
  /\ call' = [call EXCEPT ![t] = Calling(k)]
  /\ UNCHANGED <<cacheVars, chainVars>>

\* The registry node executes the eth_call.
getCommitment(t) ==
  /\ call[t].st = "rpc"
  /\ call' = [call EXCEPT ![t].st = "answered", ![t].ans = registry[call[t].key[2]]]
  /\ UNCHANGED <<cacheVars, chainVars>>

\* Faulty variant: absent answers are cached too.
ReconcileCachesAbsent(t) ==
  /\ call[t].st = "answered"
  /\ put_in_cache(call[t].key, call[t].ans)
  /\ call' = [call EXCEPT ![t] =
                Finished(@, IF @.ans = ZERO THEN "not_found" ELSE "ok")]
  /\ UNCHANGED chainVars

\* The answer reaches refresh_commitment, which reconciles the cache with it.
Reconcile(t) ==
  /\ call[t].st = "answered"
  /\ \/ /\ call[t].ans # ZERO
        /\ put_in_cache(call[t].key, call[t].ans)
        /\ call' = [call EXCEPT ![t] = Finished(@, "ok")]
     \/ /\ call[t].ans = ZERO
        /\ evict_from_cache(call[t].key)
        /\ call' = [call EXCEPT ![t] = Finished(@, "not_found")]
  /\ UNCHANGED chainVars

InFlight(t) == call[t].st \in {"rpc", "answered"}

\* Transport or decode failure, before or after the node read the chain.
CallFails(t) ==
  /\ InFlight(t)
  /\ call' = [call EXCEPT ![t] = Finished([@ EXCEPT !.ans = ZERO], "transport")]
  /\ UNCHANGED <<cacheVars, chainVars>>

\* Faulty variant: calls have no timeout.
CallNeverTimesOut(t) ==
  /\ InFlight(t)
  /\ call[t].elapsed > RpcTimeout
  /\ call' = [call EXCEPT ![t] = Finished(@, "timeout")]
  /\ UNCHANGED <<cacheVars, chainVars>>

\* tokio::time::timeout fires.
CallTimesOut(t) ==
  /\ InFlight(t)
  /\ call[t].elapsed = RpcTimeout
  /\ call' = [call EXCEPT ![t] = Finished([@ EXCEPT !.ans = ZERO], "timeout")]
  /\ UNCHANGED <<cacheVars, chainVars>>

\* The request is dropped (client disconnect): its lookup dies with it, and
\* an answer under way reconciles nothing.
Abandon(t) ==
  /\ call' = [call EXCEPT ![t] = Idle(@.key)]
  /\ UNCHANGED <<cacheVars, chainVars>>

-----------------------------------------------------------------------------
(* The registry chain and time *)

\* The poster lands a commitment; the registry is write-once.
PostCommitment(h, v) ==
  /\ registry[h] = ZERO
  /\ registry' = [registry EXCEPT ![h] = v]
  /\ UNCHANGED <<redeploys, cacheVars, call>>

\* A non-production environment is wiped: the registry starts empty again.
Redeploy ==
  /\ redeploys < MaxRedeploys
  /\ redeploys' = redeploys + 1
  /\ registry' = [h \in Handles |-> ZERO]
  /\ UNCHANGED <<cacheVars, call>>

Older(n, limit) == IF n < limit THEN n + 1 ELSE limit

\* One unit of time passes.  No call runs past its timeout.
Tick ==
  /\ \A t \in Tasks : InFlight(t) => call[t].elapsed < RpcTimeout
  /\ cache' = [k \in DOMAIN cache |-> [cache[k] EXCEPT !.age = Older(@, TTL)]]
  /\ call' = [t \in Tasks |->
                IF InFlight(t) THEN [call[t] EXCEPT !.elapsed = @ + 1] ELSE call[t]]
  /\ UNCHANGED <<registry, redeploys, lru>>

-----------------------------------------------------------------------------
CallStep(t) ==
  \/ getCommitment(t)
  \/ Reconcile(t)
  \/ CallFails(t)
  \/ CallTimesOut(t)

CCNext ==
  \/ \E t \in Tasks :
       \/ \E k \in Keys : fetch_commitment(t, k) \/ refresh_commitment(t, k)
       \/ CallStep(t)
       \/ InFlight(t) /\ Abandon(t)
  \/ \E h \in Handles, v \in Hashes : PostCommitment(h, v)
  \/ Redeploy
  \/ Tick

\* The timer always fires (tokio), and a ready future is eventually polled.
\* Nothing is assumed of the registry node: a call may end by its timeout.
CCFairness ==
  /\ WF_ccVars(Tick)
  /\ \A t \in Tasks : WF_ccVars(CallTimesOut(t)) /\ WF_ccVars(Reconcile(t))

CCSpec == CCInit /\ [][CCNext]_ccVars

-----------------------------------------------------------------------------
(* Properties *)

(* The LRU order lists exactly the cached keys, each once, and the cache   *)
(* never outgrows COMMITMENT_CACHE_SIZE, whatever mix of hits, expiries,   *)
(* evictions and re-reads the requests produce.                            *)
CacheWellFormed ==
  /\ \A i, j \in 1..Len(lru) : lru[i] = lru[j] => i = j
  /\ ToSet(lru) = DOMAIN cache
  /\ Len(lru) <= Capacity

(* As long as the environment was never redeployed, the cache is never     *)
(* wrong: every entry, live or expired, and every answer handed to a       *)
(* request is the hash the registry holds now.                             *)
CacheAgreesWithRegistry ==
  redeploys = 0 =>
    /\ \A k \in DOMAIN cache : cache[k].commit = registry[k[2]]
    /\ \A t \in Tasks :
         call[t].st = "done" /\ call[t].res = "ok" =>
           call[t].ans = registry[call[t].key[2]]

(* A live entry leaves the cache only because the registry said its own    *)
(* handle has no commitment, or because a positive answer for another key  *)
(* needed its slot while it was the least recently used: lookups of absent *)
(* handles cannot push warm entries out.                                   *)
WarmEntriesSurvive ==
  [][\A k \in Keys :
       Live(k) /\ k \notin DOMAIN cache' =>
         \/ \E t \in Tasks : /\ call[t].st = "answered"
                             /\ call[t].key = k
                             /\ call[t].ans = ZERO
         \/ /\ k = Last(lru)
            /\ Len(lru) = Capacity
            /\ \E j \in DOMAIN cache' \ DOMAIN cache : cache'[j].commit # ZERO]_ccVars

(* Every lookup ends: the caller is answered or gone, even when the        *)
(* registry never replies.                                                 *)
LookupEnds == \A t \in Tasks : InFlight(t) ~> ~InFlight(t)

(* The environment is wiped finitely often; from some point on no live     *)
(* entry disagrees with the registry, whether or not anyone reads it.      *)
LiveEntriesAgree == \A k \in DOMAIN cache : Live(k) => cache[k].commit = registry[k[2]]
StaleEntriesDie == <>[]LiveEntriesAgree

(* SECURITY-OVERVIEW.md on the gate: a positive result is cached           *)
(* permanently.  Stated for a cache with room for every key.               *)
PositivesPermanent == [][DOMAIN cache \subseteq DOMAIN cache']_ccVars
=============================================================================
