----------------------- MODULE CommitmentCacheProofs -----------------------
(***************************************************************************)
(* CommitmentCache is proved here for any number of requests, handles and  *)
(* chains, any capacity, time to live and timeout; and CommitmentStaleness *)
(* after it: how stale a served commitment can be, and that none is        *)
(* overlooked, for every number of redeployments.                          *)
(***************************************************************************)
EXTENDS CommitmentStaleness, SequenceLemmas

\* The cache's own state: typed, and map and order agree.
CacheOK ==
  /\ DOMAIN cache \subseteq Keys /\ cache \in [DOMAIN cache -> Entry]
  /\ lru \in Seq(Keys)
  /\ CacheWellFormed

(* Evicting a key (LruCache::pop) takes it out of map and order alike.     *)
LEMMA EvictKeepsCacheOK ==
  ASSUME CacheOK, NEW k \in Keys, evict_from_cache(k)
  PROVE  /\ CacheOK'
         /\ DOMAIN cache' = DOMAIN cache \ {k}
         /\ \A j \in DOMAIN cache' : cache'[j] = cache[j]
<1>1. /\ DOMAIN cache' = DOMAIN cache \ {k}
      /\ cache' \in [DOMAIN cache' -> Entry]
      /\ \A j \in DOMAIN cache' : cache'[j] = cache[j]
  BY DEF CacheOK, evict_from_cache
<1>2. Distinct(lru) /\ ToSet(lru) = DOMAIN cache /\ Len(lru) <= Capacity /\ Len(lru) \in Nat
  BY ToSetRange DEF CacheOK, CacheWellFormed, Distinct
<1>3. /\ lru' \in Seq(Keys) /\ Len(lru') <= Len(lru) /\ Len(lru') \in Nat
      /\ Distinct(lru') /\ ToSet(lru') = ToSet(lru) \ {k}
  BY <1>2, RemoveFirstDistinct, ToSetRange DEF CacheOK, evict_from_cache
<1>4. Len(lru') <= Capacity
  BY <1>2, <1>3, CacheAssumption
<1> QED
  BY <1>1, <1>2, <1>3, <1>4 DEF CacheOK, CacheWellFormed, Distinct

(* Moving a cached key to the front changes neither the keys nor their     *)
(* number.                                                                 *)
LEMMA TouchKeepsOrder ==
  ASSUME CacheOK, NEW k \in Keys
  PROVE  /\ Touch(k) \in Seq(Keys)
         /\ Distinct(Touch(k))
         /\ ToSet(Touch(k)) = DOMAIN cache \cup {k}
         /\ Len(Touch(k)) = IF k \in DOMAIN cache THEN Len(lru) ELSE Len(lru) + 1
<1> DEFINE r == RemoveFirst(lru, k)
<1>1. Distinct(lru) /\ ToSet(lru) = DOMAIN cache /\ Len(lru) \in Nat
  BY ToSetRange DEF CacheOK, CacheWellFormed, Distinct
<1>2. /\ r \in Seq(Keys) /\ Distinct(r) /\ ToSet(r) = DOMAIN cache \ {k}
      /\ k \in DOMAIN cache => Len(r) = Len(lru) - 1
  BY <1>1, RemoveFirstDistinct DEF CacheOK
<1>3. k \notin DOMAIN cache => r = lru
  <2> SUFFICES ASSUME k \notin DOMAIN cache
               PROVE  r = lru
    OBVIOUS
  <2>1. ~ \E i \in 1..Len(lru) : lru[i] = k
    BY <1>1, ToSetRange DEF CacheOK
  <2> QED
    BY <2>1 DEF RemoveFirst
<1> HIDE DEF r
<1>4. /\ <<k>> \o r \in Seq(Keys)
      /\ Len(<<k>> \o r) = Len(r) + 1
      /\ ToSet(<<k>> \o r) = ToSet(r) \cup {k}
      /\ Distinct(<<k>> \o r)
  BY <1>2, ConsDistinct
<1>5. Len(<<k>> \o r) = IF k \in DOMAIN cache THEN Len(lru) ELSE Len(lru) + 1
  BY <1>1, <1>2, <1>3, <1>4
<1> QED
  BY <1>2, <1>4, <1>5 DEF Touch, r

(* Storing an answer (LruCache::put) keeps the cache within its capacity   *)
(* and evicts nothing but the least recently used key.                     *)
LEMMA PutKeepsCacheOK ==
  ASSUME CacheOK, NEW k \in Keys, NEW v \in Answers, put_in_cache(k, v)
  PROVE  /\ CacheOK'
         /\ DOMAIN cache' = (DOMAIN cache \ Victims(k)) \cup {k}
         /\ cache'[k] = [commit |-> v, age |-> 0]
         /\ \A j \in DOMAIN cache' : j # k => j \in DOMAIN cache /\ cache'[j] = cache[j]
<1> DEFINE new == [commit |-> v, age |-> 0]
<1>1. new \in Entry
  BY CacheAssumption DEF Entry
<1>2. /\ DOMAIN cache' = (DOMAIN cache \ Victims(k)) \cup {k}
      /\ cache'[k] = new
      /\ \A j \in DOMAIN cache' : j # k => j \in DOMAIN cache /\ cache'[j] = cache[j]
      /\ cache' = [j \in DOMAIN cache' |-> cache'[j]]
  BY DEF put_in_cache
<1>3. DOMAIN cache' \subseteq Keys
  BY <1>2 DEF CacheOK
<1>4. cache' \in [DOMAIN cache' -> Entry]
  <2> SUFFICES ASSUME NEW j \in DOMAIN cache'
               PROVE  cache'[j] \in Entry
    BY <1>2
  <2> QED
    BY <1>1, <1>2 DEF CacheOK
<1>5. Distinct(lru) /\ ToSet(lru) = DOMAIN cache /\ Len(lru) <= Capacity /\ Len(lru) \in Nat
  BY ToSetRange DEF CacheOK, CacheWellFormed, Distinct
<1>6. /\ lru' \in Seq(Keys)
      /\ Distinct(lru')
      /\ ToSet(lru') = DOMAIN cache'
      /\ Len(lru') <= Capacity
  <2>1. CASE k \notin DOMAIN cache /\ Len(lru) >= Capacity
    <3> DEFINE f == Front(lru)
    <3>1. Victims(k) = {Last(lru)} /\ lru' = <<k>> \o f
      BY <2>1 DEF Victims, put_in_cache
    <3>2. Len(lru) > 0
      BY <2>1, <1>5, CacheAssumption
    <3>3. /\ f \in Seq(Keys) /\ Len(f) = Len(lru) - 1
          /\ Distinct(f) /\ ToSet(f) = DOMAIN cache \ {Last(lru)}
      BY <3>2, <1>5, FrontDistinct DEF CacheOK
    <3> HIDE DEF f
    <3>4. k \notin ToSet(f)
      BY <2>1, <3>3
    <3>5. /\ <<k>> \o f \in Seq(Keys) /\ Len(<<k>> \o f) = Len(f) + 1
          /\ Distinct(<<k>> \o f) /\ ToSet(<<k>> \o f) = ToSet(f) \cup {k}
      BY <3>3, <3>4, ConsDistinct
    <3>6. Len(lru') <= Capacity
      BY <3>1, <3>3, <3>5, <1>5
    <3>7. ToSet(lru') = DOMAIN cache'
      <4>1. DOMAIN cache' = (DOMAIN cache \ Victims(k)) \cup {k}
        BY <1>2
      <4> QED
        BY <3>1, <3>3, <3>5, <4>1
    <3> QED
      BY <3>1, <3>5, <3>6, <3>7
  <2>2. CASE ~(k \notin DOMAIN cache /\ Len(lru) >= Capacity)
    <3>1. Victims(k) = {} /\ lru' = Touch(k)
      BY <2>2 DEF Victims, put_in_cache
    <3>2. /\ Touch(k) \in Seq(Keys) /\ Distinct(Touch(k))
          /\ ToSet(Touch(k)) = DOMAIN cache \cup {k}
          /\ Len(Touch(k)) = IF k \in DOMAIN cache THEN Len(lru) ELSE Len(lru) + 1
      BY TouchKeepsOrder
    <3>3. Len(Touch(k)) <= Capacity
      BY <2>2, <3>2, <1>5, CacheAssumption
    <3> QED
      BY <3>1, <3>2, <3>3, <1>2
  <2> QED
    BY <2>1, <2>2
<1> QED
  BY <1>2, <1>3, <1>4, <1>6 DEF CacheOK, CacheWellFormed, Distinct

-----------------------------------------------------------------------------
(* The inductive invariant *)

\* Absent answers are never cached.
OnlyPositives == \A k \in DOMAIN cache : cache[k].commit # ZERO

\* Without a wipe, a positive answer on its way is what the registry holds.
AnswersAgree ==
  redeploys = 0 =>
    \A t \in Tasks :
      call[t].st = "answered" /\ call[t].ans # ZERO =>
        call[t].ans = registry[call[t].key[2]]

\* A lookup that ended has a result, and one that ended well a hash.
EndsWithResult ==
  \A t \in Tasks :
    call[t].st = "done" =>
      /\ call[t].res # "none"
      /\ call[t].res = "ok" => call[t].ans # ZERO

CCInv ==
  /\ CCTypeOK
  /\ CacheWellFormed
  /\ OnlyPositives
  /\ AnswersAgree
  /\ EndsWithResult
  /\ CacheAgreesWithRegistry

\* The empty cache satisfies the invariant.
LEMMA CCInitInv == CCInit => CCInv
<1> SUFFICES ASSUME CCInit
             PROVE  CCInv
  OBVIOUS
<1> DEFINE k0 == CHOOSE k \in Keys : TRUE
<1>1. k0 \in Keys
  <2>1. PICK c \in Chains, h \in Handles : TRUE
    BY CacheAssumption
  <2>2. <<c, h>> \in Keys
    BY DEF Keys
  <2> QED
    BY <2>2
<1> HIDE DEF k0
<1>2. Idle(k0) \in Call
  BY <1>1, CacheAssumption DEF Idle, Call, Answers
<1>3. call = [t \in Tasks |-> Idle(k0)]
  BY DEF CCInit, k0
<1>4. DOMAIN cache = {} /\ cache \in [{} -> Entry]
  BY DEF CCInit
<1>5. CCTypeOK
  BY <1>2, <1>3, <1>4, CacheAssumption DEF CCInit, CCTypeOK, Answers
<1>6. CacheWellFormed
  BY <1>4, CacheAssumption DEF CCInit, CacheWellFormed, ToSet
<1>7. \A t \in Tasks : call[t].st = "idle"
  BY <1>3 DEF Idle
<1> QED
  BY <1>4, <1>5, <1>6, <1>7
     DEF CCInv, OnlyPositives, AnswersAgree, EndsWithResult, CacheAgreesWithRegistry

(* The steps of a lookup, one lemma each.  fetch_commitment serves a live  *)
(* entry, which agrees with the registry, or starts a call.                *)
LEMMA FetchStep ==
  ASSUME CCInv, NEW t \in Tasks, NEW k \in Keys, fetch_commitment(t, k)
  PROVE  CCInv'
<1>1. CacheOK /\ call \in [Tasks -> Call]
  BY DEF CCInv, CCTypeOK, CacheOK
<1>2. UNCHANGED <<registry, redeploys>>
  BY DEF fetch_commitment, chainVars
<1>3. CASE Live(k) /\ lru' = Touch(k) /\ UNCHANGED cache
         /\ call' = [call EXCEPT ![t] = Hit(k)]
  <2> DEFINE new == Hit(k)
  <2>1. k \in DOMAIN cache /\ cache[k] \in Entry
    BY <1>1, <1>3 DEF Live, CacheOK
  <2>2. /\ new \in Call /\ new.st = "done" /\ new.key = k /\ new.res = "ok"
        /\ new.ans = cache[k].commit
    BY <2>1, CacheAssumption DEF Hit, Call, Entry
  <2> HIDE DEF new
  <2>3. call' = [call EXCEPT ![t] = new]
    BY <1>3 DEF new
  <2>4. CacheOK'
    <3>1. /\ lru' \in Seq(Keys) /\ Distinct(lru') /\ ToSet(lru') = DOMAIN cache
          /\ Len(lru') = Len(lru)
      BY <1>1, <1>3, <2>1, TouchKeepsOrder
    <3> QED
      BY <1>1, <1>3, <3>1 DEF CacheOK, CacheWellFormed, Distinct
  <2>5. CCTypeOK' /\ CacheWellFormed'
    BY <1>1, <1>2, <2>2, <2>3, <2>4 DEF CCInv, CCTypeOK, CacheOK
  <2>6. OnlyPositives' /\ AnswersAgree' /\ EndsWithResult' /\ CacheAgreesWithRegistry'
    BY <1>1, <1>2, <1>3, <2>1, <2>2, <2>3
       DEF CCInv, OnlyPositives, AnswersAgree, EndsWithResult, CacheAgreesWithRegistry
  <2> QED
    BY <2>5, <2>6 DEF CCInv
<1>4. CASE evict_from_cache(k) /\ call' = [call EXCEPT ![t] = Calling(k)]
  <2>1. Calling(k) \in Call /\ Calling(k).st = "rpc"
    BY CacheAssumption DEF Calling, Call, Answers
  <2>2. /\ CacheOK' /\ DOMAIN cache' = DOMAIN cache \ {k}
        /\ \A j \in DOMAIN cache' : cache'[j] = cache[j]
    BY <1>1, <1>4, EvictKeepsCacheOK
  <2>3. CCTypeOK' /\ CacheWellFormed'
    BY <1>1, <1>2, <1>4, <2>1, <2>2 DEF CCInv, CCTypeOK, CacheOK
  <2>4. OnlyPositives' /\ AnswersAgree' /\ EndsWithResult' /\ CacheAgreesWithRegistry'
    BY <1>1, <1>2, <1>4, <2>1, <2>2
       DEF CCInv, OnlyPositives, AnswersAgree, EndsWithResult, CacheAgreesWithRegistry
  <2> QED
    BY <2>3, <2>4 DEF CCInv
<1> QED
  BY <1>3, <1>4 DEF fetch_commitment

\* Steps that leave cache and registry alone and give one task a new call.
CallBecomes(t, c) ==
  /\ call' = [call EXCEPT ![t] = c]
  /\ UNCHANGED <<registry, redeploys, cache, lru>>

(* Such a step keeps the invariant if the new call is a correct one.       *)
LEMMA CallBecomesStep ==
  ASSUME CCInv, NEW t \in Tasks, NEW c \in Call, CallBecomes(t, c),
         c.st = "answered" => c.ans = registry[c.key[2]],
         c.st = "done" => c.res \notin {"none", "ok"}
  PROVE  CCInv'
<1>1. call \in [Tasks -> Call]
  BY DEF CCInv, CCTypeOK
<1>2. CCTypeOK' /\ CacheWellFormed'
  BY <1>1 DEF CCInv, CCTypeOK, CacheWellFormed, CallBecomes
<1>3. OnlyPositives' /\ AnswersAgree' /\ EndsWithResult' /\ CacheAgreesWithRegistry'
  BY <1>1 DEF CCInv, OnlyPositives, AnswersAgree, EndsWithResult, CacheAgreesWithRegistry,
              CallBecomes
<1> QED
  BY <1>2, <1>3 DEF CCInv

(* Ending a call keeps its key and its answer.                             *)
LEMMA FinishedType ==
  ASSUME NEW c \in Call, NEW result \in {"none", "ok", "not_found", "timeout", "transport"}
  PROVE  /\ Finished(c, result) \in Call
         /\ Finished(c, result).st = "done" /\ Finished(c, result).res = result
         /\ Finished(c, result).key = c.key /\ Finished(c, result).ans = c.ans
<1>1. 0 \in 0..RpcTimeout
  BY CacheAssumption
<1>2. Finished(c, result) \in Call
  BY <1>1 DEF Finished, Call
<1> QED
  BY <1>2 DEF Finished, Call

(* Reconcile stores a positive answer and evicts on an absent one.         *)
LEMMA ReconcileStep ==
  ASSUME CCInv, NEW t \in Tasks, Reconcile(t)
  PROVE  CCInv'
<1> DEFINE k == call[t].key
           v == call[t].ans
<1>1. /\ CacheOK /\ call \in [Tasks -> Call] /\ call[t] \in Call
      /\ k \in Keys /\ v \in Answers /\ call[t].st = "answered"
  BY DEF CCInv, CCTypeOK, CacheOK, Call, Reconcile
<1>2. UNCHANGED <<registry, redeploys>>
  BY DEF Reconcile, chainVars
<1>3. CASE v # ZERO /\ put_in_cache(k, v)
         /\ call' = [call EXCEPT ![t] = Finished(@, "ok")]
  <2> DEFINE new == Finished(call[t], "ok")
  <2>1. /\ new \in Call /\ new.st = "done" /\ new.res = "ok"
        /\ new.key = k /\ new.ans = v
    BY <1>1, FinishedType
  <2>2. call' = [call EXCEPT ![t] = new]
    BY <1>3
  <2> HIDE DEF new
  <2>3. /\ CacheOK'
        /\ k \in DOMAIN cache' /\ cache'[k].commit = v
        /\ \A j \in DOMAIN cache' : j # k => j \in DOMAIN cache /\ cache'[j] = cache[j]
    <3> HIDE DEF k, v
    <3>1. /\ CacheOK'
          /\ DOMAIN cache' = (DOMAIN cache \ Victims(k)) \cup {k}
          /\ cache'[k] = [commit |-> v, age |-> 0]
          /\ \A j \in DOMAIN cache' : j # k => j \in DOMAIN cache /\ cache'[j] = cache[j]
      BY <1>1, <1>3, PutKeepsCacheOK
    <3> QED
      BY <3>1
  <2>4. CCTypeOK' /\ CacheWellFormed'
    BY <1>1, <1>2, <2>1, <2>2, <2>3 DEF CCInv, CCTypeOK, CacheOK
  <2>5. redeploys = 0 => v = registry[k[2]]
    BY <1>1, <1>3 DEF CCInv, AnswersAgree
  <2>6. OnlyPositives' /\ EndsWithResult'
    BY <1>1, <1>3, <2>1, <2>2, <2>3 DEF CCInv, OnlyPositives, EndsWithResult
  <2>7. AnswersAgree' /\ CacheAgreesWithRegistry'
    BY <1>1, <1>2, <2>1, <2>2, <2>3, <2>5
       DEF CCInv, AnswersAgree, CacheAgreesWithRegistry
  <2> QED
    BY <2>4, <2>6, <2>7 DEF CCInv
<1>4. CASE v = ZERO /\ evict_from_cache(k)
         /\ call' = [call EXCEPT ![t] = Finished(@, "not_found")]
  <2> DEFINE new == Finished(call[t], "not_found")
  <2>1. new \in Call /\ new.st = "done" /\ new.res = "not_found"
    BY <1>1, FinishedType
  <2>2. call' = [call EXCEPT ![t] = new]
    BY <1>4
  <2> HIDE DEF new
  <2>3. /\ CacheOK' /\ DOMAIN cache' = DOMAIN cache \ {k}
        /\ \A j \in DOMAIN cache' : cache'[j] = cache[j]
    BY <1>1, <1>4, EvictKeepsCacheOK
  <2>4. CCTypeOK' /\ CacheWellFormed'
    BY <1>1, <1>2, <2>1, <2>2, <2>3 DEF CCInv, CCTypeOK, CacheOK
  <2>5. OnlyPositives' /\ AnswersAgree' /\ EndsWithResult' /\ CacheAgreesWithRegistry'
    BY <1>1, <1>2, <2>1, <2>2, <2>3
       DEF CCInv, OnlyPositives, AnswersAgree, EndsWithResult, CacheAgreesWithRegistry
  <2> QED
    BY <2>4, <2>5 DEF CCInv
<1> QED
  BY <1>3, <1>4 DEF Reconcile

(* A commitment lands: no positive entry or answer is for that handle, for *)
(* they would agree with the registry, which holds none.                   *)
LEMMA PostStep ==
  ASSUME CCInv, NEW h \in Handles, NEW v \in Hashes, PostCommitment(h, v)
  PROVE  CCInv'
<1>1. /\ registry \in [Handles -> Answers] /\ registry[h] = ZERO
      /\ registry' = [registry EXCEPT ![h] = v]
      /\ UNCHANGED <<redeploys, cache, lru, call>>
      /\ call \in [Tasks -> Call] /\ DOMAIN cache \subseteq Keys
  BY DEF CCInv, CCTypeOK, PostCommitment, cacheVars
<1>2. CCTypeOK' /\ CacheWellFormed' /\ OnlyPositives' /\ EndsWithResult'
  BY <1>1 DEF CCInv, CCTypeOK, CacheWellFormed, OnlyPositives, EndsWithResult, Answers
<1>3. \A k \in Keys : k[2] \in Handles
  BY DEF Keys
<1>4. \A t \in Tasks : call[t].key[2] \in Handles
  BY <1>1, <1>3 DEF Call
<1>5. AnswersAgree'
  BY <1>1, <1>4 DEF CCInv, AnswersAgree
<1>6. CacheAgreesWithRegistry'
  BY <1>1, <1>3, <1>4 DEF CCInv, OnlyPositives, EndsWithResult, CacheAgreesWithRegistry
<1> QED
  BY <1>2, <1>5, <1>6 DEF CCInv

(* Time passes: ages grow, hashes do not change.                           *)
LEMMA TickStep ==
  ASSUME CCInv, Tick
  PROVE  CCInv'
<1>1. /\ cache \in [DOMAIN cache -> Entry] /\ call \in [Tasks -> Call]
      /\ cache' = [k \in DOMAIN cache |-> [cache[k] EXCEPT !.age = Older(@, TTL)]]
      /\ UNCHANGED <<registry, redeploys, lru>>
  BY DEF CCInv, CCTypeOK, Tick
<1>2. ASSUME NEW k \in DOMAIN cache
      PROVE  cache'[k] \in Entry /\ cache'[k].commit = cache[k].commit
  <2>1. cache[k].age \in 0..TTL /\ cache[k] \in Entry
    BY <1>1 DEF Entry
  <2>2. Older(cache[k].age, TTL) \in 0..TTL
    BY <2>1, CacheAssumption DEF Older
  <2> QED
    BY <1>1, <2>1, <2>2 DEF Entry
<1>3. DOMAIN cache' = DOMAIN cache /\ cache' \in [DOMAIN cache' -> Entry]
  BY <1>1, <1>2
<1>4. ASSUME NEW t \in Tasks
      PROVE  /\ call'[t] \in Call /\ call'[t].st = call[t].st
             /\ call'[t].key = call[t].key /\ call'[t].ans = call[t].ans
             /\ call'[t].res = call[t].res
  <2>1. call[t] \in Call /\ call[t].elapsed \in 0..RpcTimeout
    BY <1>1 DEF Call
  <2>2. CASE InFlight(t)
    <3>1. call[t].elapsed + 1 \in 0..RpcTimeout
      BY <2>1, <2>2, CacheAssumption DEF Tick
    <3>2. call'[t] = [call[t] EXCEPT !.elapsed = @ + 1]
      BY <2>2 DEF Tick
    <3> QED
      BY <2>1, <3>1, <3>2 DEF Call
  <2>3. CASE ~InFlight(t)
    BY <2>1, <2>3 DEF Tick
  <2> QED
    BY <2>2, <2>3
<1>5. call' \in [Tasks -> Call]
  BY <1>4 DEF Tick
<1>6. CCTypeOK' /\ CacheWellFormed'
  BY <1>1, <1>3, <1>5 DEF CCInv, CCTypeOK, CacheWellFormed
<1>7. OnlyPositives' /\ AnswersAgree' /\ EndsWithResult' /\ CacheAgreesWithRegistry'
  BY <1>1, <1>2, <1>3, <1>4
     DEF CCInv, OnlyPositives, AnswersAgree, EndsWithResult, CacheAgreesWithRegistry
<1> QED
  BY <1>6, <1>7 DEF CCInv

(* Every step of the cache, of a lookup, of the registry and of time keeps *)
(* the invariant.                                                          *)
LEMMA CCNextInv == CCInv /\ [CCNext]_ccVars => CCInv'
<1> SUFFICES ASSUME CCInv, [CCNext]_ccVars
             PROVE  CCInv'
  OBVIOUS
<1>1. call \in [Tasks -> Call] /\ \A t \in Tasks : call[t] \in Call
  BY DEF CCInv, CCTypeOK
<1>2. ASSUME NEW t \in Tasks, NEW k \in Keys, fetch_commitment(t, k)
      PROVE  CCInv'
  BY <1>2, FetchStep
<1>3. ASSUME NEW t \in Tasks, NEW k \in Keys, refresh_commitment(t, k)
      PROVE  CCInv'
  <2>1. Calling(k) \in Call /\ Calling(k).st = "rpc"
    BY CacheAssumption DEF Calling, Call, Answers
  <2>2. CallBecomes(t, Calling(k))
    BY <1>3 DEF refresh_commitment, CallBecomes, cacheVars, chainVars
  <2> QED
    BY <2>1, <2>2, CallBecomesStep
<1>4. ASSUME NEW t \in Tasks, getCommitment(t)
      PROVE  CCInv'
  <2> DEFINE c == [call[t] EXCEPT !.st = "answered", !.ans = registry[call[t].key[2]]]
  <2>1. registry[call[t].key[2]] \in Answers
    BY <1>1 DEF CCInv, CCTypeOK, Call, Keys
  <2>2. c \in Call /\ c.st = "answered" /\ c.ans = registry[c.key[2]]
    BY <1>1, <2>1 DEF Call
  <2>3. CallBecomes(t, c)
    BY <1>4, <1>1 DEF getCommitment, CallBecomes, cacheVars, chainVars
  <2> HIDE DEF c
  <2> QED
    BY <2>2, <2>3, CallBecomesStep
<1>5. ASSUME NEW t \in Tasks, Reconcile(t)
      PROVE  CCInv'
  BY <1>5, ReconcileStep
<1>6. ASSUME NEW t \in Tasks, NEW result \in {"timeout", "transport"},
             call' = [call EXCEPT ![t] = Finished([@ EXCEPT !.ans = ZERO], result)],
             UNCHANGED <<registry, redeploys, cache, lru>>
      PROVE  CCInv'
  <2> DEFINE c == [call[t] EXCEPT !.ans = ZERO]
             d == Finished(c, result)
  <2>1. c \in Call
    BY <1>1 DEF Call, Answers
  <2>2. d \in Call /\ d.st = "done" /\ d.res = result
    <3> HIDE DEF c
    <3> QED
      BY <2>1, FinishedType
  <2>3. CallBecomes(t, d)
    BY <1>6, <1>1 DEF CallBecomes
  <2> HIDE DEF d
  <2> QED
    BY <2>2, <2>3, CallBecomesStep
<1>7. ASSUME NEW t \in Tasks, Abandon(t)
      PROVE  CCInv'
  <2>1. Idle(call[t].key) \in Call /\ Idle(call[t].key).st = "idle"
    BY <1>1, CacheAssumption DEF Idle, Call, Answers
  <2>2. CallBecomes(t, Idle(call[t].key))
    BY <1>7, <1>1 DEF Abandon, CallBecomes, cacheVars, chainVars
  <2> QED
    BY <2>1, <2>2, CallBecomesStep
<1>8. ASSUME NEW h \in Handles, NEW v \in Hashes, PostCommitment(h, v)
      PROVE  CCInv'
  BY <1>8, PostStep
<1>9. ASSUME Redeploy
      PROVE  CCInv'
  <2>1. redeploys' \in 0..MaxRedeploys /\ redeploys' # 0
    BY <1>9, CacheAssumption DEF Redeploy, CCInv, CCTypeOK
  <2>2. CCTypeOK' /\ CacheWellFormed' /\ OnlyPositives' /\ EndsWithResult'
    BY <1>9, <2>1 DEF Redeploy, cacheVars, CCInv, CCTypeOK, CacheWellFormed,
                      OnlyPositives, EndsWithResult, Answers
  <2> QED
    BY <2>1, <2>2 DEF CCInv, AnswersAgree, CacheAgreesWithRegistry
<1>10. ASSUME Tick
       PROVE  CCInv'
  BY <1>10, TickStep
<1>11. ASSUME UNCHANGED ccVars
       PROVE  CCInv'
  BY <1>11 DEF ccVars, CCInv, CCTypeOK, CacheWellFormed, OnlyPositives, AnswersAgree,
               EndsWithResult, CacheAgreesWithRegistry
<1>12. ASSUME NEW t \in Tasks, CallFails(t) \/ CallTimesOut(t)
       PROVE  CCInv'
  BY <1>12, <1>6 DEF CallFails, CallTimesOut, cacheVars, chainVars
<1> QED
  BY <1>2, <1>3, <1>4, <1>5, <1>7, <1>8, <1>9, <1>10, <1>11, <1>12 DEF CCNext, CallStep

(* The cache's state is well typed in every reachable state: in particular *)
(* ages and running times never pass the TTL and the call timeout.         *)
THEOREM CacheTyping == CCSpec => []CCTypeOK
<1>1. CCInv => CCTypeOK
  BY DEF CCInv
<1> QED
  BY <1>1, CCInitInv, CCNextInv, PTL DEF CCSpec

(* Whatever lookups do concurrently, the LRU order and the map hold the    *)
(* same keys and never more than COMMITMENT_CACHE_SIZE of them.            *)
THEOREM CacheStaysBounded == CCSpec => []CacheWellFormed
<1>1. CCInv => CacheWellFormed
  BY DEF CCInv
<1> QED
  BY <1>1, CCInitInv, CCNextInv, PTL DEF CCSpec

(* Without a redeployment the cache never holds, and no lookup returns, a  *)
(* hash other than the registry's.                                         *)
THEOREM CacheIsCoherent == CCSpec => []CacheAgreesWithRegistry
<1>1. CCInv => CacheAgreesWithRegistry
  BY DEF CCInv
<1> QED
  BY <1>1, CCInitInv, CCNextInv, PTL DEF CCSpec

(* A live entry is lost only to an absent answer for its own key or, least *)
(* recently used, to a positive answer for a new one.                      *)
THEOREM WarmEntriesAreKept == CCSpec => WarmEntriesSurvive
<1> DEFINE Lost(k) ==
      Live(k) /\ k \notin DOMAIN cache' =>
        \/ \E t \in Tasks : /\ call[t].st = "answered"
                            /\ call[t].key = k
                            /\ call[t].ans = ZERO
        \/ /\ k = Last(lru)
           /\ Len(lru) = Capacity
           /\ \E j \in DOMAIN cache' \ DOMAIN cache : cache'[j].commit # ZERO
<1>1. CCInv /\ [CCNext]_ccVars => [\A k \in Keys : Lost(k)]_ccVars
  <2> SUFFICES ASSUME CCInv, CCNext, NEW k \in Keys, Live(k), k \notin DOMAIN cache'
               PROVE  Lost(k)
    OBVIOUS
  <2>1. k \in DOMAIN cache /\ CacheOK
    BY DEF Live, CCInv, CCTypeOK, CacheOK
  <2>2. ASSUME NEW t \in Tasks, NEW j \in Keys, fetch_commitment(t, j)
        PROVE  FALSE
    BY <2>1, <2>2 DEF fetch_commitment, evict_from_cache
  <2>3. ASSUME NEW t \in Tasks, Reconcile(t)
        PROVE  Lost(k)
    <3> DEFINE q == call[t].key
               v == call[t].ans
    <3>1. q \in Keys /\ v \in Answers /\ call[t].st = "answered"
      BY <2>3 DEF CCInv, CCTypeOK, Call, Reconcile
    <3>2. CASE v # ZERO /\ put_in_cache(q, v)
      <4>1. /\ DOMAIN cache' = (DOMAIN cache \ Victims(q)) \cup {q}
            /\ cache'[q] = [commit |-> v, age |-> 0]
        <5> HIDE DEF q, v
        <5> QED
          BY <2>1, <3>1, <3>2, PutKeepsCacheOK
      <4>2. k \in Victims(q)
        BY <2>1, <4>1
      <4>3. k = Last(lru) /\ q \notin DOMAIN cache /\ Len(lru) >= Capacity
        BY <4>2 DEF Victims
      <4>4. Len(lru) = Capacity
        <5>1. Len(lru) <= Capacity /\ Len(lru) \in Nat
          BY <2>1, ToSetRange DEF CacheOK, CacheWellFormed
        <5> QED
          BY <4>3, <5>1, CacheAssumption
      <4>5. q \in DOMAIN cache' \ DOMAIN cache /\ cache'[q].commit # ZERO
        BY <4>1, <4>3, <3>2
      <4> QED
        BY <4>3, <4>4, <4>5
    <3>3. CASE v = ZERO /\ evict_from_cache(q)
      <4>1. k = q
        BY <2>1, <3>3 DEF evict_from_cache
      <4> QED
        BY <3>1, <3>3, <4>1
    <3> QED
      BY <2>3, <3>2, <3>3 DEF Reconcile
  <2>4. ASSUME cache' = cache
        PROVE  FALSE
    BY <2>1, <2>4
  <2>5. ASSUME Tick
        PROVE  FALSE
    BY <2>1, <2>5 DEF Tick
  <2>6. ASSUME NEW t \in Tasks, \/ getCommitment(t) \/ CallFails(t)
                                \/ CallTimesOut(t) \/ Abandon(t)
        PROVE  FALSE
    BY <2>4, <2>6 DEF getCommitment, CallFails, CallTimesOut, Abandon, cacheVars
  <2>7. ASSUME NEW t \in Tasks, NEW j \in Keys, refresh_commitment(t, j)
        PROVE  FALSE
    BY <2>4, <2>7 DEF refresh_commitment, cacheVars
  <2>8. ASSUME NEW h \in Handles, NEW v \in Hashes, PostCommitment(h, v)
        PROVE  FALSE
    BY <2>4, <2>8 DEF PostCommitment, cacheVars
  <2>9. ASSUME Redeploy
        PROVE  FALSE
    BY <2>4, <2>9 DEF Redeploy, cacheVars
  <2> HIDE DEF Lost
  <2> QED
    BY <2>2, <2>3, <2>5, <2>6, <2>7, <2>8, <2>9 DEF CCNext, CallStep
<1> QED
  BY <1>1, CCInitInv, CCNextInv, PTL DEF CCSpec, WarmEntriesSurvive

-----------------------------------------------------------------------------
(* The cache with its history *)

\* The history variables are typed.
HistoryTypeOK ==
  /\ gone \in [Handles -> [Hashes -> 0..Forgotten]]
  /\ posted \in [Tasks -> BOOLEAN]

\* What was posted when a lookup began is still there, and is what it reads.
PostedStays ==
  redeploys = 0 =>
    \A t \in Tasks :
      posted[t] => /\ registry[call[t].key[2]] # ZERO
                   /\ call[t].st = "answered" => call[t].ans # ZERO

SInv ==
  /\ CCInv
  /\ HistoryTypeOK
  /\ PostedNow
  /\ AnswersRecent
  /\ EntriesRecent
  /\ PostedStays
  /\ NoLostCommitment

(* The history variables only observe: every behaviour of SSpec is one of  *)
(* the cache.                                                              *)
THEOREM HistoryOnlyObserves == SSpec => CCSpec
<1>1. SInit => CCInit
  BY DEF SInit
<1>2. [SNext]_stVars => [CCNext]_ccVars
  BY DEF SNext, stVars, CCNext, ccVars, SFetch, SRefresh, SCall, SAbandon, SPost,
         SRedeploy, STick
<1> QED
  BY <1>1, <1>2, PTL DEF SSpec, CCSpec

\* The empty cache with its history satisfies the invariant.
LEMMA SInitInv == SInit => SInv
<1> SUFFICES ASSUME SInit
             PROVE  SInv
  OBVIOUS
<1>1. CCInv /\ CCInit
  BY CCInitInv DEF SInit
<1>2. Forgotten \in 0..Forgotten
  BY CacheAssumption DEF Forgotten
<1>3. HistoryTypeOK /\ \A t \in Tasks : ~posted[t]
  BY <1>2 DEF SInit, HistoryTypeOK
<1>4. /\ DOMAIN cache = {} /\ \A h \in Handles : registry[h] = ZERO
      /\ \A t \in Tasks : call[t].st = "idle"
  BY <1>1 DEF CCInit, Idle
<1> QED
  BY <1>1, <1>3, <1>4
     DEF SInv, PostedNow, AnswersRecent, EntriesRecent, PostedStays, NoLostCommitment

\* Where a lookup's key and an entry's hash lie.
LEMMA Places ==
  ASSUME CCInv
  PROVE  /\ \A t \in Tasks : call[t] \in Call /\ call[t].key \in Keys
                             /\ call[t].key[2] \in Handles /\ call[t].ans \in Answers
         /\ \A k \in DOMAIN cache : k \in Keys /\ k[2] \in Handles /\ cache[k] \in Entry
                                    /\ cache[k].commit \in Hashes
<1>1. \A k \in Keys : k[2] \in Handles
  BY DEF Keys
<1>2. \A t \in Tasks : call[t] \in Call /\ call[t].key \in Keys /\ call[t].ans \in Answers
  BY DEF CCInv, CCTypeOK, Call
<1>3. \A k \in DOMAIN cache : k \in Keys /\ cache[k] \in Entry /\ cache[k].commit \in Hashes
  BY DEF CCInv, CCTypeOK, OnlyPositives, Entry, Answers
<1> QED
  BY <1>1, <1>2, <1>3

(* A call that begins or ends, storing nothing.                            *)
LEMMA QuietStep ==
  ASSUME SInv, CCInv', NEW t \in Tasks, NEW c \in Call, call' = [call EXCEPT ![t] = c],
         UNCHANGED <<registry, redeploys, gone>>,
         \A k \in DOMAIN cache' : k \in DOMAIN cache /\ cache'[k] = cache[k],
         c.st # "answered",
         \/ UNCHANGED posted /\ c.key = call[t].key
         \/ posted' = [posted EXCEPT ![t] = registry[c.key[2]] # ZERO],
         redeploys = 0 /\ posted'[t] => c.res # "not_found"
  PROVE  SInv'
<1>1. call \in [Tasks -> Call] /\ posted \in [Tasks -> BOOLEAN]
  BY DEF SInv, HistoryTypeOK, CCInv, CCTypeOK
<1>2. HistoryTypeOK'
  BY <1>1 DEF SInv, HistoryTypeOK
<1>3. PostedNow' /\ AnswersRecent' /\ EntriesRecent'
  BY <1>1 DEF SInv, PostedNow, AnswersRecent, EntriesRecent
<1>4. PostedStays' /\ NoLostCommitment'
  BY <1>1 DEF SInv, PostedStays, NoLostCommitment
<1> QED
  BY <1>2, <1>3, <1>4 DEF SInv

(* The registry is read: what it holds now has been gone for no time.      *)
LEMMA ReadStep ==
  ASSUME SInv, CCInv', NEW t \in Tasks, getCommitment(t), UNCHANGED <<gone, posted>>
  PROVE  SInv'
<1> DEFINE k == call[t].key
           c == [call[t] EXCEPT !.st = "answered", !.ans = registry[k[2]]]
<1>1. /\ call \in [Tasks -> Call] /\ call[t] \in Call /\ k[2] \in Handles
      /\ registry \in [Handles -> Answers] /\ gone \in [Handles -> [Hashes -> 0..Forgotten]]
  BY Places DEF SInv, HistoryTypeOK, CCInv, CCTypeOK
<1>2. /\ c.key = k /\ c.ans = registry[k[2]] /\ c.elapsed = call[t].elapsed
      /\ c.res = call[t].res /\ c.elapsed \in 0..RpcTimeout
  BY <1>1 DEF Call
<1>3. /\ call' = [call EXCEPT ![t] = c]
      /\ UNCHANGED <<registry, redeploys, cache, lru>>
  BY <1>1 DEF getCommitment, cacheVars, chainVars
<1> HIDE DEF c
<1>4. AnswersRecent'
  <2> SUFFICES ASSUME NEW u \in Tasks, call'[u].st = "answered", call'[u].ans # ZERO
               PROVE  gone[call'[u].key[2]][call'[u].ans] <= call'[u].elapsed
    BY DEF AnswersRecent
  <2>1. CASE u = t
    <3>1. call'[t] = c
      BY <1>1, <1>3
    <3>2. gone[k[2]][registry[k[2]]] = 0
      BY <1>1, <1>2, <2>1, <3>1 DEF SInv, PostedNow
    <3> QED
      BY <1>2, <2>1, <3>1, <3>2, CacheAssumption
  <2>2. CASE u # t
    BY <1>1, <1>3, <2>2 DEF SInv, AnswersRecent
  <2> QED
    BY <2>1, <2>2
<1>5. PostedStays' /\ NoLostCommitment'
  BY <1>1, <1>2, <1>3 DEF SInv, PostedStays, NoLostCommitment
<1>6. HistoryTypeOK' /\ PostedNow' /\ EntriesRecent'
  BY <1>3 DEF SInv, HistoryTypeOK, PostedNow, EntriesRecent
<1> QED
  BY <1>4, <1>5, <1>6 DEF SInv

(* An answer is stored: it was on chain no longer ago than the call took.  *)
LEMMA StoreStep ==
  ASSUME SInv, CCInv', NEW t \in Tasks, call[t].st = "answered", call[t].ans # ZERO,
         put_in_cache(call[t].key, call[t].ans),
         call' = [call EXCEPT ![t] = Finished(@, "ok")],
         UNCHANGED <<registry, redeploys, gone, posted>>
  PROVE  SInv'
<1> DEFINE k == call[t].key
           v == call[t].ans
           c == Finished(call[t], "ok")
<1>1. /\ CacheOK /\ call \in [Tasks -> Call] /\ call[t] \in Call
      /\ k \in Keys /\ k[2] \in Handles /\ v \in Answers
      /\ call[t].elapsed \in 0..RpcTimeout
      /\ gone \in [Handles -> [Hashes -> 0..Forgotten]]
  BY Places DEF SInv, HistoryTypeOK, CCInv, CCTypeOK, CacheOK, Call
<1>2. v \in Hashes
  BY <1>1 DEF Answers
<1>3. /\ c.st = "done" /\ c.key = k /\ c.res = "ok"
      /\ call' = [call EXCEPT ![t] = c]
  BY <1>1, FinishedType
<1>4. /\ cache'[k] = [commit |-> v, age |-> 0]
      /\ \A j \in DOMAIN cache' : j # k => j \in DOMAIN cache /\ cache'[j] = cache[j]
  <2> HIDE DEF k, v
  <2> QED
    BY <1>1, PutKeepsCacheOK DEF k, v
<1>5. gone[k[2]][v] <= RpcTimeout
  <2>1. gone[k[2]][v] <= call[t].elapsed /\ gone[k[2]][v] \in Nat
    BY <1>1, <1>2, CacheAssumption DEF SInv, AnswersRecent, Forgotten
  <2> QED
    BY <2>1, <1>1, CacheAssumption
<1> HIDE DEF c
<1>6. AnswersRecent' /\ PostedStays' /\ NoLostCommitment'
  BY <1>1, <1>3 DEF SInv, AnswersRecent, PostedStays, NoLostCommitment
<1>7. EntriesRecent'
  <2> SUFFICES ASSUME NEW j \in DOMAIN cache'
               PROVE  /\ cache'[j].commit # ZERO
                      /\ cache'[j].age < TTL =>
                           gone[j[2]][cache'[j].commit] <= cache'[j].age + RpcTimeout
    BY DEF EntriesRecent
  <2>1. CASE j = k
    BY <1>4, <1>5, <2>1, CacheAssumption
  <2>2. CASE j # k
    BY <1>4, <2>2 DEF SInv, EntriesRecent
  <2> QED
    BY <2>1, <2>2
<1>8. HistoryTypeOK' /\ PostedNow'
  BY DEF SInv, HistoryTypeOK, PostedNow
<1> QED
  BY <1>6, <1>7, <1>8 DEF SInv

(* A commitment lands: it is on chain now; nothing else changes.           *)
LEMMA LandStep ==
  ASSUME SInv, CCInv', NEW h \in Handles, NEW v \in Hashes, SPost(h, v)
  PROVE  SInv'
<1>1. /\ registry \in [Handles -> Answers] /\ registry[h] = ZERO
      /\ registry' = [registry EXCEPT ![h] = v] /\ v # ZERO
      /\ gone \in [Handles -> [Hashes -> 0..Forgotten]]
      /\ gone' = [gone EXCEPT ![h][v] = 0]
      /\ UNCHANGED <<redeploys, cache, lru, call, posted>>
  BY CacheAssumption DEF SInv, HistoryTypeOK, CCInv, CCTypeOK, SPost, PostCommitment, cacheVars
<1>2. 0 \in 0..Forgotten
  BY CacheAssumption DEF Forgotten
<1>3. HistoryTypeOK'
  BY <1>1, <1>2 DEF SInv, HistoryTypeOK
<1>4. \A g \in Handles, w \in Hashes : gone'[g][w] = 0 \/ gone'[g][w] = gone[g][w]
  BY <1>1
<1>5. \A g \in Handles, w \in Hashes : gone'[g][w] <= gone[g][w]
  BY <1>1, <1>4, CacheAssumption DEF Forgotten
<1>6. PostedNow'
  <2> SUFFICES ASSUME NEW g \in Handles, registry'[g] # ZERO
               PROVE  gone'[g][registry'[g]] = 0
    BY DEF PostedNow
  <2>1. CASE g = h
    BY <1>1, <2>1
  <2>2. CASE g # h
    BY <1>1, <2>2 DEF SInv, PostedNow
  <2> QED
    BY <2>1, <2>2
<1>7. AnswersRecent'
  <2> SUFFICES ASSUME NEW t \in Tasks, call[t].st = "answered", call[t].ans # ZERO
               PROVE  gone'[call[t].key[2]][call[t].ans] <= call[t].elapsed
    BY <1>1 DEF AnswersRecent
  <2> DEFINE g == call[t].key[2]
             w == call[t].ans
  <2>1. g \in Handles /\ w \in Hashes /\ call[t].elapsed \in 0..RpcTimeout
    BY Places DEF SInv, Answers, Call
  <2>2. gone[g][w] <= call[t].elapsed
    BY DEF SInv, AnswersRecent
  <2> HIDE DEF g, w
  <2>3. gone'[g][w] <= gone[g][w] /\ gone[g][w] \in Nat /\ gone'[g][w] \in Nat
    BY <2>1, <1>1, <1>3, <1>5, CacheAssumption DEF HistoryTypeOK, Forgotten
  <2>4. gone'[g][w] <= call[t].elapsed
    BY <2>1, <2>2, <2>3, CacheAssumption DEF g, w
  <2> QED
    BY <2>4 DEF g, w
<1>8. EntriesRecent'
  <2> SUFFICES ASSUME NEW k \in DOMAIN cache
               PROVE  /\ cache[k].commit # ZERO
                      /\ cache[k].age < TTL =>
                           gone'[k[2]][cache[k].commit] <= cache[k].age + RpcTimeout
    BY <1>1 DEF EntriesRecent
  <2> DEFINE g == k[2]
             w == cache[k].commit
  <2>1. g \in Handles /\ w \in Hashes /\ cache[k].age \in 0..TTL
    BY Places DEF SInv, Entry
  <2>2. cache[k].commit # ZERO /\ (cache[k].age < TTL => gone[g][w] <= cache[k].age + RpcTimeout)
    BY DEF SInv, EntriesRecent
  <2> HIDE DEF g, w
  <2>3. gone'[g][w] <= gone[g][w] /\ gone[g][w] \in Nat /\ gone'[g][w] \in Nat
    BY <2>1, <1>1, <1>3, <1>5, CacheAssumption DEF HistoryTypeOK, Forgotten
  <2>4. cache[k].age < TTL => gone'[g][w] <= cache[k].age + RpcTimeout
    BY <2>1, <2>2, <2>3, CacheAssumption
  <2> QED
    BY <2>2, <2>4 DEF g, w
<1>9. PostedStays' /\ NoLostCommitment'
  <2>1. \A t \in Tasks : call[t].key[2] \in Handles
    BY Places DEF SInv
  <2> QED
    BY <1>1, <2>1 DEF SInv, PostedStays, NoLostCommitment
<1> QED
  BY <1>3, <1>6, <1>7, <1>8, <1>9 DEF SInv

(* Time passes: calls, entries and absences age together.                  *)
LEMMA AgeStep ==
  ASSUME SInv, CCInv', STick
  PROVE  SInv'
<1>1. /\ registry \in [Handles -> Answers] /\ gone \in [Handles -> [Hashes -> 0..Forgotten]]
      /\ call \in [Tasks -> Call] /\ cache \in [DOMAIN cache -> Entry]
      /\ Forgotten \in Nat
      /\ UNCHANGED <<registry, redeploys, lru, posted>>
  BY CacheAssumption DEF SInv, HistoryTypeOK, CCInv, CCTypeOK, STick, Tick, Forgotten
<1>2. ASSUME NEW h \in Handles, NEW v \in Hashes
      PROVE  /\ gone'[h][v] \in 0..Forgotten
             /\ gone'[h][v] <= gone[h][v] + 1
             /\ registry[h] = v => gone'[h][v] = 0
  <2>1. gone[h][v] \in 0..Forgotten
    BY <1>1
  <2>2. gone'[h][v] = IF registry[h] = v THEN 0 ELSE Older(gone[h][v], Forgotten)
    BY DEF STick
  <2> QED
    BY <1>1, <2>1, <2>2 DEF Older
<1>3. HistoryTypeOK'
  <2>1. gone' = [h \in Handles |-> [v \in Hashes |-> gone'[h][v]]]
    BY DEF STick
  <2> QED
    BY <1>1, <1>2, <2>1 DEF SInv, HistoryTypeOK
<1>4. PostedNow'
  BY <1>1, <1>2 DEF PostedNow, Answers
<1>5. ASSUME NEW t \in Tasks
      PROVE  /\ call'[t].st = call[t].st /\ call'[t].key = call[t].key
             /\ call'[t].ans = call[t].ans /\ call'[t].res = call[t].res
             /\ call[t].st = "answered" => call'[t].elapsed = call[t].elapsed + 1
  BY <1>1 DEF STick, Tick, InFlight, Call
<1>6. AnswersRecent'
  <2> SUFFICES ASSUME NEW t \in Tasks, call[t].st = "answered", call[t].ans # ZERO
               PROVE  gone'[call[t].key[2]][call[t].ans] <= call[t].elapsed + 1
    BY <1>5 DEF AnswersRecent
  <2> DEFINE g == call[t].key[2]
             w == call[t].ans
  <2>1. g \in Handles /\ w \in Hashes /\ call[t].elapsed \in 0..RpcTimeout
    BY Places DEF SInv, Answers, Call
  <2>2. gone[g][w] <= call[t].elapsed
    BY DEF SInv, AnswersRecent
  <2> HIDE DEF g, w
  <2>3. gone'[g][w] <= gone[g][w] + 1 /\ gone'[g][w] \in Int /\ gone[g][w] \in Int
    BY <2>1, <1>1, <1>2
  <2>4. gone'[g][w] <= call[t].elapsed + 1
    BY <2>1, <2>2, <2>3, CacheAssumption
  <2> QED
    BY <2>4 DEF g, w
<1>7. EntriesRecent'
  <2>1. DOMAIN cache' = DOMAIN cache
    BY DEF STick, Tick
  <2> SUFFICES ASSUME NEW k \in DOMAIN cache
               PROVE  /\ cache'[k].commit # ZERO
                      /\ cache'[k].age < TTL =>
                           gone'[k[2]][cache'[k].commit] <= cache'[k].age + RpcTimeout
    BY <2>1 DEF EntriesRecent
  <2> DEFINE g == k[2]
             w == cache[k].commit
             a == cache[k].age
  <2>2. g \in Handles /\ w \in Hashes /\ a \in 0..TTL /\ cache[k] \in Entry
    BY Places DEF SInv, Entry
  <2>3. w # ZERO /\ (a < TTL => gone[g][w] <= a + RpcTimeout)
    BY DEF SInv, EntriesRecent
  <2>4. cache'[k].commit = w /\ cache'[k].age = Older(a, TTL)
    BY <2>2 DEF STick, Tick, Entry
  <2>5. gone'[g][w] <= gone[g][w] + 1 /\ gone'[g][w] \in Int /\ gone[g][w] \in Int
    BY <2>2, <1>1, <1>2
  <2> HIDE DEF g, w, a
  <2>6. Older(a, TTL) < TTL => a < TTL /\ Older(a, TTL) = a + 1
    BY <2>2, CacheAssumption DEF Older
  <2>7. Older(a, TTL) < TTL => gone'[g][w] <= Older(a, TTL) + RpcTimeout
    BY <2>2, <2>3, <2>5, <2>6, CacheAssumption
  <2> QED
    BY <2>3, <2>4, <2>7 DEF g
<1>8. PostedStays' /\ NoLostCommitment'
  BY <1>1, <1>5 DEF SInv, PostedStays, NoLostCommitment
<1> QED
  BY <1>3, <1>4, <1>6, <1>7, <1>8 DEF SInv

(* Every step keeps the invariant. *)
LEMMA SNextInv == SInv /\ [SNext]_stVars => SInv'
<1> SUFFICES ASSUME SInv, [SNext]_stVars
             PROVE  SInv'
  OBVIOUS
<1>1. CCInv /\ CCInv'
  <2>1. [CCNext]_ccVars
    BY DEF SNext, stVars, CCNext, ccVars, SFetch, SRefresh, SCall, SAbandon, SPost,
           SRedeploy, STick
  <2> QED
    BY <2>1, CCNextInv DEF SInv
<1>2. /\ call \in [Tasks -> Call] /\ posted \in [Tasks -> BOOLEAN]
      /\ \A t \in Tasks : call[t] \in Call
  BY DEF SInv, HistoryTypeOK, CCInv, CCTypeOK
<1>3. ASSUME NEW t \in Tasks, NEW k \in Keys, SFetch(t, k)
      PROVE  SInv'
  <2>1. /\ UNCHANGED <<registry, redeploys, gone>>
        /\ posted' = [posted EXCEPT ![t] = registry[k[2]] # ZERO]
    BY <1>3 DEF SFetch, fetch_commitment, chainVars
  <2>2. CASE Live(k) /\ call' = [call EXCEPT ![t] = Hit(k)] /\ UNCHANGED cache
    <3>1. Hit(k).st = "done" /\ Hit(k).key = k /\ Hit(k).res = "ok"
      BY DEF Hit
    <3>2. Hit(k) \in Call
      <4>1. call'[t] = Hit(k) /\ call'[t] \in Call
        BY <1>1, <1>2, <2>2 DEF CCInv, CCTypeOK
      <4> QED
        BY <4>1
    <3> QED
      BY <1>1, <2>1, <2>2, <3>1, <3>2, QuietStep
  <2>3. CASE evict_from_cache(k) /\ call' = [call EXCEPT ![t] = Calling(k)]
    <3>1. /\ Calling(k).st = "rpc" /\ Calling(k).key = k /\ Calling(k).res = "none"
          /\ Calling(k) \in Call
      BY CacheAssumption DEF Calling, Call, Answers
    <3>2. \A j \in DOMAIN cache' : j \in DOMAIN cache /\ cache'[j] = cache[j]
      BY <2>3 DEF evict_from_cache
    <3> QED
      BY <1>1, <2>1, <2>3, <3>1, <3>2, QuietStep
  <2> QED
    BY <1>3, <2>2, <2>3 DEF SFetch, fetch_commitment
<1>4. ASSUME NEW t \in Tasks, NEW k \in Keys, SRefresh(t, k)
      PROVE  SInv'
  <2>1. /\ UNCHANGED <<registry, redeploys, cache, gone>>
        /\ posted' = [posted EXCEPT ![t] = registry[k[2]] # ZERO]
        /\ call' = [call EXCEPT ![t] = Calling(k)]
    BY <1>4 DEF SRefresh, refresh_commitment, chainVars, cacheVars
  <2>2. /\ Calling(k).st = "rpc" /\ Calling(k).key = k /\ Calling(k).res = "none"
        /\ Calling(k) \in Call
    BY CacheAssumption DEF Calling, Call, Answers
  <2> QED
    BY <1>1, <2>1, <2>2, QuietStep
<1>5. ASSUME NEW t \in Tasks, getCommitment(t), UNCHANGED <<gone, posted>>
      PROVE  SInv'
  BY <1>1, <1>5, ReadStep
<1>6. ASSUME NEW t \in Tasks, Reconcile(t), UNCHANGED <<gone, posted>>
      PROVE  SInv'
  <2>1. call[t].st = "answered" /\ UNCHANGED <<registry, redeploys>>
    BY <1>6 DEF Reconcile, chainVars
  <2>2. CASE call[t].ans # ZERO /\ put_in_cache(call[t].key, call[t].ans)
             /\ call' = [call EXCEPT ![t] = Finished(@, "ok")]
    BY <1>1, <1>6, <2>1, <2>2, StoreStep
  <2>3. CASE call[t].ans = ZERO /\ evict_from_cache(call[t].key)
             /\ call' = [call EXCEPT ![t] = Finished(@, "not_found")]
    <3> DEFINE c == Finished(call[t], "not_found")
    <3>1. c \in Call /\ c.st = "done" /\ c.key = call[t].key
      BY <1>2, FinishedType
    <3>2. call' = [call EXCEPT ![t] = c]
      BY <2>3
    <3>3. \A j \in DOMAIN cache' : j \in DOMAIN cache /\ cache'[j] = cache[j]
      BY <2>3 DEF evict_from_cache
    <3>4. redeploys = 0 => ~posted[t]
      BY <2>1, <2>3 DEF SInv, PostedStays
    <3> HIDE DEF c
    <3> QED
      BY <1>1, <1>6, <2>1, <3>1, <3>2, <3>3, <3>4, QuietStep
  <2> QED
    BY <1>6, <2>2, <2>3 DEF Reconcile
<1>7. ASSUME NEW t \in Tasks, NEW result \in {"timeout", "transport"},
             call' = [call EXCEPT ![t] = Finished([@ EXCEPT !.ans = ZERO], result)],
             UNCHANGED <<registry, redeploys, cache, lru, gone, posted>>
      PROVE  SInv'
  <2> DEFINE c == [call[t] EXCEPT !.ans = ZERO]
             d == Finished(c, result)
  <2>1. c \in Call /\ c.key = call[t].key
    BY <1>2 DEF Call, Answers
  <2>2. d \in Call /\ d.st = "done" /\ d.res = result /\ d.key = call[t].key
    <3> HIDE DEF c
    <3> QED
      BY <2>1, FinishedType
  <2>3. call' = [call EXCEPT ![t] = d]
    BY <1>7
  <2> HIDE DEF d
  <2> QED
    BY <1>1, <1>7, <2>2, <2>3, QuietStep
<1>8. ASSUME NEW t \in Tasks, CallFails(t) \/ CallTimesOut(t), UNCHANGED <<gone, posted>>
      PROVE  SInv'
  BY <1>7, <1>8 DEF CallFails, CallTimesOut, cacheVars, chainVars
<1>9. ASSUME NEW t \in Tasks, SAbandon(t)
      PROVE  SInv'
  <2> DEFINE c == Idle(call[t].key)
  <2>1. c \in Call /\ c.st = "idle" /\ c.key = call[t].key /\ c.res = "none"
    BY <1>2, CacheAssumption DEF Idle, Call, Answers
  <2>2. call' = [call EXCEPT ![t] = c] /\ UNCHANGED <<registry, redeploys, cache, gone, posted>>
    BY <1>9 DEF SAbandon, Abandon, cacheVars, chainVars
  <2> HIDE DEF c
  <2> QED
    BY <1>1, <2>1, <2>2, QuietStep
<1>10. ASSUME NEW h \in Handles, NEW v \in Hashes, SPost(h, v)
       PROVE  SInv'
  BY <1>1, <1>10, LandStep
<1>11. ASSUME SRedeploy
       PROVE  SInv'
  <2>1. /\ UNCHANGED <<cache, lru, call, gone, posted>> /\ redeploys' # 0
        /\ \A h \in Handles : registry'[h] = ZERO
    BY <1>11, <1>1, CacheAssumption DEF SRedeploy, Redeploy, cacheVars, CCInv, CCTypeOK
  <2> QED
    BY <1>1, <2>1 DEF SInv, HistoryTypeOK, PostedNow, AnswersRecent, EntriesRecent,
                      PostedStays, NoLostCommitment
<1>12. ASSUME STick
       PROVE  SInv'
  BY <1>1, <1>12, AgeStep
<1>13. ASSUME UNCHANGED stVars
       PROVE  SInv'
  BY <1>1, <1>13 DEF stVars, SInv, HistoryTypeOK, PostedNow, AnswersRecent, EntriesRecent,
                     PostedStays, NoLostCommitment
<1> QED
  BY <1>3, <1>4, <1>5, <1>6, <1>8, <1>9, <1>10, <1>11, <1>12, <1>13
     DEF SNext, SCall, CallStep

(* Nothing the cache serves has been off chain for TTL + RpcTimeout or     *)
(* longer, however late the answers of an old registry arrive.             *)
THEOREM StalenessIsBounded == SSpec => []BoundedStaleness
<1>1. SInv => BoundedStaleness
  <2> SUFFICES ASSUME SInv, NEW k \in DOMAIN cache, Live(k)
               PROVE  gone[k[2]][cache[k].commit] < TTL + RpcTimeout
    BY DEF BoundedStaleness
  <2> DEFINE g == gone[k[2]][cache[k].commit]
             a == cache[k].age
  <2>1. k[2] \in Handles /\ cache[k].commit \in Hashes /\ a \in 0..TTL
    BY Places DEF SInv, Entry
  <2>2. g \in 0..Forgotten
    BY <2>1 DEF SInv, HistoryTypeOK
  <2>3. a < TTL /\ g <= a + RpcTimeout
    BY DEF SInv, EntriesRecent, Live
  <2> HIDE DEF g, a
  <2>4. g < TTL + RpcTimeout
    BY <2>1, <2>2, <2>3, CacheAssumption DEF Forgotten
  <2> QED
    BY <2>4 DEF g
<1> QED
  BY <1>1, SInitInv, SNextInv, PTL DEF SSpec

(* A lookup that begins after a commitment landed never reports it absent. *)
THEOREM CommitmentsAreFound == SSpec => []NoLostCommitment
<1>1. SInv => NoLostCommitment
  BY DEF SInv
<1> QED
  BY <1>1, SInitInv, SNextInv, PTL DEF SSpec

(* The cache and its history keep their types: no call outlives its        *)
(* timeout and no clock runs past what is told apart.                      *)
THEOREM StalenessTyping == SSpec => []STypeOK
<1>1. SInv => STypeOK
  BY DEF SInv, CCInv, HistoryTypeOK, STypeOK
<1> QED
  BY <1>1, SInitInv, SNextInv, PTL DEF SSpec
=============================================================================
