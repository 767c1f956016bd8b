------------------------ MODULE CommitmentStaleness ------------------------
(***************************************************************************)
(* CommitmentCache with two history variables, which record what happened  *)
(* and influence nothing: how long ago a hash was last on chain, and       *)
(* whether a task's commitment was on chain when its lookup began.  They   *)
(* let the freshness of what the cache serves be stated as invariants.     *)
(***************************************************************************)
EXTENDS CommitmentCache

VARIABLES
  gone,          \* gone[h][v]: time since v was the commitment of h, 0 if it is
  posted         \* posted[t]: h had a commitment when t began its lookup

stVars == <<registry, redeploys, cache, lru, call, gone, posted>>

\* A hash off chain for this long is not told apart from one never posted.
Forgotten == TTL + RpcTimeout

STypeOK ==
  /\ CCTypeOK
  /\ gone \in [Handles -> [Hashes -> 0..Forgotten]]
  /\ posted \in [Tasks -> BOOLEAN]

SInit ==
  /\ CCInit
  /\ gone = [h \in Handles |-> [v \in Hashes |-> Forgotten]]
  /\ posted = [t \in Tasks |-> FALSE]

SFetch(t, k) ==
  /\ fetch_commitment(t, k)
  /\ posted' = [posted EXCEPT ![t] = registry[k[2]] # ZERO]
  /\ UNCHANGED gone

SRefresh(t, k) ==
  /\ refresh_commitment(t, k)
  /\ posted' = [posted EXCEPT ![t] = registry[k[2]] # ZERO]
  /\ UNCHANGED gone

SCall(t) ==
  /\ CallStep(t)
  /\ UNCHANGED <<gone, posted>>

SAbandon(t) ==
  /\ InFlight(t)
  /\ Abandon(t)
  /\ UNCHANGED <<gone, posted>>

SPost(h, v) ==
  /\ PostCommitment(h, v)
  /\ gone' = [gone EXCEPT ![h][v] = 0]
  /\ UNCHANGED posted

SRedeploy ==
  /\ Redeploy
  /\ UNCHANGED <<gone, posted>>

STick ==
  /\ Tick
  /\ gone' = [h \in Handles |-> [v \in Hashes |->
                IF registry[h] = v THEN 0 ELSE Older(gone[h][v], Forgotten)]]
  /\ UNCHANGED posted

SNext ==
  \/ \E t \in Tasks :
       \/ \E k \in Keys : SFetch(t, k) \/ SRefresh(t, k)
       \/ SCall(t)
       \/ SAbandon(t)
  \/ \E h \in Handles, v \in Hashes : SPost(h, v)
  \/ SRedeploy
  \/ STick

SSpec == SInit /\ [][SNext]_stVars

\* Time passes and every lookup is polled, as CCFairness says.
SLiveSpec == SSpec /\ CCFairness

-----------------------------------------------------------------------------
(* Properties *)

(* Across redeployments, a hash the cache would serve was on chain less    *)
(* than the TTL plus one call timeout ago, even when a slow answer from    *)
(* the old registry overwrites a newer entry and restamps it.              *)
BoundedStaleness ==
  \A k \in DOMAIN cache : Live(k) => gone[k[2]][cache[k].commit] < TTL + RpcTimeout

(* A commitment that was on chain when a lookup began is never reported    *)
(* absent to it, unless the environment was wiped: no negative answer      *)
(* outlives the moment the commitment lands.                               *)
NoLostCommitment ==
  redeploys = 0 =>
    \A t \in Tasks : posted[t] => call[t].res # "not_found"

(* What makes the two inductive: an answer on its way was on chain no      *)
(* longer ago than the call has been running, so an entry stamped when it  *)
(* arrives was on chain no longer ago than its age plus one call timeout.  *)
AnswersRecent ==
  \A t \in Tasks :
    call[t].st = "answered" /\ call[t].ans # ZERO =>
      gone[call[t].key[2]][call[t].ans] <= call[t].elapsed
EntriesRecent ==
  \A k \in DOMAIN cache :
    /\ cache[k].commit # ZERO
    /\ cache[k].age < TTL => gone[k[2]][cache[k].commit] <= cache[k].age + RpcTimeout
PostedNow == \A h \in Handles : registry[h] # ZERO => gone[h][registry[h]] = 0
=============================================================================
