----------------------------- MODULE Decryptor -----------------------------
(***************************************************************************)
(* What the service promises, with no semaphore, cache, re-read or thread  *)
(* in sight: a client asks once about a handle and is told the plaintext   *)
(* of some ciphertext, or refused, or leaves.  A plaintext is told only    *)
(* to a request the ACL allowed while it was open, and only of the bytes   *)
(* the registry commits the handle to when it is told.                     *)
(***************************************************************************)
CONSTANTS
  Requests, Inputs, Handles, Hashes, ZERO, Bytes, Keccak, NoInput,
  AclEnforced,   \* does the ACL decide?
  Committing     \* does the registry decide?

VARIABLES
  allowed,       \* the ACL
  registry,      \* the committed hash of each handle
  wiped,         \* has the environment been wiped?
  asked,         \* per request: what its client asked
  phase,         \* per request: "idle", "open", "answered" or "gone"
  entitled,      \* per request: did the ACL allow it while it was open?
  answer         \* per request: "none", "refused", or the bytes revealed

dVars == <<allowed, registry, wiped, asked, phase, entitled, answer>>

Askable == {<<in.acp, in.key>> : in \in Inputs}

DInit ==
  /\ allowed \in SUBSET Askable
  /\ registry = [h \in Handles |-> ZERO]
  /\ wiped = FALSE
  /\ asked = [r \in Requests |-> NoInput]
  /\ phase = [r \in Requests |-> "idle"]
  /\ entitled = [r \in Requests |-> FALSE]
  /\ answer = [r \in Requests |-> "none"]

Ask(r, in) ==
  /\ phase[r] = "idle"
  /\ phase' = [phase EXCEPT ![r] = "open"]
  /\ asked' = [asked EXCEPT ![r] = in]
  /\ entitled' = [entitled EXCEPT ![r] = <<in.acp, in.key>> \in allowed]
  /\ UNCHANGED <<allowed, registry, wiped, answer>>

\* Refused on arrival: malformed, or the service is busy.
TurnAway(r, in) ==
  /\ phase[r] = "idle"
  /\ phase' = [phase EXCEPT ![r] = "answered"]
  /\ asked' = [asked EXCEPT ![r] = in]
  /\ answer' = [answer EXCEPT ![r] = "refused"]
  /\ UNCHANGED <<allowed, registry, wiped, entitled>>

RevealTo(r, b) ==
  /\ phase[r] = "open"
  /\ AclEnforced => entitled[r]
  /\ Committing /\ ~wiped => Keccak[b] = registry[asked[r].key[2]]
  /\ phase' = [phase EXCEPT ![r] = "answered"]
  /\ answer' = [answer EXCEPT ![r] = b]
  /\ UNCHANGED <<allowed, registry, wiped, asked, entitled>>

RefuseTo(r) ==
  /\ phase[r] = "open"
  /\ phase' = [phase EXCEPT ![r] = "answered"]
  /\ answer' = [answer EXCEPT ![r] = "refused"]
  /\ UNCHANGED <<allowed, registry, wiped, asked, entitled>>

Leave(r) ==
  /\ phase[r] = "open"
  /\ phase' = [phase EXCEPT ![r] = "gone"]
  /\ UNCHANGED <<allowed, registry, wiped, asked, entitled, answer>>

Decide(p) ==
  /\ allowed' = IF p \in allowed THEN allowed \ {p} ELSE allowed \cup {p}
  /\ entitled' = [r \in Requests |->
       entitled[r] \/ (phase[r] = "open" /\ <<asked[r].acp, asked[r].key>> \in allowed')]
  /\ UNCHANGED <<registry, wiped, asked, phase, answer>>

Commit(h, v) ==
  /\ registry[h] = ZERO
  /\ registry' = [registry EXCEPT ![h] = v]
  /\ UNCHANGED <<allowed, wiped, asked, phase, entitled, answer>>

Wipe ==
  /\ registry' = [h \in Handles |-> ZERO]
  /\ wiped' = TRUE
  /\ UNCHANGED <<allowed, asked, phase, entitled, answer>>

DNext ==
  \/ \E r \in Requests :
       \/ \E in \in Inputs : Ask(r, in) \/ TurnAway(r, in)
       \/ \E b \in Bytes : RevealTo(r, b)
       \/ RefuseTo(r)
       \/ Leave(r)
  \/ \E p \in Askable : Decide(p)
  \/ \E h \in Handles, v \in Hashes : Commit(h, v)
  \/ Wipe

DSpec == DInit /\ [][DNext]_dVars
=============================================================================
