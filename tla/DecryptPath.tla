---------------------------- MODULE DecryptPath ----------------------------
(***************************************************************************)
(* The request path of src/http.rs: the four routes that decrypt           *)
(* (/decrypt, /sealoutput and their v2 forms), from the parsed body to the *)
(* response, with the admission semaphore, the two on-chain gates that run *)
(* concurrently, the ciphertext fetch, the integrity check and its one     *)
(* re-read of the registry, the metadata checks, the CPU gate of           *)
(* src/cpu.rs and the v2 poll caches.                                      *)
(*                                                                         *)
(* A request's commitment lookups are those of CommitmentCache, which this *)
(* module composes: a step of a request that looks a commitment up is also *)
(* a step of the cache, and all requests share the cache.                  *)
(*                                                                         *)
(* A step is what a handler does between two awaits.  A client may         *)
(* disconnect at any await, which drops the handler's future.              *)
(***************************************************************************)
EXTENDS CommitmentCache, FiniteSets

CONSTANTS
  Bytes,         \* ciphertext byte strings ct-server may serve
  Keccak,        \* keccak256 of each
  Acps,          \* access permissions a caller may present
  NoAcp,         \* no permission: the public-decrypt path
  AclChains,     \* host chains the ACP verifier was configured with
  HandleType,    \* type byte of each handle
  HandleZone,    \* zone byte of each handle
  WireTypes,     \* types ct-server may declare
  Types,         \* types EncryptionType::from_i32 knows
  Zones,         \* zones ct-server may declare
  AcpGate,       \* is an ACP verifier installed?
  CommitmentGate,\* is a commitment verifier installed?
  WarnOnly,      \* the commitment gate's warning_instead_of_enforcement
  AdmitCap,      \* permits of admit_sem
  DecryptCap,    \* permits of decrypt_sem
  PollCap,       \* capacity of each v2 poll cache
  Inputs,        \* the request bodies clients send
  Replies,       \* the ciphertext rows ct-server serves
  Faults,        \* the failures of other services that may happen
  NoInput, NoCt  \* before a request has a body or a ciphertext

Requests == Tasks

\* What the host chains' ACLs decide on: a permission, or none, for a handle.
\* Those no client ever asks about make no difference.
Permissions == {<<in.acp, in.key>> : in \in Inputs}

AcpErrors ==
  {"acp_denied", "not_publicly_allowed", "unknown_chain", "acp_expired", "acp_invalid",
   "acp_malformed", "acp_verifier_timeout", "acp_verifier_error"}

\* Errors the ACP verifier meets in the call itself, whatever the ACL holds.
AcpFaults == {"acp_expired", "acp_invalid", "acp_verifier_timeout", "acp_verifier_error"}

CtFaults == {"ct_not_found", "ct_not_ready", "ct_source_timeout", "ct_source_error"}

Codes ==
  {"none", "ok", "rejected", "bad_request", "acp_required", "overloaded",
   "ct_not_found", "ct_not_ready", "ct_source_timeout", "ct_source_error",
   "unsupported_security_zone", "unsupported_type", "ct_type_mismatch",
   "ct_zone_mismatch", "commitment_pending", "commitment_verifier_timeout",
   "commitment_verifier_error", "commitment_mismatch", "internal_error",
   "seal_failed", "signing_failed"} \cup AcpErrors

(***************************************************************************)
(* A request body.  form is "rejected" for one axum's extractor refuses    *)
(* and "bad_handle" for one whose handle is not 32 bytes of hex; acp_form  *)
(* and seal_key say whether the permission's fields and its sealing key    *)
(* parse.                                                                  *)
(***************************************************************************)
Input ==
  [op : {"decrypt", "sealoutput"}, api : {"v1", "v2"}, key : Keys,
   form : {"good", "rejected", "bad_handle"}, acp : Acps \cup {NoAcp},
   acp_form : {"good", "bad"}, seal_key : {"good", "bad"}]

\* What ct-server answers a GetStoredCt with.
Served ==
  [bytes : Bytes, ty : WireTypes, zone : Zones, compact : BOOLEAN, gzipped : BOOLEAN]

ASSUME PathAssumption ==
  /\ IsFiniteSet(Tasks)
  /\ Keccak \in [Bytes -> Hashes]
  /\ \A b, c \in Bytes : Keccak[b] = Keccak[c] => b = c
  /\ NoAcp \notin Acps
  /\ HandleType \in [Handles -> WireTypes]
  /\ HandleZone \in [Handles -> Zones]
  /\ Types \subseteq WireTypes
  /\ {AcpGate, CommitmentGate, WarnOnly} \subseteq BOOLEAN
  /\ AdmitCap \in Nat \ {0}
  /\ DecryptCap \in Nat \ {0}
  /\ PollCap \in Nat \ {0}
  /\ Inputs \subseteq Input
  /\ Replies \subseteq Served
  /\ NoInput \notin Input
  /\ NoCt \notin Served
  /\ 0 \in Zones

VARIABLES
  allowed,       \* the ACL: the <<permission, key>> pairs it allows
  input,         \* per request: its body
  pc,            \* per request: the await it is at
  acp,           \* per request: what the ACP gate said
  ct,            \* per request: the ciphertext ct-server served
  outcome,       \* per request: the code it was answered with
  admitFree,     \* free permits of admit_sem
  cpuFree,       \* free permits of decrypt_sem
  cpuQueue,      \* requests waiting for a permit of decrypt_sem, oldest first
  blocking,      \* requests whose decrypt runs on the blocking pool
  decrypted,     \* per request: what the blocking task returned
  polls,         \* the two v2 poll caches, most recently used result first
  authorised     \* history: was the request allowed at an instant of its life?

gateVars == <<acp, authorised>>
cpuVars == <<cpuFree, cpuQueue, blocking, decrypted>>
pathVars == <<allowed, input, pc, acp, ct, outcome, admitFree, cpuFree, cpuQueue,
              blocking, decrypted, polls, authorised>>
vars == <<ccVars, pathVars>>

InFlightPcs == {"gates", "ct", "refresh", "cpuwait", "cpu", "joined"}
Admitted(r) == pc[r] \in InFlightPcs

Ops == {"decrypt", "sealoutput"}
Result == [id : Requests, bytes : Bytes, ty : WireTypes]

PathTypeOK ==
  /\ allowed \subseteq Permissions
  /\ input \in [Requests -> Input \cup {NoInput}]
  /\ pc \in [Requests -> {"new", "done", "dropped"} \cup InFlightPcs]
  /\ acp \in [Requests -> {"none", "calling", "pass"} \cup AcpErrors]
  /\ ct \in [Requests -> Served \cup {NoCt}]
  /\ outcome \in [Requests -> Codes]
  /\ admitFree \in 0..AdmitCap
  /\ cpuFree \in 0..DecryptCap
  /\ cpuQueue \in Seq(Requests)
  /\ blocking \subseteq Requests
  /\ decrypted \in [Requests -> {"none", "ok", "bad_payload", "panic"}]
  /\ polls \in [Ops -> Seq(Result)]
  /\ authorised \in [Requests -> BOOLEAN]

TypeOK == CCTypeOK /\ PathTypeOK

Init ==
  /\ CCInit
  /\ allowed \in SUBSET Permissions
  /\ input = [r \in Requests |-> NoInput]
  /\ pc = [r \in Requests |-> "new"]
  /\ acp = [r \in Requests |-> "none"]
  /\ ct = [r \in Requests |-> NoCt]
  /\ outcome = [r \in Requests |-> "none"]
  /\ admitFree = AdmitCap
  /\ cpuFree = DecryptCap
  /\ cpuQueue = <<>>
  /\ blocking = {}
  /\ decrypted = [r \in Requests |-> "none"]
  /\ polls = [op \in Ops |-> <<>>]
  /\ authorised = [r \in Requests |-> FALSE]

-----------------------------------------------------------------------------
(* Before admission *)

\* The answer to a body refused before fetch_decrypt is called.
EarlyRefusal(in) ==
  IF in.form = "rejected" THEN "rejected"
  ELSE IF in.form = "bad_handle" THEN "bad_request"
  ELSE IF in.op = "sealoutput" /\ in.acp = NoAcp THEN "acp_required"
  ELSE "none"

Refuse(r, in) ==
  /\ pc[r] = "new"
  /\ EarlyRefusal(in) # "none"
  /\ input' = [input EXCEPT ![r] = in]
  /\ pc' = [pc EXCEPT ![r] = "done"]
  /\ outcome' = [outcome EXCEPT ![r] = EarlyRefusal(in)]
  /\ UNCHANGED <<ccVars, allowed, gateVars, ct, admitFree, cpuVars, polls>>

\* try_acquire_owned fails: shed, retryable.
Shed(r, in) ==
  /\ pc[r] = "new"
  /\ EarlyRefusal(in) = "none"
  /\ admitFree = 0
  /\ input' = [input EXCEPT ![r] = in]
  /\ pc' = [pc EXCEPT ![r] = "done"]
  /\ outcome' = [outcome EXCEPT ![r] = "overloaded"]
  /\ UNCHANGED <<ccVars, allowed, gateVars, ct, admitFree, cpuVars, polls>>

AllowedNow(in) == <<in.acp, in.key>> \in allowed

\* The permit is taken and join! starts both gates.
Admit(r, in) ==
  /\ pc[r] = "new"
  /\ EarlyRefusal(in) = "none"
  /\ admitFree > 0
  /\ admitFree' = admitFree - 1
  /\ input' = [input EXCEPT ![r] = in]
  /\ pc' = [pc EXCEPT ![r] = "gates"]
  /\ acp' = [acp EXCEPT ![r] = IF AcpGate THEN "calling" ELSE "pass"]
  /\ authorised' = [authorised EXCEPT ![r] = AllowedNow(in)]
  /\ IF CommitmentGate THEN fetch_commitment(r, in.key) ELSE UNCHANGED ccVars
  /\ UNCHANGED <<allowed, ct, outcome, cpuVars, polls>>

-----------------------------------------------------------------------------
(* The gates *)

\* The ACP's wire fields convert to the contract's struct.
AcpParses(in) == in.acp # NoAcp => in.acp_form = "good"

\* enforce_acp: an unconfigured chain and a permission that does not parse
\* are refused before the call; then the ACL decides on what it holds now.
enforce_acp(r) ==
  LET in == input[r]
      Says(v) == acp' = [acp EXCEPT ![r] = v]
      Callable == in.key[1] \in AclChains /\ AcpParses(in)
  IN
  /\ pc[r] = "gates"
  /\ acp[r] = "calling"
  /\ \/ in.key[1] \notin AclChains /\ Says("unknown_chain")
     \/ in.key[1] \in AclChains /\ ~AcpParses(in) /\ Says("acp_malformed")
     \/ Callable /\ AllowedNow(in) /\ Says("pass")
     \/ /\ Callable /\ ~AllowedNow(in)
        /\ Says(IF in.acp = NoAcp THEN "not_publicly_allowed" ELSE "acp_denied")
     \/ Callable /\ \E f \in AcpFaults \cap Faults : Says(f)
  /\ UNCHANGED <<ccVars, allowed, input, pc, ct, outcome, admitFree, cpuVars, polls,
                 authorised>>

\* enforce_commitment's answer when the lookup gave no hash.
CommitmentRefusal(res) ==
  CASE res = "not_found" -> "commitment_pending"
    [] res = "timeout"   -> "commitment_verifier_timeout"
    [] res = "transport" -> "commitment_verifier_error"

\* Faulty variant: the admission permit leaks on return.
AnswerKeepsPermit(r, code) ==
  /\ pc' = [pc EXCEPT ![r] = "done"]
  /\ outcome' = [outcome EXCEPT ![r] = code]
  /\ UNCHANGED admitFree

\* fetch_decrypt returns: the response is made and the permit dropped.
Answer(r, code) ==
  /\ pc' = [pc EXCEPT ![r] = "done"]
  /\ outcome' = [outcome EXCEPT ![r] = code]
  /\ admitFree' = admitFree + 1

CommitmentPasses(r) == ~CommitmentGate \/ WarnOnly \/ call[r].res = "ok"

\* Faulty variant: the commitment's verdict is looked at first.
JoinCommitmentFirst(r) ==
  /\ pc[r] = "gates"
  /\ acp[r] # "calling"
  /\ CommitmentGate => call[r].st = "done"
  /\ \/ ~CommitmentPasses(r) /\ Answer(r, CommitmentRefusal(call[r].res))
     \/ CommitmentPasses(r) /\ acp[r] # "pass" /\ Answer(r, acp[r])
     \/ /\ acp[r] = "pass"
        /\ CommitmentPasses(r)
        /\ pc' = [pc EXCEPT ![r] = "ct"]
        /\ UNCHANGED <<outcome, admitFree>>
  /\ UNCHANGED <<ccVars, allowed, input, gateVars, ct, cpuVars, polls>>

\* Faulty variant: select! instead of join!, on with the first gate to pass.
JoinFirstPass(r) ==
  /\ pc[r] = "gates"
  /\ CommitmentGate => call[r].st = "done"
  /\ \/ acp[r] \in AcpErrors /\ Answer(r, acp[r])
     \/ /\ acp[r] \notin AcpErrors
        /\ ~CommitmentPasses(r)
        /\ Answer(r, CommitmentRefusal(call[r].res))
     \/ /\ acp[r] \notin AcpErrors
        /\ CommitmentPasses(r)
        /\ pc' = [pc EXCEPT ![r] = "ct"]
        /\ UNCHANGED <<outcome, admitFree>>
  /\ UNCHANGED <<ccVars, allowed, input, gateVars, ct, cpuVars, polls>>

\* Both gates are in.  An ACP error wins over whatever the commitment said.
JoinGates(r) ==
  /\ pc[r] = "gates"
  /\ acp[r] # "calling"
  /\ CommitmentGate => call[r].st = "done"
  /\ \/ acp[r] # "pass" /\ Answer(r, acp[r])
     \/ /\ acp[r] = "pass"
        /\ ~CommitmentPasses(r)
        /\ Answer(r, CommitmentRefusal(call[r].res))
     \/ /\ acp[r] = "pass"
        /\ CommitmentPasses(r)
        /\ pc' = [pc EXCEPT ![r] = "ct"]
        /\ UNCHANGED <<outcome, admitFree>>
  /\ UNCHANGED <<ccVars, allowed, input, gateVars, ct, cpuVars, polls>>

-----------------------------------------------------------------------------
(* The ciphertext *)

CtFails(r) ==
  /\ pc[r] = "ct"
  /\ \E f \in CtFaults \cap Faults : Answer(r, f)
  /\ UNCHANGED <<ccVars, allowed, input, gateVars, ct, cpuVars, polls>>

\* Zone and stored form, checked before the bytes are looked at.
EnvelopeFault(c) ==
  IF c.zone # 0 THEN "unsupported_security_zone"
  ELSE IF c.compact \/ ~c.gzipped THEN "ct_source_error"
  ELSE "none"

\* Faulty variant: the declared type is trusted.
MetadataTrusted(h, c) ==
  IF c.ty \notin Types THEN "unsupported_type"
  ELSE IF HandleZone[h] # c.zone THEN "ct_zone_mismatch"
  ELSE "none"

\* Declared type and zone against the handle's own metadata bytes.
MetadataFault(h, c) ==
  IF c.ty \notin Types THEN "unsupported_type"
  ELSE IF HandleType[h] # c.ty THEN "ct_type_mismatch"
  ELSE IF HandleZone[h] # c.zone THEN "ct_zone_mismatch"
  ELSE "none"

calc_commitment(b) == Keccak[b]

\* expected_commit is Some and differs from the hash of the served bytes.
Mismatch(r, c) ==
  CommitmentGate /\ call[r].res = "ok" /\ calc_commitment(c.bytes) # call[r].ans

\* The bytes are accepted: check the metadata, then queue for the CPU.
Accept(r, c) ==
  LET fault == MetadataFault(input[r].key[2], c) IN
  \/ fault # "none" /\ Answer(r, fault) /\ UNCHANGED cpuQueue
  \/ /\ fault = "none"
     /\ pc' = [pc EXCEPT ![r] = "cpuwait"]
     /\ cpuQueue' = Append(cpuQueue, r)
     /\ UNCHANGED <<outcome, admitFree>>

\* Faulty variant: a cached hash is as final as one just read.
CtArrivesTrustsCache(r, c) ==
  /\ pc[r] = "ct"
  /\ \/ /\ EnvelopeFault(c) # "none"
        /\ Answer(r, EnvelopeFault(c))
        /\ UNCHANGED <<ct, cpuQueue>>
     \/ /\ EnvelopeFault(c) = "none"
        /\ Mismatch(r, c) /\ ~WarnOnly
        /\ Answer(r, "commitment_mismatch")
        /\ ct' = [ct EXCEPT ![r] = c]
        /\ UNCHANGED cpuQueue
     \/ /\ EnvelopeFault(c) = "none"
        /\ Mismatch(r, c) => WarnOnly
        /\ Accept(r, c)
        /\ ct' = [ct EXCEPT ![r] = c]
  /\ UNCHANGED <<ccVars, allowed, input, gateVars, cpuFree, blocking, decrypted, polls>>

\* A row arrives.  A mismatch with a cached hash makes the request re-read
\* the registry; a mismatch with a hash just read is final.
CtArrives(r, c) ==
  /\ pc[r] = "ct"
  /\ \/ /\ EnvelopeFault(c) # "none"
        /\ Answer(r, EnvelopeFault(c))
        /\ UNCHANGED <<ccVars, ct, cpuQueue>>
     \/ /\ EnvelopeFault(c) = "none"
        /\ Mismatch(r, c) /\ call[r].from_cache
        /\ refresh_commitment(r, input[r].key)
        /\ pc' = [pc EXCEPT ![r] = "refresh"]
        /\ ct' = [ct EXCEPT ![r] = c]
        /\ UNCHANGED <<outcome, admitFree, cpuQueue>>
     \/ /\ EnvelopeFault(c) = "none"
        /\ Mismatch(r, c) /\ ~call[r].from_cache /\ ~WarnOnly
        /\ Answer(r, "commitment_mismatch")
        /\ ct' = [ct EXCEPT ![r] = c]
        /\ UNCHANGED <<ccVars, cpuQueue>>
     \/ /\ EnvelopeFault(c) = "none"
        /\ Mismatch(r, c) => ~call[r].from_cache /\ WarnOnly
        /\ Accept(r, c)
        /\ ct' = [ct EXCEPT ![r] = c]
        /\ UNCHANGED ccVars
  /\ UNCHANGED <<allowed, input, gateVars, cpuFree, blocking, decrypted, polls>>

\* Faulty variant: a re-read that fails lets the bytes through.
RereadFailsOpen(r) ==
  LET matches == call[r].res = "ok" /\ calc_commitment(ct[r].bytes) = call[r].ans IN
  /\ pc[r] = "refresh"
  /\ call[r].st = "done"
  /\ \/ /\ matches \/ WarnOnly \/ call[r].res \in {"timeout", "transport"}
        /\ Accept(r, ct[r])
     \/ /\ ~WarnOnly /\ call[r].res = "not_found"
        /\ Answer(r, "commitment_pending")
        /\ UNCHANGED cpuQueue
     \/ /\ ~WarnOnly /\ ~matches /\ call[r].res = "ok"
        /\ Answer(r, "commitment_mismatch")
        /\ UNCHANGED cpuQueue
  /\ UNCHANGED <<ccVars, allowed, input, gateVars, ct, cpuFree, blocking, decrypted,
                 polls>>

\* Faulty variant: warn-only mode is forgotten where the re-read still disagrees.
RereadAlwaysRefuses(r) ==
  LET matches == call[r].res = "ok" /\ calc_commitment(ct[r].bytes) = call[r].ans IN
  /\ pc[r] = "refresh"
  /\ call[r].st = "done"
  /\ \/ matches /\ Accept(r, ct[r])
     \/ /\ ~matches
        /\ Answer(r, "commitment_mismatch")
        /\ UNCHANGED cpuQueue
  /\ UNCHANGED <<ccVars, allowed, input, gateVars, ct, cpuFree, blocking, decrypted,
                 polls>>

\* The re-read is in.  Finding no commitment is retryable; failing to read
\* leaves the cached hash standing, which the bytes did not match.
Reread(r) ==
  LET matches == call[r].res = "ok" /\ calc_commitment(ct[r].bytes) = call[r].ans IN
  /\ pc[r] = "refresh"
  /\ call[r].st = "done"
  /\ \/ (matches \/ WarnOnly) /\ Accept(r, ct[r])
     \/ /\ ~WarnOnly /\ call[r].res = "not_found"
        /\ Answer(r, "commitment_pending")
        /\ UNCHANGED cpuQueue
     \/ /\ ~WarnOnly /\ ~matches /\ call[r].res # "not_found"
        /\ Answer(r, "commitment_mismatch")
        /\ UNCHANGED cpuQueue
  /\ UNCHANGED <<ccVars, allowed, input, gateVars, ct, cpuFree, blocking, decrypted,
                 polls>>

-----------------------------------------------------------------------------
(* The CPU gate: run_gated *)

\* The oldest waiter gets a permit and its work is spawned.
CpuStart(r) ==
  /\ pc[r] = "cpuwait"
  /\ cpuQueue # <<>> /\ Head(cpuQueue) = r
  /\ cpuFree > 0
  /\ cpuFree' = cpuFree - 1
  /\ cpuQueue' = Tail(cpuQueue)
  /\ blocking' = blocking \cup {r}
  /\ pc' = [pc EXCEPT ![r] = "cpu"]
  /\ UNCHANGED <<ccVars, allowed, input, gateVars, ct, outcome, admitFree, decrypted,
                 polls>>

\* The work returns or panics; the permit it owns is dropped.  Its result
\* reaches the request unless that is gone.
CpuEnd(r) ==
  /\ r \in blocking
  /\ blocking' = blocking \ {r}
  /\ cpuFree' = cpuFree + 1
  /\ \E d \in {"ok", "bad_payload", "panic"} :
       decrypted' = [decrypted EXCEPT ![r] = d]
  /\ pc' = IF pc[r] = "cpu" THEN [pc EXCEPT ![r] = "joined"] ELSE pc
  /\ UNCHANGED <<ccVars, allowed, input, gateVars, ct, outcome, admitFree, cpuQueue,
                 polls>>

-----------------------------------------------------------------------------
(* The response *)

\* Faulty variant: both operations share one poll cache.
RememberShared(r) ==
  polls' = [polls EXCEPT !["decrypt"] =
              LET all == <<[id |-> r, bytes |-> ct[r].bytes, ty |-> ct[r].ty]>> \o @
              IN IF Len(all) > PollCap THEN Front(all) ELSE all]

\* A cached result is keyed by a fresh request id; the least recently used
\* result makes room.
Remember(r) ==
  polls' = [polls EXCEPT ![input[r].op] =
              LET all == <<[id |-> r, bytes |-> ct[r].bytes, ty |-> ct[r].ty]>> \o @
              IN IF Len(all) > PollCap THEN Front(all) ELSE all]

\* The permission's sealing key is no usable public key.
BadSealKey(in) == in.op = "sealoutput" /\ in.seal_key = "bad"

\* The blocking task is joined: seal if asked to, sign, remember a v2 result.
Respond(r) ==
  /\ pc[r] = "joined"
  /\ \/ decrypted[r] = "bad_payload" /\ Answer(r, "ct_source_error") /\ UNCHANGED polls
     \/ decrypted[r] = "panic" /\ Answer(r, "internal_error") /\ UNCHANGED polls
     \/ /\ decrypted[r] = "ok"
        /\ BadSealKey(input[r])
        /\ Answer(r, "acp_malformed")
        /\ UNCHANGED polls
     \/ /\ decrypted[r] = "ok"
        /\ ~BadSealKey(input[r])
        /\ \E f \in Faults \cap {"seal_failed", "signing_failed"} :
             /\ f = "seal_failed" => input[r].op = "sealoutput"
             /\ Answer(r, f)
        /\ UNCHANGED polls
     \/ /\ decrypted[r] = "ok"
        /\ ~BadSealKey(input[r])
        /\ Answer(r, "ok")
        /\ IF input[r].api = "v2" THEN Remember(r) ELSE UNCHANGED polls
  /\ UNCHANGED <<ccVars, allowed, input, gateVars, ct, cpuVars>>

\* GET /v2/<op>/<id>: reads, and touches, a cached result; 404 without one.
PollAnswers(op, id) == {polls[op][i] : i \in {j \in 1..Len(polls[op]) : polls[op][j].id = id}}

Poll(op, id) ==
  /\ \E res \in PollAnswers(op, id) :
       polls' = [polls EXCEPT ![op] = <<res>> \o RemoveFirst(@, res)]
  /\ UNCHANGED <<ccVars, allowed, input, pc, gateVars, ct, outcome, admitFree, cpuVars>>

\* Faulty variant: the CPU permit goes with the future, not with the work.
DisconnectFreesCpu(r) ==
  /\ Admitted(r)
  /\ pc' = [pc EXCEPT ![r] = "dropped"]
  /\ admitFree' = admitFree + 1
  /\ cpuFree' = IF pc[r] = "cpu" THEN cpuFree + 1 ELSE cpuFree
  /\ cpuQueue' = RemoveFirst(cpuQueue, r)
  /\ IF InFlight(r) THEN Abandon(r) ELSE UNCHANGED ccVars
  /\ UNCHANGED <<allowed, input, gateVars, ct, outcome, blocking, decrypted, polls>>

\* Faulty variant: a waiter that leaves stays in the queue.
DisconnectLeavesGhost(r) ==
  /\ Admitted(r)
  /\ pc' = [pc EXCEPT ![r] = "dropped"]
  /\ admitFree' = admitFree + 1
  /\ IF InFlight(r) THEN Abandon(r) ELSE UNCHANGED ccVars
  /\ UNCHANGED <<allowed, input, gateVars, ct, outcome, cpuVars, polls>>

\* Faulty variant: a permit is given back for a request already answered.
DisconnectTwice(r) ==
  /\ pc[r] \notin {"new", "dropped"}
  /\ pc' = [pc EXCEPT ![r] = "dropped"]
  /\ admitFree' = admitFree + 1
  /\ cpuQueue' = RemoveFirst(cpuQueue, r)
  /\ IF InFlight(r) THEN Abandon(r) ELSE UNCHANGED ccVars
  /\ UNCHANGED <<allowed, input, gateVars, ct, outcome, cpuFree, blocking, decrypted,
                 polls>>

\* The client goes away: the future is dropped with the admission permit,
\* its place in the queue and its lookup, but not the blocking work.
Disconnect(r) ==
  /\ Admitted(r)
  /\ pc' = [pc EXCEPT ![r] = "dropped"]
  /\ admitFree' = admitFree + 1
  /\ cpuQueue' = RemoveFirst(cpuQueue, r)
  /\ IF InFlight(r) THEN Abandon(r) ELSE UNCHANGED ccVars
  /\ UNCHANGED <<allowed, input, gateVars, ct, outcome, cpuFree, blocking, decrypted,
                 polls>>

-----------------------------------------------------------------------------
(* The environment *)

\* The ACL changes: a permission is granted or revoked.
AclChange(p) ==
  /\ allowed' = IF p \in allowed THEN allowed \ {p} ELSE allowed \cup {p}
  /\ authorised' = [r \in Requests |->
       authorised[r] \/ (Admitted(r) /\ <<input[r].acp, input[r].key>> \in allowed')]
  /\ UNCHANGED <<ccVars, input, pc, acp, ct, outcome, admitFree, cpuVars, polls>>

\* A step of the registry, of time, or of the lookup under way.
Environment ==
  /\ \/ \E r \in Requests : CallStep(r)
     \/ \E h \in Handles, v \in Hashes : PostCommitment(h, v)
     \/ Redeploy
     \/ Tick
  /\ UNCHANGED pathVars

RequestStep(r) ==
  \/ \E in \in Inputs : Refuse(r, in) \/ Shed(r, in) \/ Admit(r, in)
  \/ enforce_acp(r)
  \/ JoinGates(r)
  \/ CtFails(r)
  \/ \E c \in Replies : CtArrives(r, c)
  \/ Reread(r)
  \/ CpuStart(r)
  \/ CpuEnd(r)
  \/ Respond(r)
  \/ Disconnect(r)

Next ==
  \/ \E r \in Requests : RequestStep(r)
  \/ \E op \in Ops, id \in Requests : Poll(op, id)
  \/ \E p \in Permissions : AclChange(p)
  \/ Environment

Spec == Init /\ [][Next]_vars

\* What the code does for a request once it is polled: all but the client's
\* and the other services' choices.  Its remote calls are bounded by
\* timeouts and the decrypt itself terminates.
Progress(r) ==
  \/ enforce_acp(r) \/ JoinGates(r)
  \/ CtFails(r) \/ \E c \in Replies : CtArrives(r, c)
  \/ Reread(r) \/ CpuStart(r) \/ CpuEnd(r) \/ Respond(r)

\* Tokio polls every ready task and fires every timer.
Fairness ==
  /\ WF_vars(Tick /\ UNCHANGED pathVars)
  /\ \A r \in Requests :
       /\ WF_vars(Progress(r))
       /\ WF_vars((Reconcile(r) \/ CallTimesOut(r)) /\ UNCHANGED pathVars)

LiveSpec == Spec /\ Fairness

-----------------------------------------------------------------------------
(* Properties *)

\* The requests whose plaintext the service computes, has computed or
\* answered with.
Exposed(r) == r \in blocking \/ pc[r] = "joined" \/ outcome[r] = "ok"

(* With the ACP gate installed, no decrypt even starts unless the ACL      *)
(* allowed exactly this permission for this handle at an instant between   *)
(* the request's admission and now: no verdict is borrowed from another    *)
(* request or from before it.                                              *)
AuthorisedOnly == AcpGate => \A r \in Requests : Exposed(r) => authorised[r]

(* With the commitment gate enforcing no decrypt even starts, whatever      *)
(* ct-server serves, on bytes that do not hash to what the request's own    *)
(* lookup ended with: wipes, failed re-reads and disconnects included, no   *)
(* cached hash is overruled by anything but a commitment read after it.     *)
(* While the environment is not wiped that hash, whether it was cached,     *)
(* read or re-read, is the one the registry commits the handle to.          *)
CommittedOnly ==
  CommitmentGate /\ ~WarnOnly =>
    \A r \in Requests :
      Exposed(r) =>
        /\ call[r].res = "ok" /\ calc_commitment(ct[r].bytes) = call[r].ans
        /\ redeploys = 0 => calc_commitment(ct[r].bytes) = registry[input[r].key[2]]

(* Nor is a request refused for a mismatch that is none.  A cached hash     *)
(* alone, which a wipe leaves behind, never decides it: either the request  *)
(* itself read the registry and the bytes differ from what it read, or its  *)
(* read failed.  Without a wipe commitment_mismatch means that the bytes    *)
(* served are not the committed ones.                                       *)
RefusedRightly ==
  \A r \in Requests :
    outcome[r] = "commitment_mismatch" =>
      /\ ~call[r].from_cache
      /\ \/ call[r].res \in {"timeout", "transport"}
         \/ call[r].res = "ok" /\ calc_commitment(ct[r].bytes) # call[r].ans
      /\ redeploys = 0 => calc_commitment(ct[r].bytes) # registry[input[r].key[2]]

(* A request the ACP gate refuses is told so, whichever gate answers first *)
(* and whatever the commitment gate says: it is never told to retry, and   *)
(* its ciphertext is never fetched.                                        *)
DenialWins ==
  \A r \in Requests :
    acp[r] \in AcpErrors =>
      /\ pc[r] \in {"gates", "done", "dropped"}
      /\ outcome[r] \in {"none", acp[r]}

(* What is decrypted has the type and zone of the handle's own bytes and a *)
(* type and zone this build supports, whatever ct-server declares.         *)
MetadataBound ==
  \A r \in Requests :
    Exposed(r) =>
      /\ ct[r].ty = HandleType[input[r].key[2]]
      /\ ct[r].ty \in Types
      /\ ct[r].zone = 0 /\ HandleZone[input[r].key[2]] = 0

(* Every way a request can end, disconnects included, gives its admission  *)
(* permit back, once.                                                      *)
AdmitConserved ==
  admitFree + Cardinality({r \in Requests : Admitted(r)}) = AdmitCap

(* Decrypts on the blocking pool, those of departed clients included, hold *)
(* exactly the permits that are not free: the cap holds under cancellation *)
(* and a panic loses no permit.                                            *)
CpuCapped == cpuFree + Cardinality(blocking) = DecryptCap

(* The wait queue of the CPU gate holds each waiting request once and no   *)
(* other: a disconnect leaves no ghost that would block the ones behind.   *)
QueueExact ==
  /\ \A i, j \in 1..Len(cpuQueue) : cpuQueue[i] = cpuQueue[j] => i = j
  /\ ToSet(cpuQueue) = {r \in Requests : pc[r] = "cpuwait"}

(* A v2 poll returns the result its own request was answered with, on the  *)
(* status route of its own operation, and no cache outgrows its capacity.  *)
PollsOwnResult ==
  \A op \in Ops :
    /\ \A id \in Requests : \A res \in PollAnswers(op, id) :
         /\ outcome[id] = "ok"
         /\ input[id].op = op /\ input[id].api = "v2"
         /\ res.bytes = ct[id].bytes /\ res.ty = ct[id].ty
    /\ Len(polls[op]) <= PollCap
    /\ \A i, j \in 1..Len(polls[op]) : polls[op][i].id = polls[op][j].id => i = j

(* A response, once made, is never changed and its permit never taken back.*)
AnsweredOnce ==
  [][\A r \in Requests : outcome[r] # "none" =>
       outcome'[r] = outcome[r] /\ pc'[r] = pc[r]]_vars

(* Every admitted request ends, even with a dead registry, a full CPU gate *)
(* and clients that leave while they are first in line.                    *)
RequestEnds == \A r \in Requests : Admitted(r) ~> ~Admitted(r)

(* In warn-only mode the commitment gate refuses nothing: no answer of its *)
(* own ever reaches a client, neither at the gate nor after a re-read.     *)
WarnOnlyAllows ==
  WarnOnly =>
    \A r \in Requests :
      outcome[r] \notin {"commitment_pending", "commitment_mismatch",
                        "commitment_verifier_timeout", "commitment_verifier_error"}

(* enforce_commitment_integrity's documentation: a request is refused for  *)
(* a mismatch only on a hash that a registry read of its own confirmed.    *)
RefusedOnFreshHash ==
  \A r \in Requests :
    outcome[r] = "commitment_mismatch" => call[r].res = "ok" /\ ~call[r].from_cache
=============================================================================
