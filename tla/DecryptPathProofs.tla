------------------------- MODULE DecryptPathProofs -------------------------
(***************************************************************************)
(* The request path is proved here for any number of concurrent requests,  *)
(* any capacities, any inputs and replies and any failures.                *)
(***************************************************************************)
EXTENDS DecryptPath, CommitmentCacheProofs, FiniteSetTheorems

\* PathTypeOK without the two counters, whose ranges follow from Permits.
Shape ==
  /\ allowed \subseteq Permissions
  /\ input \in [Requests -> Input \cup {NoInput}]
  /\ pc \in [Requests -> {"new", "done", "dropped"} \cup InFlightPcs]
  /\ acp \in [Requests -> {"none", "calling", "pass"} \cup AcpErrors]
  /\ ct \in [Requests -> Served \cup {NoCt}]
  /\ outcome \in [Requests -> Codes]
  /\ cpuQueue \in Seq(Requests)
  /\ blocking \subseteq Requests
  /\ decrypted \in [Requests -> {"none", "ok", "bad_payload", "panic"}]
  /\ polls \in [Ops -> Seq(Result)]
  /\ authorised \in [Requests -> BOOLEAN]

Admittees == {r \in Requests : Admitted(r)}

\* No permit is lost or made up, on either semaphore.
Permits ==
  /\ admitFree \in Nat /\ AdmitConserved
  /\ cpuFree \in Nat /\ CpuCapped

\* The request passed every check before the decrypt.
Cleared(r) == pc[r] \in {"cpuwait", "cpu", "joined"} \/ r \in blocking \/ outcome[r] = "ok"

\* The request is past the gates.
PastGates(r) == pc[r] \in {"ct", "refresh"} \/ Cleared(r)

\* The life of one request, as far as it does not depend on the registry.
ReqInv(r) ==
  /\ pc[r] # "new" => input[r] \in Input
  /\ pc[r] # "done" => outcome[r] = "none"
  /\ pc[r] \in {"new"} => acp[r] = "none"
  /\ Admitted(r) => acp[r] # "none"
  /\ r \in blocking => pc[r] \in {"cpu", "dropped"}
  /\ pc[r] = "cpu" => r \in blocking
  /\ PastGates(r) => acp[r] = "pass" /\ pc[r] # "new"
  /\ AcpGate /\ acp[r] = "pass" => authorised[r]
  /\ Admitted(r) /\ <<input[r].acp, input[r].key>> \in allowed => authorised[r]
  /\ pc[r] = "refresh" \/ Cleared(r) => ct[r] \in Served /\ EnvelopeFault(ct[r]) = "none"
  /\ Cleared(r) => MetadataFault(input[r].key[2], ct[r]) = "none"
  /\ acp[r] \in AcpErrors => outcome[r] \in {"none", acp[r]}

PathInv ==
  /\ CCInv
  /\ Shape
  /\ Permits
  /\ QueueExact
  /\ \A r \in Requests : ReqInv(r)

\* Nothing of request q changes.
Same(q) ==
  /\ pc'[q] = pc[q] /\ input'[q] = input[q] /\ acp'[q] = acp[q] /\ ct'[q] = ct[q]
  /\ outcome'[q] = outcome[q] /\ authorised'[q] = authorised[q]
  /\ q \in blocking' <=> q \in blocking

(* A request nothing of which changes stays as it should be. *)
LEMMA Frame ==
  ASSUME NEW q, ReqInv(q), Same(q), UNCHANGED allowed
  PROVE  ReqInv(q)'
BY DEF ReqInv, Same, PastGates, Cleared, Admitted

(* Adding to or taking from a set of requests changes its size by one. *)
LEMMA OneMore ==
  ASSUME NEW A \in SUBSET Requests, NEW r \in Requests
  PROVE  /\ IsFiniteSet(A) /\ Cardinality(A) \in Nat
         /\ r \notin A => Cardinality(A \cup {r}) = Cardinality(A) + 1
         /\ r \in A => Cardinality(A \ {r}) = Cardinality(A) - 1
<1>1. IsFiniteSet(A) /\ Cardinality(A) \in Nat
  BY PathAssumption, FS_Subset, FS_CardinalityType DEF Requests
<1>2. r \notin A => Cardinality(A \cup {r}) = Cardinality(A) + 1
  BY <1>1, FS_AddElement
<1>3. r \in A => Cardinality(A \ {r}) = Cardinality(A) - 1
  BY <1>1, FS_RemoveElement
<1> QED
  BY <1>1, <1>2, <1>3

(* The admission permits: taken on admission, given back when a request    *)
(* leaves the path, otherwise kept.                                        *)
LEMMA PermitMoves ==
  ASSUME Shape, Permits, NEW r \in Requests, NEW p,
         pc' = [pc EXCEPT ![r] = p], UNCHANGED <<cpuFree, blocking>>,
         \/ ~Admitted(r) /\ p \in InFlightPcs /\ admitFree > 0 /\ admitFree' = admitFree - 1
         \/ Admitted(r) /\ p \notin InFlightPcs /\ admitFree' = admitFree + 1
         \/ (Admitted(r) <=> p \in InFlightPcs) /\ admitFree' = admitFree
  PROVE  Permits'
<1>1. Admittees \in SUBSET Requests /\ pc \in [Requests -> {"new", "done", "dropped"} \cup InFlightPcs]
  BY DEF Admittees, Shape
<1>2. Admittees' = IF p \in InFlightPcs THEN Admittees \cup {r} ELSE Admittees \ {r}
  BY <1>1 DEF Admittees, Admitted
<1>3. r \in Admittees <=> Admitted(r)
  BY DEF Admittees
<1> DEFINE n == Cardinality(Admittees)
<1>4. n \in Nat /\ admitFree \in Nat /\ admitFree + n = AdmitCap /\ AdmitCap \in Nat
  BY <1>1, OneMore, PathAssumption DEF Permits, AdmitConserved, Admittees
<1>5. CASE ~Admitted(r) /\ p \in InFlightPcs /\ admitFree > 0 /\ admitFree' = admitFree - 1
  <2>1. Cardinality(Admittees') = n + 1
    BY <1>1, <1>2, <1>3, <1>5, OneMore
  <2> QED
    BY <1>4, <1>5, <2>1 DEF Permits, AdmitConserved, CpuCapped, Admittees
<1>6. CASE Admitted(r) /\ p \notin InFlightPcs /\ admitFree' = admitFree + 1
  <2>1. Cardinality(Admittees') = n - 1
    BY <1>1, <1>2, <1>3, <1>6, OneMore
  <2> QED
    BY <1>4, <1>6, <2>1 DEF Permits, AdmitConserved, CpuCapped, Admittees
<1>7. CASE (Admitted(r) <=> p \in InFlightPcs) /\ admitFree' = admitFree
  <2>1. Admittees' = Admittees
    BY <1>2, <1>3, <1>7
  <2> QED
    BY <1>4, <1>7, <2>1 DEF Permits, AdmitConserved, CpuCapped, Admittees
<1> QED
  BY <1>5, <1>6, <1>7

\* The service starts in the invariant.
LEMMA PathInitInv == Init => PathInv
<1> SUFFICES ASSUME Init
             PROVE  PathInv
  OBVIOUS
<1>1. CCInv
  BY CCInitInv DEF Init
<1>2. Shape
  BY EmptySeq DEF Init, Shape, Codes, Permissions
<1>3. Admittees = {} /\ blocking = {}
  BY DEF Init, Admittees, Admitted, InFlightPcs
<1>4. Permits
  <2>1. Cardinality(Admittees) = 0 /\ Cardinality(blocking) = 0
    BY <1>3, FS_EmptySet
  <2>2. /\ admitFree = AdmitCap /\ cpuFree = DecryptCap
        /\ AdmitCap \in Nat /\ DecryptCap \in Nat
    BY PathAssumption DEF Init
  <2> QED
    BY <2>1, <2>2 DEF Permits, AdmitConserved, CpuCapped, Admittees
<1>5. QueueExact
  BY DEF Init, QueueExact, ToSet
<1>6. \A r \in Requests : ReqInv(r)
  BY DEF Init, ReqInv, PastGates, Cleared, Admitted, InFlightPcs, AcpErrors
<1> QED
  BY <1>1, <1>2, <1>4, <1>5, <1>6 DEF PathInv

(* The queue is unaffected by a request that neither joins nor leaves it. *)
LEMMA QueueKept ==
  ASSUME Shape, QueueExact, NEW r \in Requests, NEW p, pc' = [pc EXCEPT ![r] = p],
         UNCHANGED cpuQueue, pc[r] # "cpuwait", p # "cpuwait"
  PROVE  QueueExact'
BY DEF Shape, QueueExact

(* A request that is answered: its permit is back and it has what the code *)
(* it is answered with requires.                                           *)
LEMMA AnswerStep ==
  ASSUME PathInv, CCInv', NEW r \in Requests, Admitted(r), pc[r] \notin {"cpuwait", "cpu"},
         NEW code \in Codes, Answer(r, code),
         acp[r] \in AcpErrors => code = acp[r],
         code = "ok" => pc[r] = "joined",
         ct' = ct \/ (pc[r] = "ct" /\ \E c \in Served : ct' = [ct EXCEPT ![r] = c]),
         polls' \in [Ops -> Seq(Result)],
         UNCHANGED <<allowed, input, acp, authorised, cpuFree, cpuQueue, blocking, decrypted>>
  PROVE  PathInv'
<1>1. Shape /\ ReqInv(r)
  BY DEF PathInv
<1>2. Shape'
  BY <1>1 DEF Shape, Answer
<1>3. Permits'
  <2>1. "done" \notin InFlightPcs
    BY DEF InFlightPcs
  <2> QED
    BY <1>1, <2>1, PermitMoves DEF Answer, PathInv
<1>4. QueueExact'
  BY <1>1, QueueKept DEF Answer, PathInv
<1>5. ASSUME NEW q \in Requests, q # r
      PROVE  ReqInv(q)'
  <2>1. Same(q)
    BY <1>1, <1>5 DEF Same, Answer, Shape
  <2> QED
    BY <2>1, Frame DEF PathInv
<1>6. ReqInv(r)'
  <2>1. pc'[r] = "done" /\ outcome'[r] = code /\ r \notin blocking
    BY <1>1 DEF Answer, Shape, ReqInv, Admitted, InFlightPcs
  <2>2. ~Admitted(r)' /\ input[r] \in Input
    BY <1>1, <2>1 DEF Admitted, InFlightPcs, ReqInv
  <2>3. Cleared(r)' => pc[r] = "joined" /\ Cleared(r) /\ ct'[r] = ct[r] /\ acp[r] = "pass"
    BY <1>1, <2>1 DEF Cleared, ReqInv, PastGates
  <2> QED
    BY <1>1, <2>1, <2>2, <2>3 DEF ReqInv, PastGates
<1> QED
  BY <1>2, <1>3, <1>4, <1>5, <1>6 DEF PathInv

(* A request refused before admission, or shed. *)
LEMMA TurnedAwayStep ==
  ASSUME PathInv, CCInv', NEW r \in Requests, NEW in \in Inputs, Refuse(r, in) \/ Shed(r, in)
  PROVE  PathInv'
<1>1. Shape /\ ReqInv(r) /\ in \in Input
  BY PathAssumption DEF PathInv
<1>2. PICK code \in Codes \ {"ok", "none"} :
        /\ pc[r] = "new" /\ pc' = [pc EXCEPT ![r] = "done"]
        /\ outcome' = [outcome EXCEPT ![r] = code]
        /\ input' = [input EXCEPT ![r] = in]
        /\ UNCHANGED <<allowed, acp, authorised, ct, admitFree, cpuFree, cpuQueue, blocking,
                       decrypted, polls>>
  <2>1. EarlyRefusal(in) \in {"rejected", "bad_request", "acp_required", "none"}
    BY DEF EarlyRefusal
  <2>2. {"rejected", "bad_request", "acp_required", "overloaded"} \subseteq Codes \ {"ok", "none"}
    BY DEF Codes
  <2> QED
    BY <2>1, <2>2 DEF Refuse, Shed, gateVars, cpuVars
<1>3. Shape'
  BY <1>1, <1>2 DEF Shape
<1>4. Permits'
  <2>1. ~Admitted(r) /\ "done" \notin InFlightPcs
    BY <1>2 DEF InFlightPcs, Admitted
  <2> QED
    BY <1>1, <1>2, <2>1, PermitMoves DEF PathInv
<1>5. QueueExact'
  BY <1>1, <1>2, QueueKept DEF PathInv
<1>6. ASSUME NEW q \in Requests, q # r
      PROVE  ReqInv(q)'
  <2>1. Same(q)
    BY <1>1, <1>2, <1>6 DEF Same, Shape
  <2> QED
    BY <1>2, <2>1, Frame DEF PathInv
<1>7. ReqInv(r)'
  <2>1. pc'[r] = "done" /\ outcome'[r] = code /\ r \notin blocking /\ input'[r] = in
    BY <1>1, <1>2 DEF Shape, ReqInv
  <2>2. ~Admitted(r)' /\ ~Cleared(r)' /\ acp'[r] = "none" /\ "none" \notin AcpErrors
    BY <1>1, <1>2, <2>1 DEF Admitted, InFlightPcs, ReqInv, Cleared, AcpErrors
  <2> QED
    BY <1>1, <1>2, <2>1, <2>2 DEF ReqInv, PastGates
<1> QED
  BY <1>3, <1>4, <1>5, <1>6, <1>7 DEF PathInv

(* A request admitted to the gates. *)
LEMMA AdmitStep ==
  ASSUME PathInv, CCInv', NEW r \in Requests, NEW in \in Inputs, Admit(r, in)
  PROVE  PathInv'
<1>1. Shape /\ ReqInv(r) /\ in \in Input /\ AcpGate \in BOOLEAN
  BY PathAssumption DEF PathInv
<1>2. /\ pc[r] = "new" /\ pc' = [pc EXCEPT ![r] = "gates"]
      /\ admitFree > 0 /\ admitFree' = admitFree - 1
      /\ input' = [input EXCEPT ![r] = in]
      /\ acp' = [acp EXCEPT ![r] = IF AcpGate THEN "calling" ELSE "pass"]
      /\ authorised' = [authorised EXCEPT ![r] = AllowedNow(in)]
      /\ UNCHANGED <<allowed, outcome, ct, cpuFree, cpuQueue, blocking, decrypted, polls>>
  BY DEF Admit, cpuVars
<1>3. Shape'
  BY <1>1, <1>2 DEF Shape, AllowedNow, InFlightPcs
<1>4. Permits'
  <2>1. ~Admitted(r) /\ "gates" \in InFlightPcs
    BY <1>2 DEF InFlightPcs, Admitted
  <2> QED
    BY <1>1, <1>2, <2>1, PermitMoves DEF PathInv
<1>5. QueueExact'
  BY <1>1, <1>2, QueueKept DEF PathInv
<1>6. ASSUME NEW q \in Requests, q # r
      PROVE  ReqInv(q)'
  <2>1. Same(q)
    BY <1>1, <1>2, <1>6 DEF Same, Shape
  <2> QED
    BY <1>2, <2>1, Frame DEF PathInv
<1>7. ReqInv(r)'
  <2>1. /\ pc'[r] = "gates" /\ outcome'[r] = "none" /\ r \notin blocking /\ input'[r] = in
        /\ acp'[r] = (IF AcpGate THEN "calling" ELSE "pass")
        /\ authorised'[r] = (<<in.acp, in.key>> \in allowed)
    BY <1>1, <1>2 DEF Shape, ReqInv, AllowedNow
  <2>2. ~Cleared(r)' /\ ~PastGates(r)' /\ acp'[r] \notin AcpErrors
    BY <1>1, <1>2, <2>1 DEF Cleared, PastGates, AcpErrors
  <2>3. <<input'[r].acp, input'[r].key>> \in allowed' => authorised'[r]
    BY <1>2, <2>1
  <2>4. ~(AcpGate /\ acp'[r] = "pass") /\ acp'[r] # "none"
    BY <2>1
  <2> QED
    BY <1>1, <1>2, <2>1, <2>2, <2>3, <2>4 DEF ReqInv
<1> QED
  BY <1>3, <1>4, <1>5, <1>6, <1>7 DEF PathInv

(* The ACP gate answers: it passes only what the ACL allows now, and what  *)
(* it allows now the history has recorded.                                 *)
LEMMA AcpStep ==
  ASSUME PathInv, CCInv', NEW r \in Requests, enforce_acp(r)
  PROVE  PathInv'
<1>1. Shape /\ ReqInv(r) /\ pc[r] = "gates" /\ acp[r] = "calling"
  BY DEF PathInv, enforce_acp
<1>2. UNCHANGED <<allowed, input, pc, ct, outcome, admitFree, cpuFree, cpuQueue, blocking,
                  decrypted, polls, authorised>>
  BY DEF enforce_acp, cpuVars
<1>3. PICK v \in {"pass"} \cup AcpErrors :
        /\ acp' = [acp EXCEPT ![r] = v]
        /\ v = "pass" => AllowedNow(input[r])
  <2>1. {"unknown_chain", "acp_malformed", "not_publicly_allowed", "acp_denied"} \subseteq AcpErrors
    BY DEF AcpErrors
  <2>2. AcpFaults \subseteq AcpErrors /\ "pass" \notin AcpErrors
    BY DEF AcpErrors, AcpFaults
  <2> QED
    BY <2>1, <2>2 DEF enforce_acp
<1>4. Shape'
  BY <1>1, <1>2, <1>3 DEF Shape
<1>5. Permits' /\ QueueExact'
  BY <1>2 DEF PathInv, Permits, AdmitConserved, CpuCapped, QueueExact, Admitted
<1>6. ASSUME NEW q \in Requests, q # r
      PROVE  ReqInv(q)'
  <2>1. Same(q)
    BY <1>1, <1>2, <1>3, <1>6 DEF Same, Shape
  <2> QED
    BY <1>2, <2>1, Frame DEF PathInv
<1>7. ReqInv(r)'
  <2>1. acp'[r] = v /\ v # "none" /\ ~Cleared(r)
    BY <1>1, <1>3 DEF Shape, AcpErrors, Cleared, ReqInv
  <2>2. ~PastGates(r)' /\ ~Cleared(r)'
    BY <1>1, <1>2, <2>1 DEF PastGates, Cleared
  <2>3. v = "pass" => authorised[r]
    BY <1>1, <1>3 DEF ReqInv, AllowedNow, Admitted, InFlightPcs
  <2> QED
    BY <1>1, <1>2, <2>1, <2>2, <2>3 DEF ReqInv, Admitted, InFlightPcs
<1> QED
  BY <1>4, <1>5, <1>6, <1>7 DEF PathInv

\* A request moves on along the path.
MovesTo(r, p) ==
  /\ pc' = [pc EXCEPT ![r] = p]
  /\ UNCHANGED <<allowed, input, acp, authorised, outcome, admitFree, cpuFree, blocking,
                 decrypted, polls>>

(* Past the gates only with a pass; on to the re-read or the CPU queue     *)
(* only with a row that went through the checks before it.                 *)
LEMMA MoveStep ==
  ASSUME PathInv, CCInv', NEW r \in Requests, NEW p \in {"ct", "refresh", "cpuwait"},
         MovesTo(r, p), pc[r] \in {"gates", "ct", "refresh"}, acp[r] = "pass",
         ct' \in [Requests -> Served \cup {NoCt}],
         \A q \in Requests : q # r => ct'[q] = ct[q],
         p # "ct" => ct'[r] \in Served /\ EnvelopeFault(ct'[r]) = "none",
         p = "cpuwait" => MetadataFault(input[r].key[2], ct'[r]) = "none",
         cpuQueue' = IF p = "cpuwait" THEN Append(cpuQueue, r) ELSE cpuQueue
  PROVE  PathInv'
<1>1. Shape /\ ReqInv(r) /\ Admitted(r) /\ p \in InFlightPcs
  BY DEF PathInv, Admitted, InFlightPcs
<1>2. ToSet(cpuQueue) = {q \in Requests : pc[q] = "cpuwait"} /\ Distinct(cpuQueue)
  BY DEF PathInv, QueueExact, Distinct
<1>3. cpuQueue' \in Seq(Requests) /\ QueueExact'
  <2>1. CASE p = "cpuwait"
    <3>1. r \notin ToSet(cpuQueue)
      BY <1>2
    <3>2. /\ Append(cpuQueue, r) \in Seq(Requests) /\ Distinct(Append(cpuQueue, r))
          /\ ToSet(Append(cpuQueue, r)) = ToSet(cpuQueue) \cup {r}
      BY <1>1, <1>2, <3>1, AppendDistinct DEF Shape
    <3>3. {q \in Requests : pc'[q] = "cpuwait"} = {q \in Requests : pc[q] = "cpuwait"} \cup {r}
      BY <1>1, <2>1 DEF MovesTo, Shape
    <3> QED
      BY <1>2, <2>1, <3>2, <3>3 DEF QueueExact, Distinct
  <2>2. CASE p # "cpuwait"
    BY <1>1, <2>2, QueueKept DEF MovesTo, PathInv, Shape
  <2> QED
    BY <2>1, <2>2
<1>4. Shape'
  BY <1>1, <1>3 DEF Shape, MovesTo
<1>5. Permits'
  BY <1>1, PermitMoves DEF MovesTo, PathInv
<1>6. ASSUME NEW q \in Requests, q # r
      PROVE  ReqInv(q)'
  <2>1. Same(q)
    BY <1>1, <1>6 DEF Same, Shape, MovesTo
  <2> QED
    BY <2>1, Frame DEF PathInv, MovesTo
<1>7. ReqInv(r)'
  <2>1. pc'[r] = p /\ r \notin blocking /\ outcome[r] = "none" /\ input[r] \in Input
    BY <1>1 DEF Shape, MovesTo, ReqInv
  <2>2. Cleared(r)' => p = "cpuwait"
    BY <2>1 DEF Cleared, MovesTo
  <2>3. Admitted(r)'
    BY <1>1, <2>1 DEF Admitted
  <2> QED
    BY <1>1, <2>1, <2>2, <2>3 DEF ReqInv, MovesTo, PastGates
<1> QED
  BY <1>3, <1>4, <1>5, <1>6, <1>7 DEF PathInv

(* Both gates are in. *)
LEMMA JoinStep ==
  ASSUME PathInv, CCInv', NEW r \in Requests, JoinGates(r)
  PROVE  PathInv'
<1>1. /\ Shape /\ ReqInv(r) /\ Admitted(r) /\ pc[r] = "gates" /\ acp[r] # "calling"
      /\ acp[r] # "none"
      /\ CommitmentGate => call[r].st = "done"
  BY DEF PathInv, JoinGates, Admitted, InFlightPcs, ReqInv
<1>2. /\ UNCHANGED <<allowed, input, acp, authorised, ct, cpuFree, cpuQueue, blocking,
                     decrypted, polls>>
      /\ polls' \in [Ops -> Seq(Result)]
  BY <1>1 DEF JoinGates, gateVars, cpuVars, Shape
<1>3. CASE acp[r] # "pass" /\ Answer(r, acp[r])
  <2>1. acp[r] \in Codes /\ acp[r] # "ok"
    BY <1>1, <1>3 DEF Shape, Codes, AcpErrors
  <2> QED
    BY <1>1, <1>2, <1>3, <2>1, AnswerStep
<1>4. CASE /\ acp[r] = "pass" /\ ~CommitmentPasses(r)
           /\ Answer(r, CommitmentRefusal(call[r].res))
  <2>1. call[r].res \in {"not_found", "timeout", "transport"}
    BY <1>1, <1>4 DEF CommitmentPasses, PathInv, CCInv, CCTypeOK, EndsWithResult, Call, Requests
  <2>2. CommitmentRefusal(call[r].res) \in
          {"commitment_pending", "commitment_verifier_timeout", "commitment_verifier_error"}
    BY <2>1 DEF CommitmentRefusal
  <2>3. CommitmentRefusal(call[r].res) \in Codes /\ CommitmentRefusal(call[r].res) # "ok"
    BY <2>2 DEF Codes
  <2>4. acp[r] \notin AcpErrors
    BY <1>4 DEF AcpErrors
  <2> QED
    BY <1>1, <1>2, <1>4, <2>3, <2>4, AnswerStep
<1>5. CASE acp[r] = "pass" /\ pc' = [pc EXCEPT ![r] = "ct"] /\ UNCHANGED <<outcome, admitFree>>
  <2>1. MovesTo(r, "ct") /\ ct' \in [Requests -> Served \cup {NoCt}]
    BY <1>1, <1>2, <1>5 DEF MovesTo, Shape
  <2> QED
    BY <1>1, <1>2, <1>5, <2>1, MoveStep
<1> QED
  BY <1>3, <1>4, <1>5 DEF JoinGates

(* The fetch fails. *)
LEMMA CtFailsStep ==
  ASSUME PathInv, CCInv', NEW r \in Requests, CtFails(r)
  PROVE  PathInv'
<1>1. /\ Shape /\ ReqInv(r) /\ Admitted(r) /\ pc[r] = "ct" /\ acp[r] = "pass"
      /\ acp[r] \notin AcpErrors
  BY DEF PathInv, CtFails, Admitted, InFlightPcs, ReqInv, PastGates, AcpErrors
<1>2. PICK f \in CtFaults : Answer(r, f)
  BY DEF CtFails
<1>3. f \in Codes /\ f # "ok"
  BY DEF CtFaults, Codes
<1>4. /\ UNCHANGED <<allowed, input, acp, authorised, ct, cpuFree, cpuQueue, blocking,
                     decrypted, polls>>
      /\ polls' \in [Ops -> Seq(Result)]
  BY <1>1 DEF CtFails, gateVars, cpuVars, Shape
<1> QED
  BY <1>1, <1>2, <1>3, <1>4, AnswerStep

(* The checks on a row answer with a code or find nothing. *)
LEMMA FaultCodes ==
  ASSUME NEW c, NEW h
  PROVE  /\ EnvelopeFault(c) # "none" => EnvelopeFault(c) \in Codes \ {"ok"}
         /\ MetadataFault(h, c) # "none" => MetadataFault(h, c) \in Codes \ {"ok"}
<1>1. EnvelopeFault(c) \in {"unsupported_security_zone", "ct_source_error", "none"}
  BY DEF EnvelopeFault
<1>2. MetadataFault(h, c) \in {"unsupported_type", "ct_type_mismatch", "ct_zone_mismatch", "none"}
  BY DEF MetadataFault
<1> QED
  BY <1>1, <1>2 DEF Codes

(* A row whose bytes are accepted: refused on its metadata or queued. *)
LEMMA AcceptStep ==
  ASSUME PathInv, CCInv', NEW r \in Requests, NEW c \in Served, Accept(r, c),
         \/ pc[r] = "ct" /\ ct' = [ct EXCEPT ![r] = c]
         \/ pc[r] = "refresh" /\ c = ct[r] /\ ct' = ct,
         EnvelopeFault(c) = "none",
         UNCHANGED <<allowed, input, acp, authorised, cpuFree, blocking, decrypted, polls>>
  PROVE  PathInv'
<1>1. /\ Shape /\ ReqInv(r) /\ Admitted(r) /\ acp[r] = "pass" /\ acp[r] \notin AcpErrors
      /\ polls' \in [Ops -> Seq(Result)] /\ pc[r] \in {"ct", "refresh"}
  BY DEF PathInv, Admitted, InFlightPcs, ReqInv, PastGates, AcpErrors, Shape
<1>2. /\ ct' \in [Requests -> Served \cup {NoCt}] /\ ct'[r] = c
      /\ \A q \in Requests : q # r => ct'[q] = ct[q]
  BY <1>1 DEF Shape
<1> DEFINE fault == MetadataFault(input[r].key[2], c)
<1>3. CASE fault # "none" /\ Answer(r, fault) /\ UNCHANGED cpuQueue
  <2>1. fault \in Codes /\ fault # "ok"
    BY <1>3, FaultCodes
  <2> HIDE DEF fault
  <2> QED
    BY <1>1, <1>3, <2>1, AnswerStep
<1>4. CASE /\ fault = "none" /\ pc' = [pc EXCEPT ![r] = "cpuwait"]
           /\ cpuQueue' = Append(cpuQueue, r) /\ UNCHANGED <<outcome, admitFree>>
  <2>1. MovesTo(r, "cpuwait")
    BY <1>4 DEF MovesTo
  <2> QED
    BY <1>1, <1>2, <1>4, <2>1, MoveStep
<1> QED
  BY <1>3, <1>4 DEF Accept

(* A row arrives. *)
LEMMA CtArrivesStep ==
  ASSUME PathInv, CCInv', NEW r \in Requests, NEW c \in Replies, CtArrives(r, c)
  PROVE  PathInv'
<1>1. /\ Shape /\ ReqInv(r) /\ Admitted(r) /\ acp[r] = "pass" /\ acp[r] \notin AcpErrors
      /\ pc[r] = "ct" /\ c \in Served
  BY PathAssumption DEF PathInv, CtArrives, Admitted, InFlightPcs, ReqInv, PastGates, AcpErrors
<1>2. /\ UNCHANGED <<allowed, input, acp, authorised, cpuFree, blocking, decrypted, polls>>
      /\ polls' \in [Ops -> Seq(Result)]
  BY <1>1 DEF CtArrives, gateVars, Shape
<1>3. CASE /\ EnvelopeFault(c) # "none" /\ Answer(r, EnvelopeFault(c))
           /\ UNCHANGED <<ct, cpuQueue>>
  <2>1. EnvelopeFault(c) \in Codes /\ EnvelopeFault(c) # "ok"
    BY <1>3, FaultCodes
  <2> QED
    BY <1>1, <1>2, <1>3, <2>1, AnswerStep
<1>4. CASE /\ EnvelopeFault(c) = "none" /\ pc' = [pc EXCEPT ![r] = "refresh"]
           /\ ct' = [ct EXCEPT ![r] = c] /\ UNCHANGED <<outcome, admitFree, cpuQueue>>
  <2>1. MovesTo(r, "refresh")
    BY <1>2, <1>4 DEF MovesTo
  <2>2. /\ ct' \in [Requests -> Served \cup {NoCt}] /\ ct'[r] = c
        /\ \A q \in Requests : q # r => ct'[q] = ct[q]
    BY <1>1, <1>4 DEF Shape
  <2> QED
    BY <1>1, <1>4, <2>1, <2>2, MoveStep
<1>5. CASE /\ Answer(r, "commitment_mismatch") /\ ct' = [ct EXCEPT ![r] = c]
           /\ UNCHANGED cpuQueue
  <2>1. "commitment_mismatch" \in Codes
    BY DEF Codes
  <2> QED
    BY <1>1, <1>2, <1>5, <2>1, AnswerStep
<1>6. CASE EnvelopeFault(c) = "none" /\ Accept(r, c) /\ ct' = [ct EXCEPT ![r] = c]
  BY <1>1, <1>2, <1>6, AcceptStep
<1> QED
  BY <1>3, <1>4, <1>5, <1>6 DEF CtArrives

(* The re-read is in. *)
LEMMA RereadStep ==
  ASSUME PathInv, CCInv', NEW r \in Requests, Reread(r)
  PROVE  PathInv'
<1>1. /\ Shape /\ ReqInv(r) /\ Admitted(r) /\ acp[r] = "pass" /\ acp[r] \notin AcpErrors
      /\ pc[r] = "refresh" /\ ct[r] \in Served /\ EnvelopeFault(ct[r]) = "none"
  BY DEF PathInv, Reread, Admitted, InFlightPcs, ReqInv, PastGates, AcpErrors
<1>2. /\ UNCHANGED <<allowed, input, acp, authorised, ct, cpuFree, blocking, decrypted, polls>>
      /\ polls' \in [Ops -> Seq(Result)]
  BY <1>1 DEF Reread, gateVars, Shape
<1>3. CASE Accept(r, ct[r])
  BY <1>1, <1>2, <1>3, AcceptStep
<1>4. ASSUME NEW code \in {"commitment_pending", "commitment_mismatch"}, Answer(r, code),
             UNCHANGED cpuQueue
      PROVE  PathInv'
  <2>1. code \in Codes /\ code # "ok"
    BY DEF Codes
  <2> QED
    BY <1>1, <1>2, <1>4, <2>1, AnswerStep
<1> QED
  BY <1>3, <1>4 DEF Reread

(* The oldest waiter starts: it leaves the queue and takes a CPU permit.   *)
LEMMA CpuStartStep ==
  ASSUME PathInv, CCInv', NEW r \in Requests, CpuStart(r)
  PROVE  PathInv'
<1>1. Shape /\ ReqInv(r) /\ pc[r] = "cpuwait" /\ r \notin blocking
  BY DEF PathInv, CpuStart, ReqInv
<1>2. /\ cpuQueue # << >> /\ Head(cpuQueue) = r /\ cpuQueue' = Tail(cpuQueue)
      /\ cpuFree > 0 /\ cpuFree' = cpuFree - 1
      /\ blocking' = blocking \cup {r} /\ pc' = [pc EXCEPT ![r] = "cpu"]
      /\ UNCHANGED <<allowed, input, acp, authorised, ct, outcome, admitFree, decrypted, polls>>
  BY DEF CpuStart, gateVars
<1>3. cpuQueue' \in Seq(Requests) /\ QueueExact'
  <2>1. ToSet(cpuQueue) = {q \in Requests : pc[q] = "cpuwait"} /\ Distinct(cpuQueue)
    BY DEF PathInv, QueueExact, Distinct
  <2>2. /\ Tail(cpuQueue) \in Seq(Requests) /\ Distinct(Tail(cpuQueue))
        /\ ToSet(Tail(cpuQueue)) = ToSet(cpuQueue) \ {r}
    BY <1>1, <1>2, <2>1, TailDistinct DEF Shape
  <2>3. {q \in Requests : pc'[q] = "cpuwait"} = {q \in Requests : pc[q] = "cpuwait"} \ {r}
    BY <1>1, <1>2 DEF Shape
  <2> QED
    BY <1>2, <2>1, <2>2, <2>3 DEF QueueExact, Distinct
<1>4. Shape'
  BY <1>1, <1>2, <1>3 DEF Shape, InFlightPcs
<1>5. Permits'
  <2>1. {q \in Requests : Admitted(q)}' = {q \in Requests : Admitted(q)}
    BY <1>1, <1>2 DEF Admitted, InFlightPcs, Shape
  <2>2. Cardinality(blocking') = Cardinality(blocking) + 1 /\ Cardinality(blocking) \in Nat
    BY <1>1, <1>2, OneMore DEF Shape
  <2>3. admitFree' \in Nat /\ AdmitConserved'
    BY <1>2, <2>1 DEF PathInv, Permits, AdmitConserved
  <2>4. cpuFree' \in Nat /\ CpuCapped'
    <3>1. /\ cpuFree \in Nat /\ cpuFree + Cardinality(blocking) = DecryptCap
          /\ DecryptCap \in Nat
      BY PathAssumption DEF PathInv, Permits, CpuCapped
    <3>2. cpuFree' \in Nat /\ cpuFree' + Cardinality(blocking') = DecryptCap
      BY <1>2, <2>2, <3>1
    <3> QED
      BY <3>2 DEF CpuCapped
  <2> QED
    BY <2>3, <2>4 DEF Permits
<1>6. ASSUME NEW q \in Requests, q # r
      PROVE  ReqInv(q)'
  <2>1. Same(q)
    BY <1>1, <1>2, <1>6 DEF Same, Shape
  <2> QED
    BY <1>2, <2>1, Frame DEF PathInv
<1>7. ReqInv(r)'
  <2>1. pc'[r] = "cpu" /\ r \in blocking' /\ Cleared(r) /\ PastGates(r) /\ Admitted(r)
    BY <1>1, <1>2 DEF Shape, Cleared, PastGates, Admitted, InFlightPcs
  <2> QED
    BY <1>1, <1>2, <2>1 DEF ReqInv, PastGates, Admitted
<1> QED
  BY <1>3, <1>4, <1>5, <1>6, <1>7 DEF PathInv

(* The blocking work ends, its client present or gone. *)
LEMMA CpuEndStep ==
  ASSUME PathInv, CCInv', NEW r \in Requests, CpuEnd(r)
  PROVE  PathInv'
<1>1. Shape /\ ReqInv(r) /\ r \in blocking /\ pc[r] \in {"cpu", "dropped"}
  BY DEF PathInv, CpuEnd, ReqInv
<1>2. /\ blocking' = blocking \ {r} /\ cpuFree' = cpuFree + 1
      /\ pc' = IF pc[r] = "cpu" THEN [pc EXCEPT ![r] = "joined"] ELSE pc
      /\ UNCHANGED <<allowed, input, acp, authorised, ct, outcome, admitFree, cpuQueue, polls>>
  BY DEF CpuEnd, gateVars
<1>3. Shape'
  <2>1. decrypted' \in [Requests -> {"none", "ok", "bad_payload", "panic"}]
    BY <1>1 DEF CpuEnd, Shape
  <2> QED
    BY <1>1, <1>2, <2>1 DEF Shape, InFlightPcs
<1>4. Permits'
  <2>1. {q \in Requests : Admitted(q)}' = {q \in Requests : Admitted(q)}
    BY <1>1, <1>2 DEF Admitted, InFlightPcs, Shape
  <2>2. Cardinality(blocking') = Cardinality(blocking) - 1 /\ Cardinality(blocking) \in Nat
    BY <1>1, <1>2, OneMore DEF Shape
  <2>3. admitFree' \in Nat /\ AdmitConserved'
    BY <1>2, <2>1 DEF PathInv, Permits, AdmitConserved
  <2>4. cpuFree' \in Nat /\ CpuCapped'
    <3>1. /\ cpuFree \in Nat /\ cpuFree + Cardinality(blocking) = DecryptCap
          /\ DecryptCap \in Nat
      BY PathAssumption DEF PathInv, Permits, CpuCapped
    <3>2. cpuFree' \in Nat /\ cpuFree' + Cardinality(blocking') = DecryptCap
      BY <1>2, <2>2, <3>1
    <3> QED
      BY <3>2 DEF CpuCapped
  <2> QED
    BY <2>3, <2>4 DEF Permits
<1>5. QueueExact'
  <2>1. {q \in Requests : pc'[q] = "cpuwait"} = {q \in Requests : pc[q] = "cpuwait"}
    BY <1>1, <1>2 DEF Shape
  <2> QED
    BY <1>2, <2>1 DEF PathInv, QueueExact
<1>6. ASSUME NEW q \in Requests, q # r
      PROVE  ReqInv(q)'
  <2>1. Same(q)
    BY <1>1, <1>2, <1>6 DEF Same, Shape
  <2> QED
    BY <1>2, <2>1, Frame DEF PathInv
<1>7. ReqInv(r)'
  <2>1. /\ pc'[r] = (IF pc[r] = "cpu" THEN "joined" ELSE "dropped") /\ r \notin blocking'
        /\ Cleared(r) /\ PastGates(r)
    BY <1>1, <1>2 DEF Shape, Cleared, PastGates
  <2>2. Admitted(r)' => Admitted(r)
    BY <1>1, <2>1 DEF Admitted, InFlightPcs
  <2> QED
    BY <1>1, <1>2, <2>1, <2>2 DEF ReqInv, PastGates
<1> QED
  BY <1>3, <1>4, <1>5, <1>6, <1>7 DEF PathInv

(* Remembering or touching a poll result keeps the poll caches typed. *)
LEMMA PollsType ==
  ASSUME Shape, NEW op \in Ops, NEW res \in Result
  PROVE  /\ <<res>> \o polls[op] \in Seq(Result)
         /\ Len(<<res>> \o polls[op]) > 0
         /\ <<res>> \o RemoveFirst(polls[op], res) \in Seq(Result)
<1>1. polls[op] \in Seq(Result)
  BY DEF Shape
<1>2. Len(polls[op]) \in Nat
  BY <1>1, ToSetRange
<1> QED
  BY <1>1, <1>2, ConsDistinct, RemoveFirstDistinct

(* The response. *)
LEMMA RespondStep ==
  ASSUME PathInv, CCInv', NEW r \in Requests, Respond(r)
  PROVE  PathInv'
<1>1. /\ Shape /\ ReqInv(r) /\ Admitted(r) /\ acp[r] = "pass" /\ acp[r] \notin AcpErrors
      /\ pc[r] = "joined" /\ input[r] \in Input /\ ct[r] \in Served
  BY DEF PathInv, Respond, Admitted, InFlightPcs, ReqInv, PastGates, Cleared, AcpErrors
<1>2. UNCHANGED <<allowed, input, acp, authorised, ct, cpuFree, cpuQueue, blocking, decrypted>>
  BY DEF Respond, gateVars, cpuVars
<1>3. ASSUME NEW code \in {"ct_source_error", "internal_error", "acp_malformed",
                           "seal_failed", "signing_failed", "ok"},
             Answer(r, code), polls' \in [Ops -> Seq(Result)]
      PROVE  PathInv'
  <2>1. code \in Codes
    BY DEF Codes, AcpErrors
  <2> QED
    BY <1>1, <1>2, <1>3, <2>1, AnswerStep
<1>4. polls \in [Ops -> Seq(Result)]
  BY <1>1 DEF Shape
<1>5. ASSUME Remember(r)
      PROVE  polls' \in [Ops -> Seq(Result)]
  <2> DEFINE op == input[r].op
             res == [id |-> r, bytes |-> ct[r].bytes, ty |-> ct[r].ty]
             all == <<res>> \o polls[op]
  <2>1. op \in Ops /\ res \in Result
    BY <1>1 DEF Input, Ops, Result, Served
  <2>2. all \in Seq(Result) /\ Len(all) > 0
    <3> HIDE DEF op, res
    <3> QED
      BY <1>1, <2>1, PollsType
  <2>3. Front(all) \in Seq(Result)
    <3> HIDE DEF all
    <3> QED
      BY <2>2, FrontDistinct
  <2>4. polls' = [polls EXCEPT ![op] = IF Len(all) > PollCap THEN Front(all) ELSE all]
    BY <1>5 DEF Remember
  <2> HIDE DEF op, all
  <2> QED
    BY <1>4, <2>1, <2>2, <2>3, <2>4
<1> QED
  BY <1>3, <1>4, <1>5 DEF Respond

(* The client leaves. *)
LEMMA DisconnectStep ==
  ASSUME PathInv, CCInv', NEW r \in Requests, Disconnect(r)
  PROVE  PathInv'
<1>1. Shape /\ ReqInv(r) /\ Admitted(r) /\ outcome[r] = "none"
  BY DEF PathInv, Disconnect, ReqInv, Admitted, InFlightPcs
<1>2. /\ pc' = [pc EXCEPT ![r] = "dropped"] /\ admitFree' = admitFree + 1
      /\ cpuQueue' = RemoveFirst(cpuQueue, r)
      /\ UNCHANGED <<allowed, input, acp, authorised, ct, outcome, cpuFree, blocking,
                     decrypted, polls>>
  BY DEF Disconnect, gateVars
<1>3. cpuQueue' \in Seq(Requests) /\ QueueExact'
  <2>1. ToSet(cpuQueue) = {q \in Requests : pc[q] = "cpuwait"} /\ Distinct(cpuQueue)
    BY DEF PathInv, QueueExact, Distinct
  <2>2. /\ RemoveFirst(cpuQueue, r) \in Seq(Requests) /\ Distinct(RemoveFirst(cpuQueue, r))
        /\ ToSet(RemoveFirst(cpuQueue, r)) = ToSet(cpuQueue) \ {r}
    BY <1>1, <2>1, RemoveFirstDistinct DEF Shape
  <2>3. {q \in Requests : pc'[q] = "cpuwait"} = {q \in Requests : pc[q] = "cpuwait"} \ {r}
    BY <1>1, <1>2 DEF Shape
  <2> QED
    BY <1>2, <2>1, <2>2, <2>3 DEF QueueExact, Distinct
<1>4. Shape'
  BY <1>1, <1>2, <1>3 DEF Shape
<1>5. Permits'
  <2>1. "dropped" \notin InFlightPcs
    BY DEF InFlightPcs
  <2> QED
    BY <1>1, <1>2, <2>1, PermitMoves DEF PathInv
<1>6. ASSUME NEW q \in Requests, q # r
      PROVE  ReqInv(q)'
  <2>1. Same(q)
    BY <1>1, <1>2, <1>6 DEF Same, Shape
  <2> QED
    BY <1>2, <2>1, Frame DEF PathInv
<1>7. ReqInv(r)'
  <2>1. pc'[r] = "dropped" /\ ~Admitted(r)' /\ pc[r] # "new"
    BY <1>1, <1>2 DEF Shape, Admitted, InFlightPcs
  <2>2. Cleared(r)' => Cleared(r) /\ PastGates(r)
    BY <1>2, <2>1 DEF Cleared, PastGates
  <2> QED
    BY <1>1, <1>2, <2>1, <2>2 DEF ReqInv, PastGates
<1> QED
  BY <1>3, <1>4, <1>5, <1>6, <1>7 DEF PathInv

(* Steps no request takes: a poll, a change of the ACL, the registry.      *)
LEMMA OtherSteps ==
  ASSUME PathInv, CCInv',
         \/ \E op \in Ops, id \in Requests : Poll(op, id)
         \/ \E p \in Permissions : AclChange(p)
         \/ UNCHANGED pathVars
  PROVE  PathInv'
<1>1. Shape /\ \A r \in Requests : ReqInv(r)
  BY DEF PathInv
<1>2. ASSUME NEW op \in Ops, NEW id \in Requests, Poll(op, id)
      PROVE  PathInv'
  <2>1. /\ UNCHANGED <<allowed, input, pc, acp, authorised, ct, outcome, admitFree, cpuFree,
                       cpuQueue, blocking, decrypted>>
    BY <1>2 DEF Poll, gateVars, cpuVars
  <2>2. PICK res \in PollAnswers(op, id) :
          polls' = [polls EXCEPT ![op] = <<res>> \o RemoveFirst(@, res)]
    BY <1>2 DEF Poll
  <2>3. res \in Result
    <3>1. \A j \in 1..Len(polls[op]) : polls[op][j] \in Result
      BY <1>1, ToSetRange DEF Shape
    <3> QED
      BY <3>1 DEF PollAnswers
  <2>4. polls' \in [Ops -> Seq(Result)]
    BY <1>1, <2>2, <2>3, PollsType DEF Shape
  <2>5. Shape'
    BY <1>1, <2>1, <2>4 DEF Shape
  <2>6. Permits' /\ QueueExact'
    BY <2>1 DEF PathInv, Permits, AdmitConserved, CpuCapped, QueueExact, Admitted
  <2>7. \A r \in Requests : ReqInv(r)'
    BY <1>1, <2>1, Frame DEF Same
  <2> QED
    BY <2>5, <2>6, <2>7 DEF PathInv
<1>3. ASSUME NEW p \in Permissions, AclChange(p)
      PROVE  PathInv'
  <2>1. /\ UNCHANGED <<input, pc, acp, ct, outcome, admitFree, cpuFree, cpuQueue, blocking,
                       decrypted, polls>>
        /\ allowed' \subseteq Permissions
        /\ authorised' = [r \in Requests |->
             authorised[r] \/ (Admitted(r) /\ <<input[r].acp, input[r].key>> \in allowed')]
    BY <1>1, <1>3 DEF AclChange, cpuVars, Shape
  <2>2. Shape'
    BY <1>1, <2>1 DEF Shape
  <2>3. Permits' /\ QueueExact'
    BY <2>1 DEF PathInv, Permits, AdmitConserved, CpuCapped, QueueExact, Admitted
  <2>4. ASSUME NEW r \in Requests
        PROVE  ReqInv(r)'
    <3>1. authorised[r] => authorised'[r]
      BY <2>1
    <3>2. Admitted(r) /\ <<input[r].acp, input[r].key>> \in allowed' => authorised'[r]
      BY <2>1
    <3> QED
      BY <1>1, <2>1, <3>1, <3>2 DEF ReqInv, PastGates, Cleared, Admitted
  <2> QED
    BY <2>2, <2>3, <2>4 DEF PathInv
<1>4. ASSUME UNCHANGED pathVars
      PROVE  PathInv'
  <2>1. Shape' /\ Permits' /\ QueueExact'
    BY <1>4 DEF pathVars, PathInv, Shape, Permits, AdmitConserved, CpuCapped, QueueExact,
                Admitted
  <2>2. \A r \in Requests : ReqInv(r)'
    BY <1>1, <1>4, Frame DEF Same, pathVars
  <2> QED
    BY <2>1, <2>2 DEF PathInv
<1> QED
  BY <1>2, <1>3, <1>4

(* A step of the request path is a step of the commitment cache or leaves  *)
(* it alone: no request uses a key that is not one, or two lookups at once.*)
LEMMA PathUsesCache == PathInv /\ [Next]_vars => [CCNext]_ccVars
<1> SUFFICES ASSUME PathInv, [Next]_vars
             PROVE  [CCNext]_ccVars
  OBVIOUS
<1>1. \A in \in Input : in.key \in Keys
  BY DEF Input
<1>2. ASSUME NEW r \in Requests, NEW in \in Inputs, Admit(r, in)
      PROVE  [CCNext]_ccVars
  BY <1>1, <1>2, PathAssumption DEF Admit, CCNext, Requests
<1>3. ASSUME NEW r \in Requests, NEW c \in Replies, CtArrives(r, c)
      PROVE  [CCNext]_ccVars
  <2>1. input[r] \in Input
    BY <1>3 DEF PathInv, ReqInv, CtArrives
  <2> QED
    BY <1>1, <1>3, <2>1 DEF CtArrives, CCNext, Requests
<1>4. ASSUME NEW r \in Requests, Disconnect(r)
      PROVE  [CCNext]_ccVars
  BY <1>4 DEF Disconnect, CCNext, Requests
<1>5. ASSUME Environment
      PROVE  [CCNext]_ccVars
  BY <1>5 DEF Environment, CCNext, Requests
<1>6. ASSUME NEW r \in Requests,
             \/ \E in \in Inputs : Refuse(r, in) \/ Shed(r, in)
             \/ enforce_acp(r) \/ JoinGates(r) \/ CtFails(r) \/ Reread(r) \/ CpuStart(r)
             \/ CpuEnd(r) \/ Respond(r)
      PROVE  UNCHANGED ccVars
  BY <1>6 DEF Refuse, Shed, enforce_acp, JoinGates, CtFails, Reread, CpuStart, CpuEnd, Respond
<1>7. ASSUME \/ \E op \in Ops, id \in Requests : Poll(op, id)
             \/ \E p \in Permissions : AclChange(p)
             \/ UNCHANGED vars
      PROVE  UNCHANGED ccVars
  BY <1>7 DEF Poll, AclChange, vars
<1> QED
  BY <1>2, <1>3, <1>4, <1>5, <1>6, <1>7 DEF Next, RequestStep

(* Every step of the path keeps the invariant. *)
LEMMA PathNextInv == PathInv /\ [Next]_vars => PathInv'
<1> SUFFICES ASSUME PathInv, [Next]_vars
             PROVE  PathInv'
  OBVIOUS
<1>1. CCInv'
  BY PathUsesCache, CCNextInv DEF PathInv
<1>2. ASSUME NEW r \in Requests, RequestStep(r)
      PROVE  PathInv'
  BY <1>1, <1>2, TurnedAwayStep, AdmitStep, AcpStep, JoinStep, CtFailsStep, CtArrivesStep,
     RereadStep, CpuStartStep, CpuEndStep, RespondStep, DisconnectStep DEF RequestStep
<1>3. ASSUME Environment \/ UNCHANGED vars
      PROVE  UNCHANGED pathVars
  BY <1>3 DEF Environment, vars
<1> QED
  BY <1>1, <1>2, <1>3, OtherSteps DEF Next

-----------------------------------------------------------------------------
(* Theorems *)

\* The invariant holds of the request path.
LEMMA PathInvariant == Spec => []PathInv
BY PathInitInv, PathNextInv, PTL DEF Spec

(* The path's use of the commitment cache is a behaviour of CommitmentCache:*)
(* what is proved of the cache holds of the cache inside the service.      *)
THEOREM PathImplementsCache == Spec => CCSpec
<1>1. Init => CCInit
  BY DEF Init
<1> QED
  BY <1>1, PathInvariant, PathUsesCache, PTL DEF Spec, CCSpec

(* The whole state is well typed; both semaphores stay within their        *)
(* capacities.                                                             *)
THEOREM PathTyping == Spec => []TypeOK
<1>1. PathInv => TypeOK
  <2> SUFFICES ASSUME PathInv
               PROVE  TypeOK
    OBVIOUS
  <2>1. Shape /\ Permits /\ CCTypeOK
    BY DEF PathInv, CCInv
  <2>2. Cardinality(Admittees) \in Nat /\ Cardinality(blocking) \in Nat
    <3>1. Admittees \in SUBSET Requests /\ blocking \in SUBSET Requests
      BY <2>1 DEF Admittees, Shape
    <3>2. \A A \in SUBSET Requests : Cardinality(A) \in Nat
      BY PathAssumption, FS_Subset, FS_CardinalityType DEF Requests
    <3> QED
      BY <3>1, <3>2
  <2>3. admitFree \in 0..AdmitCap /\ cpuFree \in 0..DecryptCap
    BY <2>1, <2>2, PathAssumption DEF Permits, AdmitConserved, CpuCapped, Admittees
  <2> QED
    BY <2>1, <2>3 DEF TypeOK, PathTypeOK, Shape
<1> QED
  BY <1>1, PathInvariant, PTL

(* No decrypt starts without a permission the ACL granted this request     *)
(* while it was being served.                                              *)
THEOREM DecryptsAreAuthorised == Spec => []AuthorisedOnly
<1>1. PathInv => AuthorisedOnly
  BY DEF PathInv, AuthorisedOnly, Exposed, ReqInv, PastGates, Cleared
<1> QED
  BY <1>1, PathInvariant, PTL

(* A refusal by the ACP gate is what the client hears, whatever the other  *)
(* gate said and whichever answered first.                                 *)
THEOREM DenialsWin == Spec => []DenialWins
<1>1. PathInv => DenialWins
  <2> SUFFICES ASSUME PathInv, NEW r \in Requests, acp[r] \in AcpErrors
               PROVE  pc[r] \in {"gates", "done", "dropped"} /\ outcome[r] \in {"none", acp[r]}
    BY DEF DenialWins
  <2>1. Shape /\ ReqInv(r)
    BY DEF PathInv
  <2>2. acp[r] # "pass" /\ acp[r] # "none"
    BY DEF AcpErrors
  <2> QED
    BY <2>1, <2>2 DEF Shape, ReqInv, PastGates, Cleared, InFlightPcs
<1> QED
  BY <1>1, PathInvariant, PTL

(* What is decrypted has the handle's own type and zone. *)
THEOREM MetadataIsBound == Spec => []MetadataBound
<1>1. PathInv => MetadataBound
  <2> SUFFICES ASSUME PathInv, NEW r \in Requests, Exposed(r)
               PROVE  /\ ct[r].ty = HandleType[input[r].key[2]]
                      /\ ct[r].ty \in Types
                      /\ ct[r].zone = 0 /\ HandleZone[input[r].key[2]] = 0
    BY DEF MetadataBound
  <2>1. ReqInv(r) /\ Cleared(r)
    BY DEF PathInv, Exposed, Cleared
  <2>2. EnvelopeFault(ct[r]) = "none" /\ MetadataFault(input[r].key[2], ct[r]) = "none"
    BY <2>1 DEF ReqInv
  <2> QED
    BY <2>2 DEF EnvelopeFault, MetadataFault
<1> QED
  BY <1>1, PathInvariant, PTL

(* No way a request can end leaks or duplicates an admission permit. *)
THEOREM AdmissionIsConserved == Spec => []AdmitConserved
<1>1. PathInv => AdmitConserved
  BY DEF PathInv, Permits
<1> QED
  BY <1>1, PathInvariant, PTL

(* The decrypts running never exceed the cap, clients present or gone. *)
THEOREM CpuIsCapped == Spec => []CpuCapped
<1>1. PathInv => CpuCapped
  BY DEF PathInv, Permits
<1> QED
  BY <1>1, PathInvariant, PTL

(* The CPU gate's queue holds the waiting requests, each once, and no ghost.*)
THEOREM QueueIsExact == Spec => []QueueExact
<1>1. PathInv => QueueExact
  BY DEF PathInv
<1> QED
  BY <1>1, PathInvariant, PTL

(* A response is made once and stands: no later step of any actor touches  *)
(* an answered request.                                                    *)
THEOREM AnswersStand == Spec => AnsweredOnce
<1>1. PathInv /\ [Next]_vars =>
        [\A r \in Requests : outcome[r] # "none" =>
           outcome'[r] = outcome[r] /\ pc'[r] = pc[r]]_vars
  <2> SUFFICES ASSUME PathInv, Next, NEW q \in Requests, outcome[q] # "none"
               PROVE  outcome'[q] = outcome[q] /\ pc'[q] = pc[q]
    OBVIOUS
  <2>1. Shape /\ ReqInv(q) /\ pc[q] = "done" /\ ~Admitted(q) /\ q \notin blocking
    BY DEF PathInv, ReqInv, Admitted, InFlightPcs
  <2>2. ASSUME UNCHANGED <<outcome, pc>>
        PROVE  outcome'[q] = outcome[q] /\ pc'[q] = pc[q]
    BY <2>2
  <2>3. ASSUME NEW r \in Requests, r # q,
               \/ UNCHANGED outcome
               \/ \E code : outcome' = [outcome EXCEPT ![r] = code],
               \/ UNCHANGED pc
               \/ \E p : pc' = [pc EXCEPT ![r] = p]
        PROVE  outcome'[q] = outcome[q] /\ pc'[q] = pc[q]
    BY <2>1, <2>3 DEF Shape
  <2>4. ASSUME NEW r \in Requests, RequestStep(r)
        PROVE  r # q
    BY <2>1, <2>4 DEF RequestStep, Refuse, Shed, Admit, enforce_acp, JoinGates, CtFails,
                      CtArrives, Reread, CpuStart, CpuEnd, Respond, Disconnect
  <2>5. ASSUME NEW r \in Requests, RequestStep(r)
        PROVE  /\ \/ UNCHANGED outcome
                  \/ \E code : outcome' = [outcome EXCEPT ![r] = code]
               /\ \/ UNCHANGED pc
                  \/ \E p : pc' = [pc EXCEPT ![r] = p]
    <3>1. ASSUME NEW c, Accept(r, c)
          PROVE  /\ \/ UNCHANGED outcome
                    \/ \E code : outcome' = [outcome EXCEPT ![r] = code]
                 /\ \E p : pc' = [pc EXCEPT ![r] = p]
      BY <3>1 DEF Accept, Answer
    <3>2. CASE \E in \in Inputs : Refuse(r, in) \/ Shed(r, in) \/ Admit(r, in)
      BY <3>2 DEF Refuse, Shed, Admit
    <3>3. CASE enforce_acp(r) \/ JoinGates(r) \/ CtFails(r)
      BY <3>3 DEF enforce_acp, JoinGates, CtFails, Answer
    <3>4. CASE \E c \in Replies : CtArrives(r, c)
      BY <3>1, <3>4 DEF CtArrives, Answer
    <3>5. CASE Reread(r)
      BY <3>1, <3>5 DEF Reread, Answer
    <3>6. CASE CpuStart(r) \/ CpuEnd(r) \/ Respond(r) \/ Disconnect(r)
      BY <3>6 DEF CpuStart, CpuEnd, Respond, Disconnect, Answer
    <3> QED
      BY <2>5, <3>2, <3>3, <3>4, <3>5, <3>6 DEF RequestStep
  <2>6. ASSUME \/ \E op \in Ops, id \in Requests : Poll(op, id)
               \/ \E p \in Permissions : AclChange(p)
               \/ Environment
        PROVE  UNCHANGED <<outcome, pc>>
    BY <2>6 DEF Poll, AclChange, Environment, pathVars
  <2> QED
    BY <2>2, <2>3, <2>4, <2>5, <2>6 DEF Next
<1> QED
  BY <1>1, PathInvariant, PTL DEF Spec, AnsweredOnce

-----------------------------------------------------------------------------
(* That the service decrypts only bytes its own lookup vouches for, which   *)
(* are the ones the registry commits a handle to as long as the environment *)
(* is not wiped.                                                            *)

\* The commitment of the handle a request asks for, and the hash of its row.
Committed(r) == registry[input[r].key[2]]
RowHash(r) == calc_commitment(ct[r].bytes)

\* The finished lookup vouches for the request's row.
Vouched(r) == call[r].st = "done" /\ call[r].res = "ok" /\ RowHash(r) = call[r].ans

\* The lookup that read the registry contradicts the row, or failed.
Contradicted(r) ==
  /\ call[r].st = "done" /\ ~call[r].from_cache
  /\ \/ call[r].res \in {"timeout", "transport"}
     \/ call[r].res = "ok" /\ RowHash(r) # call[r].ans

\* How a request's lookup and its row relate to each other and to the registry.
CommitInv(r) ==
  /\ CommitmentGate /\ Admitted(r) => call[r].key = input[r].key
  /\ CommitmentGate /\ pc[r] = "ct" => call[r].st = "done" /\ (WarnOnly \/ call[r].res = "ok")
  /\ pc[r] = "refresh" => CommitmentGate /\ ~call[r].from_cache
  /\ CommitmentGate /\ ~WarnOnly /\ Cleared(r) => Vouched(r)
  /\ outcome[r] = "commitment_mismatch" => Contradicted(r)
  /\ redeploys = 0 /\ CommitmentGate /\ ~WarnOnly /\ Cleared(r) => RowHash(r) = Committed(r)
  /\ redeploys = 0 /\ (pc[r] = "refresh" \/ outcome[r] = "commitment_mismatch") =>
       Committed(r) \notin {ZERO, RowHash(r)}

AllCommitted == PathInv /\ \A r \in Requests : CommitInv(r)

\* Nothing of request q that matters to its commitment changes.
Kept(q) ==
  /\ pc'[q] = pc[q] /\ input'[q] = input[q] /\ ct'[q] = ct[q] /\ outcome'[q] = outcome[q]
  /\ q \in blocking' <=> q \in blocking

(* A request nothing of which changes, its finished lookup included. *)
LEMMA CommitFrame ==
  ASSUME NEW q, CommitInv(q), Kept(q), UNCHANGED <<registry, redeploys>>,
         call'[q].key = call[q].key, call'[q].from_cache = call[q].from_cache,
         call[q].st = "done" => call'[q] = call[q]
  PROVE  CommitInv(q)'
BY DEF CommitInv, Kept, Cleared, Admitted, Committed, RowHash, Vouched, Contradicted

\* Before the first request nothing has been decrypted or refused.
LEMMA CommitInitInv == Init => AllCommitted
<1> SUFFICES ASSUME Init, NEW r \in Requests
             PROVE  CommitInv(r)
  BY PathInitInv DEF AllCommitted
<1> QED
  BY DEF Init, CommitInv, Cleared, Admitted, InFlightPcs

(* A finished lookup holds what the registry holds now. *)
LEMMA LookupIsCurrent ==
  ASSUME AllCommitted, NEW r \in Requests, CommitmentGate, Admitted(r),
         call[r].st = "done", call[r].res = "ok"
  PROVE  call[r].ans # ZERO /\ (redeploys = 0 => call[r].ans = Committed(r))
<1>1. CCInv /\ CommitInv(r) /\ r \in Tasks
  BY DEF AllCommitted, PathInv, Requests
<1> QED
  BY <1>1 DEF CCInv, EndsWithResult, CacheAgreesWithRegistry, CommitInv, Committed

(* A request that ends, with the cache and the registry left alone. *)
LEMMA EndStep ==
  ASSUME AllCommitted, NEW r \in Requests, Admitted(r), pc[r] \notin {"cpuwait", "cpu"},
         NEW code, Answer(r, code), UNCHANGED <<ccVars, input, blocking>>,
         ct \in [Requests -> Served \cup {NoCt}],
         ct' = ct \/ (code # "ok" /\ \E c \in Served : ct' = [ct EXCEPT ![r] = c]),
         code = "ok" => pc[r] = "joined",
         code = "commitment_mismatch" /\ redeploys = 0 => Committed(r) \notin {ZERO, RowHash(r)'},
         code = "commitment_mismatch" => Contradicted(r)'
  PROVE  \A q \in Requests : CommitInv(q)'
<1>1. Shape /\ ReqInv(r) /\ CommitInv(r)
  BY DEF AllCommitted, PathInv
<1>2. ASSUME NEW q \in Requests, q # r
      PROVE  CommitInv(q)'
  <2>1. Kept(q) /\ call' = call /\ UNCHANGED <<registry, redeploys>>
    BY <1>1, <1>2 DEF Kept, Answer, Shape, ccVars
  <2> QED
    BY <2>1, CommitFrame DEF AllCommitted
<1>3. CommitInv(r)'
  <2>1. /\ pc'[r] = "done" /\ outcome'[r] = code /\ r \notin blocking
        /\ UNCHANGED <<registry, redeploys, call>>
    BY <1>1 DEF Answer, Shape, ReqInv, Admitted, InFlightPcs, ccVars
  <2>2. ~Admitted(r)' /\ Committed(r)' = Committed(r)
    BY <2>1 DEF Admitted, InFlightPcs, Committed
  <2>3. Cleared(r)' => /\ Cleared(r) /\ RowHash(r)' = RowHash(r)
                       /\ Vouched(r)' <=> Vouched(r)
    BY <2>1 DEF Cleared, RowHash, Vouched
  <2> QED
    BY <1>1, <2>1, <2>2, <2>3 DEF CommitInv
<1> QED
  BY <1>2, <1>3

(* Accepting a row whose hash is the commitment. *)
LEMMA AcceptCommitted ==
  ASSUME AllCommitted, NEW r \in Requests, NEW c \in Served, Accept(r, c),
         pc[r] \in {"ct", "refresh"}, UNCHANGED <<ccVars, input, blocking>>,
         ct' = [ct EXCEPT ![r] = c],
         redeploys = 0 /\ CommitmentGate /\ ~WarnOnly => calc_commitment(c.bytes) = Committed(r),
         CommitmentGate /\ ~WarnOnly =>
           /\ call[r].st = "done" /\ call[r].res = "ok"
           /\ calc_commitment(c.bytes) = call[r].ans
  PROVE  \A q \in Requests : CommitInv(q)'
<1>1. Shape /\ ReqInv(r) /\ CommitInv(r) /\ Admitted(r) /\ ct \in [Requests -> Served \cup {NoCt}]
  BY DEF AllCommitted, PathInv, Admitted, InFlightPcs, Shape
<1> DEFINE fault == MetadataFault(input[r].key[2], c)
<1>2. CASE fault # "none" /\ Answer(r, fault)
  <2>1. fault # "ok" /\ fault # "commitment_mismatch"
    BY DEF MetadataFault
  <2> HIDE DEF fault
  <2> QED
    BY <1>1, <1>2, <2>1, EndStep
<1>3. CASE pc' = [pc EXCEPT ![r] = "cpuwait"] /\ UNCHANGED outcome
  <2>1. ASSUME NEW q \in Requests, q # r
        PROVE  CommitInv(q)'
    <3>1. Kept(q) /\ call' = call /\ UNCHANGED <<registry, redeploys>>
      BY <1>1, <1>3, <2>1 DEF Kept, Shape, ccVars
    <3> QED
      BY <3>1, CommitFrame DEF AllCommitted
  <2>2. CommitInv(r)'
    <3>1. /\ pc'[r] = "cpuwait" /\ outcome'[r] = "none" /\ ct'[r] = c
          /\ UNCHANGED <<registry, redeploys, call>>
      BY <1>1, <1>3 DEF Shape, ReqInv, ccVars
    <3>2. Committed(r)' = Committed(r) /\ RowHash(r)' = calc_commitment(c.bytes)
      BY <3>1 DEF Committed, RowHash, calc_commitment
    <3>3. CommitmentGate /\ ~WarnOnly => Vouched(r)'
      BY <3>1, <3>2 DEF Vouched
    <3> QED
      BY <1>1, <3>1, <3>2, <3>3 DEF CommitInv
  <2> QED
    BY <2>1, <2>2
<1> QED
  BY <1>2, <1>3 DEF Accept

(* A row arrives. *)
LEMMA CtArrivesCommitted ==
  ASSUME AllCommitted, NEW r \in Requests, NEW c \in Replies, CtArrives(r, c)
  PROVE  \A q \in Requests : CommitInv(q)'
<1>1. /\ Shape /\ ReqInv(r) /\ CommitInv(r) /\ Admitted(r) /\ pc[r] = "ct" /\ c \in Served
      /\ ct \in [Requests -> Served \cup {NoCt}]
  BY PathAssumption DEF AllCommitted, PathInv, Admitted, InFlightPcs, Shape, CtArrives
<1>2. UNCHANGED <<input, blocking>>
  BY DEF CtArrives
<1>3. ASSUME Mismatch(r, c), redeploys = 0
      PROVE  Committed(r) \notin {ZERO, calc_commitment(c.bytes)}
  BY <1>1, <1>3, LookupIsCurrent DEF Mismatch, CommitInv
<1>4. CASE EnvelopeFault(c) # "none" /\ Answer(r, EnvelopeFault(c)) /\ UNCHANGED <<ccVars, ct>>
  <2>1. EnvelopeFault(c) # "ok" /\ EnvelopeFault(c) # "commitment_mismatch"
    BY DEF EnvelopeFault
  <2> QED
    BY <1>1, <1>2, <1>4, <2>1, EndStep
<1>5. CASE /\ Mismatch(r, c) /\ refresh_commitment(r, input[r].key)
           /\ pc' = [pc EXCEPT ![r] = "refresh"] /\ ct' = [ct EXCEPT ![r] = c]
           /\ UNCHANGED outcome
  <2>1. /\ call' = [call EXCEPT ![r] = Calling(input[r].key)]
        /\ UNCHANGED <<registry, redeploys>> /\ call \in [Requests -> Call]
    BY <1>5 DEF refresh_commitment, chainVars, AllCommitted, PathInv, CCInv, CCTypeOK, Requests
  <2>2. ASSUME NEW q \in Requests, q # r
        PROVE  CommitInv(q)'
    <3>1. Kept(q) /\ call'[q] = call[q]
      BY <1>1, <1>2, <1>5, <2>1, <2>2 DEF Kept, Shape
    <3> QED
      BY <2>1, <3>1, CommitFrame DEF AllCommitted
  <2>3. CommitInv(r)'
    <3>1. /\ pc'[r] = "refresh" /\ outcome'[r] = "none" /\ ct'[r] = c /\ r \notin blocking
          /\ call'[r].key = input[r].key /\ ~call'[r].from_cache
      BY <1>1, <1>5, <2>1 DEF Shape, ReqInv, Calling
    <3>2. Committed(r)' = Committed(r) /\ RowHash(r)' = calc_commitment(c.bytes)
      BY <1>2, <2>1, <3>1 DEF Committed, RowHash, calc_commitment
    <3>3. ~Cleared(r)' /\ CommitmentGate
      BY <1>2, <1>5, <3>1 DEF Cleared, Mismatch
    <3> QED
      BY <1>2, <1>3, <1>5, <2>1, <3>1, <3>2, <3>3 DEF CommitInv
  <2> QED
    BY <2>2, <2>3
<1>6. CASE /\ Mismatch(r, c) /\ ~call[r].from_cache /\ Answer(r, "commitment_mismatch")
           /\ ct' = [ct EXCEPT ![r] = c] /\ UNCHANGED ccVars
  <2>1. RowHash(r)' = calc_commitment(c.bytes)
    BY <1>1, <1>6 DEF RowHash, calc_commitment
  <2>2. Contradicted(r)'
    <3>1. call[r].st = "done" /\ call' = call
      BY <1>1, <1>6 DEF CommitInv, Mismatch, ccVars
    <3> QED
      BY <1>6, <2>1, <3>1 DEF Contradicted, Mismatch
  <2> QED
    BY <1>1, <1>2, <1>3, <1>6, <2>1, <2>2, EndStep
<1>7. CASE /\ Mismatch(r, c) => ~call[r].from_cache /\ WarnOnly
           /\ Accept(r, c) /\ ct' = [ct EXCEPT ![r] = c] /\ UNCHANGED ccVars
  <2>1. ASSUME CommitmentGate, ~WarnOnly
        PROVE  /\ redeploys = 0 => calc_commitment(c.bytes) = Committed(r)
               /\ call[r].st = "done" /\ call[r].res = "ok"
               /\ calc_commitment(c.bytes) = call[r].ans
    <3>1. call[r].st = "done" /\ call[r].res = "ok"
      BY <1>1, <2>1 DEF CommitInv
    <3>2. calc_commitment(c.bytes) = call[r].ans
      BY <1>7, <2>1, <3>1 DEF Mismatch
    <3> QED
      BY <1>1, <2>1, <3>1, <3>2, LookupIsCurrent
  <2> QED
    BY <1>1, <1>2, <1>7, <2>1, AcceptCommitted
<1> QED
  BY <1>4, <1>5, <1>6, <1>7 DEF CtArrives

(* The re-read is in. *)
LEMMA RereadCommitted ==
  ASSUME AllCommitted, NEW r \in Requests, Reread(r)
  PROVE  \A q \in Requests : CommitInv(q)'
<1>1. /\ Shape /\ ReqInv(r) /\ CommitInv(r) /\ Admitted(r) /\ pc[r] = "refresh"
      /\ ct[r] \in Served /\ ct \in [Requests -> Served \cup {NoCt}]
      /\ CommitmentGate /\ call[r].st = "done"
  BY DEF AllCommitted, PathInv, Admitted, InFlightPcs, Shape, Reread, ReqInv, CommitInv
<1>2. UNCHANGED <<ccVars, input, blocking, ct>>
  BY DEF Reread
<1>3. RowHash(r)' = RowHash(r)
  BY <1>2 DEF RowHash
<1>4. CASE /\ Accept(r, ct[r])
           /\ \/ call[r].res = "ok" /\ calc_commitment(ct[r].bytes) = call[r].ans
              \/ WarnOnly
  <2>1. ct' = [ct EXCEPT ![r] = ct[r]]
    BY <1>1, <1>2
  <2>2. redeploys = 0 /\ ~WarnOnly => calc_commitment(ct[r].bytes) = Committed(r)
    BY <1>1, <1>4, LookupIsCurrent
  <2> QED
    BY <1>1, <1>2, <1>4, <2>1, <2>2, AcceptCommitted
<1>5. CASE Answer(r, "commitment_pending")
  BY <1>1, <1>2, <1>5, EndStep
<1>6. CASE /\ Answer(r, "commitment_mismatch") /\ call[r].res # "not_found"
           /\ ~(call[r].res = "ok" /\ calc_commitment(ct[r].bytes) = call[r].ans)
  <2>1. call[r].res \in {"ok", "not_found", "timeout", "transport"} /\ ~call[r].from_cache
    BY <1>1 DEF CommitInv, AllCommitted, PathInv, CCInv, CCTypeOK, EndsWithResult, Call, Requests
  <2>2. Contradicted(r)'
    BY <1>1, <1>2, <1>3, <1>6, <2>1 DEF Contradicted, RowHash, ccVars
  <2>3. redeploys = 0 => Committed(r) \notin {ZERO, RowHash(r)'}
    BY <1>1, <1>3 DEF CommitInv
  <2> QED
    BY <1>1, <1>2, <1>6, <2>2, <2>3, EndStep
<1> QED
  BY <1>4, <1>5, <1>6 DEF Reread

(* A request turned away before admission. *)
LEMMA TurnedAwayCommitted ==
  ASSUME AllCommitted, NEW r \in Requests, NEW in \in Inputs, Refuse(r, in) \/ Shed(r, in)
  PROVE  \A q \in Requests : CommitInv(q)'
<1>1. Shape /\ ReqInv(r) /\ CommitInv(r) /\ pc[r] = "new"
  BY DEF AllCommitted, PathInv, Refuse, Shed
<1>2. PICK code :
        /\ code \notin {"ok", "commitment_mismatch"}
        /\ pc' = [pc EXCEPT ![r] = "done"] /\ outcome' = [outcome EXCEPT ![r] = code]
        /\ input' = [input EXCEPT ![r] = in]
        /\ UNCHANGED <<registry, redeploys, call, ct, blocking>>
  <2>1. EarlyRefusal(in) \notin {"ok", "commitment_mismatch"}
    BY DEF EarlyRefusal
  <2> QED
    BY <2>1 DEF Refuse, Shed, cpuVars, ccVars
<1>3. ASSUME NEW q \in Requests, q # r
      PROVE  CommitInv(q)'
  <2>1. Kept(q)
    BY <1>1, <1>2, <1>3 DEF Kept, Shape
  <2> QED
    BY <1>2, <2>1, CommitFrame DEF AllCommitted
<1>4. CommitInv(r)'
  <2>1. pc'[r] = "done" /\ outcome'[r] = code /\ r \notin blocking'
    BY <1>1, <1>2 DEF Shape, ReqInv
  <2> QED
    BY <1>2, <2>1 DEF CommitInv, Cleared, Admitted, InFlightPcs
<1> QED
  BY <1>3, <1>4

(* A request admitted: its lookup is of its own key. *)
LEMMA AdmitCommitted ==
  ASSUME AllCommitted, NEW r \in Requests, NEW in \in Inputs, Admit(r, in)
  PROVE  \A q \in Requests : CommitInv(q)'
<1>1. /\ Shape /\ ReqInv(r) /\ CommitInv(r) /\ pc[r] = "new"
      /\ call \in [Requests -> Call]
  BY DEF AllCommitted, PathInv, Admit, CCInv, CCTypeOK, Requests
<1>2. /\ pc' = [pc EXCEPT ![r] = "gates"] /\ input' = [input EXCEPT ![r] = in]
      /\ UNCHANGED <<outcome, ct, blocking, registry, redeploys>>
  BY DEF Admit, cpuVars, fetch_commitment, chainVars, ccVars
<1>3. \/ UNCHANGED call /\ ~CommitmentGate
      \/ \E c : call' = [call EXCEPT ![r] = c] /\ c.key = in.key
  <2>1. Hit(in.key).key = in.key /\ Calling(in.key).key = in.key
    BY DEF Hit, Calling
  <2> QED
    BY <2>1 DEF Admit, fetch_commitment, ccVars
<1>4. ASSUME NEW q \in Requests, q # r
      PROVE  CommitInv(q)'
  <2>1. Kept(q) /\ call'[q] = call[q]
    BY <1>1, <1>2, <1>3, <1>4 DEF Kept, Shape
  <2> QED
    BY <1>2, <2>1, CommitFrame DEF AllCommitted
<1>5. CommitInv(r)'
  <2>1. pc'[r] = "gates" /\ outcome'[r] = "none" /\ r \notin blocking' /\ input'[r] = in
    BY <1>1, <1>2 DEF Shape, ReqInv
  <2>2. CommitmentGate => call'[r].key = in.key
    BY <1>1, <1>3
  <2> QED
    BY <2>1, <2>2 DEF CommitInv, Cleared
<1> QED
  BY <1>4, <1>5

(* Both gates are in: the request goes on only with a finished lookup. *)
LEMMA JoinCommitted ==
  ASSUME AllCommitted, NEW r \in Requests, JoinGates(r)
  PROVE  \A q \in Requests : CommitInv(q)'
<1>1. /\ Shape /\ ReqInv(r) /\ CommitInv(r) /\ Admitted(r) /\ pc[r] = "gates"
      /\ ct \in [Requests -> Served \cup {NoCt}]
      /\ CommitmentGate => call[r].st = "done"
  BY DEF AllCommitted, PathInv, Admitted, InFlightPcs, Shape, JoinGates
<1>2. UNCHANGED <<ccVars, input, blocking, ct>>
  BY DEF JoinGates, cpuVars
<1>3. CASE acp[r] # "pass" /\ Answer(r, acp[r])
  <2>1. acp[r] \notin {"ok", "commitment_mismatch"}
    BY <1>1 DEF Shape, AcpErrors
  <2> QED
    BY <1>1, <1>2, <1>3, <2>1, EndStep
<1>4. CASE ~CommitmentPasses(r) /\ Answer(r, CommitmentRefusal(call[r].res))
  <2>1. call[r].res \in {"not_found", "timeout", "transport"}
    BY <1>1, <1>4 DEF CommitmentPasses, AllCommitted, PathInv, CCInv, CCTypeOK,
                      EndsWithResult, Call, Requests
  <2>2. CommitmentRefusal(call[r].res) \in
          {"commitment_pending", "commitment_verifier_timeout", "commitment_verifier_error"}
    BY <2>1 DEF CommitmentRefusal
  <2>3. CommitmentRefusal(call[r].res) \notin {"ok", "commitment_mismatch"}
    BY <2>2
  <2> QED
    BY <1>1, <1>2, <1>4, <2>3, EndStep
<1>5. CASE CommitmentPasses(r) /\ pc' = [pc EXCEPT ![r] = "ct"] /\ UNCHANGED outcome
  <2>1. ASSUME NEW q \in Requests, q # r
        PROVE  CommitInv(q)'
    <3>1. Kept(q) /\ UNCHANGED <<call, registry, redeploys>>
      BY <1>1, <1>2, <1>5, <2>1 DEF Kept, Shape, ccVars
    <3> QED
      BY <3>1, CommitFrame DEF AllCommitted
  <2>2. CommitInv(r)'
    <3>1. /\ pc'[r] = "ct" /\ outcome'[r] = "none" /\ r \notin blocking'
          /\ UNCHANGED <<call, registry, redeploys>>
      BY <1>1, <1>2, <1>5 DEF Shape, ReqInv, ccVars
    <3> QED
      BY <1>1, <1>2, <1>5, <3>1 DEF CommitInv, Cleared, Admitted, CommitmentPasses
  <2> QED
    BY <2>1, <2>2
<1> QED
  BY <1>3, <1>4, <1>5 DEF JoinGates

(* Steps that move a request within, or out of, what was cleared before. *)
LEMMA OnwardCommitted ==
  ASSUME AllCommitted, NEW r \in Requests,
         CtFails(r) \/ CpuStart(r) \/ CpuEnd(r) \/ Respond(r) \/ Disconnect(r)
  PROVE  \A q \in Requests : CommitInv(q)'
<1>1. /\ Shape /\ ReqInv(r) /\ CommitInv(r) /\ ct \in [Requests -> Served \cup {NoCt}]
      /\ call \in [Requests -> Call]
  BY DEF AllCommitted, PathInv, Shape, CCInv, CCTypeOK, Requests
<1>2. CASE CtFails(r)
  <2>1. PICK f \in CtFaults : Answer(r, f)
    BY <1>2 DEF CtFails
  <2>2. f \notin {"ok", "commitment_mismatch"}
    BY DEF CtFaults
  <2>3. UNCHANGED <<ccVars, input, blocking, ct>> /\ Admitted(r) /\ pc[r] = "ct"
    BY <1>2 DEF CtFails, cpuVars, Admitted, InFlightPcs
  <2> QED
    BY <1>1, <2>1, <2>2, <2>3, EndStep
<1>3. CASE Respond(r)
  <2>1. PICK code \in {"ct_source_error", "internal_error", "acp_malformed",
                       "seal_failed", "signing_failed", "ok"} : Answer(r, code)
    BY <1>3 DEF Respond
  <2>2. code # "commitment_mismatch"
    OBVIOUS
  <2>3. UNCHANGED <<ccVars, input, blocking, ct>> /\ Admitted(r) /\ pc[r] = "joined"
    BY <1>3 DEF Respond, cpuVars, Admitted, InFlightPcs
  <2> QED
    BY <1>1, <2>1, <2>2, <2>3, EndStep
<1>4. ASSUME NEW p, pc' = [pc EXCEPT ![r] = p] \/ (pc' = pc /\ p = pc[r]),
             p \in {"cpu", "joined", "dropped"}, p # "dropped" => call'[r] = call[r] /\ Admitted(r),
             \A q \in Requests : q # r => call'[q] = call[q] /\ (q \in blocking' <=> q \in blocking),
             UNCHANGED <<input, ct, outcome, registry, redeploys>>,
             call[r].st = "done" => call'[r] = call[r],
             Cleared(r)' => Cleared(r), outcome[r] = "none"
      PROVE  \A q \in Requests : CommitInv(q)'
  <2>1. ASSUME NEW q \in Requests, q # r
        PROVE  CommitInv(q)'
    <3>1. Kept(q) /\ call'[q] = call[q]
      BY <1>1, <1>4, <2>1 DEF Kept, Shape
    <3> QED
      BY <1>4, <3>1, CommitFrame DEF AllCommitted
  <2>2. CommitInv(r)'
    <3>1. pc'[r] = p /\ (Admitted(r)' => p # "dropped")
      BY <1>1, <1>4 DEF Shape, Admitted, InFlightPcs
    <3>2. Committed(r)' = Committed(r) /\ RowHash(r)' = RowHash(r)
      BY <1>4 DEF Committed, RowHash
    <3>3. Vouched(r) => Vouched(r)'
      BY <1>4, <3>2 DEF Vouched
    <3> QED
      BY <1>1, <1>4, <3>1, <3>2, <3>3 DEF CommitInv
  <2> QED
    BY <2>1, <2>2
<1>5. CASE CpuStart(r)
  <2>1. /\ pc[r] = "cpuwait" /\ pc' = [pc EXCEPT ![r] = "cpu"] /\ blocking' = blocking \cup {r}
        /\ UNCHANGED <<input, ct, outcome, registry, redeploys, call>>
    BY <1>5 DEF CpuStart, ccVars
  <2>2. Cleared(r) /\ Admitted(r) /\ outcome[r] = "none"
    BY <1>1, <2>1 DEF Cleared, Admitted, InFlightPcs, ReqInv
  <2> QED
    BY <1>4, <2>1, <2>2
<1>6. CASE CpuEnd(r)
  <2>1. /\ r \in blocking /\ blocking' = blocking \ {r}
        /\ pc' = IF pc[r] = "cpu" THEN [pc EXCEPT ![r] = "joined"] ELSE pc
        /\ UNCHANGED <<input, ct, outcome, registry, redeploys, call>>
    BY <1>6 DEF CpuEnd, ccVars
  <2>2. Cleared(r) /\ outcome[r] = "none" /\ pc[r] \in {"cpu", "dropped"}
    BY <1>1, <2>1 DEF Cleared, ReqInv
  <2>3. pc[r] = "cpu" => Admitted(r)
    BY DEF Admitted, InFlightPcs
  <2>4. CASE pc[r] = "cpu"
    BY <1>4, <2>1, <2>2, <2>3, <2>4
  <2>5. CASE pc[r] = "dropped"
    BY <1>4, <2>1, <2>2, <2>5
  <2> QED
    BY <2>2, <2>4, <2>5
<1>7. CASE Disconnect(r)
  <2>1. /\ Admitted(r) /\ pc' = [pc EXCEPT ![r] = "dropped"]
        /\ UNCHANGED <<input, ct, outcome, blocking, registry, redeploys>>
        /\ \/ UNCHANGED call
           \/ call[r].st # "done" /\ call' = [call EXCEPT ![r] = Idle(@.key)]
    BY <1>7 DEF Disconnect, Abandon, InFlight, ccVars, chainVars
  <2>2. outcome[r] = "none" /\ pc'[r] = "dropped"
    BY <1>1, <2>1 DEF ReqInv, Admitted, InFlightPcs, Shape
  <2>3. Cleared(r)' => Cleared(r)
    BY <2>1, <2>2 DEF Cleared
  <2>4. \A q \in Requests : q # r => call'[q] = call[q]
    BY <1>1, <2>1
  <2> QED
    BY <1>4, <2>1, <2>2, <2>3, <2>4
<1> QED
  BY <1>2, <1>3, <1>5, <1>6, <1>7

(* The lookups, the registry and time. *)
LEMMA EnvironmentCommitted ==
  ASSUME AllCommitted, Environment
  PROVE  \A q \in Requests : CommitInv(q)'
<1>1. /\ call \in [Requests -> Call] /\ UNCHANGED <<pc, input, ct, outcome, blocking>>
      /\ registry \in [Handles -> Answers] /\ redeploys \in Nat
      /\ \A q \in Requests : Kept(q) /\ CommitInv(q) /\ ReqInv(q)
  BY CacheAssumption
     DEF AllCommitted, PathInv, CCInv, CCTypeOK, Requests, Environment, pathVars, Kept
<1>2. ASSUME UNCHANGED <<registry, redeploys>>,
             \A q \in Requests : /\ call'[q].key = call[q].key
                                 /\ call'[q].from_cache = call[q].from_cache
                                 /\ call[q].st = "done" => call'[q] = call[q]
      PROVE  \A q \in Requests : CommitInv(q)'
  BY <1>1, <1>2, CommitFrame
<1>3. ASSUME NEW r \in Requests, CallStep(r)
      PROVE  \A q \in Requests : CommitInv(q)'
  <2>1. call[r].st # "done" /\ UNCHANGED <<registry, redeploys>>
    BY <1>3 DEF CallStep, getCommitment, Reconcile, CallFails, CallTimesOut, InFlight, chainVars
  <2>2. \A q \in Requests : q # r => call'[q] = call[q]
    BY <1>1, <1>3 DEF CallStep, getCommitment, Reconcile, CallFails, CallTimesOut
  <2>3. /\ call[r] \in Call /\ call'[r].key = call[r].key
        /\ call'[r].from_cache = call[r].from_cache
    <3>1. call[r] \in Call
      BY <1>1
    <3>2. \/ call' = [call EXCEPT ![r].st = "answered", ![r].ans = registry[call[r].key[2]]]
          \/ \E res : call' = [call EXCEPT ![r] = Finished(@, res)]
          \/ \E res : call' = [call EXCEPT ![r] = Finished([@ EXCEPT !.ans = ZERO], res)]
      BY <1>3 DEF CallStep, getCommitment, Reconcile, CallFails, CallTimesOut
    <3>3. \/ call'[r] = [call[r] EXCEPT !.st = "answered", !.ans = registry[call[r].key[2]]]
          \/ \E res : call'[r] = Finished(call[r], res)
          \/ \E res : call'[r] = Finished([call[r] EXCEPT !.ans = ZERO], res)
      BY <1>1, <3>2
    <3>4. CASE call'[r] = [call[r] EXCEPT !.st = "answered", !.ans = registry[call[r].key[2]]]
      BY <3>1, <3>4 DEF Call
    <3>5. CASE \E res : call'[r] = Finished(call[r], res)
      BY <3>1, <3>5 DEF Call, Finished
    <3>6. CASE \E res : call'[r] = Finished([call[r] EXCEPT !.ans = ZERO], res)
      BY <3>1, <3>6 DEF Call, Finished
    <3> QED
      BY <3>1, <3>3, <3>4, <3>5, <3>6
  <2> QED
    BY <1>2, <2>1, <2>2, <2>3
<1>4. ASSUME NEW h \in Handles, NEW v \in Hashes, PostCommitment(h, v)
      PROVE  \A q \in Requests : CommitInv(q)'
  <2>1. /\ registry[h] = ZERO /\ registry' = [registry EXCEPT ![h] = v]
        /\ UNCHANGED <<redeploys, call>>
    BY <1>4 DEF PostCommitment
  <2> SUFFICES ASSUME NEW q \in Requests
               PROVE  CommitInv(q)'
    OBVIOUS
  <2>2. /\ RowHash(q)' = RowHash(q) /\ (Cleared(q)' <=> Cleared(q))
        /\ (Admitted(q)' <=> Admitted(q)) /\ (Vouched(q)' <=> Vouched(q))
        /\ Contradicted(q)' <=> Contradicted(q)
    BY <1>1, <2>1 DEF RowHash, Cleared, Admitted, Vouched, Contradicted
  <2>3. Cleared(q) => RowHash(q) # ZERO
    <3>1. ct[q] \in Served => Keccak[ct[q].bytes] \in Hashes
      BY PathAssumption DEF Served
    <3> QED
      BY <1>1, <3>1, CacheAssumption DEF ReqInv, RowHash, calc_commitment
  <2>4. Committed(q) # ZERO => Committed(q)' = Committed(q)
    BY <1>1, <2>1 DEF Committed
  <2> QED
    BY <1>1, <2>1, <2>2, <2>3, <2>4 DEF CommitInv
<1>5. ASSUME Redeploy
      PROVE  \A q \in Requests : CommitInv(q)'
  <2>1. redeploys' # 0 /\ UNCHANGED call
    BY <1>1, <1>5 DEF Redeploy
  <2>2. ASSUME NEW q \in Requests
        PROVE  /\ Cleared(q)' <=> Cleared(q)
               /\ Vouched(q)' <=> Vouched(q)
               /\ Contradicted(q)' <=> Contradicted(q)
    BY <1>1, <2>1 DEF RowHash, Cleared, Vouched, Contradicted
  <2> QED
    BY <1>1, <2>1, <2>2 DEF CommitInv, Admitted
<1>6. ASSUME Tick
      PROVE  \A q \in Requests : CommitInv(q)'
  <2>1. UNCHANGED <<registry, redeploys>>
    BY <1>6 DEF Tick
  <2>2. ASSUME NEW q \in Requests
        PROVE  /\ call'[q].key = call[q].key /\ call'[q].from_cache = call[q].from_cache
               /\ call[q].st = "done" => call'[q] = call[q]
    <3>1. call[q] \in Call
      BY <1>1
    <3> QED
      BY <1>6, <3>1 DEF Tick, InFlight, Requests, Call
  <2> QED
    BY <1>2, <2>1, <2>2
<1> QED
  BY <1>3, <1>4, <1>5, <1>6 DEF Environment

(* Every step keeps the requests' relation to the registry. *)
LEMMA CommitNextInv == AllCommitted /\ [Next]_vars => AllCommitted'
<1> SUFFICES ASSUME AllCommitted, [Next]_vars
             PROVE  \A q \in Requests : CommitInv(q)'
  BY PathNextInv DEF AllCommitted
<1>1. ASSUME UNCHANGED <<ccVars, pc, input, ct, outcome, blocking>>
      PROVE  \A q \in Requests : CommitInv(q)'
  BY <1>1, CommitFrame DEF AllCommitted, Kept, ccVars
<1>2. ASSUME \/ \E r \in Requests : enforce_acp(r)
             \/ \E op \in Ops, id \in Requests : Poll(op, id)
             \/ \E p \in Permissions : AclChange(p)
             \/ UNCHANGED vars
      PROVE  \A q \in Requests : CommitInv(q)'
  BY <1>1, <1>2 DEF enforce_acp, Poll, AclChange, vars, pathVars, cpuVars
<1> QED
  BY <1>2, TurnedAwayCommitted, AdmitCommitted, JoinCommitted, CtArrivesCommitted,
     RereadCommitted, OnwardCommitted, EnvironmentCommitted DEF Next, RequestStep

\* The invariant holds of the request path.
LEMMA CommitInvariant == Spec => []AllCommitted
BY CommitInitInv, CommitNextInv, PTL DEF Spec

(* With the commitment gate enforcing no decrypt starts on bytes other than *)
(* the ones the request's own lookup vouches for, nor, without a wipe, than *)
(* the ones the registry commits the handle to.                             *)
THEOREM OnlyCommittedBytesDecrypted == Spec => []CommittedOnly
<1>1. AllCommitted => CommittedOnly
  BY DEF AllCommitted, CommittedOnly, CommitInv, Exposed, Cleared, Vouched, RowHash, Committed
<1> QED
  BY <1>1, CommitInvariant, PTL

(* And no request is refused for a mismatch that is none: the registry read *)
(* for it contradicts the bytes, or could not be read.                      *)
THEOREM MismatchesAreReal == Spec => []RefusedRightly
<1>1. AllCommitted => RefusedRightly
  BY DEF AllCommitted, RefusedRightly, CommitInv, Contradicted, RowHash, Committed
<1> QED
  BY <1>1, CommitInvariant, PTL
=============================================================================
