-------------------------- MODULE DecryptorProofs --------------------------
(***************************************************************************)
(* The request path implements Decryptor, for any number of requests, any  *)
(* configuration and any behaviour of the services it depends on, and the  *)
(* metrics layer only observes it and counts every response once.          *)
(***************************************************************************)
EXTENDS DecryptPathProofs, DecryptRefinement, RequestMetrics

\* What the abstract state of request q is made of stays the same.
Unseen(q) == pc'[q] = pc[q] /\ outcome'[q] = outcome[q] /\ ct'[q] = ct[q]

(* The abstract state of a request follows from its place, its outcome and *)
(* its row.                                                                *)
LEMMA UnseenStays ==
  ASSUME NEW q, Unseen(q)
  PROVE  Phase(q)' = Phase(q) /\ Told(q)' = Told(q)
BY DEF Unseen, Phase, Told

(* A request that is being served is open and has been told nothing. *)
LEMMA OpenIsAdmitted ==
  ASSUME PathInv, NEW r \in Requests
  PROVE  /\ Phase(r) = "open" <=> Admitted(r)
         /\ pc[r] # "done" => Told(r) = "none"
<1>1. pc[r] \in {"new", "done", "dropped"} \cup InFlightPcs /\ ReqInv(r)
  BY DEF PathInv, Shape
<1> QED
  BY <1>1 DEF Phase, Told, Admitted, InFlightPcs, ReqInv

(* The two mapped functions change at one request only. *)
LEMMA OnlyAt ==
  ASSUME NEW r \in Requests, \A q \in Requests : q # r => Unseen(q)
  PROVE  /\ [q \in Requests |-> Phase(q)]' =
              [[q \in Requests |-> Phase(q)] EXCEPT ![r] = Phase(r)']
         /\ [q \in Requests |-> Told(q)]' =
              [[q \in Requests |-> Told(q)] EXCEPT ![r] = Told(r)']
<1>1. \A q \in Requests : q # r => Phase(q)' = Phase(q) /\ Told(q)' = Told(q)
  BY UnseenStays
<1> QED
  BY <1>1

(* Nothing a client or the chains could see happens. *)
LEMMA Stutters ==
  ASSUME UNCHANGED <<allowed, registry, redeploys, input, authorised>>,
         \A q \in Requests : Phase(q)' = Phase(q) /\ Told(q)' = Told(q)
  PROVE  UNCHANGED Promise!dVars
BY DEF Promise!dVars

(* A request that ends with a refusal is refused in the abstract. *)
LEMMA AnswerRefuses ==
  ASSUME PathInv, NEW r \in Requests, Admitted(r), NEW code, code # "none", code # "ok",
         Answer(r, code), UNCHANGED <<allowed, registry, redeploys, input, authorised>>,
         \A q \in Requests : q # r => ct'[q] = ct[q]
  PROVE  Promise!RefuseTo(r)
<1>1. Shape
  BY DEF PathInv
<1>2. \A q \in Requests : q # r => Unseen(q)
  BY <1>1 DEF Answer, Shape, Unseen
<1>3. Phase(r) = "open"
  BY OpenIsAdmitted
<1>4. Phase(r)' = "answered" /\ Told(r)' = "refused"
  BY <1>1 DEF Answer, Shape, Phase, Told
<1> QED
  BY <1>2, <1>3, <1>4, OnlyAt DEF Promise!RefuseTo

(* A request that moves between two awaits shows its client nothing. *)
LEMMA MoveStutters ==
  ASSUME PathInv, NEW r \in Requests, Admitted(r), NEW p \in InFlightPcs,
         pc' = [pc EXCEPT ![r] = p], UNCHANGED outcome,
         UNCHANGED <<allowed, registry, redeploys, input, authorised>>,
         \A q \in Requests : q # r => ct'[q] = ct[q]
  PROVE  UNCHANGED Promise!dVars
<1>1. Shape /\ ReqInv(r)
  BY DEF PathInv
<1>2. \A q \in Requests : q # r => Unseen(q)
  BY <1>1 DEF Shape, Unseen
<1>3. Phase(r) = "open" /\ Told(r) = "none"
  BY <1>1, OpenIsAdmitted DEF Admitted, InFlightPcs
<1>4. Phase(r)' = "open" /\ Told(r)' = "none"
  <2>1. pc'[r] = p /\ outcome'[r] = "none"
    BY <1>1 DEF Shape, ReqInv, Admitted, InFlightPcs
  <2> QED
    BY <2>1 DEF Phase, Told, InFlightPcs
<1> QED
  BY <1>2, <1>3, <1>4, UnseenStays, Stutters

(* A row that is accepted refuses the request or moves it on. *)
LEMMA AcceptImplements ==
  ASSUME PathInv, NEW r \in Requests, Admitted(r), NEW c, Accept(r, c),
         UNCHANGED <<allowed, registry, redeploys, input, authorised>>,
         \A q \in Requests : q # r => ct'[q] = ct[q]
  PROVE  Promise!RefuseTo(r) \/ UNCHANGED Promise!dVars
<1> DEFINE fault == MetadataFault(input[r].key[2], c)
<1>1. CASE fault # "none" /\ Answer(r, fault)
  <2>1. fault # "ok"
    BY DEF MetadataFault
  <2> HIDE DEF fault
  <2> QED
    BY <1>1, <2>1, AnswerRefuses
<1>2. CASE pc' = [pc EXCEPT ![r] = "cpuwait"] /\ UNCHANGED outcome
  BY <1>2, MoveStutters DEF InFlightPcs
<1> QED
  BY <1>1, <1>2 DEF Accept

(* A client that is turned away, or let in. *)
LEMMA ArrivalImplements ==
  ASSUME PathInv, NEW r \in Requests, NEW in \in Inputs,
         Refuse(r, in) \/ Shed(r, in) \/ Admit(r, in)
  PROVE  Promise!TurnAway(r, in) \/ Promise!Ask(r, in)
<1>1. Shape /\ ReqInv(r) /\ pc[r] = "new"
  BY DEF PathInv, Refuse, Shed, Admit
<1>2. Phase(r) = "idle" /\ Told(r) = "none"
  BY <1>1 DEF Phase, Told, ReqInv
<1>3. ASSUME Refuse(r, in) \/ Shed(r, in)
      PROVE  Promise!TurnAway(r, in)
  <2>1. EarlyRefusal(in) # "ok"
    BY DEF EarlyRefusal
  <2>2. PICK code : /\ code # "none" /\ code # "ok"
                    /\ pc' = [pc EXCEPT ![r] = "done"]
                    /\ outcome' = [outcome EXCEPT ![r] = code]
                    /\ input' = [input EXCEPT ![r] = in]
                    /\ UNCHANGED <<ccVars, allowed, authorised, ct>>
    BY <1>3, <2>1 DEF Refuse, Shed, gateVars
  <2>3. \A q \in Requests : q # r => Unseen(q)
    BY <1>1, <2>2 DEF Shape, Unseen
  <2>4. Phase(r)' = "answered" /\ Told(r)' = "refused"
    BY <1>1, <2>2 DEF Shape, Phase, Told
  <2> QED
    BY <1>2, <2>2, <2>3, <2>4, OnlyAt DEF Promise!TurnAway, ccVars
<1>4. ASSUME Admit(r, in)
      PROVE  Promise!Ask(r, in)
  <2>1. /\ pc' = [pc EXCEPT ![r] = "gates"] /\ UNCHANGED <<allowed, ct, outcome>>
        /\ input' = [input EXCEPT ![r] = in]
        /\ authorised' = [authorised EXCEPT ![r] = <<in.acp, in.key>> \in allowed]
    BY <1>4 DEF Admit, AllowedNow
  <2>2. UNCHANGED <<registry, redeploys>>
    BY <1>4 DEF Admit, fetch_commitment, ccVars, chainVars
  <2>3. \A q \in Requests : q # r => Unseen(q)
    BY <1>1, <2>1 DEF Shape, Unseen
  <2>4. Phase(r)' = "open" /\ Told(r)' = Told(r)
    BY <1>1, <2>1 DEF Shape, Phase, Told
  <2>5. [q \in Requests |-> Told(q)]' = [q \in Requests |-> Told(q)]
    BY <2>3, <2>4, UnseenStays
  <2> QED
    BY <1>2, <2>1, <2>2, <2>3, <2>4, <2>5, OnlyAt DEF Promise!Ask
<1> QED
  BY <1>3, <1>4

(* The gates and the ciphertext: refused, or on to the next await. *)
LEMMA ServingImplements ==
  ASSUME PathInv, NEW r \in Requests,
         \/ enforce_acp(r) \/ JoinGates(r) \/ CtFails(r) \/ Reread(r) \/ CpuStart(r)
         \/ \E c \in Replies : CtArrives(r, c)
  PROVE  Promise!RefuseTo(r) \/ UNCHANGED Promise!dVars
<1>1. Shape /\ ReqInv(r) /\ Admitted(r)
  BY DEF PathInv, Admitted, InFlightPcs, enforce_acp, JoinGates, CtFails, Reread, CpuStart,
         CtArrives
<1>2. ASSUME enforce_acp(r)
      PROVE  UNCHANGED Promise!dVars
  <2>1. UNCHANGED <<ccVars, allowed, input, pc, ct, outcome, authorised>>
    BY <1>2 DEF enforce_acp
  <2>2. \A q \in Requests : Unseen(q)
    BY <2>1 DEF Unseen
  <2> QED
    BY <2>1, <2>2, UnseenStays, Stutters DEF ccVars
<1>3. ASSUME JoinGates(r)
      PROVE  Promise!RefuseTo(r) \/ UNCHANGED Promise!dVars
  <2>1. UNCHANGED <<allowed, registry, redeploys, input, authorised, ct>>
    BY <1>3 DEF JoinGates, ccVars, gateVars
  <2>2. CASE acp[r] # "pass" /\ Answer(r, acp[r])
    <3>1. acp[r] # "none" /\ acp[r] # "ok"
      BY <1>1 DEF Shape, ReqInv, AcpErrors
    <3> QED
      BY <1>1, <2>1, <2>2, <3>1, AnswerRefuses
  <2>3. CASE ~CommitmentPasses(r) /\ Answer(r, CommitmentRefusal(call[r].res))
    <3>1. call[r].res \in {"not_found", "timeout", "transport"}
      BY <1>3, <2>3 DEF JoinGates, CommitmentPasses, PathInv, CCInv, CCTypeOK, EndsWithResult,
                        Call, Requests
    <3>2. CommitmentRefusal(call[r].res) # "none" /\ CommitmentRefusal(call[r].res) # "ok"
      BY <3>1 DEF CommitmentRefusal
    <3> QED
      BY <1>1, <2>1, <2>3, <3>2, AnswerRefuses
  <2>4. CASE pc' = [pc EXCEPT ![r] = "ct"] /\ UNCHANGED outcome
    BY <1>1, <2>1, <2>4, MoveStutters DEF InFlightPcs
  <2> QED
    BY <1>3, <2>2, <2>3, <2>4 DEF JoinGates
<1>4. ASSUME CtFails(r)
      PROVE  Promise!RefuseTo(r)
  <2>1. PICK f \in CtFaults : Answer(r, f)
    BY <1>4 DEF CtFails
  <2>2. f # "none" /\ f # "ok" /\ UNCHANGED <<allowed, registry, redeploys, input, authorised, ct>>
    BY <1>4 DEF CtFaults, CtFails, ccVars, gateVars
  <2> QED
    BY <1>1, <2>1, <2>2, AnswerRefuses
<1>5. ASSUME NEW c \in Replies, CtArrives(r, c)
      PROVE  Promise!RefuseTo(r) \/ UNCHANGED Promise!dVars
  <2>1. /\ UNCHANGED <<allowed, registry, redeploys, input, authorised>>
        /\ \A q \in Requests : q # r => ct'[q] = ct[q]
    <3>1. UNCHANGED <<allowed, input, authorised>> /\ (ct' = ct \/ ct' = [ct EXCEPT ![r] = c])
      BY <1>5 DEF CtArrives, gateVars
    <3>2. UNCHANGED <<registry, redeploys>>
      BY <1>5 DEF CtArrives, refresh_commitment, ccVars, chainVars
    <3> QED
      BY <1>1, <3>1, <3>2 DEF Shape
  <2>2. CASE EnvelopeFault(c) # "none" /\ Answer(r, EnvelopeFault(c))
    <3>1. EnvelopeFault(c) # "ok"
      BY DEF EnvelopeFault
    <3> QED
      BY <1>1, <2>1, <2>2, <3>1, AnswerRefuses
  <2>3. CASE pc' = [pc EXCEPT ![r] = "refresh"] /\ UNCHANGED outcome
    BY <1>1, <2>1, <2>3, MoveStutters DEF InFlightPcs
  <2>4. CASE Answer(r, "commitment_mismatch")
    BY <1>1, <2>1, <2>4, AnswerRefuses
  <2>5. CASE Accept(r, c)
    BY <1>1, <2>1, <2>5, AcceptImplements
  <2> QED
    BY <1>5, <2>2, <2>3, <2>4, <2>5 DEF CtArrives
<1>6. ASSUME Reread(r)
      PROVE  Promise!RefuseTo(r) \/ UNCHANGED Promise!dVars
  <2>1. UNCHANGED <<allowed, registry, redeploys, input, authorised, ct>>
    BY <1>6 DEF Reread, ccVars, gateVars
  <2>2. CASE Accept(r, ct[r])
    BY <1>1, <2>1, <2>2, AcceptImplements
  <2>3. CASE Answer(r, "commitment_pending")
    BY <1>1, <2>1, <2>3, AnswerRefuses
  <2>4. CASE Answer(r, "commitment_mismatch")
    BY <1>1, <2>1, <2>4, AnswerRefuses
  <2> QED
    BY <1>6, <2>2, <2>3, <2>4 DEF Reread
<1>7. ASSUME CpuStart(r)
      PROVE  UNCHANGED Promise!dVars
  <2>1. /\ UNCHANGED <<allowed, registry, redeploys, input, authorised, ct, outcome>>
        /\ pc' = [pc EXCEPT ![r] = "cpu"]
    BY <1>7 DEF CpuStart, ccVars, gateVars
  <2> QED
    BY <1>1, <2>1, MoveStutters DEF InFlightPcs
<1> QED
  BY <1>2, <1>3, <1>4, <1>5, <1>6, <1>7

(* The work ends, the response is made or the client goes: a plaintext is  *)
(* revealed only of committed bytes and to an entitled request.            *)
LEMMA EndImplements ==
  ASSUME AllCommitted, NEW r \in Requests, CpuEnd(r) \/ Respond(r) \/ Disconnect(r)
  PROVE  \/ Promise!RefuseTo(r) \/ UNCHANGED Promise!dVars \/ Promise!Leave(r)
         \/ \E b \in Bytes : Promise!RevealTo(r, b)
<1>1. PathInv /\ Shape /\ ReqInv(r) /\ CommitInv(r)
  BY DEF AllCommitted, PathInv
<1>2. ASSUME CpuEnd(r)
      PROVE  UNCHANGED Promise!dVars
  <2>1. UNCHANGED <<allowed, registry, redeploys, input, authorised, ct, outcome>>
    BY <1>2 DEF CpuEnd, ccVars, gateVars
  <2>2. CASE pc[r] = "cpu" /\ pc' = [pc EXCEPT ![r] = "joined"]
    <3>1. Admitted(r)
      BY <2>2 DEF Admitted, InFlightPcs
    <3> QED
      BY <1>1, <2>1, <2>2, <3>1, MoveStutters DEF InFlightPcs
  <2>3. CASE UNCHANGED pc
    <3>1. \A q \in Requests : Unseen(q)
      BY <2>1, <2>3 DEF Unseen
    <3> QED
      BY <2>1, <3>1, UnseenStays, Stutters
  <2> QED
    BY <1>2, <2>2, <2>3 DEF CpuEnd
<1>3. ASSUME Respond(r)
      PROVE  Promise!RefuseTo(r) \/ \E b \in Bytes : Promise!RevealTo(r, b)
  <2>1. /\ UNCHANGED <<allowed, registry, redeploys, input, authorised, ct>>
        /\ pc[r] = "joined" /\ Admitted(r)
    BY <1>3 DEF Respond, ccVars, gateVars, Admitted, InFlightPcs
  <2>2. ASSUME NEW code, Answer(r, code), code # "none", code # "ok"
        PROVE  Promise!RefuseTo(r)
    BY <1>1, <2>1, <2>2, AnswerRefuses
  <2>3. ASSUME Answer(r, "ok")
        PROVE  Promise!RevealTo(r, ct[r].bytes) /\ ct[r].bytes \in Bytes
    <3>1. Cleared(r) /\ Phase(r) = "open"
      BY <1>1, <2>1, OpenIsAdmitted DEF Cleared
    <3>2. \A q \in Requests : q # r => Unseen(q)
      BY <1>1, <2>1, <2>3 DEF Answer, Shape, Unseen
    <3>3. Phase(r)' = "answered" /\ Told(r)' = ct[r].bytes
      BY <1>1, <2>1, <2>3 DEF Answer, Shape, Phase, Told
    <3>4. AcpGate => authorised[r]
      BY <1>1, <3>1 DEF ReqInv, PastGates
    <3>5. CommitmentGate /\ ~WarnOnly /\ redeploys = 0 =>
            Keccak[ct[r].bytes] = registry[input[r].key[2]]
      BY <1>1, <3>1 DEF CommitInv, RowHash, Committed, calc_commitment
    <3>6. ct[r].bytes \in Bytes
      BY <1>1, <3>1 DEF ReqInv, Served
    <3> QED
      BY <2>1, <3>1, <3>2, <3>3, <3>4, <3>5, <3>6, OnlyAt DEF Promise!RevealTo
  <2>4. \/ \E code : Answer(r, code) /\ code # "none" /\ code # "ok"
        \/ Answer(r, "ok")
    BY <1>3 DEF Respond
  <2> QED
    BY <2>2, <2>3, <2>4
<1>4. ASSUME Disconnect(r)
      PROVE  Promise!Leave(r)
  <2>1. /\ UNCHANGED <<allowed, input, authorised, ct, outcome>>
        /\ pc' = [pc EXCEPT ![r] = "dropped"] /\ Admitted(r)
    BY <1>4 DEF Disconnect, gateVars
  <2>2. UNCHANGED <<registry, redeploys>>
    BY <1>4 DEF Disconnect, Abandon, ccVars, chainVars
  <2>3. \A q \in Requests : q # r => Unseen(q)
    BY <1>1, <2>1 DEF Shape, Unseen
  <2>4. Phase(r) = "open" /\ Phase(r)' = "gone" /\ Told(r)' = Told(r)
    BY <1>1, <2>1, OpenIsAdmitted DEF Shape, Phase, Told
  <2>5. [q \in Requests |-> Told(q)]' = [q \in Requests |-> Told(q)]
    BY <2>3, <2>4, UnseenStays
  <2> QED
    BY <2>1, <2>2, <2>3, <2>4, <2>5, OnlyAt DEF Promise!Leave
<1> QED
  BY <1>2, <1>3, <1>4

(* The chains change, or a poll or a lookup does what no client sees. *)
LEMMA OthersImplement ==
  ASSUME PathInv,
         \/ \E op \in Ops, id \in Requests : Poll(op, id)
         \/ \E p \in Permissions : AclChange(p)
         \/ Environment
         \/ UNCHANGED vars
  PROVE  [Promise!DNext]_(Promise!dVars)
<1>1. UNCHANGED <<pc, outcome, ct, input>>
  BY DEF Poll, AclChange, Environment, vars, pathVars
<1>2. \A q \in Requests : Unseen(q)
  BY <1>1 DEF Unseen
<1>3. /\ [q \in Requests |-> Phase(q)]' = [q \in Requests |-> Phase(q)]
      /\ [q \in Requests |-> Told(q)]' = [q \in Requests |-> Told(q)]
  BY <1>2, UnseenStays
<1>4. ASSUME UNCHANGED <<allowed, registry, redeploys, authorised>>
      PROVE  UNCHANGED Promise!dVars
  <2>1. (redeploys # 0)' = (redeploys # 0)
    BY <1>4
  <2> QED
    BY <1>1, <1>3, <1>4, <2>1, Zenon DEF Promise!dVars
<1>5. ASSUME \/ \E op \in Ops, id \in Requests : Poll(op, id)
             \/ UNCHANGED vars
             \/ (Tick \/ \E r \in Requests : CallStep(r)) /\ UNCHANGED pathVars
      PROVE  UNCHANGED <<allowed, registry, redeploys, authorised>>
  BY <1>5, Zenon
     DEF Poll, vars, pathVars, gateVars, ccVars, Tick, CallStep, getCommitment, Reconcile, CallFails,
         CallTimesOut, Finished, chainVars, cacheVars
<1>6. ASSUME NEW p \in Permissions, AclChange(p)
      PROVE  Promise!DNext
  <2>1. \A q \in Requests : [x \in Requests |-> Phase(x)][q] = "open" <=> Admitted(q)
    BY OpenIsAdmitted
  <2>2. p \in Promise!Askable /\ UNCHANGED <<registry, redeploys>>
    BY <1>6 DEF Permissions, Promise!Askable, AclChange, ccVars
  <2>3. Promise!Decide(p)
    BY <1>1, <1>3, <1>6, <2>1, <2>2 DEF Promise!Decide, AclChange
  <2> QED
    BY <2>2, <2>3 DEF Promise!DNext
<1>7. ASSUME NEW h \in Handles, NEW v \in Hashes, PostCommitment(h, v), UNCHANGED pathVars
      PROVE  Promise!DNext
  <2>1. Promise!Commit(h, v)
    BY <1>1, <1>3, <1>7 DEF Promise!Commit, PostCommitment, pathVars
  <2> QED
    BY <2>1 DEF Promise!DNext
<1>8. ASSUME Redeploy, UNCHANGED pathVars
      PROVE  Promise!DNext
  <2>1. redeploys' # 0
    BY <1>8 DEF Redeploy, PathInv, CCInv, CCTypeOK
  <2>2. Promise!Wipe
    BY <1>1, <1>3, <1>8, <2>1 DEF Promise!Wipe, Redeploy, pathVars
  <2> QED
    BY <2>2 DEF Promise!DNext
<1> QED
  BY <1>4, <1>5, <1>6, <1>7, <1>8 DEF Environment

(* Every step of the path is a step of Decryptor or shows its client       *)
(* nothing.                                                                *)
LEMMA StepImplements == AllCommitted /\ [Next]_vars => [Promise!DNext]_(Promise!dVars)
<1> SUFFICES ASSUME AllCommitted, [Next]_vars
             PROVE  [Promise!DNext]_(Promise!dVars)
  OBVIOUS
<1>1. PathInv
  BY DEF AllCommitted
<1>2. ASSUME NEW r \in Requests, RequestStep(r)
      PROVE  [Promise!DNext]_(Promise!dVars)
  <2>1. CASE \E in \in Inputs : Refuse(r, in) \/ Shed(r, in) \/ Admit(r, in)
    BY <1>1, <2>1, ArrivalImplements DEF Promise!DNext
  <2>2. CASE \/ enforce_acp(r) \/ JoinGates(r) \/ CtFails(r) \/ Reread(r) \/ CpuStart(r)
             \/ \E c \in Replies : CtArrives(r, c)
    BY <1>1, <2>2, ServingImplements DEF Promise!DNext
  <2>3. CASE CpuEnd(r) \/ Respond(r) \/ Disconnect(r)
    BY <2>3, EndImplements DEF Promise!DNext
  <2> QED
    BY <1>2, <2>1, <2>2, <2>3 DEF RequestStep
<1> QED
  BY <1>1, <1>2, OthersImplement DEF Next

(* The request path implements Decryptor: whatever happens inside, a       *)
(* plaintext is told only to a request the ACL allowed while it was open,  *)
(* only of the committed bytes, and an answer is final.                    *)
THEOREM PathImplementsDecryptor == Spec => ImplementsDecryptor
<1>1. Init => Promise!DInit
  <2> SUFFICES ASSUME Init
               PROVE  Promise!DInit
    OBVIOUS
  <2>1. \A r \in Requests : Phase(r) = "idle" /\ Told(r) = "none"
    BY DEF Init, Phase, Told
  <2> QED
    BY <2>1 DEF Init, CCInit, Promise!DInit, Promise!Askable, Permissions
<1> QED
  BY <1>1, StepImplements, CommitInvariant, PTL DEF Spec, ImplementsDecryptor, Promise!DSpec

(* The metrics layer only observes: a service that measures itself behaves *)
(* as one that does not, so every theorem about the path holds of it.      *)
THEOREM MetricsOnlyObserve == MetricsSpec => Spec
<1>1. MetricsInit => Init
  BY DEF MetricsInit
<1>2. [MetricsNext]_allVars => [Next]_vars
  BY DEF MetricsNext, MeasuredStep, MeasuredPoll, Visit, allVars, Next
<1> QED
  BY <1>1, <1>2, PTL DEF MetricsSpec, Spec

-----------------------------------------------------------------------------
(* The poll caches *)

\* A step changes at most what request r was asked, served and answered.
OnlyTouches(r) ==
  \A q \in Requests : q # r =>
    outcome'[q] = outcome[q] /\ input'[q] = input[q] /\ ct'[q] = ct[q]

(* A request's step touches no other request, and none that is answered. *)
LEMMA StepsAreLocal ==
  ASSUME PathInv, NEW r \in Requests, RequestStep(r)
  PROVE  OnlyTouches(r) /\ (pc[r] = "done" => UNCHANGED <<outcome, input, ct, polls>>)
<1>1. Shape /\ ReqInv(r)
  BY DEF PathInv
<1> DEFINE Local == /\ \/ UNCHANGED outcome
                       \/ \E code : outcome' = [outcome EXCEPT ![r] = code]
                    /\ \/ UNCHANGED input
                       \/ \E in : input' = [input EXCEPT ![r] = in]
                    /\ \/ UNCHANGED ct
                       \/ \E c : ct' = [ct EXCEPT ![r] = c]
<1>2. ASSUME Local
      PROVE  OnlyTouches(r)
  BY <1>1, <1>2 DEF Shape, OnlyTouches
<1>3. ASSUME NEW c, Accept(r, c)
      PROVE  UNCHANGED outcome \/ \E code : outcome' = [outcome EXCEPT ![r] = code]
  BY <1>3 DEF Accept, Answer
<1>4. CASE \E in \in Inputs : Refuse(r, in) \/ Shed(r, in) \/ Admit(r, in)
  BY <1>2, <1>4 DEF Refuse, Shed, Admit
<1>5. CASE enforce_acp(r) \/ JoinGates(r) \/ CtFails(r)
  BY <1>2, <1>5 DEF enforce_acp, JoinGates, CtFails, Answer
<1>6. CASE \E c \in Replies : CtArrives(r, c)
  BY <1>2, <1>3, <1>6 DEF CtArrives, Answer
<1>7. CASE Reread(r)
  BY <1>2, <1>3, <1>7 DEF Reread, Answer
<1>8. CASE CpuStart(r) \/ Respond(r) \/ Disconnect(r)
  <2>1. pc[r] # "done"
    BY <1>8 DEF CpuStart, Respond, Disconnect, Admitted, InFlightPcs
  <2> QED
    BY <1>2, <1>8, <2>1 DEF CpuStart, Respond, Disconnect, Answer
<1>9. CASE CpuEnd(r)
  BY <1>2, <1>9 DEF CpuEnd
<1> QED
  BY <1>4, <1>5, <1>6, <1>7, <1>8, <1>9 DEF RequestStep

\* A cached result is the one its own request was answered with.
Own(op, res) ==
  /\ outcome[res.id] = "ok"
  /\ input[res.id].op = op /\ input[res.id].api = "v2"
  /\ res.bytes = ct[res.id].bytes /\ res.ty = ct[res.id].ty

\* A poll cache is within its capacity and holds own results only, each once.
CacheOwn(op) ==
  /\ Distinct(polls[op])
  /\ Len(polls[op]) <= PollCap
  /\ \A res \in ToSet(polls[op]) : Own(op, res)

PollInv == \A op \in Ops : CacheOwn(op)

(* A cache nothing is put into stays as it should be. *)
LEMMA CacheOwnFrame ==
  ASSUME PathInv, PollInv, NEW op \in Ops, polls'[op] = polls[op],
         \A q \in Requests : outcome[q] = "ok" =>
           outcome'[q] = outcome[q] /\ input'[q] = input[q] /\ ct'[q] = ct[q]
  PROVE  CacheOwn(op)'
<1>1. polls[op] \in Seq(Result) /\ CacheOwn(op)
  BY DEF PathInv, Shape, PollInv
<1>2. \A res \in ToSet(polls[op]) : res.id \in Requests /\ Own(op, res)
  <2>1. ToSet(polls[op]) \subseteq Result
    BY <1>1, ToSetRange
  <2> QED
    BY <1>1, <2>1 DEF CacheOwn, Result
<1>3. \A res \in ToSet(polls[op]) : Own(op, res)'
  BY <1>2 DEF Own
<1> QED
  BY <1>1, <1>3 DEF CacheOwn

(* A fresh result is remembered, at the expense of the oldest. *)
LEMMA RememberKeeps ==
  ASSUME PathInv, PollInv, NEW r \in Requests, pc[r] = "joined", Remember(r), Answer(r, "ok"),
         input[r].api = "v2", UNCHANGED <<input, ct>>
  PROVE  PollInv'
<1>1. Shape /\ ReqInv(r) /\ input[r] \in Input /\ ct[r] \in Served /\ outcome[r] = "none"
  BY DEF PathInv, ReqInv, Cleared
<1>a. PICK op \in Ops : op = input[r].op
  BY <1>1 DEF Input, Ops
<1>b. PICK res \in Result : res = [id |-> r, bytes |-> ct[r].bytes, ty |-> ct[r].ty]
  BY <1>1 DEF Result, Served
<1> DEFINE all == <<res>> \o polls[op]
<1>2. /\ polls[op] \in Seq(Result) /\ CacheOwn(op)
      /\ res.id = r /\ res.bytes = ct[r].bytes /\ res.ty = ct[r].ty
  BY <1>1, <1>b DEF Shape, PollInv
<1>3. polls' = [polls EXCEPT ![op] = IF Len(all) > PollCap THEN Front(all) ELSE all]
  BY <1>a, <1>b DEF Remember
<1>4. \A q \in Requests : outcome[q] = "ok" => outcome'[q] = outcome[q]
  BY <1>1 DEF Answer, Shape
<1>5. outcome'[r] = "ok"
  BY <1>1 DEF Answer, Shape
<1>6. res \notin ToSet(polls[op])
  BY <1>1, <1>2 DEF CacheOwn, Own
<1>7. Own(op, res)'
  BY <1>2, <1>5, <1>a DEF Own
<1>8. ASSUME NEW o \in Ops, o # op
      PROVE  CacheOwn(o)'
  <2>1. polls'[o] = polls[o]
    BY <1>1, <1>3, <1>8 DEF Shape
  <2> QED
    BY <1>4, <2>1, CacheOwnFrame
<1>9. /\ all \in Seq(Result) /\ Len(all) = Len(polls[op]) + 1 /\ Len(polls[op]) \in Nat
      /\ ToSet(all) = ToSet(polls[op]) \cup {res} /\ Distinct(all)
  BY <1>2, <1>6, ConsDistinct, ToSetRange DEF CacheOwn
<1>10. \A x \in ToSet(all) : Own(op, x)'
  <2>1. \A x \in ToSet(polls[op]) : x.id \in Requests /\ Own(op, x)
    <3>1. ToSet(polls[op]) \subseteq Result
      BY <1>2, ToSetRange
    <3> QED
      BY <1>2, <3>1 DEF CacheOwn, Result
  <2>2. \A x \in ToSet(polls[op]) : Own(op, x)'
    BY <1>4, <2>1 DEF Own
  <2> QED
    BY <1>7, <1>9, <2>2
<1> HIDE DEF all
<1>11. /\ Distinct(Front(all)) /\ ToSet(Front(all)) \subseteq ToSet(all)
       /\ Len(Front(all)) = Len(polls[op])
  BY <1>9, FrontDistinct
<1>12. CacheOwn(op)'
  <2>1. polls'[op] = IF Len(all) > PollCap THEN Front(all) ELSE all
    BY <1>1, <1>2, <1>3 DEF Shape
  <2> QED
    BY <1>2, <1>9, <1>10, <1>11, <2>1, PathAssumption DEF CacheOwn
<1> QED
  BY <1>8, <1>12 DEF PollInv

(* A poll only reorders. *)
LEMMA PollKeeps ==
  ASSUME PathInv, PollInv, NEW op \in Ops, NEW id \in Requests, Poll(op, id)
  PROVE  PollInv'
<1>1. Shape /\ polls[op] \in Seq(Result) /\ CacheOwn(op) /\ UNCHANGED <<input, outcome, ct>>
  BY DEF PathInv, Shape, PollInv, Poll
<1>2. PICK res \in PollAnswers(op, id) :
        polls' = [polls EXCEPT ![op] = <<res>> \o RemoveFirst(@, res)]
  BY DEF Poll
<1>3. res \in ToSet(polls[op]) /\ res \in Result
  BY <1>1, ToSetRange DEF PollAnswers
<1> DEFINE rest == RemoveFirst(polls[op], res)
<1>4. /\ rest \in Seq(Result) /\ Distinct(rest) /\ ToSet(rest) = ToSet(polls[op]) \ {res}
      /\ Len(rest) = Len(polls[op]) - 1 /\ Len(polls[op]) \in Nat
  BY <1>1, <1>3, RemoveFirstDistinct, ToSetRange DEF CacheOwn
<1>5. polls'[op] = <<res>> \o rest /\ \A o \in Ops : o # op => polls'[o] = polls[o]
  BY <1>1, <1>2 DEF Shape
<1> HIDE DEF rest
<1>6. /\ Len(<<res>> \o rest) = Len(rest) + 1 /\ Distinct(<<res>> \o rest)
      /\ ToSet(<<res>> \o rest) = ToSet(rest) \cup {res}
  BY <1>3, <1>4, ConsDistinct
<1>7. CacheOwn(op)'
  <2>1. \A x \in ToSet(polls[op]) : Own(op, x)'
    BY <1>1 DEF CacheOwn, Own
  <2>2. Len(polls'[op]) <= PollCap
    BY <1>1, <1>4, <1>5, <1>6 DEF CacheOwn
  <2>3. ToSet(polls'[op]) \subseteq ToSet(polls[op]) /\ Distinct(polls'[op])
    BY <1>3, <1>4, <1>5, <1>6
  <2> QED
    BY <2>1, <2>2, <2>3 DEF CacheOwn
<1>8. ASSUME NEW o \in Ops, o # op
      PROVE  CacheOwn(o)'
  BY <1>1, <1>5, <1>8, CacheOwnFrame
<1> QED
  BY <1>7, <1>8 DEF PollInv

(* Every step keeps the poll caches. *)
LEMMA PollNextInv == PathInv /\ PollInv /\ [Next]_vars => PollInv'
<1> SUFFICES ASSUME PathInv, PollInv, [Next]_vars
             PROVE  PollInv'
  OBVIOUS
<1>1. ASSUME NEW r \in Requests, RequestStep(r), UNCHANGED polls
      PROVE  PollInv'
  <2>1. OnlyTouches(r) /\ (pc[r] = "done" => UNCHANGED <<outcome, input, ct, polls>>)
    BY <1>1, StepsAreLocal
  <2>2. outcome[r] = "ok" => pc[r] = "done"
    BY DEF PathInv, ReqInv
  <2>3. \A q \in Requests : outcome[q] = "ok" =>
          outcome'[q] = outcome[q] /\ input'[q] = input[q] /\ ct'[q] = ct[q]
    BY <2>1, <2>2 DEF OnlyTouches
  <2> QED
    BY <1>1, <2>3, CacheOwnFrame DEF PollInv
<1>2. ASSUME NEW r \in Requests, Respond(r), polls' # polls
      PROVE  PollInv'
  <2>1. /\ pc[r] = "joined" /\ Remember(r) /\ Answer(r, "ok") /\ input[r].api = "v2"
        /\ UNCHANGED <<input, ct>>
    BY <1>2 DEF Respond
  <2> QED
    BY <2>1, RememberKeeps
<1>3. ASSUME NEW r \in Requests, RequestStep(r), ~Respond(r)
      PROVE  UNCHANGED polls
  BY <1>3 DEF RequestStep, Refuse, Shed, Admit, enforce_acp, JoinGates, CtFails, CtArrives,
              Reread, CpuStart, CpuEnd, Disconnect
<1>4. ASSUME \/ \E p \in Permissions : AclChange(p)
             \/ Environment
             \/ UNCHANGED vars
      PROVE  PollInv'
  <2>1. UNCHANGED <<outcome, input, ct, polls>>
    BY <1>4 DEF AclChange, Environment, vars, pathVars
  <2> QED
    BY <2>1, CacheOwnFrame DEF PollInv
<1> QED
  BY <1>1, <1>2, <1>3, <1>4, PollKeeps DEF Next

(* A v2 poll returns the result its own request was answered with, on the  *)
(* route of its own operation, and neither cache outgrows its capacity.    *)
THEOREM PollsAreOwn == Spec => []PollsOwnResult
<1>1. Init => PollInv
  BY EmptySeq, PathAssumption DEF Init, PollInv, CacheOwn, Distinct, ToSet
<1>2. PathInv /\ PollInv => PollsOwnResult
  <2> SUFFICES ASSUME PathInv, PollInv, NEW op \in Ops
               PROVE  /\ \A id \in Requests : \A res \in PollAnswers(op, id) :
                           /\ outcome[id] = "ok"
                           /\ input[id].op = op /\ input[id].api = "v2"
                           /\ res.bytes = ct[id].bytes /\ res.ty = ct[id].ty
                      /\ Len(polls[op]) <= PollCap
                      /\ \A i, j \in 1..Len(polls[op]) :
                           polls[op][i].id = polls[op][j].id => i = j
    BY DEF PollsOwnResult
  <2>1. polls[op] \in Seq(Result) /\ CacheOwn(op)
    BY DEF PathInv, Shape, PollInv
  <2>2. /\ Len(polls[op]) \in Nat
        /\ \A i \in 1..Len(polls[op]) : polls[op][i] \in Result /\ polls[op][i] \in ToSet(polls[op])
    BY <2>1, ToSetRange
  <2>3. \A i \in 1..Len(polls[op]) : Own(op, polls[op][i])
    BY <2>1, <2>2 DEF CacheOwn
  <2>4. ASSUME NEW i \in 1..Len(polls[op]), NEW j \in 1..Len(polls[op]),
               polls[op][i].id = polls[op][j].id
        PROVE  i = j
    <3>1. polls[op][i] = polls[op][j]
      BY <2>2, <2>3, <2>4 DEF Own, Result
    <3> QED
      BY <2>1, <3>1 DEF CacheOwn, Distinct
  <2>5. \A id \in Requests : \A res \in PollAnswers(op, id) : res.id = id /\ Own(op, res)
    BY <2>3 DEF PollAnswers
  <2> QED
    BY <2>1, <2>4, <2>5 DEF CacheOwn, Own
<1> QED
  BY <1>1, <1>2, PollNextInv, PathInvariant, PTL DEF Spec

-----------------------------------------------------------------------------
(* Warn-only mode *)

CommitmentCodes ==
  {"commitment_pending", "commitment_mismatch", "commitment_verifier_timeout",
   "commitment_verifier_error"}

(* In warn-only mode the commitment gate refuses nothing, neither at the   *)
(* gate nor after a re-read.                                               *)
THEOREM WarnOnlyRefusesNothing == Spec => []WarnOnlyAllows
<1>1. Init => WarnOnlyAllows
  BY DEF Init, WarnOnlyAllows
<1>2. PathInv /\ WarnOnlyAllows /\ [Next]_vars => WarnOnlyAllows'
  <2> SUFFICES ASSUME PathInv, WarnOnlyAllows, [Next]_vars, WarnOnly,
                      NEW q \in Requests
               PROVE  outcome'[q] \notin CommitmentCodes
    BY DEF WarnOnlyAllows, CommitmentCodes
  <2>1. Shape /\ outcome[q] \notin CommitmentCodes
    BY DEF PathInv, WarnOnlyAllows, CommitmentCodes
  <2>2. ASSUME NEW r \in Requests, NEW code, code \notin CommitmentCodes,
               outcome' = [outcome EXCEPT ![r] = code]
        PROVE  outcome'[q] \notin CommitmentCodes
    BY <2>1, <2>2 DEF Shape
  <2>3. ASSUME NEW r \in Requests, NEW c, Accept(r, c)
        PROVE  outcome'[q] \notin CommitmentCodes
    <3> DEFINE fault == MetadataFault(input[r].key[2], c)
    <3>1. fault \notin CommitmentCodes
      BY DEF MetadataFault, CommitmentCodes
    <3> HIDE DEF fault
    <3>2. outcome' = [outcome EXCEPT ![r] = fault] \/ UNCHANGED outcome
      BY <2>3 DEF Accept, Answer, fault
    <3> QED
      BY <2>1, <2>2, <3>1, <3>2
  <2>4. ASSUME NEW r \in Requests, NEW in \in Inputs, Refuse(r, in) \/ Shed(r, in)
        PROVE  outcome'[q] \notin CommitmentCodes
    <3>1. EarlyRefusal(in) \notin CommitmentCodes /\ "overloaded" \notin CommitmentCodes
      BY DEF EarlyRefusal, CommitmentCodes
    <3> QED
      BY <2>2, <2>4, <3>1 DEF Refuse, Shed
  <2>5. ASSUME NEW r \in Requests, JoinGates(r)
        PROVE  outcome'[q] \notin CommitmentCodes
    <3>1. CommitmentPasses(r)
      BY DEF CommitmentPasses
    <3>2. acp[r] \notin CommitmentCodes
      BY <2>1 DEF Shape, AcpErrors, CommitmentCodes
    <3> QED
      BY <2>1, <2>2, <2>5, <3>1, <3>2 DEF JoinGates, Answer
  <2>6. ASSUME NEW r \in Requests, CtFails(r)
        PROVE  outcome'[q] \notin CommitmentCodes
    <3>1. CtFaults \cap CommitmentCodes = {}
      BY DEF CtFaults, CommitmentCodes
    <3> QED
      BY <2>2, <2>6, <3>1 DEF CtFails, Answer
  <2>7. ASSUME NEW r \in Requests, NEW c \in Replies, CtArrives(r, c)
        PROVE  outcome'[q] \notin CommitmentCodes
    <3>1. EnvelopeFault(c) \notin CommitmentCodes
      BY DEF EnvelopeFault, CommitmentCodes
    <3> QED
      BY <2>1, <2>2, <2>3, <2>7, <3>1 DEF CtArrives, Answer
  <2>8. ASSUME NEW r \in Requests, Reread(r)
        PROVE  outcome'[q] \notin CommitmentCodes
    BY <2>3, <2>8 DEF Reread
  <2>9. ASSUME NEW r \in Requests, Respond(r)
        PROVE  outcome'[q] \notin CommitmentCodes
    <3>1. {"ct_source_error", "internal_error", "acp_malformed", "seal_failed",
           "signing_failed", "ok"} \cap CommitmentCodes = {}
      BY DEF CommitmentCodes
    <3>2. \E code \in {"ct_source_error", "internal_error", "acp_malformed", "seal_failed",
                        "signing_failed", "ok"} : outcome' = [outcome EXCEPT ![r] = code]
      BY <2>9 DEF Respond, Answer
    <3> QED
      BY <2>2, <3>1, <3>2
  <2>10. ASSUME NEW r \in Requests,
                \/ \E in \in Inputs : Admit(r, in)
                \/ enforce_acp(r) \/ CpuStart(r) \/ CpuEnd(r) \/ Disconnect(r)
         PROVE  UNCHANGED outcome
    BY <2>10 DEF Admit, enforce_acp, CpuStart, CpuEnd, Disconnect
  <2>11. ASSUME \/ \E op \in Ops, id \in Requests : Poll(op, id)
                \/ \E p \in Permissions : AclChange(p)
                \/ Environment
                \/ UNCHANGED vars
         PROVE  UNCHANGED outcome
    BY <2>11 DEF Poll, AclChange, Environment, vars, pathVars
  <2> QED
    BY <2>1, <2>4, <2>5, <2>6, <2>7, <2>8, <2>9, <2>10, <2>11 DEF Next, RequestStep
<1> QED
  BY <1>1, <1>2, PathInvariant, PTL DEF Spec

-----------------------------------------------------------------------------
(* The metrics layer *)

\* bag counts the elements of A by their label in f and those of B by theirs
\* in g.
Counts(bag, A, f, B, g) ==
  /\ DOMAIN bag = {f[a] : a \in A} \cup {g[b] : b \in B}
  /\ \A l \in DOMAIN bag :
       bag[l] = Cardinality({a \in A : f[a] = l}) + Cardinality({b \in B : g[b] = l})

(* Whichever side is written first. *)
LEMMA CountsSwap ==
  ASSUME NEW A, NEW f, NEW B, NEW g, IsFiniteSet(A), IsFiniteSet(B), NEW bag,
         Counts(bag, A, f, B, g)
  PROVE  Counts(bag, B, g, A, f)
<1>1. ASSUME NEW l
      PROVE  /\ Cardinality({a \in A : f[a] = l}) \in Nat
             /\ Cardinality({b \in B : g[b] = l}) \in Nat
  <2>1. {a \in A : f[a] = l} \subseteq A /\ {b \in B : g[b] = l} \subseteq B
    OBVIOUS
  <2> QED
    BY <2>1, FS_Subset, FS_CardinalityType
<1>2. ASSUME NEW l \in DOMAIN bag
      PROVE  bag[l] = Cardinality({b \in B : g[b] = l}) + Cardinality({a \in A : f[a] = l})
  <2> DEFINE m == Cardinality({a \in A : f[a] = l})
             n == Cardinality({b \in B : g[b] = l})
  <2>1. m \in Nat /\ n \in Nat /\ bag[l] = m + n
    BY <1>1 DEF Counts
  <2> HIDE DEF m, n
  <2>2. bag[l] = n + m
    BY <2>1
  <2> QED
    BY <2>2 DEF m, n
<1> QED
  BY <1>2 DEF Counts

(* One more to count is one more counted, whether or not its label is new. *)
LEMMA CountOneMore ==
  ASSUME NEW A, NEW f, NEW h, NEW B, NEW g, IsFiniteSet(A), IsFiniteSet(B), NEW bag,
         Counts(bag, A, f, B, g), NEW e, e \notin A, \A a \in A : h[a] = f[a]
  PROVE  Counts(bag (+) SetToBag({h[e]}), A \cup {e}, h, B, g)
<1> DEFINE new == bag (+) SetToBag({h[e]})
           inA(l) == {a \in A : f[a] = l}
           inB(l) == {b \in B : g[b] = l}
<1>1. ASSUME NEW l
      PROVE  /\ IsFiniteSet(inA(l)) /\ IsFiniteSet(inB(l))
             /\ Cardinality(inA(l)) \in Nat /\ Cardinality(inB(l)) \in Nat
             /\ Cardinality(inA(l) \cup {e}) = Cardinality(inA(l)) + 1
  <2>1. inA(l) \subseteq A /\ inB(l) \subseteq B /\ e \notin inA(l)
    OBVIOUS
  <2> QED
    BY <2>1, FS_Subset, FS_CardinalityType, FS_AddElement
<1>2. /\ DOMAIN new = DOMAIN bag \cup {h[e]}
      /\ \A l \in DOMAIN new :
           new[l] = (IF l \in DOMAIN bag THEN bag[l] ELSE 0) + (IF l = h[e] THEN 1 ELSE 0)
  BY DEF (+), SetToBag
<1>3. DOMAIN new = {h[a] : a \in A \cup {e}} \cup {g[b] : b \in B}
  BY <1>2 DEF Counts
<1>4. ASSUME NEW l \in DOMAIN new
      PROVE  new[l] = Cardinality({a \in A \cup {e} : h[a] = l}) + Cardinality(inB(l))
  <2>1. {a \in A \cup {e} : h[a] = l} = IF l = h[e] THEN inA(l) \cup {e} ELSE inA(l)
    OBVIOUS
  <2>2. l \in DOMAIN bag => bag[l] = Cardinality(inA(l)) + Cardinality(inB(l))
    BY DEF Counts
  <2>3. l \notin DOMAIN bag => inA(l) = {} /\ inB(l) = {}
    BY DEF Counts
  <2>4. l \notin DOMAIN bag => Cardinality(inA(l)) = 0 /\ Cardinality(inB(l)) = 0
    BY <2>3, FS_EmptySet
  <2>5. new[l] = (IF l \in DOMAIN bag THEN bag[l] ELSE 0) + (IF l = h[e] THEN 1 ELSE 0)
    BY <1>2
  <2> DEFINE m == Cardinality(inA(l))
             n == Cardinality(inB(l))
  <2>6. m \in Nat /\ n \in Nat /\ Cardinality(inA(l) \cup {e}) = m + 1
    BY <1>1
  <2> HIDE DEF m, n, new
  <2>7. CASE l = h[e]
    <3>1. Cardinality({a \in A \cup {e} : h[a] = l}) = m + 1
      BY <2>1, <2>6, <2>7
    <3>2. new[l] = (m + n) + 1
      BY <2>2, <2>4, <2>5, <2>6, <2>7 DEF m, n
    <3> QED
      BY <2>6, <3>1, <3>2 DEF n
  <2>8. CASE l # h[e]
    <3>1. Cardinality({a \in A \cup {e} : h[a] = l}) = m
      BY <2>1, <2>8 DEF m
    <3>2. new[l] = m + n
      BY <1>2, <2>2, <2>5, <2>6, <2>8 DEF m, n
    <3> QED
      BY <2>6, <3>1, <3>2 DEF n
  <2> QED
    BY <2>7, <2>8
<1> QED
  BY <1>3, <1>4 DEF Counts

(* The counts depend on nothing but the labels. *)
LEMMA CountsFrame ==
  ASSUME NEW A, NEW f, NEW h, NEW B, NEW g, NEW k, NEW bag, Counts(bag, A, f, B, g),
         \A a \in A : h[a] = f[a], \A b \in B : k[b] = g[b]
  PROVE  Counts(bag, A, h, B, k)
<1>1. \A l : /\ {a \in A : h[a] = l} = {a \in A : f[a] = l}
            /\ {b \in B : k[b] = l} = {b \in B : g[b] = l}
  OBVIOUS
<1>2. {h[a] : a \in A} = {f[a] : a \in A} /\ {k[b] : b \in B} = {g[b] : b \in B}
  OBVIOUS
<1> QED
  BY <1>1, <1>2 DEF Counts

\* Where a request is before its width is known, and after.
EarlyPcs == {"gates", "ct", "refresh"}
LatePcs == {"cpuwait", "cpu", "joined"}

\* A step of r leaves every other request where it was.
OthersStay(r) ==
  \A q \in Requests : q # r =>
    /\ pc'[q] = pc[q] /\ input'[q] = input[q] /\ ct'[q] = ct[q]
    /\ outcome'[q] = outcome[q] /\ decrypted'[q] = decrypted[q]

\* The steps of request r as the metrics layer tells them apart.
Moves(r) ==
  \/ /\ pc[r] = "new" /\ pc'[r] \in {"gates", "done"} /\ input'[r] \in Inputs
     /\ decrypted'[r] = decrypted[r]
  \/ /\ pc[r] \in EarlyPcs /\ pc'[r] \in EarlyPcs \cup {"cpuwait", "done", "dropped"}
     /\ input'[r] = input[r] /\ decrypted'[r] = decrypted[r]
  \/ /\ pc[r] \in {"cpuwait", "cpu"} /\ pc'[r] \in {"cpu", "dropped"}
     /\ input'[r] = input[r] /\ ct'[r] = ct[r] /\ decrypted'[r] = decrypted[r]
  \/ /\ pc[r] = "cpu" /\ pc'[r] = "joined" /\ decrypted'[r] # "none"
     /\ input'[r] = input[r] /\ ct'[r] = ct[r]
  \/ /\ pc[r] = "joined" /\ pc'[r] \in {"done", "dropped"}
     /\ input'[r] = input[r] /\ ct'[r] = ct[r] /\ decrypted'[r] = decrypted[r]
  \/ /\ pc[r] = "dropped" /\ pc'[r] = "dropped"
     /\ input'[r] = input[r]

(* Every step of a request is one of these moves. *)
LEMMA StepMoves ==
  ASSUME PathInv, NEW r \in Requests, RequestStep(r)
  PROVE  Moves(r) /\ OthersStay(r)
<1>1. Shape /\ ReqInv(r)
  BY DEF PathInv
<1>2. \A q \in Requests : q # r =>
        outcome'[q] = outcome[q] /\ input'[q] = input[q] /\ ct'[q] = ct[q]
  BY StepsAreLocal DEF OnlyTouches
<1> DEFINE Here == /\ \/ UNCHANGED pc
                      \/ \E p : pc' = [pc EXCEPT ![r] = p]
                   /\ \/ UNCHANGED decrypted
                      \/ \E d : decrypted' = [decrypted EXCEPT ![r] = d]
<1>3. ASSUME Here
      PROVE  OthersStay(r)
  BY <1>1, <1>2, <1>3 DEF Shape, OthersStay
<1>4. ASSUME NEW code, Answer(r, code)
      PROVE  pc'[r] = "done" /\ \E p : pc' = [pc EXCEPT ![r] = p]
  BY <1>1, <1>4 DEF Answer, Shape
<1>5. ASSUME NEW c, Accept(r, c)
      PROVE  pc'[r] \in {"done", "cpuwait"} /\ \E p : pc' = [pc EXCEPT ![r] = p]
  BY <1>1, <1>4, <1>5 DEF Accept, Shape
<1>6. CASE \E in \in Inputs : Refuse(r, in) \/ Shed(r, in) \/ Admit(r, in)
  <2>1. pc[r] = "new" /\ pc'[r] \in {"gates", "done"} /\ input'[r] \in Inputs
    BY <1>1, <1>6 DEF Refuse, Shed, Admit, Shape
  <2>2. Here /\ UNCHANGED decrypted
    BY <1>6 DEF Refuse, Shed, Admit, cpuVars
  <2> QED
    BY <1>3, <2>1, <2>2 DEF Moves
<1>7. CASE enforce_acp(r) \/ JoinGates(r) \/ CtFails(r)
  <2>1. pc[r] \in EarlyPcs /\ UNCHANGED <<input, decrypted>>
    BY <1>7 DEF enforce_acp, JoinGates, CtFails, EarlyPcs, cpuVars
  <2>2. Here /\ pc'[r] \in EarlyPcs \cup {"done"}
    BY <1>1, <1>4, <1>7, <2>1 DEF enforce_acp, JoinGates, CtFails, EarlyPcs, Shape
  <2> QED
    BY <1>3, <2>1, <2>2 DEF Moves
<1>8. CASE \E c \in Replies : CtArrives(r, c)
  <2>1. pc[r] \in EarlyPcs /\ UNCHANGED <<input, decrypted>>
    BY <1>8 DEF CtArrives, EarlyPcs
  <2>2. Here /\ pc'[r] \in EarlyPcs \cup {"cpuwait", "done"}
    BY <1>1, <1>4, <1>5, <1>8, <2>1 DEF CtArrives, EarlyPcs, Shape
  <2> QED
    BY <1>3, <2>1, <2>2 DEF Moves
<1>9. CASE Reread(r)
  <2>1. pc[r] \in EarlyPcs /\ UNCHANGED <<input, decrypted>>
    BY <1>9 DEF Reread, EarlyPcs
  <2>2. Here /\ pc'[r] \in {"cpuwait", "done"}
    BY <1>4, <1>5, <1>9, <2>1 DEF Reread
  <2> QED
    BY <1>3, <2>1, <2>2 DEF Moves
<1>10. CASE CpuStart(r)
  <2>1. Here /\ pc[r] = "cpuwait" /\ pc'[r] = "cpu" /\ UNCHANGED <<input, ct, decrypted>>
    BY <1>1, <1>10 DEF CpuStart, Shape
  <2> QED
    BY <1>3, <2>1 DEF Moves
<1>11. CASE CpuEnd(r)
  <2>1. pc[r] \in {"cpu", "dropped"} /\ UNCHANGED <<input, ct>>
    BY <1>1, <1>11 DEF CpuEnd, ReqInv
  <2>2. Here /\ decrypted'[r] # "none"
    BY <1>1, <1>11 DEF CpuEnd, Shape
  <2>3. pc'[r] = IF pc[r] = "cpu" THEN "joined" ELSE pc[r]
    BY <1>1, <1>11 DEF CpuEnd, Shape
  <2> QED
    BY <1>3, <2>1, <2>2, <2>3 DEF Moves
<1>12. CASE Respond(r)
  <2>1. pc[r] = "joined" /\ UNCHANGED <<input, ct, decrypted>>
    BY <1>12 DEF Respond, cpuVars
  <2>2. Here /\ pc'[r] = "done"
    BY <1>4, <1>12, <2>1 DEF Respond
  <2> QED
    BY <1>3, <2>1, <2>2 DEF Moves
<1>13. CASE Disconnect(r)
  <2>1. /\ Here /\ pc[r] \in EarlyPcs \cup LatePcs /\ pc'[r] = "dropped"
        /\ UNCHANGED <<input, ct, decrypted>>
    BY <1>1, <1>13 DEF Disconnect, Admitted, InFlightPcs, EarlyPcs, LatePcs, Shape
  <2> QED
    BY <1>3, <2>1 DEF Moves, LatePcs
<1> QED
  BY <1>6, <1>7, <1>8, <1>9, <1>10, <1>11, <1>12, <1>13 DEF RequestStep

\* What is counted: the answered requests by what they deserve, the visits to
\* decrypting routes by what they deserve, the decrypts that were answered.
Deserts == [r \in Requests |-> Deserved(r)]
Seen == {i \in DOMAIN visits : visits[i].path \in DECRYPT_ROUTES}
VisitDeserts == [i \in DOMAIN visits |-> VisitDeserves(visits[i], "ok")]
Ran == {r \in Answered : decrypted[r] # "none"}
Samples ==
  [r \in Requests |-> [route |-> RouteOf[input[r].api][input[r].op], width |-> ct[r].ty]]

\* What the sink of r holds once its handler was entered with in, and once
\* its width was verified.
Entered(r) == EntryLabels(NoLabels, input[r])

\* The sink of a request and the result of its decrypt, by where it is.
SinkInv(r) ==
  /\ pc[r] = "new" => labels[r] = NoLabels /\ decrypted[r] = "none"
  /\ pc[r] \in EarlyPcs => labels[r] = Entered(r) /\ decrypted[r] = "none"
  /\ pc[r] \in LatePcs => labels[r] = [Entered(r) EXCEPT !.encryption_type = ct[r].ty]
  /\ pc[r] \in {"cpuwait", "cpu"} => decrypted[r] = "none"
  /\ pc[r] = "joined" => decrypted[r] # "none"

MetricsInv ==
  /\ visits \in Seq(Visits)
  /\ DOMAIN labels = Requests
  /\ \A r \in Requests : SinkInv(r)
  /\ Counts(requests, Answered, Deserts, Seen, VisitDeserts)
  /\ Counts(durations, Ran, Samples, {}, Samples)

(* Nobody has asked for anything, and nothing is counted. *)
LEMMA MetricsInitInv == MetricsInit => MetricsInv
<1> SUFFICES ASSUME MetricsInit
             PROVE  MetricsInv
  OBVIOUS
<1>1. Answered = {} /\ Ran = {}
  BY DEF MetricsInit, Init, Answered, Ran
<1>2. visits \in Seq(Visits) /\ Seen = {}
  BY DEF MetricsInit, Seen
<1>3. \A r \in Requests : SinkInv(r)
  BY DEF MetricsInit, Init, SinkInv, EarlyPcs, LatePcs
<1>4. DOMAIN requests = {} /\ DOMAIN durations = {}
  BY DEF MetricsInit, EmptyBag, SetToBag
<1> QED
  BY <1>1, <1>2, <1>3, <1>4 DEF MetricsInv, Counts, MetricsInit

(* The sets counted are finite. *)
LEMMA CountedFinite ==
  ASSUME visits \in Seq(Visits)
  PROVE  /\ IsFiniteSet(Answered) /\ IsFiniteSet(Ran) /\ IsFiniteSet(Seen)
         /\ Answered \subseteq Requests /\ Ran \subseteq Answered
         /\ Len(visits) \in Nat /\ DOMAIN visits = 1..Len(visits)
<1>1. Answered \subseteq Requests /\ Ran \subseteq Answered /\ Seen \subseteq DOMAIN visits
  BY DEF Answered, Ran, Seen
<1>2. Len(visits) \in Nat /\ DOMAIN visits = 1..Len(visits) /\ IsFiniteSet(1..Len(visits))
  BY LenProperties, FS_Interval
<1>3. IsFiniteSet(Requests)
  BY PathAssumption DEF Requests
<1>4. IsFiniteSet(Answered) /\ IsFiniteSet(Seen)
  BY <1>1, <1>2, <1>3, FS_Subset
<1>5. IsFiniteSet(Ran)
  BY <1>1, <1>4, FS_Subset
<1> QED
  BY <1>1, <1>2, <1>4, <1>5

(* What a sink holds after a move. *)
LEMMA SinkMoves ==
  ASSUME PathInv, PathInv', MetricsInv, NEW r \in Requests, Moves(r), OthersStay(r),
         WriteLabels(r)
  PROVE  /\ DOMAIN labels' = Requests /\ \A q \in Requests : SinkInv(q)'
         /\ pc[r] \notin {"new"} \cup LatePcs => labels'[r] = labels[r] \/ pc'[r] = "cpuwait"
         /\ pc[r] \in LatePcs => labels'[r] = labels[r]
         /\ pc[r] = "new" => labels'[r] = EntryLabels(NoLabels, input'[r])
<1> DEFINE new == Written(r, labels[r])
<1>1. DOMAIN labels = Requests /\ SinkInv(r) /\ labels' = [labels EXCEPT ![r] = new]
  BY DEF MetricsInv, WriteLabels
<1>2. /\ DOMAIN labels' = Requests
      /\ \A q \in Requests : q # r => labels'[q] = labels[q]
      /\ labels'[r] = new
  <2> HIDE DEF new
  <2> QED
    BY <1>1
<1>3. ASSUME NEW q \in Requests, q # r
      PROVE  SinkInv(q)'
  <2>1. /\ pc'[q] = pc[q] /\ input'[q] = input[q] /\ ct'[q] = ct[q]
        /\ decrypted'[q] = decrypted[q] /\ labels'[q] = labels[q] /\ SinkInv(q)
    BY <1>2, <1>3 DEF OthersStay, MetricsInv
  <2> QED
    BY <2>1 DEF SinkInv, Entered
<1>4. Entered(r).encryption_type = Unset /\ Entered(r)' = EntryLabels(NoLabels, input'[r])
  BY DEF Entered, EntryLabels, NoLabels
<1>5. CASE pc[r] = "new"
  <2>1. labels'[r] = Entered(r)' /\ decrypted'[r] = "none" /\ pc'[r] \in {"gates", "done"}
    BY <1>1, <1>2, <1>4, <1>5 DEF SinkInv, Moves, EarlyPcs, Written
  <2> QED
    BY <1>2, <1>3, <1>4, <1>5, <2>1 DEF SinkInv, EarlyPcs, LatePcs
<1>6. CASE pc[r] \in EarlyPcs
  <2>1. /\ labels[r] = Entered(r) /\ Entered(r)' = Entered(r) /\ decrypted'[r] = "none"
        /\ pc[r] # "new" /\ pc[r] # "cpuwait" /\ pc[r] \notin LatePcs
        /\ pc'[r] \in EarlyPcs \cup {"cpuwait", "done", "dropped"}
    BY <1>1, <1>6 DEF SinkInv, Moves, EarlyPcs, LatePcs, Entered
  <2>2. CASE pc'[r] = "cpuwait"
    <3>1. labels'[r] = [Entered(r) EXCEPT !.encryption_type = ct'[r].ty]
      BY <1>2, <1>4, <2>1, <2>2 DEF WidthVerified, FirstWrite, Written
    <3> QED
      BY <1>2, <1>3, <2>1, <2>2, <3>1 DEF SinkInv, EarlyPcs, LatePcs
  <2>3. CASE pc'[r] # "cpuwait"
    <3>1. labels'[r] = labels[r]
      BY <1>2, <2>1, <2>3 DEF WidthVerified, Written
    <3> QED
      BY <1>2, <1>3, <2>1, <2>3, <3>1 DEF SinkInv, EarlyPcs, LatePcs
  <2> QED
    BY <2>2, <2>3
<1>7. CASE pc[r] \in LatePcs \cup {"dropped"}
  <2>1. /\ labels'[r] = labels[r] /\ Entered(r)' = Entered(r)
        /\ pc'[r] \notin {"new"} \cup EarlyPcs
    BY <1>2, <1>7 DEF Moves, EarlyPcs, LatePcs, WidthVerified, Entered, Written
  <2>2. SinkInv(r)'
    BY <1>1, <1>7, <2>1 DEF Moves, SinkInv, EarlyPcs, LatePcs
  <2> QED
    BY <1>2, <1>3, <1>7, <2>1, <2>2 DEF LatePcs
<1> QED
  BY <1>5, <1>6, <1>7 DEF Moves, EarlyPcs, LatePcs

(* A response is labelled with the code it was answered with, read off the *)
(* response itself or, for a success, off its status.                      *)
LEMMA OutcomeIsCode ==
  ASSUME NEW api, NEW c \in Codes
  PROVE  outcome_label(Outcome(c), StatusOf(api, c)) = c
<1>1. c # Unset
  BY MetricsAssumption
<1>2. CASE c = "ok"
  <2>1. StatusOf(api, c) = 200
    BY <1>2 DEF StatusOf, Retryable
  <2>2. 200 \in 200..299
    OBVIOUS
  <2> QED
    BY <1>2, <2>1, <2>2 DEF outcome_label, Outcome
<1>3. CASE c # "ok"
  BY <1>1, <1>3 DEF outcome_label, Outcome
<1> QED
  BY <1>2, <1>3

(* The route a body is posted to is one that is counted. *)
LEMMA RouteIsDecrypting ==
  ASSUME NEW in \in Input
  PROVE  RouteOf[in.api][in.op] \in DECRYPT_ROUTES
<1>1. in.api \in {"v1", "v2"} /\ in.op \in {"decrypt", "sealoutput"}
  BY DEF Input
<1> QED
  BY <1>1 DEF RouteOf, DECRYPT_ROUTES

(* The labels a handler writes on entry name the chain and whether a       *)
(* permission was presented, unless the body was refused unread.           *)
LEMMA EntryIsLabelled ==
  ASSUME NEW in \in Input
  PROVE  LET sink == EntryLabels(NoLabels, in) IN
         /\ sink.encryption_type = Unset
         /\ chain_label(sink.host_chain_id) =
              IF in.form = "rejected" THEN "unknown" ELSE chain_label(in.key[1])
         /\ acp_label(sink.acp_presented) =
              IF in.form = "rejected" THEN "unknown" ELSE acp_label(in.acp # NoAcp)
<1> DEFINE sink == EntryLabels(NoLabels, in)
<1>1. CASE in.form = "rejected"
  BY <1>1 DEF EntryLabels, NoLabels, chain_label, acp_label
<1>2. CASE in.form # "rejected"
  <2>1. sink = [host_chain_id |-> in.key[1], acp_presented |-> in.acp # NoAcp,
                encryption_type |-> Unset]
    BY <1>2 DEF EntryLabels, NoLabels, FirstWrite
  <2> QED
    BY <1>2, <2>1
<1> QED
  BY <1>1, <1>2

(* When a response is made, the sink holds what it deserves. *)
LEMMA SinkIsDeserved ==
  ASSUME PathInv, PathInv', MetricsInv, NEW r \in Requests, Moves(r), OthersStay(r),
         WriteLabels(r), Ends(r)
  PROVE  LET in == input'[r]
             sink == labels'[r]
         IN
         /\ in \in Input
         /\ Deserved(r)' =
              [route |-> RouteOf[in.api][in.op], chain |-> chain_label(sink.host_chain_id),
               acp |-> acp_label(sink.acp_presented),
               width |-> width_label(sink.encryption_type),
               outcome |-> outcome_label(Outcome(outcome'[r]), StatusOf(in.api, outcome'[r]))]
         /\ sink.encryption_type = Unset <=> decrypted'[r] = "none"
         /\ decrypted'[r] # "none" => width_label(sink.encryption_type) = ct'[r].ty
<1> DEFINE in == input'[r]
           sink == labels'[r]
<1>1. in \in Input /\ outcome'[r] \in Codes /\ pc'[r] = "done"
  BY DEF PathInv, ReqInv, Shape, Ends
<1>2. outcome_label(Outcome(outcome'[r]), StatusOf(in.api, outcome'[r])) = outcome'[r]
  BY <1>1, OutcomeIsCode
<1> DEFINE entry == EntryLabels(NoLabels, in)
<1>3. /\ entry.encryption_type = Unset
      /\ chain_label(entry.host_chain_id) =
           IF in.form = "rejected" THEN "unknown" ELSE chain_label(in.key[1])
      /\ acp_label(entry.acp_presented) =
           IF in.form = "rejected" THEN "unknown" ELSE acp_label(in.acp # NoAcp)
  BY <1>1, EntryIsLabelled
<1>4. Deserved(r)' =
        [route |-> RouteOf[in.api][in.op], chain |-> chain_label(entry.host_chain_id),
         acp |-> acp_label(entry.acp_presented),
         width |-> IF decrypted'[r] = "none" THEN "unknown" ELSE ct'[r].ty,
         outcome |-> outcome'[r]]
  BY <1>3 DEF Deserved, chain_label, acp_label, served_chains
<1>5. CASE pc[r] \in {"new"} \cup EarlyPcs
  <2>1. decrypted'[r] = "none"
    BY <1>5 DEF Moves, MetricsInv, SinkInv, EarlyPcs
  <2>2. sink = entry
    BY <1>1, <1>5, SinkMoves DEF MetricsInv, SinkInv, Entered, EarlyPcs, LatePcs, Moves
  <2> QED
    BY <1>1, <1>2, <1>3, <1>4, <2>1, <2>2 DEF width_label
<1>6. CASE pc[r] = "joined"
  <2>1. /\ labels[r] = [Entered(r) EXCEPT !.encryption_type = ct[r].ty]
        /\ decrypted'[r] # "none" /\ ct'[r] = ct[r] /\ input'[r] = input[r]
    BY <1>6 DEF MetricsInv, SinkInv, LatePcs, Moves, EarlyPcs
  <2>2. sink = [entry EXCEPT !.encryption_type = ct'[r].ty]
    BY <1>6, <2>1, SinkMoves DEF LatePcs, Entered
  <2>3. ct'[r].ty # Unset
    <3>1. ct[r] \in Served
      BY <1>6 DEF PathInv, ReqInv, Cleared
    <3> QED
      BY <2>1, <3>1, MetricsAssumption DEF Served
  <2>4. /\ sink.encryption_type = ct'[r].ty
        /\ sink.host_chain_id = entry.host_chain_id /\ sink.acp_presented = entry.acp_presented
    BY <2>2 DEF EntryLabels, NoLabels
  <2> QED
    BY <1>1, <1>2, <1>4, <2>1, <2>3, <2>4 DEF width_label
<1> QED
  BY <1>1, <1>5, <1>6 DEF Moves, Ends, EarlyPcs

(* An answered request stays what it was. *)
LEMMA AnsweredStays ==
  ASSUME PathInv, NEW r \in Requests, Moves(r), OthersStay(r)
  PROVE  /\ Answered' = IF Ends(r) THEN Answered \cup {r} ELSE Answered
         /\ Ends(r) => r \notin Answered
         /\ \A q \in Answered : Deserts'[q] = Deserts[q] /\ Samples'[q] = Samples[q]
         /\ \A q \in Answered : decrypted'[q] = decrypted[q]
<1>1. pc[r] # "done"
  BY DEF Moves, EarlyPcs
<1>2. \A q \in Answered : q \in Requests /\ q # r
  BY <1>1 DEF Answered
<1>3. Answered' = IF Ends(r) THEN Answered \cup {r} ELSE Answered
  BY <1>1 DEF Answered, Ends, OthersStay
<1>4. ASSUME NEW q \in Answered
      PROVE  Deserts'[q] = Deserts[q] /\ Samples'[q] = Samples[q] /\ decrypted'[q] = decrypted[q]
  <2>1. /\ input'[q] = input[q] /\ ct'[q] = ct[q] /\ q \in Requests
        /\ outcome'[q] = outcome[q] /\ decrypted'[q] = decrypted[q]
    BY <1>2 DEF OthersStay
  <2>2. Deserved(q)' = Deserved(q)
    BY <2>1 DEF Deserved, chain_label, acp_label, served_chains
  <2> QED
    BY <2>1, <2>2 DEF Deserts, Samples
<1> QED
  BY <1>1, <1>3, <1>4 DEF Ends, Answered

(* A step of a request counts it if and only if it makes the response. *)
LEMMA MeasuredStepCounts ==
  ASSUME PathInv, PathInv', MetricsInv, NEW r \in Requests, MeasuredStep(r)
  PROVE  MetricsInv'
<1>1. Moves(r) /\ OthersStay(r) /\ WriteLabels(r) /\ track_metrics(r) /\ UNCHANGED visits
  BY StepMoves DEF MeasuredStep
<1>2. DOMAIN labels' = Requests /\ \A q \in Requests : SinkInv(q)'
  BY <1>1, SinkMoves
<1>3. /\ visits \in Seq(Visits)
      /\ Counts(requests, Answered, Deserts, Seen, VisitDeserts)
      /\ Counts(durations, Ran, Samples, {}, Samples)
  BY DEF MetricsInv
<1>4. /\ Answered' = IF Ends(r) THEN Answered \cup {r} ELSE Answered
      /\ Ends(r) => r \notin Answered
      /\ \A q \in Answered : Deserts'[q] = Deserts[q] /\ Samples'[q] = Samples[q]
      /\ \A q \in Answered : decrypted'[q] = decrypted[q]
  BY <1>1, AnsweredStays
<1>5. /\ IsFiniteSet(Answered) /\ IsFiniteSet(Ran) /\ IsFiniteSet(Seen) /\ IsFiniteSet({})
      /\ Ran \subseteq Answered
  BY <1>3, CountedFinite, FS_EmptySet
<1>6. Seen' = Seen /\ VisitDeserts' = VisitDeserts
  BY <1>1 DEF Seen, VisitDeserts
<1>7. ASSUME ~Ends(r)
      PROVE  /\ Counts(requests, Answered, Deserts, Seen, VisitDeserts)'
             /\ Counts(durations, Ran, Samples, {}, Samples)'
  <2>1. UNCHANGED <<requests, durations>> /\ Answered' = Answered
    BY <1>1, <1>4, <1>7 DEF track_metrics
  <2>2. Ran' = Ran
    BY <1>4, <2>1 DEF Ran
  <2>3. Counts(requests, Answered, Deserts', Seen, VisitDeserts)
    BY <1>3, <1>4, CountsFrame
  <2>4. Counts(durations, Ran, Samples', {}, Samples')
    BY <1>3, <1>4, <1>5, CountsFrame
  <2> QED
    BY <1>6, <2>1, <2>2, <2>3, <2>4
<1>8. ASSUME Ends(r)
      PROVE  /\ Counts(requests, Answered, Deserts, Seen, VisitDeserts)'
             /\ Counts(durations, Ran, Samples, {}, Samples)'
  <2> DEFINE in == input'[r]
             sink == labels'[r]
             width == width_label(sink.encryption_type)
             count == [route |-> RouteOf[in.api][in.op],
                       chain |-> chain_label(sink.host_chain_id),
                       acp |-> acp_label(sink.acp_presented), width |-> width,
                       outcome |-> outcome_label(Outcome(outcome'[r]),
                                                 StatusOf(in.api, outcome'[r]))]
  <2>1. /\ in \in Input /\ Deserved(r)' = count
        /\ sink.encryption_type = Unset <=> decrypted'[r] = "none"
        /\ decrypted'[r] # "none" => width = ct'[r].ty
    BY <1>1, <1>8, SinkIsDeserved
  <2>2. /\ requests' = requests (+) SetToBag({count})
        /\ durations' = IF sink.encryption_type = Unset THEN durations
                        ELSE durations (+) SetToBag({[route |-> RouteOf[in.api][in.op],
                                                      width |-> width]})
    BY <1>1, <1>8, <2>1, RouteIsDecrypting DEF track_metrics, observe, observe_decrypt
  <2>3. Deserts'[r] = count /\ (decrypted'[r] # "none" =>
          Samples'[r] = [route |-> RouteOf[in.api][in.op], width |-> width])
    BY <2>1 DEF Deserts, Samples
  <2> HIDE DEF count, width
  <2>4. Counts(requests', Answered \cup {r}, Deserts', Seen, VisitDeserts)
    BY <1>3, <1>4, <1>5, <1>8, <2>2, <2>3, CountOneMore
  <2>5. Ran' = IF decrypted'[r] = "none" THEN Ran ELSE Ran \cup {r}
    BY <1>4, <1>8 DEF Ran
  <2>6. Counts(durations, Ran, Samples', {}, Samples')
    BY <1>3, <1>4, <1>5, CountsFrame
  <2>7. r \notin Ran
    BY <1>4, <1>5, <1>8
  <2>8. decrypted'[r] # "none" => Counts(durations', Ran \cup {r}, Samples', {}, Samples')
    BY <1>5, <2>1, <2>2, <2>3, <2>6, <2>7, CountOneMore
  <2>9. Counts(durations', Ran', Samples', {}, Samples')
    BY <2>1, <2>2, <2>5, <2>6, <2>8
  <2> QED
    BY <1>4, <1>6, <1>8, <2>4, <2>9
<1>9. visits' \in Seq(Visits)
  BY <1>1, <1>3
<1> QED
  BY <1>2, <1>7, <1>8, <1>9 DEF MetricsInv

(* Nothing of the path changes, nor of what was counted. *)
LEMMA QuietCounts ==
  ASSUME MetricsInv, UNCHANGED <<pc, input, ct, outcome, decrypted>>,
         UNCHANGED <<labels, requests, durations, visits>>
  PROVE  MetricsInv'
<1>1. /\ Answered' = Answered /\ Ran' = Ran /\ Seen' = Seen /\ VisitDeserts' = VisitDeserts
      /\ Samples' = Samples
  BY DEF Answered, Ran, Seen, VisitDeserts, Samples
<1>2. Deserts' = Deserts
  BY DEF Deserts, Deserved, chain_label, acp_label, served_chains
<1>3. \A r \in Requests : SinkInv(r)'
  BY DEF MetricsInv, SinkInv, Entered
<1> QED
  BY <1>1, <1>2, <1>3 DEF MetricsInv

(* A visit is counted if and only if it is to a decrypting route. *)
LEMMA VisitCounts ==
  ASSUME MetricsInv, NEW v \in Visits, Visit(v)
  PROVE  MetricsInv'
<1>1. /\ visits \in Seq(Visits) /\ visits' = Append(visits, v)
      /\ observe(MatchedPath(v), v.method, NoLabels, Unset, RouterStatus(v))
      /\ UNCHANGED <<pc, input, ct, outcome, decrypted, labels>>
      /\ v.method = "POST" => v.path \notin DECRYPT_ROUTES
  BY DEF MetricsInv, Visit, vars, pathVars
<1>2. /\ Answered' = Answered /\ Ran' = Ran /\ Samples' = Samples
      /\ \A r \in Requests : SinkInv(r)'
  BY <1>1 DEF Answered, Ran, Samples, MetricsInv, SinkInv, Entered
<1>3. Deserts' = Deserts
  BY <1>1 DEF Deserts, Deserved, chain_label, acp_label, served_chains
<1> DEFINE n == Len(visits) + 1
<1>4. /\ Len(visits) \in Nat /\ DOMAIN visits = 1..Len(visits)
      /\ IsFiniteSet(Answered) /\ IsFiniteSet(Seen)
  BY <1>1, CountedFinite
<1>5. /\ visits' \in Seq(Visits) /\ Len(visits') = n /\ DOMAIN visits' = 1..n
      /\ \A i \in 1..Len(visits) : visits'[i] = visits[i]
      /\ visits'[n] = v
  BY <1>1, <1>4, AppendProperties, LenProperties
<1>6. n \notin DOMAIN visits /\ DOMAIN visits' = DOMAIN visits \cup {n}
  BY <1>4, <1>5
<1> HIDE DEF n
<1>7. \A i \in Seen : VisitDeserts'[i] = VisitDeserts[i]
  BY <1>4, <1>5, <1>6 DEF VisitDeserts, Seen
<1>8. VisitDeserts'[n] = VisitDeserves(v, "ok")
  BY <1>5, <1>6 DEF VisitDeserts, VisitDeserves
<1>9. Seen' = (IF v.path \in DECRYPT_ROUTES THEN Seen \cup {n} ELSE Seen) /\ n \notin Seen
  BY <1>4, <1>5, <1>6 DEF Seen
<1>10. Counts(requests, Answered, Deserts, Seen, VisitDeserts')
  BY <1>7, CountsFrame DEF MetricsInv
<1>11. CASE v.path \notin DECRYPT_ROUTES
  <2>1. MatchedPath(v) \notin DECRYPT_ROUTES
    BY <1>11, MetricsAssumption DEF MatchedPath
  <2>2. UNCHANGED <<requests, durations>>
    BY <1>1, <2>1 DEF observe
  <2> QED
    BY <1>1, <1>2, <1>3, <1>5, <1>9, <1>10, <1>11, <2>2 DEF MetricsInv
<1>12. CASE v.path \in DECRYPT_ROUTES
  <2>1. MatchedPath(v) = v.path
    BY <1>12 DEF MatchedPath
  <2>2. RouterStatus(v) = IF v.method = "OPTIONS" THEN 200 ELSE 405
    BY <1>12 DEF RouterStatus
  <2>3. outcome_label(Unset, RouterStatus(v)) =
          IF v.method = "OPTIONS" THEN "ok" ELSE "rejected"
    BY <2>2 DEF outcome_label
  <2> DEFINE count == [route |-> v.path, chain |-> chain_label(Unset), acp |-> acp_label(Unset),
                       width |-> width_label(Unset),
                       outcome |-> outcome_label(Unset, RouterStatus(v))]
  <2>4. count = VisitDeserves(v, "ok")
    BY <2>3 DEF VisitDeserves, chain_label, acp_label, width_label
  <2>5. requests' = requests (+) SetToBag({count}) /\ UNCHANGED durations
    BY <1>1, <1>12, <2>1 DEF observe, observe_decrypt, NoLabels
  <2>6. requests' = requests (+) SetToBag({VisitDeserts'[n]})
    BY <1>8, <2>4, <2>5
  <2>7. Counts(requests, Seen, VisitDeserts', Answered, Deserts)
    BY <1>4, <1>10, CountsSwap
  <2>8. Counts(requests', Seen \cup {n}, VisitDeserts', Answered, Deserts)
    BY <1>4, <1>9, <2>6, <2>7, CountOneMore
  <2>9. IsFiniteSet(Seen \cup {n})
    BY <1>4, FS_AddElement
  <2>10. Counts(requests', Answered, Deserts, Seen \cup {n}, VisitDeserts')
    BY <1>4, <2>8, <2>9, CountsSwap
  <2> QED
    BY <1>1, <1>2, <1>3, <1>5, <1>9, <1>12, <2>5, <2>10 DEF MetricsInv
<1> QED
  BY <1>11, <1>12

(* A poll is measured, but not by the decrypt family. *)
LEMMA PollCounts ==
  ASSUME MetricsInv, NEW op \in Ops, NEW id \in Requests, MeasuredPoll(op, id)
  PROVE  MetricsInv'
<1>1. PollRoute[op] \notin DECRYPT_ROUTES
  <2>1. CASE op = "decrypt"
    BY <2>1 DEF PollRoute, DECRYPT_ROUTES
  <2>2. CASE op = "sealoutput"
    BY <2>2 DEF PollRoute, DECRYPT_ROUTES
  <2> QED
    BY <2>1, <2>2 DEF Ops
<1>2. UNCHANGED <<requests, durations, labels, visits>>
  BY <1>1 DEF MeasuredPoll, observe
<1>3. UNCHANGED <<pc, input, ct, outcome, decrypted>>
  BY DEF MeasuredPoll, Poll, cpuVars
<1> QED
  BY <1>2, <1>3, QuietCounts

(* Every step keeps the counts. *)
LEMMA MetricsNextInv ==
  PathInv /\ PathInv' /\ MetricsInv /\ [MetricsNext]_allVars => MetricsInv'
<1> SUFFICES ASSUME PathInv, PathInv', MetricsInv, [MetricsNext]_allVars
             PROVE  MetricsInv'
  OBVIOUS
<1>1. ASSUME \/ (\E p \in Permissions : AclChange(p)) /\ UNCHANGED metricVars
             \/ Environment /\ UNCHANGED metricVars
             \/ UNCHANGED allVars
      PROVE  MetricsInv'
  <2>1. UNCHANGED <<pc, input, ct, outcome, decrypted>>
    BY <1>1 DEF AclChange, Environment, allVars, vars, pathVars, cpuVars
  <2>2. UNCHANGED <<labels, requests, durations, visits>>
    BY <1>1 DEF allVars, metricVars
  <2> QED
    BY <2>1, <2>2, QuietCounts
<1> QED
  BY <1>1, MeasuredStepCounts, PollCounts, VisitCounts DEF MetricsNext

(* MetricsInv holds in every reachable state of the metrics. *)
LEMMA MetricsInvariant == MetricsSpec => []MetricsInv
<1>1. MetricsSpec => []PathInv
  BY MetricsOnlyObserve, PathInvariant, PTL
<1> QED
  BY <1>1, MetricsInitInv, MetricsNextInv, PTL DEF MetricsSpec

(* Every response of a decrypting route is counted exactly once, with the  *)
(* labels it had earned when it ended, and a request whose client left is  *)
(* not counted, for any number of requests and any traffic.                *)
THEOREM ResponsesAreCountedOnce == MetricsSpec => []CountedOnce
<1>1. MetricsInv => CountedOnce
  <2> SUFFICES ASSUME MetricsInv
               PROVE  CountedOnce
    OBVIOUS
  <2>1. \A r \in Answered : r \in Requests /\ Deserts[r] = Deserved(r)
    BY DEF Answered, Deserts
  <2>2. \A i \in Seen : VisitDeserts[i] = VisitDeserves(visits[i], "ok")
    BY DEF Seen, VisitDeserts
  <2>3. Counts(requests, Answered, Deserts, Seen, VisitDeserts)
    BY DEF MetricsInv
  <2>4. BagToSet(requests) =
          {Deserved(r) : r \in Answered} \cup {VisitDeserves(visits[i], "ok") : i \in Seen}
    BY <2>1, <2>2, <2>3 DEF Counts, BagToSet
  <2>5. ASSUME NEW l
        PROVE  /\ {r \in Answered : Deserts[r] = l} = {r \in Answered : Deserved(r) = l}
               /\ {i \in Seen : VisitDeserts[i] = l} = {i \in Seen : VisitDeserves(visits[i], "ok") = l}
    BY <2>1, <2>2
  <2>6. \A l \in BagToSet(requests) :
          requests[l] = Cardinality({r \in Answered : Deserved(r) = l})
                          + Cardinality({i \in Seen : VisitDeserves(visits[i], "ok") = l})
    BY <2>3, <2>5 DEF Counts, BagToSet
  <2> DEFINE CountedAs(p) ==
               /\ BagToSet(requests) =
                    {Deserved(r) : r \in Answered} \cup {VisitDeserves(visits[i], p) : i \in Seen}
               /\ \A l \in {Deserved(r) : r \in Answered}
                            \cup {VisitDeserves(visits[i], p) : i \in Seen} :
                    requests[l] = Cardinality({r \in Answered : Deserved(r) = l})
                      + Cardinality({i \in Seen : VisitDeserves(visits[i], p) = l})
  <2>7. CountedAs("ok")
    BY <2>4, <2>6
  <2>8. \E p \in {"ok", "rejected"} : CountedAs(p)
    BY <2>7, Zenon
  <2> QED
    BY <2>8, Zenon DEF CountedOnce, Seen
<1> QED
  BY <1>1, MetricsInvariant, PTL

(* A duration is recorded exactly for the responses whose FHE decrypt ran. *)
THEOREM DurationsAreDecrypts == MetricsSpec => []DurationsMeanDecrypts
<1>1. MetricsInv => DurationsMeanDecrypts
  <2> SUFFICES ASSUME MetricsInv
               PROVE  DurationsMeanDecrypts
    OBVIOUS
  <2> DEFINE Sample(r) == [route |-> RouteOf[input[r].api][input[r].op], width |-> ct[r].ty]
  <2>1. \A r \in Ran : r \in Requests /\ Samples[r] = Sample(r)
    BY DEF Ran, Answered, Samples
  <2>2. Counts(durations, Ran, Samples, {}, Samples)
    BY DEF MetricsInv
  <2>3. BagToSet(durations) = {Sample(r) : r \in Ran}
    <3>1. DOMAIN durations = {Samples[r] : r \in Ran} \cup {Samples[b] : b \in {}}
      BY <2>2 DEF Counts
    <3>2. DOMAIN durations = {Samples[r] : r \in Ran}
      BY <3>1
    <3> QED
      BY <2>1, <3>2 DEF BagToSet
  <2>4. ASSUME NEW s \in BagToSet(durations)
        PROVE  durations[s] = Cardinality({r \in Ran : Sample(r) = s})
    <3>1. /\ {r \in Ran : Samples[r] = s} = {r \in Ran : Sample(r) = s}
          /\ {b \in {} : Samples[b] = s} = {}
      BY <2>1
    <3>2. durations[s] = Cardinality({r \in Ran : Sample(r) = s}) + Cardinality({})
      BY <2>2, <3>1 DEF Counts, BagToSet
    <3>3. Cardinality({}) = 0 /\ Cardinality({r \in Ran : Sample(r) = s}) \in Nat
      <4>1. IsFiniteSet(Ran) /\ {r \in Ran : Sample(r) = s} \subseteq Ran
        BY CountedFinite DEF MetricsInv
      <4> QED
        BY <4>1, FS_EmptySet, FS_Subset, FS_CardinalityType
    <3> DEFINE m == Cardinality({r \in Ran : Sample(r) = s})
    <3>4. m \in Nat /\ durations[s] = m + 0
      BY <3>2, <3>3
    <3> HIDE DEF m
    <3>5. durations[s] = m
      BY <3>4
    <3> QED
      BY <3>5 DEF m
  <2> QED
    BY <2>3, <2>4 DEF DurationsMeanDecrypts, Ran
<1> QED
  BY <1>1, MetricsInvariant, PTL
=============================================================================
