--------------------------- MODULE RequestMetrics ---------------------------
(***************************************************************************)
(* The metrics layer around the request path: track_metrics of src/http.rs *)
(* and the instruments of src/metrics/decrypt.rs and src/metrics/http.rs.  *)
(*                                                                         *)
(* The layer is the outermost one of the router.  It puts a sink of        *)
(* write-once labels into the request, awaits the response and records it; *)
(* a client that disconnects drops the layer's own future too, and nothing *)
(* is recorded.  The handlers write into the sink as they learn.           *)
(*                                                                         *)
(* Traffic that never reaches fetch_decrypt is a Visit: other routes,      *)
(* unmatched paths, wrong methods and the preflights the CORS layer        *)
(* answers.                                                                *)
(***************************************************************************)
EXTENDS DecryptPath, Bags

CONSTANTS
  Unset,       \* a label nobody has written
  Visits,      \* the other requests clients make: [method, path] records
  MaxVisits    \* bound: how many of them

VARIABLES
  labels,      \* per request: the DecryptLabels sink
  requests,    \* teecryptor_decrypt_requests_total: a bag of label sets
  durations,   \* teecryptor_decrypt_duration_seconds: a bag of label sets
  httpSeries,  \* the series of http_server_requests_total that exist
  visits       \* history: the visits answered, in order

metricVars == <<labels, requests, durations, httpSeries, visits>>
allVars == <<vars, metricVars>>

\* The route template a request body is posted to.
RouteOf ==
  [v1 |-> [decrypt |-> "/decrypt", sealoutput |-> "/sealoutput"],
   v2 |-> [decrypt |-> "/v2/decrypt", sealoutput |-> "/v2/sealoutput"]]

PollRoute ==
  [decrypt |-> "/v2/decrypt/{request_id}", sealoutput |-> "/v2/sealoutput/{request_id}"]

DECRYPT_ROUTES == {"/decrypt", "/sealoutput", "/v2/decrypt", "/v2/sealoutput"}

GetRoutes == {"/healthz", "/signerAddress"} \cup {PollRoute[op] : op \in Ops}

ASSUME MetricsAssumption ==
  /\ MaxVisits \in Nat
  /\ Unset \notin Chains \cup WireTypes
  /\ Unset \notin BOOLEAN
  /\ Unset \notin Codes \cup DECRYPT_ROUTES

NoLabels ==
  [host_chain_id |-> Unset, acp_presented |-> Unset, encryption_type |-> Unset]

MetricsInit ==
  /\ Init
  /\ labels = [r \in Requests |-> NoLabels]
  /\ requests = EmptyBag
  /\ durations = EmptyBag
  /\ httpSeries = {}
  /\ visits = <<>>

-----------------------------------------------------------------------------
(* The label values *)

\* get_or_init: the first write wins.
FirstWrite(old, new) == IF old = Unset THEN new ELSE old

\* ChainLabels: a caller's chain id is a label only if it is served.
served_chains == IF AcpGate THEN AclChains ELSE {}

chain_label(id) ==
  IF id = Unset THEN "unknown" ELSE IF id \in served_chains THEN id ELSE "other"

acp_label(presented) ==
  IF presented = Unset THEN "unknown" ELSE IF presented THEN "present" ELSE "absent"

width_label(ty) == IF ty = Unset THEN "unknown" ELSE ty

\* The response's own code, or what its status says when no funnel made it.
outcome_label(code, status) ==
  IF code # Unset THEN code ELSE IF status \in 200..299 THEN "ok" ELSE "rejected"

method_label(method) ==
  IF method \in {"GET", "POST", "OPTIONS", "HEAD", "PUT", "DELETE", "PATCH"}
  THEN method ELSE "OTHER"

route_label(route) == IF route = Unset THEN "unmatched" ELSE route

-----------------------------------------------------------------------------
(* The status a request is answered with *)

Retryable == {"overloaded", "ct_not_ready", "commitment_pending"}

\* ApiVersion::retryable: v2 clients retry on a bodyless 204, v1 clients
\* need a body.
retryable(api, reason) ==
  IF api = "v2" THEN 204 ELSE IF reason = "overloaded" THEN 503 ELSE 428

\* Of a code; 400 stands for whichever 4xx the JSON extractor rejects with.
StatusOf(api, code) ==
  CASE code = "ok" -> 200
    [] code \in Retryable -> retryable(api, code)
    [] code \in {"rejected", "bad_request", "acp_required", "unknown_chain",
                 "acp_malformed"} -> 400
    [] code \in {"acp_denied", "acp_expired", "acp_invalid"} -> 401
    [] code = "not_publicly_allowed" -> 403
    [] code = "ct_not_found" -> 404
    [] code \in {"unsupported_security_zone", "unsupported_type"} -> 422
    [] code \in {"ct_source_error", "acp_verifier_error", "commitment_verifier_error",
                 "ct_type_mismatch", "ct_zone_mismatch", "commitment_mismatch"} -> 502
    [] code \in {"ct_source_timeout", "acp_verifier_timeout",
                 "commitment_verifier_timeout"} -> 504
    [] OTHER -> 500

-----------------------------------------------------------------------------
(* Recording one response *)

observe_http(route, method, status) ==
  httpSeries' = httpSeries \cup
    {[route |-> route_label(route), method |-> method_label(method), status |-> status]}

\* Instruments::observe of the decrypt family: one count, and one duration
\* when the width is known.
observe_decrypt(route, sink, code, status) ==
  LET width == width_label(sink.encryption_type)
      count == [route |-> route, chain |-> chain_label(sink.host_chain_id),
                acp |-> acp_label(sink.acp_presented), width |-> width,
                outcome |-> outcome_label(code, status)]
  IN
  /\ requests' = requests (+) SetToBag({count})
  /\ durations' = IF sink.encryption_type = Unset THEN durations
                  ELSE durations (+) SetToBag({[route |-> route, width |-> width]})

\* The end of track_metrics: the response is in hand.
observe(route, method, sink, code, status) ==
  /\ observe_http(route, method, status)
  /\ IF route \in DECRYPT_ROUTES
     THEN observe_decrypt(route, sink, code, status)
     ELSE UNCHANGED <<requests, durations>>

-----------------------------------------------------------------------------
(* The steps *)

\* What a handler writes on entry, ahead of every early return of its own; a
\* body the extractor refuses carries no chain.
EntryLabels(sink, in) ==
  IF in.form = "rejected" THEN sink
  ELSE [sink EXCEPT !.host_chain_id = FirstWrite(@, in.key[1]),
                    !.acp_presented = FirstWrite(@, in.acp # NoAcp)]

\* Faulty variant: the width ct-server declares is written unverified.
WidthOnArrival(r) == pc[r] = "ct" /\ ct'[r] # NoCt

\* set_encryption_type: both metadata checks have passed.
WidthVerified(r) == pc[r] # "cpuwait" /\ pc'[r] = "cpuwait"

\* The sink of r after a step of r.
Written(r, sink) ==
  IF pc[r] = "new" THEN EntryLabels(sink, input'[r])
  ELSE IF WidthVerified(r)
    THEN [sink EXCEPT !.encryption_type = FirstWrite(@, ct'[r].ty)]
  ELSE sink

WriteLabels(r) == labels' = [labels EXCEPT ![r] = Written(r, @)]

\* Faulty variant: a guard records the request when the future is dropped.
EndsOnDrop(r) == pc[r] \notin {"done", "dropped"} /\ pc'[r] \in {"done", "dropped"}

\* next.run returns: in the step that makes the response, and never for a
\* future that is dropped.
Ends(r) == pc[r] # "done" /\ pc'[r] = "done"

\* Every code but "ok" leaves through err or retryable_204, which label it.
Outcome(code) == IF code = "ok" THEN Unset ELSE code

track_metrics(r) ==
  LET in == input'[r] IN
  IF Ends(r)
  THEN observe(RouteOf[in.api][in.op], "POST", labels'[r], Outcome(outcome'[r]),
               StatusOf(in.api, outcome'[r]))
  ELSE UNCHANGED <<requests, durations, httpSeries>>

MeasuredStep(r) ==
  /\ RequestStep(r)
  /\ WriteLabels(r)
  /\ track_metrics(r)
  /\ UNCHANGED visits

\* GET on a poll route that finds its result.
MeasuredPoll(op, id) ==
  /\ Poll(op, id)
  /\ observe(PollRoute[op], "GET", NoLabels, Unset, 200)
  /\ UNCHANGED <<labels, visits>>

\* How the router answers what no decrypting handler sees: the CORS layer
\* takes every OPTIONS, then the path and the method decide.  The service is
\* ready and holds no result for a poll counted here.
RouterStatus(v) ==
  IF v.method = "OPTIONS" THEN 200
  ELSE IF v.path \notin DECRYPT_ROUTES \cup GetRoutes THEN 404
  ELSE IF v.path \in DECRYPT_ROUTES \/ v.method \notin {"GET", "HEAD"} THEN 405
  ELSE IF v.path \in {PollRoute[op] : op \in Ops} THEN 404
  ELSE 200

MatchedPath(v) == IF v.path \in DECRYPT_ROUTES \cup GetRoutes THEN v.path ELSE Unset

Visit(v) ==
  /\ v.method = "POST" => v.path \notin DECRYPT_ROUTES
  /\ Len(visits) < MaxVisits
  /\ visits' = Append(visits, v)
  /\ observe(MatchedPath(v), v.method, NoLabels, Unset, RouterStatus(v))
  /\ UNCHANGED <<vars, labels>>

MetricsNext ==
  \/ \E r \in Requests : MeasuredStep(r)
  \/ \E op \in Ops, id \in Requests : MeasuredPoll(op, id)
  \/ \E v \in Visits : Visit(v)
  \/ (\E p \in Permissions : AclChange(p)) /\ UNCHANGED metricVars
  \/ Environment /\ UNCHANGED metricVars

MetricsSpec == MetricsInit /\ [][MetricsNext]_allVars

-----------------------------------------------------------------------------
(* Properties *)

Answered == {r \in Requests : pc[r] = "done"}

\* What a response deserves to be counted as, read off how it ended.
Deserved(r) ==
  LET in == input[r] IN
  [route |-> RouteOf[in.api][in.op],
   chain |-> IF in.form = "rejected" THEN "unknown" ELSE chain_label(in.key[1]),
   acp |-> IF in.form = "rejected" THEN "unknown" ELSE acp_label(in.acp # NoAcp),
   width |-> IF decrypted[r] = "none" THEN "unknown" ELSE ct[r].ty,
   outcome |-> outcome[r]]

\* Likewise for a visit to a decrypting route, if a preflight deserves p.
VisitDeserves(v, p) ==
  [route |-> v.path, chain |-> "unknown", acp |-> "unknown", width |-> "unknown",
   outcome |-> IF v.method = "OPTIONS" THEN p ELSE "rejected"]

(* Every response of a decrypting route is counted exactly once, whoever   *)
(* made it, with the labels it had earned when it ended; a request whose   *)
(* client left is not counted, not even when its decrypt completes later.  *)
(* A preflight has neither a result nor a refusal: it is counted under one *)
(* outcome, always the same, and the property does not say which.          *)
CountedOnce ==
  LET seen == {i \in DOMAIN visits : visits[i].path \in DECRYPT_ROUTES} IN
  \E p \in {"ok", "rejected"} :
    LET deserved == {Deserved(r) : r \in Answered} \cup {VisitDeserves(visits[i], p) : i \in seen}
    IN
    /\ BagToSet(requests) = deserved
    /\ \A l \in deserved :
         requests[l] =
           Cardinality({r \in Answered : Deserved(r) = l})
             + Cardinality({i \in seen : VisitDeserves(visits[i], p) = l})

(* A duration is recorded exactly for the responses whose FHE decrypt ran, *)
(* failed and panicked ones included: no request turned away at a gate or  *)
(* by a metadata check drags the distribution down.                        *)
DurationsMeanDecrypts ==
  LET ran == {r \in Answered : decrypted[r] # "none"}
      Sample(r) == [route |-> RouteOf[input[r].api][input[r].op], width |-> ct[r].ty]
  IN
  /\ BagToSet(durations) = {Sample(r) : r \in ran}
  /\ \A s \in BagToSet(durations) :
       durations[s] = Cardinality({r \in ran : Sample(r) = s})

=============================================================================
