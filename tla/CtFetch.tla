------------------------------- MODULE CtFetch -------------------------------
(***************************************************************************)
(* src/ct_source.rs: one fetch of a ciphertext.  ct-server answers with    *)
(* whatever it likes, as slowly as it likes, in chunks of its own choice,  *)
(* and the connection may break; one timer runs over all of it.  Lengths   *)
(* are in units of a byte, and the cap is small.                           *)
(***************************************************************************)
EXTENDS Integers

CONSTANTS
  MAX_BODY_BYTES,  \* what is buffered at most
  MaxLength,       \* bound on the length of a body
  Timeout          \* of the client, over send and body together

ASSUME CtFetchAssumption ==
  MAX_BODY_BYTES \in Nat /\ MaxLength \in Nat /\ Timeout \in Nat \ {0}

VARIABLES
  stage,           \* "sending", "body" or "done"
  clock,           \* time since the request was sent
  reply,           \* the response whose headers have arrived
  sent,            \* bytes of its body that have arrived
  raw,             \* bytes buffered
  result,          \* "none", "Ok", or a CtFetchError
  late             \* history: was it the timer that ended the fetch?

fetchVars == <<stage, clock, reply, sent, raw, result, late>>

\* A response: how its body is delimited (a Content-Length, chunked encoding,
\* or the end of the connection), how long the body is and what is in it.
Replies ==
  [status : {200, 404, 428, 500}, framing : {"length", "chunked", "close"},
   length : 1..MaxLength, document : {"row", "bad json", "bad hex"}]

NoReply == [status |-> 0]

FetchInit ==
  /\ stage = "sending" /\ clock = 0 /\ reply = NoReply
  /\ sent = 0 /\ raw = 0 /\ result = "none" /\ late = FALSE

\* fetch returns.
Return(r) == stage' = "done" /\ result' = r

SendFails ==
  /\ stage = "sending"
  /\ Return("Transport")
  /\ UNCHANGED <<clock, reply, sent, raw, late>>

\* The headers: the status decides, then the declared length.
Headers(rep) ==
  /\ stage = "sending"
  /\ reply' = rep
  /\ CASE rep.status = 404 -> Return("NotFound")
       [] rep.status = 428 -> Return("NotReady")
       [] rep.status \notin {200, 404, 428} -> Return("UnexpectedStatus")
       [] rep.status = 200 /\ rep.framing = "length" /\ rep.length > MAX_BODY_BYTES ->
            Return("BadResponse")
       [] OTHER -> stage' = "body" /\ UNCHANGED result
  /\ UNCHANGED <<clock, sent, raw, late>>

\* Faulty variant: the declared length is trusted to bound the body.
ChunkUnbounded(n) ==
  /\ stage = "body" /\ sent + n <= reply.length
  /\ sent' = sent + n
  /\ raw' = raw + n
  /\ UNCHANGED <<stage, clock, reply, result, late>>

\* Faulty variant: a body of exactly the cap is refused.
ChunkStrict(n) ==
  /\ stage = "body" /\ sent + n <= reply.length
  /\ sent' = sent + n
  /\ IF raw + n >= MAX_BODY_BYTES
     THEN Return("BadResponse") /\ UNCHANGED raw
     ELSE raw' = raw + n /\ UNCHANGED <<stage, result>>
  /\ UNCHANGED <<clock, reply, late>>

\* A chunk is in hand; it is buffered only if it fits.
Chunk(n) ==
  /\ stage = "body" /\ sent + n <= reply.length
  /\ sent' = sent + n
  /\ IF raw + n > MAX_BODY_BYTES
     THEN Return("BadResponse") /\ UNCHANGED raw
     ELSE raw' = raw + n /\ UNCHANGED <<stage, result>>
  /\ UNCHANGED <<clock, reply, late>>

\* chunk() finds the end of the body, which a connection that delimits it may
\* fake: the document then lacks its end and is no JSON.
BodyEnds ==
  /\ stage = "body"
  /\ sent = reply.length \/ reply.framing = "close"
  /\ Return(IF sent = reply.length /\ reply.document = "row" THEN "Ok" ELSE "BadResponse")
  /\ UNCHANGED <<clock, reply, sent, raw, late>>

\* The connection breaks where the framing shows it.
BodyBreaks ==
  /\ stage = "body"
  /\ reply.framing = "chunked" \/ (reply.framing = "length" /\ sent < reply.length)
  /\ Return("BadResponse")
  /\ UNCHANGED <<clock, reply, sent, raw, late>>

\* Faulty variant: the timer covers the headers only.
TimesOutSending ==
  /\ stage = "sending" /\ clock = Timeout
  /\ Return("Timeout") /\ late' = TRUE
  /\ UNCHANGED <<clock, reply, sent, raw>>

\* The client's timer: an error of send(), or of chunk().
TimesOut ==
  /\ stage # "done" /\ clock = Timeout
  /\ Return(IF stage = "sending" THEN "Timeout" ELSE "BadResponse")
  /\ late' = TRUE
  /\ UNCHANGED <<clock, reply, sent, raw>>

Tick ==
  /\ stage # "done" /\ clock < Timeout
  /\ clock' = clock + 1
  /\ UNCHANGED <<stage, reply, sent, raw, result, late>>

FetchNext ==
  \/ SendFails
  \/ \E rep \in Replies : Headers(rep)
  \/ \E n \in 1..MaxLength : Chunk(n)
  \/ BodyEnds \/ BodyBreaks \/ TimesOut \/ Tick

\* Time passes and the runtime's timer fires; ct-server owes nothing.
FetchSpec == FetchInit /\ [][FetchNext]_fetchVars /\ WF_fetchVars(Tick) /\ WF_fetchVars(TimesOut)

-----------------------------------------------------------------------------
(* Properties *)

(* Whatever ct-server declares and however it cuts its body into chunks,   *)
(* never more than the cap is in memory, and a fetch that succeeds holds   *)
(* the whole body.                                                         *)
BufferBounded ==
  /\ raw <= MAX_BODY_BYTES
  /\ result = "Ok" => raw = reply.length

(* A body is refused only for a cause: it is over the cap, no ciphertext   *)
(* row, cut off, or too late.  A sound row of exactly the cap is served,   *)
(* in one chunk or in many.                                                *)
RefusedForCause ==
  [][result' = "BadResponse" /\ result = "none" =>
       \/ late' \/ BodyBreaks
       \/ reply'.length > MAX_BODY_BYTES
       \/ reply'.document # "row"
       \/ sent' < reply'.length]_fetchVars

(* A fetch ends even if ct-server accepts it and never answers, or sends   *)
(* its body a byte at a time.                                              *)
FetchEnds == <>(stage = "done")
=============================================================================
