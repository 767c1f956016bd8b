---------------------------- MODULE ClientProofs ----------------------------
(***************************************************************************)
(* The parts that talk to services of their own accord: the probes of the  *)
(* dependencies, the push of metrics, and the fetch of a ciphertext.       *)
(*                                                                         *)
(* The verdict is earned, for every list of dependencies: while a scan     *)
(* runs, the dependencies it has passed were all up at some instant of it. *)
(* A fetch buffers no more than its cap, whatever the cap and the server.  *)
(* What the API took of an export and what is still to be sent make up the *)
(* export, whatever the split and however the push ends.                   *)
(***************************************************************************)
EXTENDS Telemetry, CtFetch, SplitLemmas

\* Abbreviated so that the provers treat it as a number and no more.
Size == Len(Dependencies)

Scanned ==
  next > 0 =>
    /\ lastUp \subseteq seenUp
    /\ \A i \in 1..Size : i < next => Dependencies[i] \in seenUp

AtomicsTrue == \A d \in Deps : state[d] = "UP" => d \in lastUp

HealthInv == HealthTypeOK /\ AtomicsTrue /\ Scanned /\ HealthyIsEarned

\* There is at least one dependency.
LEMMA LastNat == Size \in Nat \ {0} /\ DOMAIN Dependencies = 1..Size
  BY HealthAssumption DEF Size

\* The part of it that says nothing of the list itself.
LEMMA LastPositive == Size \in Nat \ {0}
  BY LastNat

\* Nothing is up and nothing was reported at boot.
LEMMA HealthInitInv == HealthInit => HealthInv
<1> SUFFICES ASSUME HealthInit PROVE HealthInv
  OBVIOUS
<1>1. HealthTypeOK
  BY LastPositive DEF HealthInit, HealthTypeOK, Size
<1> QED
  BY <1>1 DEF HealthInit, HealthInv, AtomicsTrue, Scanned, HealthyIsEarned

\* Every probe, load and outage preserves the invariant.
LEMMA HealthNextInv == HealthInv /\ [HealthNext]_healthVars => HealthInv'
<1> SUFFICES ASSUME HealthInv, [HealthNext]_healthVars
             PROVE  HealthInv'
  OBVIOUS
<1> USE LastPositive
<1>1. CASE RoundBegins
  BY <1>1 DEF HealthInv, HealthTypeOK, AtomicsTrue, Scanned, HealthyIsEarned, RoundBegins
<1>2. ASSUME NEW d \in Deps, Probe(d)
      PROVE  HealthInv'
  <2>1. HealthTypeOK'
    BY <1>2 DEF HealthInv, HealthTypeOK, Probe, Observe
  <2>2. AtomicsTrue'
    BY <1>2 DEF HealthInv, HealthTypeOK, AtomicsTrue, Probe, Observe
  <2>3. Scanned' /\ HealthyIsEarned'
    BY <1>2 DEF HealthInv, HealthTypeOK, Scanned, HealthyIsEarned, Probe, Observe
  <2> QED
    BY <2>1, <2>2, <2>3 DEF HealthInv
<1>3. ASSUME NEW d \in Deps, Flip(d)
      PROVE  HealthInv'
  BY <1>3 DEF HealthInv, HealthTypeOK, AtomicsTrue, Scanned, HealthyIsEarned, Flip
<1>4. CASE CollectBegins
  <2>1. 1 \in 0..Size
    OBVIOUS
  <2> QED
    BY <1>4, <2>1 DEF Size, HealthInv, HealthTypeOK, AtomicsTrue, Scanned, HealthyIsEarned,
                      CollectBegins
<1>5. CASE CollectLoads
  <2> DEFINE d == Dependencies[next]
  <2>1. next \in 1..Size /\ d \in Deps
    <3>1. next \in 1..Size
      <4>1. next \in 0..Size /\ next > 0
        BY <1>5 DEF HealthInv, HealthTypeOK, CollectLoads, Size
      <4> QED
        BY <4>1
    <3>2. next \in DOMAIN Dependencies
      BY <3>1, LastNat
    <3> QED
      BY <3>1, <3>2 DEF Deps
  <2>2. state[d] = "UP" => d \in seenUp
    BY <1>5, <2>1 DEF HealthInv, AtomicsTrue, Scanned, CollectLoads
  <2>3. UNCHANGED <<answers, state, todo, lastUp, seenUp>>
    BY <1>5 DEF CollectLoads
  <2> HIDE DEF d
  <2>4. /\ next' = IF state[d] = "UP" /\ next < Size THEN next + 1 ELSE 0
        /\ verdict' = IF state[d] # "UP" THEN "0"
                      ELSE IF next = Size THEN "1" ELSE verdict
    BY <1>5 DEF CollectLoads, d, Size
  <2>5. HealthTypeOK' /\ AtomicsTrue'
    <3>1. next' \in 0..Size
      BY <2>1, <2>4
    <3>2. verdict' \in {"none", "0", "1"}
      BY <2>4 DEF HealthInv, HealthTypeOK
    <3> QED
      BY <2>3, <3>1, <3>2 DEF HealthInv, HealthTypeOK, AtomicsTrue, Size
  <2>6. CASE state[d] = "UP" /\ next < Size
    <3>1. next' = next + 1 /\ next' > 0
      BY <2>1, <2>6, <2>4
    <3>2. Scanned'
      <4>1. \A i \in 1..Size : i < next + 1 => i < next \/ i = next
        BY <2>1
      <4>2. d = Dependencies[next]
        BY DEF d
      <4> QED
        BY <2>1, <2>2, <2>3, <2>6, <3>1, <4>1, <4>2 DEF HealthInv, Scanned
    <3>3. HealthyIsEarned'
      BY <2>1, <3>1 DEF HealthyIsEarned
    <3> QED
      BY <2>5, <3>2, <3>3 DEF HealthInv
  <2>7. CASE state[d] = "UP" /\ next = Size
    <3>1. next' = 0
      BY <2>1, <2>7, <2>4
    <3>2. \A i \in 1..Size : Dependencies[i] \in seenUp
      <4>1. \A i \in 1..Size : i < next \/ i = next
        BY <2>1, <2>7
      <4> QED
        BY <2>1, <2>2, <2>7, <4>1 DEF HealthInv, Scanned, d
    <3>3. seenUp = Deps
      BY <3>2, LastNat DEF HealthInv, HealthTypeOK, Deps
    <3> QED
      BY <2>3, <2>5, <3>1, <3>3 DEF HealthInv, Scanned, HealthyIsEarned, Deps
  <2>8. CASE state[d] # "UP"
    <3>1. next' = 0 /\ verdict' = "0"
      BY <2>8, <2>4
    <3> QED
      BY <2>5, <3>1 DEF HealthInv, Scanned, HealthyIsEarned
  <2> QED
    BY <2>1, <2>6, <2>7, <2>8
<1>6. CASE UNCHANGED healthVars
  BY <1>6 DEF HealthInv, HealthTypeOK, AtomicsTrue, Scanned, HealthyIsEarned, healthVars
<1> QED
  BY <1>1, <1>2, <1>3, <1>4, <1>5, <1>6 DEF HealthNext

(* Though probes rewrite the atomics under a scan, a healthy verdict means *)
(* every dependency was up at some instant of the scan that gave it.       *)
THEOREM VerdictIsEarned == HealthSpec => []HealthyIsEarned
<1>1. HealthInv => HealthyIsEarned
  BY DEF HealthInv
<1> QED
  BY <1>1, HealthInitInv, HealthNextInv, PTL DEF HealthSpec

(* The atomics, the scan and the verdict keep their types; a scan never    *)
(* runs past the last dependency.                                          *)
THEOREM HealthTyping == HealthSpec => []HealthTypeOK
<1>1. HealthInv => HealthTypeOK
  BY DEF HealthInv
<1> QED
  BY <1>1, HealthInitInv, HealthNextInv, PTL DEF HealthSpec

(* The push pipeline only adds to the health: whatever it does, the probes *)
(* and the scans of its process are those Health allows, so what is proved *)
(* of the verdict holds of the verdict that is pushed.                     *)
THEOREM TelemetryImplementsHealth == TelemetrySpec => HealthSpec
<1>1. TelemetryInit => HealthInit
  BY DEF TelemetryInit
<1>2. [TelemetryNext]_telemetryVars => [HealthNext]_healthVars
  <2> SUFFICES ASSUME [TelemetryNext]_telemetryVars
               PROVE  [HealthNext]_healthVars
    OBVIOUS
  <2>1. CASE ProbeStep
    BY <2>1 DEF ProbeStep, HealthNext
  <2>2. CASE Collect
    BY <2>2 DEF Collect, HealthNext
  <2>3. CASE CollectStep
    BY <2>3 DEF CollectStep, HealthNext
  <2>4. CASE with_otlp
    BY <2>4 DEF with_otlp
  <2>5. CASE access_token \/ send_bytes
    BY <2>5 DEF access_token, send_bytes
  <2>6. CASE NewSeries \/ FlipMetadata \/ FlipApi
    BY <2>6 DEF NewSeries, FlipMetadata, FlipApi
  <2>7. CASE UNCHANGED telemetryVars
    BY <2>7 DEF telemetryVars
  <2> QED
    BY <2>1, <2>2, <2>3, <2>4, <2>5, <2>6, <2>7 DEF TelemetryNext
<1> QED
  BY <1>1, <1>2, PTL DEF TelemetrySpec, HealthSpec

(* The pushed process never reports a health it has not earned.            *)
THEOREM PushedVerdictIsEarned == TelemetrySpec => [](HealthTypeOK /\ HealthyIsEarned)
  BY TelemetryImplementsHealth, HealthTyping, VerdictIsEarned, PTL

-----------------------------------------------------------------------------
(* The fetch of a ciphertext *)

FetchTypeOK ==
  /\ stage \in {"sending", "body", "done"}
  /\ clock \in 0..Timeout
  /\ reply \in Replies \cup {NoReply}
  /\ sent \in Nat /\ raw \in Nat
  /\ result \in {"none", "Ok", "NotFound", "NotReady", "UnexpectedStatus", "BadResponse",
                 "Timeout", "Transport"}
  /\ late \in BOOLEAN

\* While the body arrives everything that came is buffered, and it is part of
\* the body that the headers announced.
BodyBuffered ==
  stage = "body" => reply \in Replies /\ raw = sent /\ sent <= reply.length

FetchInv ==
  /\ FetchTypeOK /\ BodyBuffered /\ BufferBounded
  /\ stage = "sending" => raw = 0 /\ sent = 0
  /\ stage # "done" <=> result = "none"

\* A fetch begins with an empty buffer.
LEMMA FetchInitInv == FetchInit => FetchInv
<1> SUFFICES ASSUME FetchInit PROVE FetchInv
  OBVIOUS
<1>1. 0 \in 0..Timeout /\ 0 <= MAX_BODY_BYTES
  BY CtFetchAssumption
<1>2. FetchTypeOK
  BY <1>1 DEF FetchInit, FetchTypeOK
<1>3. BodyBuffered /\ BufferBounded
  BY <1>1 DEF FetchInit, BodyBuffered, BufferBounded
<1> QED
  BY <1>2, <1>3 DEF FetchInit, FetchInv

\* What is known of a response.
LEMMA ReplyShape ==
  ASSUME NEW rep \in Replies
  PROVE  rep.length \in Nat /\ rep.length >= 1 /\ rep # NoReply
<1>1. rep.length \in 1..MaxLength
  BY DEF Replies
<1>2. rep.status \in {200, 404, 428, 500}
  BY DEF Replies
<1>3. rep.status # 0
  BY <1>2
<1> QED
  BY <1>1, <1>3, CtFetchAssumption DEF NoReply

\* Whatever arrives, breaks or is late.
LEMMA FetchNextInv == FetchInv /\ [FetchNext]_fetchVars => FetchInv'
<1> SUFFICES ASSUME FetchInv, [FetchNext]_fetchVars
             PROVE  FetchInv'
  OBVIOUS
<1> USE CtFetchAssumption DEF FetchInv, FetchTypeOK, BodyBuffered, BufferBounded, Return
<1>1. CASE SendFails
  BY <1>1 DEF SendFails
<1>2. ASSUME NEW rep \in Replies, Headers(rep)
      PROVE  FetchInv'
  <2>1. /\ stage = "sending" /\ reply' = rep
        /\ UNCHANGED <<clock, sent, raw, late>>
        /\ \/ stage' = "done" /\ result' \in {"NotFound", "NotReady", "UnexpectedStatus",
                                              "BadResponse"}
           \/ stage' = "body" /\ result' = result
    BY <1>2 DEF Headers
  <2> QED
    BY <1>2, <2>1, ReplyShape
<1>3. ASSUME NEW n \in 1..MaxLength, Chunk(n)
      PROVE  FetchInv'
  <2>1. reply.length \in Nat /\ n \in Nat
    BY <1>3, ReplyShape DEF Chunk
  <2> QED
    BY <1>3, <2>1 DEF Chunk
<1>4. CASE BodyEnds
  BY <1>4 DEF BodyEnds
<1>5. CASE BodyBreaks
  BY <1>5 DEF BodyBreaks
<1>6. CASE TimesOut
  BY <1>6 DEF TimesOut
<1>7. CASE Tick
  BY <1>7 DEF Tick
<1>8. CASE UNCHANGED fetchVars
  BY <1>8 DEF fetchVars
<1> QED
  BY <1>1, <1>2, <1>3, <1>4, <1>5, <1>6, <1>7, <1>8 DEF FetchNext

(* Never more than the cap is in memory, and a fetch that succeeds holds   *)
(* the whole body: for every cap, every body and every way to cut it into  *)
(* chunks, with a declared length or without.                              *)
THEOREM BufferStaysBounded == FetchSpec => []BufferBounded
<1>1. FetchInv => BufferBounded
  BY DEF FetchInv
<1> QED
  BY <1>1, FetchInitInv, FetchNextInv, PTL DEF FetchSpec

(* A body is refused only because it is over the cap, is no ciphertext     *)
(* row, is cut off or is late.                                             *)
THEOREM RefusalsHaveCauses == FetchSpec => RefusedForCause
<1> DEFINE Cause == \/ late' \/ BodyBreaks
                    \/ reply'.length > MAX_BODY_BYTES
                    \/ reply'.document # "row"
                    \/ sent' < reply'.length
<1>1. FetchInv /\ [FetchNext]_fetchVars =>
        [result' = "BadResponse" /\ result = "none" => Cause]_fetchVars
  <2> SUFFICES ASSUME FetchInv, FetchNext, result' = "BadResponse", result = "none"
               PROVE  Cause
    BY DEF fetchVars
  <2> USE CtFetchAssumption DEF FetchInv, FetchTypeOK, BodyBuffered, Return
  <2>1. CASE SendFails \/ Tick
    BY <2>1 DEF SendFails, Tick
  <2>2. ASSUME NEW rep \in Replies, Headers(rep)
        PROVE  Cause
    <3>1. reply' = rep /\ rep.length > MAX_BODY_BYTES
      BY <2>2 DEF Headers
    <3> QED
      BY <3>1
  <2>3. ASSUME NEW n \in 1..MaxLength, Chunk(n)
        PROVE  Cause
    <3>1. reply.length \in Nat /\ n \in Nat
      BY <2>3, ReplyShape DEF Chunk
    <3> QED
      BY <2>3, <3>1 DEF Chunk
  <2>4. CASE BodyEnds
    <3>1. reply.length \in Nat
      BY <2>4, ReplyShape DEF BodyEnds
    <3> QED
      BY <2>4, <3>1 DEF BodyEnds
  <2>5. CASE BodyBreaks \/ TimesOut
    BY <2>5 DEF TimesOut
  <2> QED
    BY <2>1, <2>2, <2>3, <2>4, <2>5 DEF FetchNext
<1> QED
  BY <1>1, FetchInitInv, FetchNextInv, PTL DEF FetchSpec, RefusedForCause

-----------------------------------------------------------------------------
(* The push of metrics *)

\* What an export is made of.
Labels == {"teecryptor", "up", "requests", "dependency_up", "acp_rpc_up", "healthy",
           "sample", "0", "1"}

\* A sequence of samples, a single one.
LEMMA SamplesType ==
  ASSUME NEW k \in Nat
  PROVE  [i \in 1..k |-> "sample"] \in Seq(Labels)
<1> DEFINE f == [i \in 1..k |-> "sample"]
<1>1. f \in [1..k -> Labels]
  BY DEF Labels
<1> HIDE DEF f
<1>2. f \in Seq(Labels)
  BY <1>1, FunctionIsSeq
<1> QED
  BY <1>2 DEF f

(* A collection makes one resource, whatever the number of series. *)
LEMMA BodyType ==
  ASSUME NEW b \in Bodies
  PROVE  b \in Seq(ResourceOf(Labels)) /\ NoneTwice(b)
<1>1. PICK n \in 0..MaxSeries, value \in {"0", "1"} : b = ExportRequest(n, value)
  BY DEF Bodies
<1> DEFINE Family(name, k) == [name |-> name, points |-> [i \in 1..k |-> "sample"]]
           rest == Len(Dependencies) - Singletons
           healthy == [name |-> "healthy", points |-> <<value>>]
           ms == <<Family("up", 1), Family("requests", n), Family("dependency_up", Singletons),
                   Family("acp_rpc_up", rest), healthy>>
           sc == [scope |-> "teecryptor", metrics |-> ms]
           res == [resource |-> "teecryptor", scopes |-> <<sc>>]
<1>2. n \in Nat /\ Singletons \in Nat /\ rest \in Nat /\ 1 \in Nat
  BY HealthAssumption, TelemetryAssumption
<1>3. b = <<res>>
  BY <1>1 DEF ExportRequest
<1>4. ASSUME NEW k \in Nat, NEW name \in Labels
      PROVE  Family(name, k) \in MetricOf(Labels)
  BY SamplesType DEF MetricOf
<1>5. healthy \in MetricOf(Labels)
  BY DEF MetricOf, Labels
<1>6. {"up", "requests", "dependency_up", "acp_rpc_up", "teecryptor"} \subseteq Labels
  BY DEF Labels
<1> HIDE DEF Family, healthy, rest
<1>7. ms \in Seq(MetricOf(Labels))
  <2>1. /\ Family("up", 1) \in MetricOf(Labels) /\ Family("requests", n) \in MetricOf(Labels)
        /\ Family("dependency_up", Singletons) \in MetricOf(Labels)
        /\ Family("acp_rpc_up", rest) \in MetricOf(Labels)
    BY <1>2, <1>4, <1>6
  <2> QED
    BY <1>5, <2>1
<1> HIDE DEF ms
<1>8. sc \in ScopeOf(Labels)
  BY <1>6, <1>7 DEF ScopeOf
<1> HIDE DEF sc
<1>9. res \in ResourceOf(Labels)
  BY <1>6, <1>8 DEF ResourceOf
<1> HIDE DEF res
<1>10. Len(<<res>>) = 1 /\ \A i, j \in 1..1 : i = j
  OBVIOUS
<1> QED
  BY <1>3, <1>9, <1>10 DEF NoneTwice

\* The points of an export.
Sample == PointOf(Labels)

(* The pieces of a body hold its points, and there is at least one. *)
LEMMA PiecesWhole ==
  ASSUME NEW b \in Bodies
  PROVE  /\ PointsOf[b] \in Seq(Sample)
         /\ PiecesOf[b] \in Seq(Seq(Sample)) /\ PiecesOf[b] # << >>
         /\ FlattenSeq(PiecesOf[b]) = PointsOf[b]
<1> DEFINE split == split_request(b, Cap)
           U == Labels
<1>1. b \in Seq(ResourceOf(U)) /\ NoneTwice(b)
  BY BodyType
<1>2. Cap \in Nat \ {0}
  BY TelemetryAssumption
<1>3. SplitOk(U, b, Cap, split)
  BY <1>1, <1>2, SplitKeeps
<1> HIDE DEF split, U
<1>4. /\ split \in Seq(Seq(ResourceOf(U))) /\ Gather(OfRequest(U), split) = Points(b)
      /\ Len(Points(b)) <= Cap => split = <<b>>
  BY <1>3 DEF SplitOk
<1>5. PointsOf[b] = Points(b) /\ PiecesOf[b] = [k \in DOMAIN split |-> Points(split[k])]
  BY DEF PointsOf, PiecesOf, split
<1>6. Points(b) \in Seq(Sample)
  BY <1>1, PointsType DEF Sample, U
<1>7. PiecesOf[b] = FMap(OfRequest(U), split)
  <2>1. DOMAIN split = 1..Len(split) /\ \A k \in 1..Len(split) : split[k] \in Seq(ResourceOf(U))
    BY <1>4, LenProperties, ElementOfSeq
  <2>2. \A k \in DOMAIN split : OfRequest(U)[split[k]] = Points(split[k])
    BY <2>1, OfRequestMaps
  <2> QED
    BY <1>5, <2>2 DEF FMap
<1>8. FMap(OfRequest(U), split) \in Seq(Seq(Sample)) /\ Len(FMap(OfRequest(U), split)) = Len(split)
  BY <1>4, OfRequestMaps, MapShape DEF Sample, U
<1>9. split # << >>
  <2> SUFFICES ASSUME split = << >>
               PROVE  FALSE
    OBVIOUS
  <2>1. Points(b) = << >>
    BY <1>4, GatherEmpty
  <2>2. Len(Points(b)) <= Cap /\ << >> # <<b>>
    BY <1>2, <2>1
  <2> QED
    BY <1>4, <2>2
<1>10. PiecesOf[b] # << >>
  <2>1. Len(split) # 0
    BY <1>4, <1>9, EmptySeq
  <2>2. Len(<< >>) = 0
    OBVIOUS
  <2> QED
    BY <1>7, <1>8, <2>1, <2>2
<1> QED
  BY <1>4, <1>5, <1>6, <1>7, <1>8, <1>10 DEF Gather

\* What is still to be sent makes what was received whole.
Completes(rest) == rest \in Seq(Sample) /\ received \o rest = PointsOf[body]

\* An export under way, complete or given up, and what the API took of it.
ExportInv ==
  /\ series \in 0..MaxSeries
  /\ body \in Bodies \cup {<< >>}
  /\ export # "idle" => body \in Bodies
  /\ received \in Seq(Sample)
  /\ \E rest : Completes(rest)
  /\ export = "token" => received = << >>
  /\ export = "posting" =>
       pieces \in Seq(Seq(Sample)) /\ pieces # << >> /\ Completes(FlattenSeq(pieces))
  /\ outcome = "ok" /\ export = "idle" => received = PointsOf[body]

(* Before the first export nothing was sent. *)
LEMMA ExportInitInv == TelemetryInit => ExportInv
<1> SUFFICES ASSUME TelemetryInit
             PROVE  ExportInv
  OBVIOUS
<1>1. PointsOf[<< >>] = << >>
  BY DEF PointsOf, Points, FlattenSeq
<1>2. << >> \in Seq(Sample) /\ << >> \o << >> = << >>
  OBVIOUS
<1>3. /\ series = 0 /\ export = "idle" /\ body = << >> /\ outcome = "none" /\ received = << >>
  BY DEF TelemetryInit
<1>4. Completes(<< >>)
  BY <1>1, <1>2, <1>3 DEF Completes
<1>5. 0 \in 0..MaxSeries
  BY TelemetryAssumption
<1> QED
  BY <1>2, <1>3, <1>4, <1>5 DEF ExportInv

(* Every step of the push and of the probes keeps ExportInv. *)
LEMMA ExportNextInv ==
  HealthTypeOK /\ ExportInv /\ [TelemetryNext]_telemetryVars => ExportInv'
<1> SUFFICES ASSUME HealthTypeOK, ExportInv, [TelemetryNext]_telemetryVars
             PROVE  ExportInv'
  OBVIOUS
<1>a. ASSUME UNCHANGED <<series, export, body, pieces, outcome, received>>
      PROVE  ExportInv'
  BY <1>a DEF ExportInv, Completes
<1>b. \A b \in Bodies : /\ PointsOf[b] \in Seq(Sample)
                        /\ PiecesOf[b] \in Seq(Seq(Sample)) /\ PiecesOf[b] # << >>
                        /\ FlattenSeq(PiecesOf[b]) = PointsOf[b]
  BY PiecesWhole
<1>1. CASE with_otlp
  BY <1>1, <1>a DEF with_otlp, pushVars
<1>2. CASE ProbeStep
  BY <1>2, <1>a DEF ProbeStep, pushVars
<1>3. CASE Collect
  BY <1>3, <1>a DEF Collect, pushVars
<1>4. CASE CollectStep
  <2>1. CASE next' = 0 /\ pipeline = "push"
    <3>1. /\ export' = "token" /\ body' = ExportRequest(series, verdict') /\ received' = << >>
          /\ series' = series
      BY <1>4, <2>1 DEF CollectStep
    <3>2. verdict' \in {"0", "1"}
      <4>1. CollectLoads /\ next' = 0
        BY <1>4, <2>1 DEF CollectStep
      <4>2. next \in 0..Size /\ Size \in Nat
        BY LastPositive DEF HealthTypeOK, Size
      <4>3. state[Dependencies[next]] = "UP" => next = Size
        <5>1. state[Dependencies[next]] = "UP" /\ next < Size => next' = next + 1
          BY <4>1 DEF CollectLoads, Size
        <5> QED
          BY <4>1, <4>2, <5>1
      <4> QED
        BY <4>1, <4>3 DEF CollectLoads, Size
    <3>3. body' \in Bodies
      BY <3>1, <3>2 DEF Bodies, ExportInv
    <3>4. (Completes(PointsOf[body]))'
      <4>1. PointsOf[body'] \in Seq(Sample) /\ << >> \o PointsOf[body'] = PointsOf[body']
        BY <1>b, <3>3, ConcatEmptySeq
      <4> QED
        BY <3>1, <4>1 DEF Completes
    <3> QED
      BY <3>1, <3>3, <3>4 DEF ExportInv
  <2>2. CASE ~(next' = 0 /\ pipeline = "push")
    BY <1>4, <1>a, <2>2 DEF CollectStep
  <2> QED
    BY <2>1, <2>2
<1>5. CASE access_token
  <2>1. export = "token" /\ body \in Bodies /\ received = << >>
        /\ UNCHANGED <<series, body, received>>
    BY <1>5 DEF access_token, ExportInv
  <2>2. CASE metadata
    <3>1. export' = "posting" /\ pieces' = PiecesOf[body]
      BY <1>5, <2>2 DEF access_token
    <3>2. (Completes(FlattenSeq(pieces)))'
      <4>1. PointsOf[body] \in Seq(Sample) /\ << >> \o PointsOf[body] = PointsOf[body]
        BY <1>b, <2>1, ConcatEmptySeq
      <4>2. FlattenSeq(pieces') = PointsOf[body]
        BY <1>b, <2>1, <3>1
      <4> QED
        BY <2>1, <4>1, <4>2 DEF Completes
    <3> QED
      BY <1>b, <2>1, <3>1, <3>2 DEF ExportInv
  <2>3. CASE ~metadata
    <3>1. export' = "idle" /\ outcome' = "failed"
      BY <1>5, <2>3 DEF access_token, EndExport
    <3> QED
      BY <2>1, <3>1 DEF ExportInv, Completes
  <2> QED
    BY <2>2, <2>3
<1>6. CASE send_bytes
  <2> DEFINE piece == Head(pieces)
             tail == Tail(pieces)
             all == PointsOf[body]
  <2>1. /\ export = "posting" /\ body \in Bodies /\ received \in Seq(Sample)
        /\ pieces \in Seq(Seq(Sample)) /\ pieces # << >>
        /\ FlattenSeq(pieces) \in Seq(Sample) /\ received \o FlattenSeq(pieces) = all
        /\ UNCHANGED <<series, body>>
    BY <1>6 DEF send_bytes, ExportInv, Completes
  <2>2. piece \in Seq(Sample) /\ tail \in Seq(Seq(Sample)) /\ pieces = <<piece>> \o tail
        /\ Len(tail) = Len(pieces) - 1 /\ Len(pieces) \in Nat
    <3>1. /\ piece \in Seq(Sample) /\ tail \in Seq(Seq(Sample)) /\ Len(tail) = Len(pieces) - 1
          /\ Len(pieces) \in Nat
      BY <2>1, HeadTailProperties, LenProperties
    <3>2. pieces = <<piece>> \o tail
      BY <2>1, HeadThenTail
    <3> QED
      BY <3>1, <3>2
  <2>3. FlattenSeq(pieces) = piece \o FlattenSeq(tail) /\ FlattenSeq(tail) \in Seq(Sample)
    <3> HIDE DEF piece, tail
    <3> QED
      BY <2>2, FlattenStep, FlattenType
  <2>4. (received \o piece) \o FlattenSeq(tail) = all
    <3>1. Associates(Sample)
      BY Associative
    <3> DEFINE last == FlattenSeq(tail)
    <3>2. received \in Seq(Sample) /\ piece \in Seq(Sample) /\ last \in Seq(Sample)
          /\ received \o (piece \o last) = all
      BY <2>1, <2>2, <2>3
    <3> HIDE DEF piece, last, all
    <3>3. (received \o piece) \o last = received \o (piece \o last)
      BY <3>1, <3>2 DEF Associates
    <3>4. (received \o piece) \o last = all
      BY <3>2, <3>3
    <3> QED
      BY <3>4 DEF last
  <2>5. received \o piece \in Seq(Sample)
    BY <2>1, <2>2, ConcatProperties
  <2>6. CASE Taken(piece) /\ Len(pieces) = 1
    <3>1. received' = received \o piece /\ export' = "idle" /\ outcome' = "ok"
      BY <1>6, <2>6 DEF send_bytes, EndExport
    <3>2. FlattenSeq(tail) = << >>
      <4> HIDE DEF tail
      <4>1. Len(tail) = 0
        BY <2>2, <2>6
      <4>2. tail = << >>
        BY <2>2, <4>1, EmptySeq
      <4> QED
        BY <4>2 DEF FlattenSeq
    <3>3. received' = all
      BY <2>4, <2>5, <3>1, <3>2, ConcatEmptySeq
    <3>4. Completes(<< >>)'
      <4>1. received' \o << >> = received' /\ << >> \in Seq(Sample)
        BY <2>5, <3>1, ConcatEmptySeq
      <4> QED
        BY <2>1, <3>3, <4>1 DEF Completes
    <3> QED
      BY <2>1, <2>5, <3>1, <3>3, <3>4 DEF ExportInv
  <2>7. CASE Taken(piece) /\ Len(pieces) # 1
    <3>1. received' = received \o piece /\ pieces' = tail /\ export' = "posting"
      BY <1>6, <2>1, <2>7 DEF send_bytes
    <3>2. tail # << >>
      <4>1. Len(pieces) # 0
        BY <2>1, EmptySeq
      <4>2. Len(tail) # 0 /\ Len(<< >>) = 0
        BY <2>2, <2>7, <4>1
      <4> QED
        BY <4>2
    <3>3. (Completes(FlattenSeq(pieces)))'
      BY <2>1, <2>3, <2>4, <3>1 DEF Completes
    <3> QED
      BY <2>1, <2>2, <2>5, <3>1, <3>2, <3>3 DEF ExportInv
  <2>8. CASE ~Taken(piece)
    <3>1. received' = received /\ export' = "idle" /\ outcome' = "failed"
      BY <1>6, <2>8 DEF send_bytes, EndExport
    <3> QED
      BY <2>1, <3>1 DEF ExportInv, Completes
  <2> QED
    BY <2>6, <2>7, <2>8
<1>7. CASE NewSeries
  <2>1. series' \in 0..MaxSeries
    BY <1>7, TelemetryAssumption DEF NewSeries, ExportInv
  <2> QED
    BY <1>7, <2>1 DEF NewSeries, ExportInv, Completes, pushVars
<1>8. CASE FlipMetadata \/ FlipApi
  BY <1>8, <1>a DEF FlipMetadata, FlipApi, pushVars
<1>9. CASE UNCHANGED telemetryVars
  BY <1>9, <1>a DEF telemetryVars
<1> QED
  BY <1>1, <1>2, <1>3, <1>4, <1>5, <1>6, <1>7, <1>8, <1>9 DEF TelemetryNext

(* Whatever the number of series, the cap and the outages, what the API    *)
(* took of an export is a beginning of it, and all of it on success.       *)
THEOREM SuccessMeansWhole == TelemetrySpec => []ExportsWhole
<1>1. ExportInv => ExportsWhole
  <2> SUFFICES ASSUME ExportInv
               PROVE  ExportsWhole
    OBVIOUS
  <2>1. PICK rest : Completes(rest)
    BY DEF ExportInv
  <2>2. received \in Seq(Sample) /\ rest \in Seq(Sample) /\ received \o rest = PointsOf[body]
    BY <2>1 DEF ExportInv, Completes
  <2>3. Len(received) <= Len(received \o rest)
        /\ received = SubSeq(received \o rest, 1, Len(received))
    BY <2>2, BeginningOf
  <2> QED
    BY <2>2, <2>3 DEF ExportsWhole, ExportInv
<1> QED
  BY <1>1, ExportInitInv, ExportNextInv, PushedVerdictIsEarned, PTL DEF TelemetrySpec
=============================================================================
