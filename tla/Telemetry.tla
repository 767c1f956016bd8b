------------------------------ MODULE Telemetry ------------------------------
(***************************************************************************)
(* The push of metrics: src/metrics/mod.rs builds the pipeline (and        *)
(* src/main.rs runs without it when that fails), a reader thread collects  *)
(* the series of Health and of the requests, and                           *)
(* src/metrics/otlp_http_client.rs posts them, in the pieces of OtlpSplit. *)
(* A scrape of the debug exposition during a push only reads the same      *)
(* atomics, so scrapes are modelled for a process that does not push.      *)
(***************************************************************************)
EXTENDS Health, OtlpSplit

CONSTANTS
  Cap,             \* MAX_POINTS_PER_REQUEST, and what the API takes
  MaxSeries        \* bound on the label combinations requests can create

ASSUME TelemetryAssumption == Cap \in Nat \ {0} /\ MaxSeries \in Nat

VARIABLES
  pipeline,        \* the metadata read the build is at, then "push" or "scrape"
  metadata, api,   \* do the metadata server and the Telemetry API answer?
  series,          \* label combinations seen so far
  export,          \* what the reader thread does: "idle", "token", "posting"
  body,            \* the request of its last collection
  pieces,          \* the points of each piece it has still to post
  outcome,         \* of its last export: "none", "ok", "failed"
  received,        \* history: the points of body the API took
  shown            \* the verdict a dashboard shows: the last one the API took

telemetryVars ==
  <<healthVars, pipeline, metadata, api, series, export, body, pieces, outcome,
    received, shown>>

pushVars == <<export, body, pieces, outcome, received, shown>>

Built == pipeline \in {"push", "scrape"}

\* metrics_push is baked per environment; the mock build never pushes.
TelemetryInit ==
  /\ HealthInit
  /\ pipeline \in {"zone", "scrape"}
  /\ metadata \in BOOLEAN /\ api \in BOOLEAN
  /\ series = 0
  /\ export = "idle" /\ body = << >> /\ pieces = << >> /\ outcome = "none"
  /\ received = << >> /\ shown = "none"

\* Metrics::build reads three values from the metadata server; main() falls
\* back to scraping when one of them cannot be read.
with_otlp ==
  /\ ~Built
  /\ pipeline' = IF ~metadata THEN "scrape"
                 ELSE CASE pipeline = "zone" -> "instance_name"
                        [] pipeline = "instance_name" -> "project_id"
                        [] pipeline = "project_id" -> "push"
  /\ UNCHANGED <<healthVars, metadata, api, series, pushVars>>

\* A probe or the outage of a dependency, once main() has come to spawn the
\* probe loop.
ProbeStep ==
  /\ Built
  /\ RoundBegins \/ \E d \in Deps : Probe(d) \/ Flip(d)
  /\ UNCHANGED <<pipeline, metadata, api, series, pushVars>>

\* The request one collection makes of n series: one resource and one scope,
\* the instruments in the order they were registered, the verdict last.
ExportRequest(n, value) ==
  LET Family(name, k) == [name |-> name, points |-> [i \in 1..k |-> "sample"]] IN
  <<[resource |-> "teecryptor", scopes |-> <<[scope |-> "teecryptor", metrics |->
      <<Family("up", 1), Family("requests", n),
        Family("dependency_up", Singletons),
        Family("acp_rpc_up", Len(Dependencies) - Singletons),
        [name |-> "healthy", points |-> <<value>>]>>]>>]>>

Bodies == {ExportRequest(n, value) : n \in 0..MaxSeries, value \in {"0", "1"}}

\* The points of a body, and of the pieces it is split into.
PointsOf == [b \in Bodies \cup {<< >>} |-> Points(b)]

PiecesOf ==
  [b \in Bodies |-> LET split == split_request(b, Cap) IN
                      [k \in DOMAIN split |-> Points(split[k])]]

\* The reader's tick, or a scrape.
Collect ==
  /\ Built /\ export = "idle"
  /\ CollectBegins
  /\ UNCHANGED <<pipeline, metadata, api, series, pushVars>>

\* The callbacks run; when the scan is over the reader exports.
CollectStep ==
  /\ CollectLoads
  /\ IF next' = 0 /\ pipeline = "push"
     THEN /\ export' = "token"
          /\ body' = ExportRequest(series, verdict')
          /\ received' = << >>
     ELSE UNCHANGED <<export, body, received>>
  /\ UNCHANGED <<pipeline, metadata, api, series, pieces, outcome, shown>>

EndExport(how) == export' = "idle" /\ pieces' = << >> /\ outcome' = how

\* Faulty variant: the collected body is posted as it is.
access_token_unsplit ==
  /\ export = "token"
  /\ IF metadata
     THEN export' = "posting" /\ pieces' = <<PointsOf[body]>> /\ UNCHANGED outcome
     ELSE EndExport("failed")
  /\ UNCHANGED <<healthVars, pipeline, metadata, api, series, body, received, shown>>

\* send_bytes: a token for this export, then the split.
access_token ==
  /\ export = "token"
  /\ IF metadata
     THEN /\ export' = "posting"
          /\ pieces' = PiecesOf[body]
          /\ UNCHANGED outcome
     ELSE EndExport("failed")
  /\ UNCHANGED <<healthVars, pipeline, metadata, api, series, body, received, shown>>

\* The API takes a request whole, or rejects it whole over its cap.
Taken(piece) == api /\ Len(piece) <= Cap

VerdictIn(piece) ==
  LET last == piece[Len(piece)] IN IF last[3] = "healthy" THEN last[4] ELSE shown

\* Faulty variant: a rejected piece does not stop the loop.
SendContinues ==
  /\ export = "posting"
  /\ LET piece == Head(pieces) IN
       /\ received' = IF Taken(piece) THEN received \o piece ELSE received
       /\ shown' = IF Taken(piece) THEN VerdictIn(piece) ELSE shown
       /\ IF Len(pieces) = 1 THEN EndExport(IF Taken(piece) THEN "ok" ELSE "failed")
          ELSE pieces' = Tail(pieces) /\ UNCHANGED <<export, outcome>>
  /\ UNCHANGED <<healthVars, pipeline, metadata, api, series, body>>

\* send_bytes: the pieces one after the other, the first failure ends the
\* export and its rest is dropped.
send_bytes ==
  /\ export = "posting"
  /\ LET piece == Head(pieces) IN
       IF Taken(piece)
       THEN /\ received' = received \o piece
            /\ shown' = VerdictIn(piece)
            /\ IF Len(pieces) = 1 THEN EndExport("ok")
               ELSE pieces' = Tail(pieces) /\ UNCHANGED <<export, outcome>>
       ELSE EndExport("failed") /\ UNCHANGED <<received, shown>>
  /\ UNCHANGED <<healthVars, pipeline, metadata, api, series, body>>

\* A request with a new combination of labels.
NewSeries ==
  /\ Built /\ series < MaxSeries
  /\ series' = series + 1
  /\ UNCHANGED <<healthVars, pipeline, metadata, api, pushVars>>

\* The services the push depends on fail and recover.
FlipMetadata ==
  /\ metadata' = ~metadata
  /\ UNCHANGED <<healthVars, pipeline, api, series, pushVars>>

FlipApi ==
  /\ api' = ~api
  /\ UNCHANGED <<healthVars, pipeline, metadata, series, pushVars>>

TelemetryNext ==
  \/ with_otlp \/ ProbeStep \/ Collect \/ CollectStep
  \/ access_token \/ send_bytes
  \/ NewSeries \/ FlipMetadata \/ FlipApi

\* The boot goes on, the probe task's timer fires, and the reader thread of a
\* process that pushes ticks and runs: every call it makes has a timeout.
TelemetryFairness ==
  /\ WF_telemetryVars(with_otlp)
  /\ WF_telemetryVars(Built /\ (RoundBegins \/ \E d \in Deps : Probe(d))
                      /\ UNCHANGED <<pipeline, metadata, api, series, pushVars>>)
  /\ WF_telemetryVars((pipeline = "push" /\ Collect) \/ CollectStep \/ access_token \/ send_bytes)

TelemetrySpec == TelemetryInit /\ [][TelemetryNext]_telemetryVars
TelemetryLiveSpec == TelemetrySpec /\ TelemetryFairness

-----------------------------------------------------------------------------
(* Properties *)

(* What the API has taken of an export is always a beginning of what was   *)
(* collected, in order and without a repetition, and all of it once the    *)
(* export reports success: no split and no rejected piece leaves a hole    *)
(* that a success hides.                                                   *)
ExportsWhole ==
  LET collected == PointsOf[body] IN
  /\ Len(received) <= Len(collected)
  /\ received = SubSeq(collected, 1, Len(received))
  /\ outcome = "ok" /\ export = "idle" => received = collected

PushWell == pipeline = "push" /\ metadata /\ api

(* If the process pushes and the metadata server and the Telemetry API     *)
(* stay well from some time on, then a dependency that is gone for good    *)
(* ends up as an unhealthy verdict on the dashboard for good, and          *)
(* dependencies that all stay well as a healthy one, however the series    *)
(* grow past what one request may carry.                                   *)
DashboardConverges ==
  /\ \A d \in Deps : <>[](PushWell /\ ~answers[d]) => <>[](shown = "0")
  /\ <>[](PushWell /\ \A d \in Deps : answers[d]) => <>[](shown = "1")
=============================================================================
