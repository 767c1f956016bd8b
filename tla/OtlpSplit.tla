------------------------------ MODULE OtlpSplit ------------------------------
(***************************************************************************)
(* src/metrics/otlp_split.rs: an OTLP export is cut into requests the      *)
(* Telemetry API accepts.  A request is a sequence of resources, each with *)
(* a sequence of scopes, each with a sequence of metrics, each with its    *)
(* data points.                                                            *)
(***************************************************************************)
EXTENDS Integers, SequencesExt

\* A metric, a scope and a resource with names and samples from U.
MetricOf(U) == [name : U, points : Seq(U)]
ScopeOf(U) == [scope : U, metrics : Seq(MetricOf(U))]
ResourceOf(U) == [resource : U, scopes : Seq(ScopeOf(U))]

point_count(m) == Len(m.points)

\* The points of a metric, of a scope, of a resource and of a request, each
\* with the shells it lies under.
MetricPoints(resource, scope, m) ==
  [p \in DOMAIN m.points |-> <<resource, scope, m.name, m.points[p]>>]

ScopePoints(resource, sc) ==
  FlattenSeq([mi \in DOMAIN sc.metrics |-> MetricPoints(resource, sc.scope, sc.metrics[mi])])

ResourcePoints(res) ==
  FlattenSeq([si \in DOMAIN res.scopes |-> ScopePoints(res.resource, res.scopes[si])])

Points(req) == FlattenSeq([ri \in DOMAIN req |-> ResourcePoints(req[ri])])

\* metric_slice, for every slice of a metric: at most max points each, with
\* the place of the shells they came from.  A metric with no points has none.
MetricSlices(ri, si, m, max) ==
  [k \in 1..((point_count(m) + max - 1) \div max) |->
     [ri |-> ri, si |-> si,
      metric |-> [m EXCEPT !.points = SubSeq(@, (k - 1) * max + 1,
                                             Min({k * max, point_count(m)}))]]]

\* The slices of all metrics in order.
ScopeSlices(ri, si, sc, max) ==
  FlattenSeq([mi \in DOMAIN sc.metrics |-> MetricSlices(ri, si, sc.metrics[mi], max)])

ResourceSlices(ri, res, max) ==
  FlattenSeq([si \in DOMAIN res.scopes |-> ScopeSlices(ri, si, res.scopes[si], max)])

AllSlices(req, max) ==
  FlattenSeq([ri \in DOMAIN req |-> ResourceSlices(ri, req[ri], max)])

Closed == [current |-> << >>, points |-> 0, ri |-> 0, si |-> 0]

\* Push a slice under the open shells, opening those that do not mirror its own.
Push(req, open, s) ==
  LET shells == IF open.ri = s.ri THEN open.current
                ELSE Append(open.current, [resource |-> req[s.ri].resource, scopes |-> << >>])
      last == shells[Len(shells)]
      scopes == IF open.ri = s.ri /\ open.si = s.si THEN last.scopes
                ELSE Append(last.scopes, [scope |-> req[s.ri].scopes[s.si].scope,
                                          metrics |-> << >>])
      filled == [scopes EXCEPT ![Len(scopes)].metrics = Append(@, s.metric)]
  IN [current |-> [shells EXCEPT ![Len(shells)].scopes = filled],
      points |-> open.points + point_count(s.metric), ri |-> s.ri, si |-> s.si]

\* Faulty variant: a chunk is closed only once it is over the cap.
OverflowsLate(open, s, max) == open.points > max /\ open.points > 0

\* The slice would take the open chunk over the cap.
Overflows(open, s, max) == open.points + point_count(s.metric) > max /\ open.points > 0

\* The open chunk is closed when the slice does not fit in it.
Take(req, max, acc, s) ==
  IF Overflows(acc.open, s, max)
  THEN [chunks |-> Append(acc.chunks, acc.open.current), open |-> Push(req, Closed, s)]
  ELSE [chunks |-> acc.chunks, open |-> Push(req, acc.open, s)]

\* The chunks once k slices are taken.
Packed(req, max, slices) ==
  LET packed[k \in 0..Len(slices)] ==
        IF k = 0 THEN [chunks |-> << >>, open |-> Closed]
        ELSE Take(req, max, packed[k - 1], slices[k])
  IN packed[Len(slices)]

split_request(req, max) ==
  LET packed == Packed(req, max, AllSlices(req, max)) IN
  IF Len(Points(req)) <= max THEN <<req>>
  ELSE IF packed.open.points > 0 THEN Append(packed.chunks, packed.open.current)
  ELSE packed.chunks
=============================================================================
