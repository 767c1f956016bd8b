----------------------------- MODULE SplitLemmas -----------------------------
(***************************************************************************)
(* What OtlpSplit computes, for every request and every cap: the slices    *)
(* hold the points of the request in order, pushing a slice adds its       *)
(* points under its own shells, and the chunks the slices are packed into  *)
(* hold all points, fit, and could not have taken one another in.          *)
(***************************************************************************)
EXTENDS SequenceLemmas, OtlpSplit

-----------------------------------------------------------------------------
(* The split of an export *)

\* A point of a request, with the names of its shells.
PointOf(U) == U \X U \X U \X U

\* The operators of OtlpSplit as functions.
OfMetric(U, r, c) == [m \in MetricOf(U) |-> MetricPoints(r, c, m)]
OfScope(U, r) == [sc \in ScopeOf(U) |-> ScopePoints(r, sc)]
OfResource(U) == [res \in ResourceOf(U) |-> ResourcePoints(res)]

(* A metric has as many points, with their shells, as samples. *)
LEMMA MetricPointsType ==
  ASSUME NEW U, NEW r \in U, NEW c \in U, NEW m \in MetricOf(U)
  PROVE  /\ MetricPoints(r, c, m) \in Seq(PointOf(U))
         /\ Len(MetricPoints(r, c, m)) = point_count(m)
         /\ \A i \in 1..point_count(m) : MetricPoints(r, c, m)[i] = <<r, c, m.name, m.points[i]>>
<1> DEFINE n == Len(m.points)
           f == [p \in DOMAIN m.points |-> <<r, c, m.name, m.points[p]>>]
<1>1. m.points \in Seq(U) /\ m.name \in U
  BY DEF MetricOf
<1>2. n \in Nat /\ DOMAIN m.points = 1..n /\ \A i \in 1..n : m.points[i] \in U
  BY <1>1, LenProperties, ElementOfSeq
<1>3. f \in [1..n -> PointOf(U)]
  BY <1>1, <1>2 DEF PointOf
<1>4. \A i \in 1..n : f[i] = <<r, c, m.name, m.points[i]>>
  BY <1>2
<1>5. f \in Seq(PointOf(U)) /\ Len(f) = n
  <2> HIDE DEF f, n
  <2> QED
    BY <1>2, <1>3, FunctionIsSeq
<1> QED
  BY <1>4, <1>5 DEF MetricPoints, point_count

(* MetricPoints as a function. *)
LEMMA OfMetricMaps ==
  ASSUME NEW U, NEW r \in U, NEW c \in U
  PROVE  /\ IsMap(OfMetric(U, r, c), MetricOf(U), Seq(PointOf(U)))
         /\ \A m \in MetricOf(U) : OfMetric(U, r, c)[m] = MetricPoints(r, c, m)
<1>1. \A m \in MetricOf(U) : MetricPoints(r, c, m) \in Seq(PointOf(U))
  BY MetricPointsType
<1> QED
  BY <1>1 DEF IsMap, OfMetric

(* The points of a scope are gathered from its metrics. *)
LEMMA ScopePointsType ==
  ASSUME NEW U, NEW r \in U, NEW sc \in ScopeOf(U)
  PROVE  /\ ScopePoints(r, sc) = Gather(OfMetric(U, r, sc.scope), sc.metrics)
         /\ ScopePoints(r, sc) \in Seq(PointOf(U))
<1> DEFINE c == sc.scope
           F == OfMetric(U, r, c)
<1>1. c \in U /\ sc.metrics \in Seq(MetricOf(U))
  BY DEF ScopeOf
<1>2. IsMap(F, MetricOf(U), Seq(PointOf(U))) /\ \A m \in MetricOf(U) : F[m] = MetricPoints(r, c, m)
  BY <1>1, OfMetricMaps
<1>3. DOMAIN sc.metrics = 1..Len(sc.metrics)
      /\ \A i \in 1..Len(sc.metrics) : sc.metrics[i] \in MetricOf(U)
  BY <1>1, LenProperties, ElementOfSeq
<1> HIDE DEF c, F
<1>4. FMap(F, sc.metrics) = [mi \in DOMAIN sc.metrics |-> MetricPoints(r, c, sc.metrics[mi])]
  BY <1>2, <1>3 DEF FMap
<1>5. Gather(F, sc.metrics) \in Seq(PointOf(U))
  BY <1>1, <1>2, GatherType
<1> QED
  BY <1>4, <1>5 DEF Gather, ScopePoints, c, F

(* ScopePoints as a function. *)
LEMMA OfScopeMaps ==
  ASSUME NEW U, NEW r \in U
  PROVE  /\ IsMap(OfScope(U, r), ScopeOf(U), Seq(PointOf(U)))
         /\ \A sc \in ScopeOf(U) : OfScope(U, r)[sc] = ScopePoints(r, sc)
<1>1. \A sc \in ScopeOf(U) : ScopePoints(r, sc) \in Seq(PointOf(U))
  BY ScopePointsType
<1> QED
  BY <1>1 DEF IsMap, OfScope

(* The points of a resource are gathered from its scopes. *)
LEMMA ResourcePointsType ==
  ASSUME NEW U, NEW res \in ResourceOf(U)
  PROVE  /\ ResourcePoints(res) = Gather(OfScope(U, res.resource), res.scopes)
         /\ ResourcePoints(res) \in Seq(PointOf(U))
<1> DEFINE r == res.resource
           F == OfScope(U, r)
<1>1. r \in U /\ res.scopes \in Seq(ScopeOf(U))
  BY DEF ResourceOf
<1>2. IsMap(F, ScopeOf(U), Seq(PointOf(U))) /\ \A sc \in ScopeOf(U) : F[sc] = ScopePoints(r, sc)
  BY <1>1, OfScopeMaps
<1>3. DOMAIN res.scopes = 1..Len(res.scopes)
      /\ \A i \in 1..Len(res.scopes) : res.scopes[i] \in ScopeOf(U)
  BY <1>1, LenProperties, ElementOfSeq
<1> HIDE DEF r, F
<1>4. FMap(F, res.scopes) = [si \in DOMAIN res.scopes |-> ScopePoints(r, res.scopes[si])]
  BY <1>2, <1>3 DEF FMap
<1>5. Gather(F, res.scopes) \in Seq(PointOf(U))
  BY <1>1, <1>2, GatherType
<1> QED
  BY <1>4, <1>5 DEF Gather, ResourcePoints, r, F

(* ResourcePoints as a function. *)
LEMMA OfResourceMaps ==
  ASSUME NEW U
  PROVE  /\ IsMap(OfResource(U), ResourceOf(U), Seq(PointOf(U)))
         /\ \A res \in ResourceOf(U) : OfResource(U)[res] = ResourcePoints(res)
<1>1. \A res \in ResourceOf(U) : ResourcePoints(res) \in Seq(PointOf(U))
  BY ResourcePointsType
<1> QED
  BY <1>1 DEF IsMap, OfResource

(* The points of a request are gathered from its resources. *)
LEMMA PointsType ==
  ASSUME NEW U, NEW req \in Seq(ResourceOf(U))
  PROVE  /\ Points(req) = Gather(OfResource(U), req)
         /\ Points(req) \in Seq(PointOf(U))
<1> DEFINE F == OfResource(U)
<1>2. IsMap(F, ResourceOf(U), Seq(PointOf(U)))
      /\ \A res \in ResourceOf(U) : F[res] = ResourcePoints(res)
  BY OfResourceMaps
<1>3. DOMAIN req = 1..Len(req) /\ \A i \in 1..Len(req) : req[i] \in ResourceOf(U)
  BY LenProperties, ElementOfSeq
<1> HIDE DEF F
<1>4. FMap(F, req) = [ri \in DOMAIN req |-> ResourcePoints(req[ri])]
  BY <1>2, <1>3 DEF FMap
<1>5. Gather(F, req) \in Seq(PointOf(U))
  BY <1>2, GatherType
<1> QED
  BY <1>4, <1>5 DEF Gather, Points, F

(* One more metric in a scope: its points come last. *)
LEMMA OneMoreMetric ==
  ASSUME NEW U, NEW r \in U, NEW c \in U, NEW ms \in Seq(MetricOf(U)), NEW m \in MetricOf(U)
  PROVE  ScopePoints(r, [scope |-> c, metrics |-> Append(ms, m)])
           = ScopePoints(r, [scope |-> c, metrics |-> ms]) \o MetricPoints(r, c, m)
<1> DEFINE F == OfMetric(U, r, c)
           old == [scope |-> c, metrics |-> ms]
           new == [scope |-> c, metrics |-> Append(ms, m)]
<1>1. IsMap(F, MetricOf(U), Seq(PointOf(U))) /\ F[m] = MetricPoints(r, c, m)
  BY OfMetricMaps
<1>2. Append(ms, m) \in Seq(MetricOf(U))
  BY AppendProperties
<1>3. old \in ScopeOf(U) /\ new \in ScopeOf(U)
  BY <1>2 DEF ScopeOf
<1>4. old.scope = c /\ old.metrics = ms /\ new.scope = c /\ new.metrics = Append(ms, m)
  OBVIOUS
<1> HIDE DEF old, new
<1>5. ScopePoints(r, old) = Gather(F, ms) /\ ScopePoints(r, new) = Gather(F, Append(ms, m))
  BY <1>3, <1>4, ScopePointsType
<1> HIDE DEF F
<1>6. Gather(F, Append(ms, m)) = Gather(F, ms) \o F[m]
  BY <1>1, GatherAppend
<1> QED
  BY <1>1, <1>5, <1>6 DEF old, new

(* One more scope in a resource: its points come last. *)
LEMMA OneMoreScope ==
  ASSUME NEW U, NEW r \in U, NEW ss \in Seq(ScopeOf(U)), NEW sc \in ScopeOf(U)
  PROVE  ResourcePoints([resource |-> r, scopes |-> Append(ss, sc)])
           = ResourcePoints([resource |-> r, scopes |-> ss]) \o ScopePoints(r, sc)
<1> DEFINE F == OfScope(U, r)
           old == [resource |-> r, scopes |-> ss]
           new == [resource |-> r, scopes |-> Append(ss, sc)]
<1>1. IsMap(F, ScopeOf(U), Seq(PointOf(U))) /\ F[sc] = ScopePoints(r, sc)
  BY OfScopeMaps
<1>2. Append(ss, sc) \in Seq(ScopeOf(U))
  BY AppendProperties
<1>3. old \in ResourceOf(U) /\ new \in ResourceOf(U)
  BY <1>2 DEF ResourceOf
<1>4. old.resource = r /\ old.scopes = ss /\ new.resource = r /\ new.scopes = Append(ss, sc)
  OBVIOUS
<1> HIDE DEF old, new
<1>5. ResourcePoints(old) = Gather(F, ss) /\ ResourcePoints(new) = Gather(F, Append(ss, sc))
  BY <1>3, <1>4, ResourcePointsType
<1> HIDE DEF F
<1>6. Gather(F, Append(ss, sc)) = Gather(F, ss) \o F[sc]
  BY <1>1, GatherAppend
<1> QED
  BY <1>1, <1>5, <1>6 DEF old, new

(* One more resource in a request: its points come last. *)
LEMMA OneMoreResource ==
  ASSUME NEW U, NEW req \in Seq(ResourceOf(U)), NEW res \in ResourceOf(U)
  PROVE  Points(Append(req, res)) = Points(req) \o ResourcePoints(res)
<1> DEFINE F == OfResource(U)
<1>1. IsMap(F, ResourceOf(U), Seq(PointOf(U))) /\ F[res] = ResourcePoints(res)
  BY OfResourceMaps
<1>2. Append(req, res) \in Seq(ResourceOf(U))
  BY AppendProperties
<1>3. Points(req) = Gather(F, req) /\ Points(Append(req, res)) = Gather(F, Append(req, res))
  BY <1>2, PointsType
<1> HIDE DEF F
<1>4. Gather(F, Append(req, res)) = Gather(F, req) \o F[res]
  BY <1>1, GatherAppend
<1> QED
  BY <1>1, <1>3, <1>4

(* Shells without a metric have no points. *)
LEMMA EmptyShells ==
  ASSUME NEW r, NEW c
  PROVE  /\ Points(<< >>) = << >>
         /\ ResourcePoints([resource |-> r, scopes |-> << >>]) = << >>
         /\ ScopePoints(r, [scope |-> c, metrics |-> << >>]) = << >>
BY DEF Points, ResourcePoints, ScopePoints, FlattenSeq

\* The slices of a request.
SliceOf(U, req, max) ==
  {s \in [ri : 1..Len(req), si : Nat, metric : MetricOf(U)] :
     s.si \in 1..Len(req[s.ri].scopes) /\ point_count(s.metric) \in 1..max}

SlicePoints(req, s) ==
  MetricPoints(req[s.ri].resource, req[s.ri].scopes[s.si].scope, s.metric)

OfSlice(U, req, max) == [s \in SliceOf(U, req, max) |-> SlicePoints(req, s)]

(* The number of parts of at most max elements that n elements make. *)
LEMMA PartsOf ==
  ASSUME NEW n \in Nat, NEW max \in Nat \ {0}, NEW K, K = (n + max - 1) \div max
  PROVE  K \in Nat /\ K * max >= n /\ \A k \in 1..K : (k - 1) * max < n
<1> DEFINE a == n + max - 1
<1>1. a \in Nat
  OBVIOUS
<1>a. K = a \div max
  OBVIOUS
<1> HIDE DEF a
<1>2. K \in Int
  BY <1>1, <1>a
<1>3. max * K <= a
  BY <1>1, <1>a
<1>4. a < max * K + max
  BY <1>1, <1>a
<1>5. K \in Nat
  BY <1>1, <1>2, <1>3, <1>4
<1>6. K * max >= n
  BY <1>1, <1>2, <1>3, <1>4 DEF a
<1>7. ASSUME NEW k \in 1..K
      PROVE  (k - 1) * max < n
  BY <1>1, <1>2, <1>3, <1>4 DEF a
<1> QED
  BY <1>5, <1>6, <1>7

(* The smaller of two numbers. *)
LEMMA MinOfTwo ==
  ASSUME NEW a \in Int, NEW b \in Int
  PROVE  Min({a, b}) = IF a <= b THEN a ELSE b
BY DEF Min

\* The number of slices of n points.
Cuts(n, max) == (n + max - 1) \div max

\* What the first k slices of n points hold.
Held(k, max, n) == IF k * max <= n THEN k * max ELSE n

HeldWell(n, max) ==
  /\ Held(0, max, n) = 0 /\ Held(Cuts(n, max), max, n) = n
  /\ \A k \in 1..Cuts(n, max) :
       /\ Min({k * max, n}) = Held(k, max, n)
       /\ Held(k - 1, max, n) = (k - 1) * max
       /\ Held(k - 1, max, n) \in Nat /\ Held(k, max, n) \in Nat
       /\ Held(k, max, n) - Held(k - 1, max, n) \in 1..max
       /\ Held(k, max, n) \in 1..n

(* The slices of a metric share out its points, none empty, none over. *)
LEMMA HeldFacts ==
  ASSUME NEW n \in Nat, NEW max \in Nat \ {0}
  PROVE  HeldWell(n, max)
<1> DEFINE K == Cuts(n, max)
<1>1. K \in Nat /\ K * max >= n /\ \A k \in 1..K : (k - 1) * max < n
  BY PartsOf DEF Cuts
<1>2. Held(0, max, n) = 0
  BY DEF Held
<1>3. Held(K, max, n) = n
  <2>1. K * max \in Int
    BY <1>1
  <2> QED
    BY <1>1, <2>1 DEF Held
<1>4. ASSUME NEW k \in 1..K
      PROVE  /\ Min({k * max, n}) = Held(k, max, n)
             /\ Held(k - 1, max, n) = (k - 1) * max
             /\ Held(k - 1, max, n) \in Nat /\ Held(k, max, n) \in Nat
             /\ Held(k, max, n) - Held(k - 1, max, n) \in 1..max
             /\ Held(k, max, n) \in 1..n
  <2> DEFINE p == (k - 1) * max
             q == k * max
  <2>1. k \in Nat /\ k - 1 \in Nat
    BY <1>1
  <2>2. p \in Nat /\ q \in Nat /\ q = p + max /\ p < n
    BY <1>1, <2>1
  <2>3. Min({q, n}) = IF q <= n THEN q ELSE n
    BY <2>2, MinOfTwo
  <2>4. Held(k, max, n) = (IF q <= n THEN q ELSE n) /\ Held(k - 1, max, n) = (IF p <= n THEN p ELSE n)
    BY DEF Held
  <2> HIDE DEF p, q
  <2>5. /\ q \in Nat /\ p \in Nat /\ Min({q, n}) = Held(k, max, n)
        /\ Held(k - 1, max, n) = p /\ Held(k - 1, max, n) \in Nat /\ Held(k, max, n) \in Nat
        /\ Held(k, max, n) - Held(k - 1, max, n) \in 1..max
        /\ Held(k, max, n) \in 1..n
    BY <2>2, <2>3, <2>4
  <2> QED
    BY <2>5 DEF p, q
<1> QED
  BY <1>2, <1>3, <1>4 DEF HeldWell

(* The shells a slice may name. *)
LEMMA ShellsOf ==
  ASSUME NEW U, NEW req \in Seq(ResourceOf(U)), NEW ri \in 1..Len(req)
  PROVE  /\ req[ri] \in ResourceOf(U) /\ req[ri].resource \in U
         /\ req[ri].scopes \in Seq(ScopeOf(U)) /\ Len(req[ri].scopes) \in Nat
         /\ \A si \in 1..Len(req[ri].scopes) :
              /\ si \in Nat
              /\ req[ri].scopes[si] \in ScopeOf(U)
              /\ req[ri].scopes[si].scope \in U
              /\ req[ri].scopes[si].metrics \in Seq(MetricOf(U))
<1>1. req[ri] \in ResourceOf(U)
  BY ElementOfSeq
<1>2. req[ri].resource \in U /\ req[ri].scopes \in Seq(ScopeOf(U))
  BY <1>1 DEF ResourceOf
<1>3. Len(req[ri].scopes) \in Nat
      /\ \A si \in 1..Len(req[ri].scopes) : req[ri].scopes[si] \in ScopeOf(U)
  BY <1>2, LenProperties, ElementOfSeq
<1>4. \A sc \in ScopeOf(U) : sc.scope \in U /\ sc.metrics \in Seq(MetricOf(U))
  BY DEF ScopeOf
<1> QED
  BY <1>1, <1>2, <1>3, <1>4

(* The slices of a metric hold its points, in order, and the places of its *)
(* shells; none is empty and none is over the cap.                         *)
LEMMA MetricSlicesPoints ==
  ASSUME NEW U, NEW max \in Nat \ {0}, NEW req \in Seq(ResourceOf(U)), NEW ri \in 1..Len(req),
         NEW si \in 1..Len(req[ri].scopes), NEW m \in MetricOf(U)
  PROVE  /\ MetricSlices(ri, si, m, max) \in Seq(SliceOf(U, req, max))
         /\ \A k \in 1..Len(MetricSlices(ri, si, m, max)) : MetricSlices(ri, si, m, max)[k].ri = ri
         /\ IsMap(OfSlice(U, req, max), SliceOf(U, req, max), Seq(PointOf(U))) =>
              Gather(OfSlice(U, req, max), MetricSlices(ri, si, m, max))
                = MetricPoints(req[ri].resource, req[ri].scopes[si].scope, m)
<1> DEFINE n == Len(m.points)
           K == (n + max - 1) \div max
           r == req[ri].resource
           c == req[ri].scopes[si].scope
           part(k) == SubSeq(m.points, (k - 1) * max + 1, Min({k * max, n}))
           cut(k) == [m EXCEPT !.points = part(k)]
           slice(k) == [ri |-> ri, si |-> si, metric |-> cut(k)]
           ms == [k \in 1..K |-> slice(k)]
           H(k) == Held(k, max, n)
<1>1. m.points \in Seq(U) /\ m.name \in U /\ n \in Nat /\ DOMAIN m.points = 1..n
      /\ \A i \in 1..n : m.points[i] \in U
  BY LenProperties, ElementOfSeq DEF MetricOf
<1>2. MetricSlices(ri, si, m, max) = ms
  BY DEF MetricSlices, point_count
<1>a. K = (n + max - 1) \div max /\ K = Cuts(n, max)
  BY DEF Cuts
<1>b. r \in U /\ c \in U /\ si \in Nat
  BY ShellsOf
<1> HIDE DEF n, K
<1>3. K \in Nat
  BY <1>1, <1>a, PartsOf
<1>d. HeldWell(n, max)
  BY <1>1, HeldFacts
<1>4. /\ H(0) = 0 /\ H(K) = n
      /\ \A k \in 1..K : Min({k * max, n}) = H(k) /\ H(k - 1) = (k - 1) * max
  BY <1>a, <1>d DEF HeldWell
<1>c. \A k \in 1..K :
        H(k - 1) \in Nat /\ H(k) \in Nat /\ H(k) - H(k - 1) \in 1..max /\ H(k) \in 1..n
  BY <1>a, <1>d DEF HeldWell
<1> HIDE DEF H
<1>5. ASSUME NEW k \in 1..K
      PROVE  /\ part(k) \in Seq(U) /\ Len(part(k)) = H(k) - H(k - 1)
             /\ \A i \in 1..(H(k) - H(k - 1)) : part(k)[i] = m.points[H(k - 1) + i]
  <2> DEFINE lo == H(k - 1) + 1
             hi == H(k)
             t == SubSeq(m.points, lo, hi)
  <2>1. part(k) = t
    BY <1>4
  <2>2. lo \in 1..hi /\ hi \in 1..n
    BY <1>1, <1>c
  <2>3. lo \in Int /\ hi \in Int /\ \A i \in lo..hi : m.points[i] \in U
    BY <1>1, <2>2
  <2> HIDE DEF lo, hi
  <2>4. /\ t \in Seq(U)
        /\ Len(t) = IF lo <= hi THEN hi - lo + 1 ELSE 0
        /\ \A i \in 1..(hi - lo + 1) : t[i] = m.points[lo + i - 1]
    BY <2>3, SubSeqProperties
  <2> HIDE DEF t
  <2>5. H(k - 1) \in Nat /\ H(k) \in Nat
    BY <1>c
  <2>6. hi - lo + 1 = H(k) - H(k - 1) /\ lo <= hi
    BY <2>2, <2>5 DEF lo, hi
  <2>7. \A i \in 1..(hi - lo + 1) : lo + i - 1 = H(k - 1) + i
    BY <2>5 DEF lo
  <2>8. Len(t) = H(k) - H(k - 1) /\ \A i \in 1..(H(k) - H(k - 1)) : t[i] = m.points[H(k - 1) + i]
    BY <2>4, <2>6, <2>7
  <2> QED
    BY <2>1, <2>4, <2>8 
<1> HIDE DEF part
<1>6. ASSUME NEW k \in 1..K
      PROVE  /\ cut(k) \in MetricOf(U) /\ point_count(cut(k)) = H(k) - H(k - 1)
             /\ cut(k).name = m.name /\ cut(k).points = part(k)
  <2>1. cut(k) = [name |-> m.name, points |-> part(k)]
    BY DEF MetricOf
  <2> QED
    BY <1>1, <1>5, <2>1 DEF MetricOf, point_count
<1> HIDE DEF cut
<1>7. \A k \in 1..K : slice(k) \in SliceOf(U, req, max)
  BY <1>b, <1>c, <1>6 DEF SliceOf
<1>8. ms \in Seq(SliceOf(U, req, max)) /\ Len(ms) = K /\ \A k \in 1..K : ms[k] = slice(k)
  <2>1. ms \in [1..K -> SliceOf(U, req, max)] /\ \A k \in 1..K : ms[k] = slice(k)
    BY <1>7
  <2> HIDE DEF ms, slice
  <2> QED
    BY <1>3, <2>1, FunctionIsSeq
<1>9. \A k \in 1..K : ms[k].ri = ri /\ SlicePoints(req, ms[k]) = MetricPoints(r, c, cut(k))
  BY <1>8 DEF SlicePoints
<1> HIDE DEF ms, slice
<1>10. ASSUME IsMap(OfSlice(U, req, max), SliceOf(U, req, max), Seq(PointOf(U)))
       PROVE  Gather(OfSlice(U, req, max), ms) = MetricPoints(r, c, m)
  <2> DEFINE F == OfSlice(U, req, max)
             A == SliceOf(U, req, max)
             tt == FMap(F, ms)
             all == MetricPoints(r, c, m)
  <2>1. /\ tt \in Seq(Seq(PointOf(U))) /\ Len(tt) = K
        /\ \A k \in 1..K : tt[k] = F[ms[k]]
    BY <1>8, <1>10, MapShape
  <2>2. ASSUME NEW k \in 1..K
        PROVE  /\ tt[k] \in Seq(PointOf(U)) /\ Len(tt[k]) = H(k) - H(k - 1)
               /\ \A i \in 1..(H(k) - H(k - 1)) : tt[k][i] = <<r, c, m.name, m.points[H(k - 1) + i]>>
    <3>1. ms[k] \in A
      BY <1>8, ElementOfSeq
    <3>2. tt[k] = MetricPoints(r, c, cut(k))
      BY <1>9, <2>1, <3>1 DEF OfSlice
    <3>3. /\ MetricPoints(r, c, cut(k)) \in Seq(PointOf(U))
          /\ Len(MetricPoints(r, c, cut(k))) = point_count(cut(k))
          /\ \A i \in 1..point_count(cut(k)) :
               MetricPoints(r, c, cut(k))[i] = <<r, c, cut(k).name, cut(k).points[i]>>
      <4>1. PICK s \in MetricOf(U) : s = cut(k)
        BY <1>6
      <4>2. /\ MetricPoints(r, c, s) \in Seq(PointOf(U))
            /\ Len(MetricPoints(r, c, s)) = point_count(s)
            /\ \A i \in 1..point_count(s) : MetricPoints(r, c, s)[i] = <<r, c, s.name, s.points[i]>>
        BY <1>b, MetricPointsType, SMTT(30)
      <4> QED
        BY <4>1, <4>2, Zenon
    <3> QED
      BY <1>5, <1>6, <3>2, <3>3
  <2>3. PICK h : Flattens(h, tt, PointOf(U)) /\ FlattenSeq(tt) = h[Len(tt)]
    BY <2>1, FlattenBy
  <2>4. /\ h \in [0..K -> Seq(PointOf(U))] /\ h[0] = << >>
        /\ \A k \in 1..K : h[k] = h[k - 1] \o tt[k]
        /\ FlattenSeq(tt) = h[K]
    BY <2>1, <2>3 DEF Flattens
  <2>5. /\ all \in Seq(PointOf(U)) /\ Len(all) = n
        /\ \A i \in 1..n : all[i] = <<r, c, m.name, m.points[i]>>
    <3> HIDE DEF r, c
    <3>1. /\ all \in Seq(PointOf(U)) /\ Len(all) = point_count(m)
          /\ \A i \in 1..point_count(m) : all[i] = <<r, c, m.name, m.points[i]>>
      BY <1>b, MetricPointsType
    <3>2. point_count(m) = n
      BY DEF point_count, n
    <3> QED
      BY <3>1, <3>2
  <2> HIDE DEF tt, F, A, all, r, c
  <2> DEFINE P == {k \in 0..K : /\ Len(h[k]) = H(k) /\ H(k) \in 0..n
                                /\ \A i \in 1..H(k) : h[k][i] = all[i]}
  <2>6. 0 \in P
    <3>1. 0 \in 0..K /\ Len(<< >>) = 0 /\ \A i \in 1..0 : FALSE
      BY <1>3
    <3> QED
      BY <1>1, <1>4, <2>4, <3>1
  <2>7. ASSUME NEW k \in 0..(K - 1), k \in P
        PROVE  k + 1 \in P
    <3> DEFINE g == tt[k + 1]
    <3>1. k + 1 \in 1..K /\ k + 1 \in 0..K /\ k \in 0..K /\ (k + 1) - 1 = k
      BY <1>3
    <3>2. h[k] \in Seq(PointOf(U)) /\ h[k + 1] = h[k] \o g
      BY <2>4, <3>1
    <3>3. /\ g \in Seq(PointOf(U)) /\ Len(g) = H(k + 1) - H(k)
          /\ \A i \in 1..(H(k + 1) - H(k)) : g[i] = <<r, c, m.name, m.points[H(k) + i]>>
      <4>1. PICK j \in 1..K : j = k + 1
        BY <3>1
      <4>2. j - 1 = k
        BY <3>1, <4>1
      <4> QED
        BY <2>2, <4>1, <4>2
    <3>4. H(k + 1) \in 1..n /\ H(k + 1) - H(k) \in 1..max
      BY <1>c, <3>1
    <3>5. Len(h[k]) = H(k) /\ H(k) \in 0..n /\ \A i \in 1..H(k) : h[k][i] = all[i]
      BY <2>7
    <3> HIDE DEF g
    <3>6. /\ Len(h[k + 1]) = Len(h[k]) + Len(g)
          /\ \A i \in 1..(Len(h[k]) + Len(g)) :
               h[k + 1][i] = IF i <= Len(h[k]) THEN h[k][i] ELSE g[i - Len(h[k])]
      <4>1. PICK a \in Seq(PointOf(U)), b \in Seq(PointOf(U)) : a = h[k] /\ b = g
        BY <3>2, <3>3
      <4>2. /\ Len(a \o b) = Len(a) + Len(b)
            /\ \A i \in 1..(Len(a) + Len(b)) :
                 (a \o b)[i] = IF i <= Len(a) THEN a[i] ELSE b[i - Len(a)]
        BY ConcatProperties
      <4> QED
        BY <3>2, <4>1, <4>2
    <3>7. Len(h[k + 1]) = H(k + 1)
      BY <3>3, <3>4, <3>5, <3>6
    <3>8. ASSUME NEW i \in 1..H(k + 1)
          PROVE  h[k + 1][i] = all[i]
      <4>1. h[k + 1][i] = IF i <= H(k) THEN h[k][i] ELSE g[i - H(k)]
        BY <3>3, <3>4, <3>5, <3>6
      <4>2. CASE i <= H(k)
        <5>1. i \in 1..H(k)
          BY <3>5, <4>2
        <5> QED
          BY <3>5, <4>1, <4>2, <5>1
      <4>3. CASE ~(i <= H(k))
        <5>1. i - H(k) \in 1..(H(k + 1) - H(k)) /\ H(k) + (i - H(k)) = i /\ i \in 1..n
          BY <1>1, <3>4, <3>5, <4>3
        <5>2. g[i - H(k)] = <<r, c, m.name, m.points[i]>>
          BY <3>3, <5>1
        <5> QED
          BY <2>5, <4>1, <4>3, <5>1, <5>2
      <4> QED
        BY <4>2, <4>3
    <3>9. H(k + 1) \in 0..n
      BY <1>1, <3>4
    <3> QED
      BY <3>1, <3>7, <3>8, <3>9
  <2>8. K \in P
    <3> HIDE DEF P
    <3>1. \A k \in 0..K : k \in P
      BY <1>3, <2>6, <2>7, UpTo
    <3> QED
      BY <1>3, <3>1
  <2>9. K \in 0..K /\ Len(h[K]) = n /\ \A i \in 1..n : h[K][i] = all[i]
    BY <1>4, <2>8
  <2>10. h[K] \in Seq(PointOf(U))
    BY <2>4, <2>9
  <2>11. h[K] = all
    BY <2>5, <2>9, <2>10, SeqEqual
  <2> QED
    BY <2>4, <2>11 DEF Gather, tt, F, all
<1> QED
  BY <1>2, <1>8, <1>9, <1>10

(* SlicePoints as a function. *)
LEMMA OfSliceMaps ==
  ASSUME NEW U, NEW max, NEW req \in Seq(ResourceOf(U))
  PROVE  /\ IsMap(OfSlice(U, req, max), SliceOf(U, req, max), Seq(PointOf(U)))
         /\ \A s \in SliceOf(U, req, max) :
              /\ OfSlice(U, req, max)[s] = SlicePoints(req, s)
              /\ SlicePoints(req, s) \in Seq(PointOf(U))
              /\ Len(SlicePoints(req, s)) = point_count(s.metric)
<1>1. ASSUME NEW s \in SliceOf(U, req, max)
      PROVE  SlicePoints(req, s) \in Seq(PointOf(U)) /\ Len(SlicePoints(req, s)) = point_count(s.metric)
  <2>1. s.ri \in 1..Len(req) /\ s.si \in 1..Len(req[s.ri].scopes) /\ s.metric \in MetricOf(U)
    BY DEF SliceOf
  <2>2. req[s.ri].resource \in U /\ req[s.ri].scopes[s.si].scope \in U
    BY <2>1, ShellsOf
  <2> QED
    BY <2>1, <2>2, MetricPointsType DEF SlicePoints
<1> QED
  BY <1>1 DEF IsMap, OfSlice

\* The slices of one resource.
SliceAt(U, req, max, ri) == {s \in SliceOf(U, req, max) : s.ri = ri}

(* The slices of a scope hold its points, in order. *)
LEMMA ScopeSlicesPoints ==
  ASSUME NEW U, NEW max \in Nat \ {0}, NEW req \in Seq(ResourceOf(U)), NEW ri \in 1..Len(req),
         NEW si \in 1..Len(req[ri].scopes)
  PROVE  /\ ScopeSlices(ri, si, req[ri].scopes[si], max) \in Seq(SliceAt(U, req, max, ri))
         /\ Gather(OfSlice(U, req, max), ScopeSlices(ri, si, req[ri].scopes[si], max))
              = ScopePoints(req[ri].resource, req[ri].scopes[si])
<1> DEFINE sc == req[ri].scopes[si]
           r == req[ri].resource
           c == sc.scope
           B == PointOf(U)
           A == SliceOf(U, req, max)
           At == SliceAt(U, req, max, ri)
           F == OfSlice(U, req, max)
           n == Len(sc.metrics)
           ss == [mi \in 1..n |-> MetricSlices(ri, si, sc.metrics[mi], max)]
           tt == [mi \in 1..n |-> MetricPoints(r, c, sc.metrics[mi])]
<1>1. r \in U /\ c \in U /\ sc.metrics \in Seq(MetricOf(U))
  BY ShellsOf
<1>2. n \in Nat /\ DOMAIN sc.metrics = 1..n /\ \A mi \in 1..n : sc.metrics[mi] \in MetricOf(U)
  BY <1>1, LenProperties, ElementOfSeq
<1>3. IsMap(F, A, Seq(B))
  BY OfSliceMaps
<1>4. ASSUME NEW mi \in 1..n
      PROVE  /\ MetricSlices(ri, si, sc.metrics[mi], max) \in Seq(At)
             /\ Gather(F, MetricSlices(ri, si, sc.metrics[mi], max)) = MetricPoints(r, c, sc.metrics[mi])
             /\ MetricPoints(r, c, sc.metrics[mi]) \in Seq(B)
  <2>1. PICK m \in MetricOf(U) : m = sc.metrics[mi]
    BY <1>2
  <2> DEFINE q == MetricSlices(ri, si, m, max)
  <2>2. /\ q \in Seq(A)
        /\ \A k \in 1..Len(q) : q[k].ri = ri
        /\ Gather(F, q) = MetricPoints(r, c, m)
    <3> HIDE DEF ss, tt
    <3> QED
      BY <1>3, MetricSlicesPoints, SMTT(30)
  <2>3. MetricPoints(r, c, m) \in Seq(B)
    BY <1>1, MetricPointsType
  <2> HIDE DEF q
  <2>4. Len(q) \in Nat /\ q \in [1..Len(q) -> A]
    BY <2>2, LenProperties
  <2>5. q \in [1..Len(q) -> At]
    BY <2>2, <2>4 DEF SliceAt
  <2>6. q \in Seq(At)
    BY <2>4, <2>5, FunctionIsSeq
  <2> QED
    BY <2>1, <2>2, <2>3, <2>6 DEF q
<1>5. ss = [mi \in DOMAIN sc.metrics |-> MetricSlices(ri, si, sc.metrics[mi], max)]
      /\ tt = [mi \in DOMAIN sc.metrics |-> MetricPoints(r, c, sc.metrics[mi])]
  BY <1>2
<1>6. ss \in [1..n -> Seq(At)] /\ tt \in [1..n -> Seq(B)]
      /\ \A mi \in 1..n : Gather(F, ss[mi]) = tt[mi]
  BY <1>4
<1>7. ScopeSlices(ri, si, sc, max) = FlattenSeq(ss) /\ ScopePoints(r, sc) = FlattenSeq(tt)
  BY <1>5 DEF ScopeSlices, ScopePoints
<1> HIDE DEF ss, tt, n, At, A, F, B
<1>8. ss \in Seq(Seq(At)) /\ Len(ss) = n /\ tt \in Seq(Seq(B)) /\ Len(tt) = n
  BY <1>2, <1>6, FunctionIsSeq
<1>9. FlattenSeq(ss) \in Seq(At)
  BY <1>8, FlattenType
<1>10. ss \in Seq(Seq(A))
  <2>1. At \subseteq A
    BY DEF At, A, SliceAt
  <2>2. \A s \in Seq(At) : s \in Seq(A)
    BY <2>1, Widen
  <2>3. Seq(At) \subseteq Seq(A)
    BY <2>2
  <2> QED
    BY <1>8, <2>3, Widen
<1>11. Gather(F, FlattenSeq(ss)) = FlattenSeq(tt)
  <2>1. GathersTo(F, ss, tt)
    BY <1>6, <1>8 DEF GathersTo
  <2> QED
    BY <1>3, <1>8, <1>10, <2>1, GatherParts
<1> QED
  BY <1>7, <1>9, <1>11 DEF At, F

(* The slices of a resource hold its points, in order. *)
LEMMA ResourceSlicesPoints ==
  ASSUME NEW U, NEW max \in Nat \ {0}, NEW req \in Seq(ResourceOf(U)), NEW ri \in 1..Len(req)
  PROVE  /\ ResourceSlices(ri, req[ri], max) \in Seq(SliceAt(U, req, max, ri))
         /\ Gather(OfSlice(U, req, max), ResourceSlices(ri, req[ri], max)) = ResourcePoints(req[ri])
<1> DEFINE res == req[ri]
           r == res.resource
           B == PointOf(U)
           A == SliceOf(U, req, max)
           At == SliceAt(U, req, max, ri)
           F == OfSlice(U, req, max)
           n == Len(res.scopes)
           ss == [si \in 1..n |-> ScopeSlices(ri, si, res.scopes[si], max)]
           tt == [si \in 1..n |-> ScopePoints(r, res.scopes[si])]
<1>1. r \in U /\ res.scopes \in Seq(ScopeOf(U))
  BY ShellsOf
<1>2. n \in Nat /\ DOMAIN res.scopes = 1..n /\ \A si \in 1..n : res.scopes[si] \in ScopeOf(U)
  BY <1>1, LenProperties, ElementOfSeq
<1>3. IsMap(F, A, Seq(B))
  BY OfSliceMaps
<1>4. ASSUME NEW si \in 1..n
      PROVE  /\ ScopeSlices(ri, si, res.scopes[si], max) \in Seq(At)
             /\ Gather(F, ScopeSlices(ri, si, res.scopes[si], max)) = ScopePoints(r, res.scopes[si])
             /\ ScopePoints(r, res.scopes[si]) \in Seq(B)
  <2>1. /\ ScopeSlices(ri, si, res.scopes[si], max) \in Seq(At)
        /\ Gather(F, ScopeSlices(ri, si, res.scopes[si], max)) = ScopePoints(r, res.scopes[si])
    BY ScopeSlicesPoints
  <2>2. ScopePoints(r, res.scopes[si]) \in Seq(B)
    BY <1>1, <1>2, ScopePointsType
  <2> QED
    BY <2>1, <2>2
<1>5. ss = [si \in DOMAIN res.scopes |-> ScopeSlices(ri, si, res.scopes[si], max)]
      /\ tt = [si \in DOMAIN res.scopes |-> ScopePoints(r, res.scopes[si])]
  BY <1>2
<1>6. ss \in [1..n -> Seq(At)] /\ tt \in [1..n -> Seq(B)]
      /\ \A si \in 1..n : Gather(F, ss[si]) = tt[si]
  BY <1>4
<1>7. ResourceSlices(ri, res, max) = FlattenSeq(ss) /\ ResourcePoints(res) = FlattenSeq(tt)
  BY <1>5 DEF ResourceSlices, ResourcePoints
<1> HIDE DEF ss, tt, n, At, A, F, B
<1>8. ss \in Seq(Seq(At)) /\ Len(ss) = n /\ tt \in Seq(Seq(B)) /\ Len(tt) = n
  BY <1>2, <1>6, FunctionIsSeq
<1>9. FlattenSeq(ss) \in Seq(At)
  BY <1>8, FlattenType
<1>10. ss \in Seq(Seq(A))
  <2>1. At \subseteq A
    BY DEF At, A, SliceAt
  <2>2. \A s \in Seq(At) : s \in Seq(A)
    BY <2>1, Widen
  <2>3. Seq(At) \subseteq Seq(A)
    BY <2>2
  <2> QED
    BY <1>8, <2>3, Widen
<1>11. Gather(F, FlattenSeq(ss)) = FlattenSeq(tt)
  <2>1. GathersTo(F, ss, tt)
    BY <1>6, <1>8 DEF GathersTo
  <2> QED
    BY <1>3, <1>8, <1>10, <2>1, GatherParts
<1> QED
  BY <1>7, <1>9, <1>11 DEF At, F

\* The slices come in the order of their resources.
InOrder(slices) == \A i, j \in 1..Len(slices) : i <= j => slices[i].ri <= slices[j].ri

(* All slices hold the points of the request, in order, and come in the  *)
(* order of the resources.                                                 *)
LEMMA AllSlicesPoints ==
  ASSUME NEW U, NEW max \in Nat \ {0}, NEW req \in Seq(ResourceOf(U))
  PROVE  /\ AllSlices(req, max) \in Seq(SliceOf(U, req, max))
         /\ Gather(OfSlice(U, req, max), AllSlices(req, max)) = Points(req)
         /\ InOrder(AllSlices(req, max))
<1> DEFINE B == PointOf(U)
           A == SliceOf(U, req, max)
           At(ri) == SliceAt(U, req, max, ri)
           F == OfSlice(U, req, max)
           n == Len(req)
           ss == [ri \in 1..n |-> ResourceSlices(ri, req[ri], max)]
           tt == [ri \in 1..n |-> ResourcePoints(req[ri])]
<1>2. n \in Nat /\ DOMAIN req = 1..n /\ \A ri \in 1..n : req[ri] \in ResourceOf(U)
  BY LenProperties, ElementOfSeq
<1>3. IsMap(F, A, Seq(B))
  BY OfSliceMaps
<1>a. ASSUME NEW ri
      PROVE  \A s \in Seq(At(ri)) : s \in Seq(A)
  <2>1. At(ri) \subseteq A
    BY DEF SliceAt
  <2> HIDE DEF At, A
  <2> QED
    BY <2>1, Widen
<1>4. ASSUME NEW ri \in 1..n
      PROVE  /\ ResourceSlices(ri, req[ri], max) \in Seq(At(ri))
             /\ ResourceSlices(ri, req[ri], max) \in Seq(A)
             /\ Gather(F, ResourceSlices(ri, req[ri], max)) = ResourcePoints(req[ri])
             /\ ResourcePoints(req[ri]) \in Seq(B)
  <2>1. /\ ResourceSlices(ri, req[ri], max) \in Seq(At(ri))
        /\ Gather(F, ResourceSlices(ri, req[ri], max)) = ResourcePoints(req[ri])
    BY ResourceSlicesPoints
  <2>2. ResourcePoints(req[ri]) \in Seq(B)
    BY <1>2, ResourcePointsType
  <2> HIDE DEF At, A
  <2> QED
    BY <1>a, <2>1, <2>2
<1>5. AllSlices(req, max) = FlattenSeq(ss) /\ Points(req) = FlattenSeq(tt)
  <2>1. ss = [ri \in DOMAIN req |-> ResourceSlices(ri, req[ri], max)]
        /\ tt = [ri \in DOMAIN req |-> ResourcePoints(req[ri])]
    BY <1>2
  <2> QED
    BY <2>1 DEF AllSlices, Points
<1>6. ss \in [1..n -> Seq(A)] /\ tt \in [1..n -> Seq(B)]
      /\ \A ri \in 1..n : Gather(F, ss[ri]) = tt[ri] /\ ss[ri] \in Seq(At(ri))
  BY <1>4
<1> HIDE DEF ss, tt, n, A, F, B
<1>8. ss \in Seq(Seq(A)) /\ Len(ss) = n /\ tt \in Seq(Seq(B)) /\ Len(tt) = n
  BY <1>2, <1>6, FunctionIsSeq
<1>9. FlattenSeq(ss) \in Seq(A)
  BY <1>8, FlattenType
<1>11. Gather(F, FlattenSeq(ss)) = FlattenSeq(tt)
  <2>1. GathersTo(F, ss, tt)
    BY <1>6, <1>8 DEF GathersTo
  <2> QED
    BY <1>3, <1>8, <2>1, GatherParts
<1>12. InOrder(FlattenSeq(ss))
  <2>1. PICK h : Flattens(h, ss, A) /\ FlattenSeq(ss) = h[Len(ss)]
    BY <1>8, FlattenBy
  <2>2. /\ h \in [0..n -> Seq(A)] /\ h[0] = << >>
        /\ \A k \in 1..n : h[k] = h[k - 1] \o ss[k]
        /\ FlattenSeq(ss) = h[n]
    BY <1>8, <2>1 DEF Flattens
  <2>a. \A a \in A : a.ri \in Nat
    BY <1>2 DEF A, SliceOf, n
  <2> DEFINE P == {k \in 0..n : InOrder(h[k]) /\ \A i \in 1..Len(h[k]) : h[k][i].ri <= k}
  <2>3. 0 \in P
    <3>1. 0 \in 0..n /\ Len(<< >>) = 0 /\ \A i \in 1..0 : FALSE
      BY <1>2
    <3> QED
      BY <2>2, <3>1 DEF InOrder
  <2>4. ASSUME NEW k \in 0..(n - 1), k \in P
        PROVE  k + 1 \in P
    <3>1. k + 1 \in 1..n /\ k + 1 \in 0..n /\ k \in 0..n /\ (k + 1) - 1 = k
      BY <1>2
    <3>2. PICK a \in Seq(A), b \in Seq(A) : a = h[k] /\ b = ss[k + 1]
      BY <1>6, <2>2, <3>1
    <3> DEFINE w == a \o b
    <3>3. /\ Len(w) = Len(a) + Len(b)
          /\ \A i \in 1..(Len(a) + Len(b)) : w[i] = IF i <= Len(a) THEN a[i] ELSE b[i - Len(a)]
      BY ConcatProperties
    <3>4. h[k + 1] = w
      BY <2>2, <3>1, <3>2
    <3> HIDE DEF w
    <3>5. Len(a) \in Nat /\ Len(b) \in Nat /\ k \in Nat
          /\ (\A i \in 1..Len(a) : a[i] \in A) /\ (\A i \in 1..Len(b) : b[i] \in A)
      BY LenProperties, ElementOfSeq, <1>2
    <3>6. \A i \in 1..Len(b) : b[i].ri = k + 1
      <4>1. b \in Seq(At(k + 1))
        BY <1>6, <3>1, <3>2
      <4>2. \A i \in 1..Len(b) : b[i] \in At(k + 1)
        BY <4>1, ElementOfSeq
      <4> QED
        BY <4>2 DEF SliceAt
    <3>7. InOrder(a) /\ \A i \in 1..Len(a) : a[i].ri <= k
      BY <2>4, <3>2
    <3>8. ASSUME NEW i \in 1..Len(w)
          PROVE  /\ w[i].ri <= k + 1
                 /\ i <= Len(a) => i \in 1..Len(a) /\ w[i] = a[i] /\ w[i].ri \in Nat /\ w[i].ri <= k
                 /\ ~(i <= Len(a)) => w[i].ri = k + 1
      <4>1. CASE i <= Len(a)
        <5>1. i \in 1..Len(a) /\ w[i] = a[i]
          BY <3>3, <3>5, <4>1
        <5>2. a[i].ri \in Nat /\ a[i].ri <= k
          BY <2>a, <3>5, <3>7, <5>1
        <5> QED
          BY <3>5, <4>1, <5>1, <5>2
      <4>2. CASE ~(i <= Len(a))
        <5>1. i - Len(a) \in 1..Len(b) /\ w[i] = b[i - Len(a)]
          BY <3>3, <3>5, <4>2
        <5>2. w[i].ri = k + 1
          BY <3>6, <5>1
        <5> QED
          BY <3>5, <4>2, <5>2
      <4> QED
        BY <4>1, <4>2
    <3>9. ASSUME NEW i \in 1..Len(w), NEW j \in 1..Len(w), i <= j
          PROVE  w[i].ri <= w[j].ri
      <4>1. CASE j <= Len(a)
        <5>1. i <= Len(a)
          BY <3>3, <3>5, <3>9, <4>1
        <5>2. w[i] = a[i] /\ w[j] = a[j] /\ i \in 1..Len(a) /\ j \in 1..Len(a)
          BY <3>8, <4>1, <5>1
        <5> QED
          BY <3>7, <3>9, <5>2 DEF InOrder
      <4>2. CASE ~(j <= Len(a))
        BY <3>8, <4>2
      <4> QED
        BY <4>1, <4>2
    <3>10. InOrder(h[k + 1]) /\ \A i \in 1..Len(h[k + 1]) : h[k + 1][i].ri <= k + 1
      BY <3>4, <3>8, <3>9 DEF InOrder
    <3> QED
      BY <3>1, <3>10
  <2>5. n \in P
    <3> HIDE DEF P
    <3>1. \A k \in 0..n : k \in P
      BY <1>2, <2>3, <2>4, UpTo
    <3> QED
      BY <1>2, <3>1
  <2> QED
    BY <2>2, <2>5
<1> QED
  BY <1>5, <1>9, <1>11, <1>12 DEF A, F

\* No two resources of a request are the same, and none has no scope.
NoneTwice(req) == \A i, j \in 1..Len(req) : req[i].resource = req[j].resource => i = j
NoneBare(req) == \A i \in 1..Len(req) : req[i].scopes # << >>

\* The resources of a chunk are among the first ri of the request.
Among(cur, req, ri) == \A i \in 1..Len(cur) : \E a \in 1..ri : cur[i].resource = req[a].resource

\* The last shells of a chunk are those of the scope si of the resource ri.
Mirrors(cur, req, ri, si) ==
  /\ cur # << >>
  /\ si \in 1..Len(req[ri].scopes)
  /\ cur[Len(cur)].resource = req[ri].resource
  /\ cur[Len(cur)].scopes # << >>
  /\ LET scopes == cur[Len(cur)].scopes IN
       scopes[Len(scopes)].scope = req[ri].scopes[si].scope

OpenOk(U, req, open) ==
  /\ open.current \in Seq(ResourceOf(U))
  /\ open.points = Len(Points(open.current))
  /\ open.ri \in 0..Len(req)
  /\ IF open.ri = 0 THEN open.current = << >> ELSE Mirrors(open.current, req, open.ri, open.si)
  /\ NoneTwice(open.current) /\ NoneBare(open.current) /\ Among(open.current, req, open.ri)

\* The parts of Push.
ShellsFor(req, open, ri) ==
  IF open.ri = ri THEN open.current
  ELSE Append(open.current, [resource |-> req[ri].resource, scopes |-> << >>])
ScopesFor(same, ss, c) == IF same THEN ss ELSE Append(ss, [scope |-> c, metrics |-> << >>])
Filled(scopes, m) == [scopes EXCEPT ![Len(scopes)].metrics = Append(@, m)]
Refilled(shells, filled) == [shells EXCEPT ![Len(shells)].scopes = filled]

\* The points under the scopes ss of a resource r.
Under(r, ss) == ResourcePoints([resource |-> r, scopes |-> ss])

BareAtMostLast(shells) == \A i \in 1..(Len(shells) - 1) : shells[i].scopes # << >>

\* The last scope of ss is c.
EndsIn(ss, c) == ss # << >> /\ ss[Len(ss)].scope = c

(* The resource shell a slice is pushed under. *)
LEMMA ResourceShell ==
  ASSUME NEW U, NEW req \in Seq(ResourceOf(U)), NoneTwice(req),
         NEW open, OpenOk(U, req, open), NEW ri \in 1..Len(req), open.ri <= ri
  PROVE  /\ ShellsFor(req, open, ri) \in Seq(ResourceOf(U)) /\ ShellsFor(req, open, ri) # << >>
         /\ ShellsFor(req, open, ri)[Len(ShellsFor(req, open, ri))].resource = req[ri].resource
         /\ Points(ShellsFor(req, open, ri)) = Points(open.current)
         /\ NoneTwice(ShellsFor(req, open, ri)) /\ Among(ShellsFor(req, open, ri), req, ri)
         /\ BareAtMostLast(ShellsFor(req, open, ri))
<1> DEFINE shells == ShellsFor(req, open, ri)
           cur == open.current
           n == Len(cur)
           e == [resource |-> req[ri].resource, scopes |-> << >>]
<1>1. /\ cur \in Seq(ResourceOf(U)) /\ NoneTwice(cur) /\ NoneBare(cur)
      /\ open.ri \in 0..Len(req) /\ Among(cur, req, open.ri)
  BY DEF OpenOk
<1>2. n \in Nat /\ Len(req) \in Nat
  BY <1>1, LenProperties
<1>3. CASE open.ri = ri
  <2>1. shells = cur
    BY <1>3 DEF ShellsFor
  <2>2. ri # 0
    BY <1>2
  <2>3. Mirrors(cur, req, ri, open.si)
    BY <1>3, <2>2 DEF OpenOk
  <2>4. \A i \in 1..(n - 1) : i \in 1..n
    BY <1>2
  <2> QED
    BY <1>1, <1>3, <2>1, <2>3, <2>4 DEF Mirrors, NoneBare, BareAtMostLast
<1>4. CASE open.ri # ri
  <2>1. shells = Append(cur, e)
    BY <1>4 DEF ShellsFor
  <2>2. e \in ResourceOf(U) /\ e.resource = req[ri].resource
    <3>1. req[ri].resource \in U /\ << >> \in Seq(ScopeOf(U))
      BY ShellsOf
    <3> QED
      BY <3>1 DEF ResourceOf
  <2>3. ResourcePoints(e) = << >>
    BY EmptyShells
  <2> HIDE DEF cur, e, shells
  <2>4. /\ shells \in Seq(ResourceOf(U)) /\ Len(shells) = n + 1
        /\ \A i \in 1..n : shells[i] = cur[i]
        /\ shells[n + 1] = e
    <3>1. /\ Append(cur, e) \in Seq(ResourceOf(U)) /\ Len(Append(cur, e)) = Len(cur) + 1
          /\ \A i \in 1..Len(cur) : Append(cur, e)[i] = cur[i]
          /\ Append(cur, e)[Len(cur) + 1] = e
      BY <1>1, <2>2, AppendProperties
    <3> QED
      BY <2>1, <3>1
  <2>5. Points(shells) = Points(cur) \o << >>
    BY <1>1, <2>1, <2>2, <2>3, OneMoreResource
  <2>6. Points(cur) \o << >> = Points(cur)
    <3>1. Points(cur) \in Seq(PointOf(U))
      BY <1>1, PointsType
    <3> QED
      BY <3>1, ConcatEmptySeq
  <2> HIDE DEF n
  <2>7. shells # << >>
    <3>1. Len(<< >>) = 0 /\ n + 1 # 0
      BY <1>2
    <3> QED
      BY <2>4, <3>1
  <2>8. open.ri \in Nat /\ ri \in Nat /\ open.ri < ri /\ \A a \in 1..open.ri : a \in 1..ri /\ a \in 1..Len(req) /\ a # ri
    BY <1>1, <1>2, <1>4
  <2>9. \A i \in 1..Len(shells) : i \in 1..n \/ i = n + 1
    BY <1>2, <2>4
  <2>10. \A i \in 1..n : cur[i].resource # e.resource
    <3> SUFFICES ASSUME NEW i \in 1..n, cur[i].resource = e.resource
                 PROVE  FALSE
      OBVIOUS
    <3>1. PICK a \in 1..open.ri : cur[i].resource = req[a].resource
      BY <1>1 DEF Among, n
    <3>2. a \in 1..Len(req) /\ a # ri
      BY <2>8, <3>1
    <3> QED
      BY <2>2, <3>1, <3>2 DEF NoneTwice
  <2>11. NoneTwice(shells)
    <3> SUFFICES ASSUME NEW i \in 1..Len(shells), NEW j \in 1..Len(shells),
                        shells[i].resource = shells[j].resource
                 PROVE  i = j
      BY DEF NoneTwice
    <3>1. CASE i \in 1..n /\ j \in 1..n
      BY <1>1, <2>4, <3>1 DEF NoneTwice, n
    <3>2. CASE i \in 1..n /\ j = n + 1
      BY <2>4, <2>10, <3>2
    <3>3. CASE i = n + 1 /\ j \in 1..n
      BY <2>4, <2>10, <3>3
    <3>4. CASE i = n + 1 /\ j = n + 1
      BY <3>4
    <3> QED
      BY <2>9, <3>1, <3>2, <3>3, <3>4
  <2>12. Among(shells, req, ri)
    <3> SUFFICES ASSUME NEW i \in 1..Len(shells)
                 PROVE  \E a \in 1..ri : shells[i].resource = req[a].resource
      BY DEF Among
    <3>1. CASE i \in 1..n
      <4>1. PICK a \in 1..open.ri : cur[i].resource = req[a].resource
        BY <1>1, <3>1 DEF Among, n
      <4>2. a \in 1..ri /\ shells[i].resource = req[a].resource
        BY <2>4, <2>8, <3>1, <4>1
      <4> QED
        BY <4>2
    <3>2. CASE i = n + 1
      <4>1. ri \in 1..ri /\ shells[i].resource = req[ri].resource
        BY <2>2, <2>4, <2>8, <3>2
      <4> QED
        BY <4>1
    <3> QED
      BY <2>9, <3>1, <3>2
  <2>13. (n + 1) - 1 = n /\ \A i \in 1..n : shells[i].scopes # << >>
    BY <1>1, <1>2, <2>4 DEF NoneBare, n
  <2> QED
    BY <2>2, <2>4, <2>5, <2>6, <2>7, <2>11, <2>12, <2>13 DEF cur, shells, BareAtMostLast
<1> QED
  BY <1>3, <1>4

(* The scope shell a slice is pushed under. *)
LEMMA ScopeShell ==
  ASSUME NEW U, NEW r \in U, NEW c \in U, NEW ss \in Seq(ScopeOf(U)), NEW same \in BOOLEAN,
         same => EndsIn(ss, c)
  PROVE  /\ ScopesFor(same, ss, c) \in Seq(ScopeOf(U)) /\ EndsIn(ScopesFor(same, ss, c), c)
         /\ Under(r, ScopesFor(same, ss, c)) = Under(r, ss)
<1> DEFINE scopes == ScopesFor(same, ss, c)
           e == [scope |-> c, metrics |-> << >>]
<1>1. CASE same
  BY <1>1 DEF ScopesFor
<1>2. CASE ~same
  <2>1. scopes = Append(ss, e)
    BY <1>2 DEF ScopesFor
  <2>2. e \in ScopeOf(U) /\ e.scope = c
    <3>1. << >> \in Seq(MetricOf(U))
      OBVIOUS
    <3> QED
      BY <3>1 DEF ScopeOf
  <2>3. ScopePoints(r, e) = << >>
    BY EmptyShells
  <2> HIDE DEF e, scopes
  <2>4. scopes \in Seq(ScopeOf(U)) /\ Len(scopes) = Len(ss) + 1 /\ scopes[Len(ss) + 1] = e
    BY <2>1, <2>2, AppendProperties
  <2>5. scopes # << >>
    <3>1. Len(<< >>) = 0 /\ Len(ss) + 1 # 0
      BY LenProperties
    <3> QED
      BY <2>4, <3>1
  <2> DEFINE old == [resource |-> r, scopes |-> ss]
  <2>6. ResourcePoints([resource |-> r, scopes |-> scopes]) = ResourcePoints(old) \o << >>
    BY <2>1, <2>2, <2>3, OneMoreScope
  <2>7. ResourcePoints(old) \in Seq(PointOf(U))
    <3>1. old \in ResourceOf(U)
      BY DEF ResourceOf
    <3> HIDE DEF old
    <3> QED
      BY <3>1, ResourcePointsType
  <2>8. ResourcePoints(old) \o << >> = ResourcePoints(old)
    BY <2>7, ConcatEmptySeq
  <2> QED
    BY <2>2, <2>4, <2>5, <2>6, <2>8 DEF scopes, Under, EndsIn
<1> QED
  BY <1>1, <1>2

(* A metric put into the last scope. *)
LEMMA FilledScope ==
  ASSUME NEW U, NEW r \in U, NEW c, NEW scopes \in Seq(ScopeOf(U)), EndsIn(scopes, c),
         NEW m \in MetricOf(U)
  PROVE  /\ Filled(scopes, m) \in Seq(ScopeOf(U)) /\ EndsIn(Filled(scopes, m), c)
         /\ Under(r, Filled(scopes, m)) = Under(r, scopes) \o MetricPoints(r, c, m)
<1> DEFINE filled == Filled(scopes, m)
           last == scopes[Len(scopes)]
           ms == last.metrics
           old == [scope |-> c, metrics |-> ms]
           new == [scope |-> c, metrics |-> Append(ms, m)]
<1>1. PICK f \in Seq(ScopeOf(U)) :
        /\ Len(f) = Len(scopes) - 1 /\ last \in ScopeOf(U)
        /\ scopes = Append(f, last)
        /\ \A e \in ScopeOf(U) : [scopes EXCEPT ![Len(scopes)] = e] = Append(f, e)
  <2>1. scopes # << >>
    BY DEF EndsIn
  <2>2. PICK f \in Seq(ScopeOf(U)) : FrontOf(f, scopes, ScopeOf(U))
    BY <2>1, LastOne
  <2> QED
    BY <2>2 DEF FrontOf
<1> HIDE DEF last
<1>2. last.scope = c
  BY DEF last, EndsIn
<1>3. c \in U /\ ms \in Seq(MetricOf(U)) /\ last = old
  BY <1>1, <1>2 DEF ScopeOf
<1>4. Append(ms, m) \in Seq(MetricOf(U))
  BY <1>3, AppendProperties
<1>5. new \in ScopeOf(U) /\ old \in ScopeOf(U)
  BY <1>3, <1>4 DEF ScopeOf
<1>6. [last EXCEPT !.metrics = Append(ms, m)] = new
  <2>1. ASSUME NEW x
        PROVE  [last EXCEPT !.metrics = x] = [scope |-> last.scope, metrics |-> x]
    BY <1>1 DEF ScopeOf
  <2> QED
    BY <1>2, <2>1
<1>7. filled = [scopes EXCEPT ![Len(scopes)] = [last EXCEPT !.metrics = Append(last.metrics, m)]]
  BY DEF last, Filled
<1>a. new.scope = c
  OBVIOUS
<1>8. ScopePoints(r, new) = ScopePoints(r, old) \o MetricPoints(r, c, m)
  <2> HIDE DEF ms
  <2> QED
    BY <1>3, OneMoreMetric
<1>9. filled = Append(f, new)
  BY <1>1, <1>5, <1>6, <1>7
<1> HIDE DEF new, old, filled
<1>10. filled \in Seq(ScopeOf(U)) /\ Len(filled) = Len(f) + 1 /\ filled[Len(f) + 1] = new
  <2>1. /\ Append(f, new) \in Seq(ScopeOf(U)) /\ Len(Append(f, new)) = Len(f) + 1
        /\ Append(f, new)[Len(f) + 1] = new
    BY <1>5, AppendProperties
  <2> QED
    BY <1>9, <2>1
<1>11. filled # << >>
  <2>1. Len(<< >>) = 0 /\ Len(f) + 1 # 0
    BY LenProperties
  <2> QED
    BY <1>10, <2>1
<1> DEFINE R(ss) == Under(r, ss)
<1>12. R(Append(f, new)) = R(f) \o ScopePoints(r, new) /\ R(Append(f, old)) = R(f) \o ScopePoints(r, old)
  BY <1>5, OneMoreScope DEF Under
<1>13. R(f) \in Seq(PointOf(U))
  <2> DEFINE e == [resource |-> r, scopes |-> f]
  <2>1. e \in ResourceOf(U)
    BY DEF ResourceOf
  <2> HIDE DEF e
  <2>2. ResourcePoints(e) \in Seq(PointOf(U))
    BY <2>1, ResourcePointsType
  <2> QED
    BY <2>2 DEF e, Under
<1>14. ScopePoints(r, old) \in Seq(PointOf(U)) /\ MetricPoints(r, c, m) \in Seq(PointOf(U))
  BY <1>3, <1>5, ScopePointsType, MetricPointsType
<1> HIDE DEF R
<1>15. R(f) \o (ScopePoints(r, old) \o MetricPoints(r, c, m))
         = (R(f) \o ScopePoints(r, old)) \o MetricPoints(r, c, m)
  <2>1. \A x, y, z \in Seq(PointOf(U)) : (x \o y) \o z = x \o (y \o z)
    BY ConcatAssociative
  <2> QED
    BY <1>13, <1>14, <2>1
<1>16. R(filled) = R(scopes) \o MetricPoints(r, c, m)
  BY <1>1, <1>3, <1>8, <1>9, <1>12, <1>15
<1> QED
  BY <1>10, <1>11, <1>16, <1>a DEF R, filled, EndsIn

\* The last resource of shells can take the scopes filled, which hold d more.
CanTake(U, shells, filled, d) ==
  /\ shells # << >> /\ filled # << >>
  /\ Under(shells[Len(shells)].resource, filled) = ResourcePoints(shells[Len(shells)]) \o d
  /\ BareAtMostLast(shells)

(* A chunk whose last resource gets more scopes or points. *)
LEMMA LastRefilled ==
  ASSUME NEW U, NEW shells \in Seq(ResourceOf(U)), NEW filled \in Seq(ScopeOf(U)),
         NEW d \in Seq(PointOf(U)), CanTake(U, shells, filled, d)
  PROVE  LET cur == Refilled(shells, filled) IN
         /\ cur \in Seq(ResourceOf(U)) /\ cur # << >> /\ Len(cur) = Len(shells)
         /\ \A i \in 1..Len(cur) : cur[i].resource = shells[i].resource
         /\ cur[Len(cur)].scopes = filled
         /\ NoneBare(cur)
         /\ Points(cur) = Points(shells) \o d
<1> DEFINE cur == Refilled(shells, filled)
           n == Len(shells)
           last == shells[n]
           new == [resource |-> last.resource, scopes |-> filled]
<1>1. PICK f \in Seq(ResourceOf(U)) : FrontOf(f, shells, ResourceOf(U))
  <2>1. shells # << >>
    BY DEF CanTake
  <2> QED
    BY <2>1, LastOne
<1>d. /\ Len(f) = n - 1 /\ last \in ResourceOf(U)
      /\ \A i \in 1..Len(f) : f[i] = shells[i]
      /\ shells = Append(f, last)
      /\ \A e \in ResourceOf(U) : [shells EXCEPT ![n] = e] = Append(f, e)
  BY <1>1 DEF FrontOf
<1>2. n \in Nat /\ n # 0
  BY LenProperties, EmptySeq DEF CanTake
<1>3. cur = [shells EXCEPT ![n] = [last EXCEPT !.scopes = filled]]
  BY DEF Refilled
<1>a. ResourcePoints(new) = ResourcePoints(last) \o d
  BY DEF CanTake, Under
<1>b. \A i \in 1..(n - 1) : shells[i].scopes # << >>
  BY DEF CanTake, BareAtMostLast
<1>c. last = shells[n] /\ filled # << >>
  BY DEF CanTake
<1> HIDE DEF n, last, cur
<1>4. [last EXCEPT !.scopes = filled] = new
  <2>1. ASSUME NEW x
        PROVE  [last EXCEPT !.scopes = x] = [resource |-> last.resource, scopes |-> x]
    BY <1>d DEF ResourceOf
  <2> QED
    BY <2>1
<1>5. new \in ResourceOf(U) /\ new.resource = last.resource /\ new.scopes = filled
  BY <1>d DEF ResourceOf
<1> HIDE DEF new
<1>6. cur = Append(f, new)
  BY <1>d, <1>3, <1>4, <1>5
<1>7. /\ cur \in Seq(ResourceOf(U)) /\ Len(cur) = n /\ cur # << >>
      /\ \A i \in 1..(n - 1) : cur[i] = shells[i]
      /\ cur[n] = new
  <2>1. /\ Append(f, new) \in Seq(ResourceOf(U)) /\ Len(Append(f, new)) = Len(f) + 1
        /\ Append(f, new) # << >>
        /\ \A i \in 1..Len(f) : Append(f, new)[i] = f[i]
        /\ Append(f, new)[Len(f) + 1] = new
    BY <1>5, AppendShape
  <2>2. Len(f) + 1 = n /\ Len(f) = n - 1
    BY <1>d, <1>2
  <2> QED
    BY <1>d, <1>6, <2>1, <2>2
<1>8. \A i \in 1..n : i \in 1..(n - 1) \/ i = n
  BY <1>2
<1>9. \A i \in 1..n : cur[i].resource = shells[i].resource
  BY <1>5, <1>7, <1>8, <1>c
<1>10. NoneBare(cur)
  BY <1>5, <1>7, <1>8, <1>b, <1>c DEF NoneBare
<1>12. Points(cur) = Points(f) \o ResourcePoints(new) /\ Points(shells) = Points(f) \o ResourcePoints(last)
  <2>1. \A e \in ResourceOf(U) : Points(Append(f, e)) = Points(f) \o ResourcePoints(e)
    BY OneMoreResource
  <2> QED
    BY <1>d, <1>5, <1>6, <2>1
<1>13. Points(f) \in Seq(PointOf(U)) /\ ResourcePoints(last) \in Seq(PointOf(U))
  BY <1>d, PointsType, ResourcePointsType
<1>14. Points(f) \o (ResourcePoints(last) \o d) = (Points(f) \o ResourcePoints(last)) \o d
  <2>1. Associates(PointOf(U))
    BY Associative
  <2> QED
    BY <1>13, <2>1 DEF Associates
<1> QED
  BY <1>5, <1>7, <1>9, <1>10, <1>12, <1>14, <1>a DEF n, cur

OpenIn(U, req) ==
  {open \in [current : Seq(ResourceOf(U)), points : Nat, ri : Nat, si : Nat] : OpenOk(U, req, open)}

(* Pushing a slice adds its points at the end, under its own shells. *)
LEMMA PushKeeps ==
  ASSUME NEW U, NEW max, NEW req \in Seq(ResourceOf(U)), NoneTwice(req),
         NEW open \in OpenIn(U, req), NEW s \in SliceOf(U, req, max), open.ri <= s.ri
  PROVE  /\ Push(req, open, s) \in OpenIn(U, req) /\ Push(req, open, s).ri = s.ri
         /\ Push(req, open, s).points = open.points + point_count(s.metric)
         /\ Points(Push(req, open, s).current) = Points(open.current) \o SlicePoints(req, s)
<1> DEFINE ri == s.ri
           si == s.si
           r == req[ri].resource
           c == req[ri].scopes[si].scope
           m == s.metric
           shells == ShellsFor(req, open, ri)
           last == shells[Len(shells)]
           same == open.ri = ri /\ open.si = si
           scopes == ScopesFor(same, last.scopes, c)
           filled == Filled(scopes, m)
           cur == Refilled(shells, filled)
           new == Push(req, open, s)
           d == MetricPoints(r, c, m)
<1>0. OpenOk(U, req, open)
  BY DEF OpenIn
<1>1. /\ ri \in 1..Len(req) /\ si \in 1..Len(req[ri].scopes) /\ m \in MetricOf(U)
      /\ point_count(m) \in 1..max /\ si \in Nat
  BY DEF SliceOf
<1>2. new = [current |-> cur, points |-> open.points + point_count(m), ri |-> ri, si |-> si]
  BY DEF Push, ShellsFor, ScopesFor, Filled, Refilled
<1>4. r \in U /\ c \in U
  BY <1>1, ShellsOf
<1>5. d \in Seq(PointOf(U)) /\ Len(d) = point_count(m) /\ SlicePoints(req, s) = d
  BY <1>1, <1>4, MetricPointsType DEF SlicePoints
<1>a. last = shells[Len(shells)] /\ same \in BOOLEAN /\ open.ri <= ri
  OBVIOUS
<1>b. same => open.ri = ri /\ open.si = si /\ shells = open.current
  BY DEF ShellsFor
<1> HIDE DEF new, d, cur, same, m, ri, si
<1>3. new.current = cur /\ new.points = open.points + point_count(m) /\ new.ri = ri /\ new.si = si
  BY <1>2
<1>6. /\ shells \in Seq(ResourceOf(U)) /\ shells # << >>
      /\ last.resource = r
      /\ Points(shells) = Points(open.current)
      /\ NoneTwice(shells) /\ Among(shells, req, ri)
      /\ BareAtMostLast(shells)
  BY <1>0, <1>1, <1>a, ResourceShell
<1> HIDE DEF shells, last
<1>7. last \in ResourceOf(U) /\ last.scopes \in Seq(ScopeOf(U))
      /\ last = [resource |-> r, scopes |-> last.scopes]
  <2>1. PICK f \in Seq(ResourceOf(U)) : FrontOf(f, shells, ResourceOf(U))
    BY <1>6, LastOne
  <2>2. last \in ResourceOf(U)
    BY <1>a, <2>1 DEF FrontOf
  <2> QED
    BY <1>6, <2>2 DEF ResourceOf
<1>8. same => EndsIn(last.scopes, c)
  <2> SUFFICES ASSUME same
               PROVE  EndsIn(last.scopes, c)
    OBVIOUS
  <2>2. ri # 0
    <3>1. Len(req) \in Nat
      BY LenProperties
    <3> QED
      BY <1>1, <3>1
  <2>3. Mirrors(open.current, req, ri, si)
    BY <1>0, <1>b, <2>2 DEF OpenOk
  <2> QED
    BY <1>a, <1>b, <2>3 DEF Mirrors, EndsIn
<1> HIDE DEF r, c
<1>9. /\ scopes \in Seq(ScopeOf(U)) /\ EndsIn(scopes, c)
      /\ Under(r, scopes) = Under(r, last.scopes)
  BY <1>4, <1>7, <1>8, <1>a, ScopeShell
<1> HIDE DEF scopes
<1>10. /\ filled \in Seq(ScopeOf(U)) /\ EndsIn(filled, c)
       /\ Under(r, filled) = Under(r, scopes) \o d
  <2>1. r \in U /\ m \in MetricOf(U) /\ scopes \in Seq(ScopeOf(U)) /\ EndsIn(scopes, c)
    BY <1>1, <1>4, <1>9
  <2> QED
    BY <2>1, FilledScope, Zenon DEF d
<1> HIDE DEF filled
<1>11. CanTake(U, shells, filled, d)
  <2>1. Under(r, filled) = ResourcePoints(last) \o d
    BY <1>7, <1>9, <1>10 DEF Under
  <2> QED
    BY <1>6, <1>10, <1>a, <2>1 DEF CanTake, EndsIn
<1>12. /\ cur \in Seq(ResourceOf(U)) /\ cur # << >> /\ Len(cur) = Len(shells)
       /\ \A i \in 1..Len(cur) : cur[i].resource = shells[i].resource
       /\ cur[Len(cur)].scopes = filled
       /\ NoneBare(cur)
       /\ Points(cur) = Points(shells) \o d
  BY <1>5, <1>6, <1>10, <1>11, LastRefilled DEF cur
<1>13. Len(cur) \in Nat /\ Len(cur) \in 1..Len(cur) /\ Len(req) \in Nat
  <2>1. Len(cur) \in Nat /\ Len(cur) # 0 /\ Len(req) \in Nat
    BY <1>12, LenProperties, EmptySeq
  <2> QED
    BY <2>1
<1>14. Mirrors(cur, req, ri, si)
  <2>1. cur[Len(cur)].resource = r
    <3>1. cur[Len(cur)].resource = shells[Len(cur)].resource
      BY <1>12, <1>13
    <3> QED
      BY <1>6, <1>12, <1>a, <3>1
  <2> QED
    BY <1>1, <1>10, <1>12, <2>1 DEF Mirrors, r, c, EndsIn
<1>15. NoneTwice(cur) /\ Among(cur, req, ri)
  <2>1. NoneTwice(cur)
    BY <1>6, <1>12 DEF NoneTwice
  <2>2. Among(cur, req, ri)
    BY <1>6, <1>12 DEF Among
  <2> QED
    BY <2>1, <2>2
<1>16. new.points = Len(Points(cur))
  <2>1. Points(open.current) \in Seq(PointOf(U)) /\ open.points = Len(Points(open.current))
    <3>1. open.current \in Seq(ResourceOf(U)) /\ open.points = Len(Points(open.current))
      BY <1>0 DEF OpenOk
    <3> QED
      BY <3>1, PointsType
  <2>2. Len(Points(open.current) \o d) = Len(Points(open.current)) + Len(d)
    BY <1>5, <2>1, ConcatProperties
  <2> QED
    BY <1>3, <1>5, <1>6, <1>12, <2>1, <2>2
<1>17. ri \in 0..Len(req) /\ ri # 0
  BY <1>1, <1>13
<1>18. OpenOk(U, req, new)
  BY <1>3, <1>12, <1>14, <1>15, <1>16, <1>17 DEF OpenOk
<1>19. new \in OpenIn(U, req)
  <2>1. Points(cur) \in Seq(PointOf(U))
    BY <1>12, PointsType
  <2>2. new.points \in Nat /\ ri \in Nat
    BY <1>1, <1>13, <1>16, <2>1, LenProperties
  <2>3. new \in [current : Seq(ResourceOf(U)), points : Nat, ri : Nat, si : Nat]
    BY <1>1, <1>2, <1>3, <1>12, <2>2
  <2> QED
    BY <1>18, <2>3 DEF OpenIn
<1> QED
  BY <1>3, <1>5, <1>6, <1>12, <1>19 DEF new, m, ri

OfRequest(U) == [req \in Seq(ResourceOf(U)) |-> Points(req)]

(* Points as a function. *)
LEMMA OfRequestMaps ==
  ASSUME NEW U
  PROVE  /\ IsMap(OfRequest(U), Seq(ResourceOf(U)), Seq(PointOf(U)))
         /\ \A req \in Seq(ResourceOf(U)) : OfRequest(U)[req] = Points(req)
<1>1. \A req \in Seq(ResourceOf(U)) : Points(req) \in Seq(PointOf(U))
  BY PointsType
<1> QED
  BY <1>1 DEF IsMap, OfRequest

\* A chunk that may be sent, and chunks none of which could have taken the
\* next one too.
ChunkOk(chunk, max) == Len(Points(chunk)) \in 1..max /\ NoneTwice(chunk) /\ NoneBare(chunk)
ChunksOk(chunks, max) == \A k \in 1..Len(chunks) : ChunkOk(chunks[k], max)
Tight(chunks, max) ==
  \A k \in 2..Len(chunks) : Len(Points(chunks[k - 1])) + Len(Points(chunks[k])) > max

AccOf(U, req) == [chunks : Seq(Seq(ResourceOf(U))), open : OpenIn(U, req)]

\* What holds once slices with the points pts are taken.
PackOk(U, max, acc, pts) ==
  /\ Gather(OfRequest(U), acc.chunks) \o Points(acc.open.current) = pts
  /\ acc.open.points <= max
  /\ ChunksOk(acc.chunks, max) /\ Tight(acc.chunks, max)
  /\ acc.chunks # << >> =>
       Len(Points(acc.chunks[Len(acc.chunks)])) + acc.open.points > max

(* A request appended adds its points. *)
LEMMA OneMoreRequest ==
  ASSUME NEW U, NEW chunks \in Seq(Seq(ResourceOf(U))), NEW c \in Seq(ResourceOf(U))
  PROVE  Gather(OfRequest(U), Append(chunks, c)) = Gather(OfRequest(U), chunks) \o Points(c)
<1>1. IsMap(OfRequest(U), Seq(ResourceOf(U)), Seq(PointOf(U))) /\ OfRequest(U)[c] = Points(c)
  BY OfRequestMaps
<1>2. Appends(OfRequest(U), Seq(ResourceOf(U)))
  BY <1>1, GatherAppends, Zenon
<1> QED
  BY <1>1, <1>2, Zenon DEF Appends

(* One more chunk. *)
LEMMA OneMoreChunk ==
  ASSUME NEW U, NEW max \in Nat, NEW chunks \in Seq(Seq(ResourceOf(U))), NEW c \in Seq(ResourceOf(U)),
         ChunksOk(chunks, max), Tight(chunks, max), ChunkOk(c, max),
         chunks # << >> => Len(Points(chunks[Len(chunks)])) + Len(Points(c)) > max
  PROVE  /\ Append(chunks, c) \in Seq(Seq(ResourceOf(U)))
         /\ ChunksOk(Append(chunks, c), max) /\ Tight(Append(chunks, c), max)
         /\ Gather(OfRequest(U), Append(chunks, c)) = Gather(OfRequest(U), chunks) \o Points(c)
<1> DEFINE n == Len(chunks)
           a == Append(chunks, c)
<1>1. /\ a \in Seq(Seq(ResourceOf(U))) /\ Len(a) = n + 1
      /\ \A i \in 1..n : a[i] = chunks[i]
      /\ a[n + 1] = c
      /\ n \in Nat
  BY AppendShape
<1>2. Gather(OfRequest(U), a) = Gather(OfRequest(U), chunks) \o Points(c)
  BY OneMoreRequest
<1>3. n # 0 => chunks # << >>
  BY EmptySeq
<1>4. \A k \in 1..n : ChunkOk(chunks[k], max)
  BY DEF ChunksOk
<1>5. \A k \in 2..n : Len(Points(chunks[k - 1])) + Len(Points(chunks[k])) > max
  BY DEF Tight
<1>6. n # 0 => Len(Points(chunks[n])) + Len(Points(c)) > max
  BY <1>3
<1> HIDE DEF n, a
<1>7. ChunksOk(a, max)
  <2>1. \A k \in 1..Len(a) : k \in 1..n \/ k = n + 1
    BY <1>1
  <2> QED
    BY <1>1, <1>4, <2>1 DEF ChunksOk
<1>8. Tight(a, max)
  <2> SUFFICES ASSUME NEW k \in 2..Len(a)
               PROVE  Len(Points(a[k - 1])) + Len(Points(a[k])) > max
    BY DEF Tight
  <2>1. CASE k = n + 1
    <3>1. k - 1 = n /\ n # 0 /\ n \in 1..n
      BY <1>1, <2>1
    <3> QED
      BY <1>1, <1>6, <2>1, <3>1
  <2>2. CASE k # n + 1
    <3>1. k \in 2..n /\ k \in 1..n /\ k - 1 \in 1..n
      BY <1>1, <2>2
    <3> QED
      BY <1>1, <1>5, <3>1
  <2> QED
    BY <2>1, <2>2
<1> QED
  BY <1>1, <1>2, <1>7, <1>8 DEF a

(* Before the first slice of a chunk nothing is open. *)
LEMMA ClosedIsOpen ==
  ASSUME NEW U, NEW req \in Seq(ResourceOf(U))
  PROVE  /\ Closed \in OpenIn(U, req) /\ Closed.ri = 0 /\ Closed.points = 0
         /\ Closed.current = << >> /\ Points(Closed.current) = << >>
<1>1. Closed.ri = 0 /\ Closed.points = 0 /\ Closed.current = << >>
  BY DEF Closed
<1>2. Points(<< >>) = << >> /\ Len(<< >>) = 0 /\ \A i \in 1..0 : FALSE
  <2>1. Points(<< >>) = << >>
    BY DEF Points, FlattenSeq
  <2> QED
    BY <2>1
<1>3. Len(req) \in Nat
  BY LenProperties
<1>4. << >> \in Seq(ResourceOf(U))
  OBVIOUS
<1>5. 0 \in 0..Len(req)
  BY <1>3
<1>6. NoneTwice(<< >>) /\ NoneBare(<< >>) /\ Among(<< >>, req, 0)
  BY <1>2 DEF NoneTwice, NoneBare, Among
<1>7. OpenOk(U, req, Closed)
  BY <1>1, <1>2, <1>4, <1>5, <1>6 DEF OpenOk
<1>8. Closed \in [current : Seq(ResourceOf(U)), points : Nat, ri : Nat, si : Nat]
  BY <1>4 DEF Closed
<1> QED
  BY <1>1, <1>2, <1>7, <1>8 DEF OpenIn

(* Taking a slice, into the open chunk or a new one, keeps PackOk. *)
LEMMA TakeKeeps ==
  ASSUME NEW U, NEW max \in Nat \ {0}, NEW req \in Seq(ResourceOf(U)), NoneTwice(req),
         NEW acc \in AccOf(U, req), NEW pts, PackOk(U, max, acc, pts),
         NEW s \in SliceOf(U, req, max), acc.open.ri <= s.ri
  PROVE  /\ Take(req, max, acc, s) \in AccOf(U, req)
         /\ Take(req, max, acc, s).open.ri = s.ri
         /\ PackOk(U, max, Take(req, max, acc, s), pts \o SlicePoints(req, s))
<1> DEFINE open == acc.open
           chunks == acc.chunks
           cur == open.current
           cnt == point_count(s.metric)
           new == Take(req, max, acc, s)
           G == Gather(OfRequest(U), chunks)
           d == SlicePoints(req, s)
<1>1. open \in OpenIn(U, req) /\ chunks \in Seq(Seq(ResourceOf(U))) /\ acc = [chunks |-> chunks, open |-> open]
  BY DEF AccOf
<1>2. /\ cur \in Seq(ResourceOf(U)) /\ open.points = Len(Points(cur)) /\ NoneTwice(cur) /\ NoneBare(cur)
      /\ open.points \in Nat
  BY <1>1 DEF OpenIn, OpenOk
<1>3. /\ G \o Points(cur) = pts /\ open.points <= max
      /\ ChunksOk(chunks, max) /\ Tight(chunks, max)
      /\ chunks # << >> => Len(Points(chunks[Len(chunks)])) + open.points > max
  BY DEF PackOk
<1>4. cnt \in 1..max /\ cnt \in Nat /\ d \in Seq(PointOf(U)) /\ Len(d) = cnt
  <2>1. cnt \in 1..max
    BY DEF SliceOf
  <2>2. d \in Seq(PointOf(U)) /\ Len(d) = cnt
    BY OfSliceMaps
  <2> QED
    BY <2>1, <2>2
<1>5. Points(cur) \in Seq(PointOf(U)) /\ G \in Seq(PointOf(U))
  BY <1>1, <1>2, PointsType, OfRequestMaps, GatherType
<1>6. open.ri <= s.ri
  OBVIOUS
<1>7. s.ri \in Nat
  BY LenProperties DEF SliceOf
<1>a. Overflows(open, s, max) <=> open.points + cnt > max /\ open.points > 0
  BY DEF Overflows
<1>b. /\ Overflows(open, s, max) =>
           new = [chunks |-> Append(chunks, cur), open |-> Push(req, Closed, s)]
      /\ ~Overflows(open, s, max) => new = [chunks |-> chunks, open |-> Push(req, open, s)]
  BY DEF Take
<1> HIDE DEF open, chunks, cur, cnt, new, G, d
<1>8. CASE Overflows(open, s, max)
  <2> DEFINE o == Push(req, Closed, s)
             cc == Append(chunks, cur)
  <2>0. open.points > 0 /\ open.points + cnt > max
    BY <1>8, <1>a
  <2>1. /\ o \in OpenIn(U, req) /\ o.ri = s.ri /\ o.points = 0 + cnt
        /\ Points(o.current) = << >> \o d
    <3>1. Closed \in OpenIn(U, req) /\ Closed.ri <= s.ri
          /\ Closed.points = 0 /\ Points(Closed.current) = << >>
      BY <1>7, ClosedIsOpen
    <3>2. PICK x \in OpenIn(U, req) : x = Closed
      BY <3>1
    <3>3. x.ri <= s.ri
      BY <3>1, <3>2
    <3>4. /\ Push(req, x, s) \in OpenIn(U, req) /\ Push(req, x, s).ri = s.ri
          /\ Push(req, x, s).points = x.points + cnt
          /\ Points(Push(req, x, s).current) = Points(x.current) \o d
      BY <3>3, PushKeeps DEF cnt, d
    <3> QED
      BY <3>1, <3>2, <3>4
  <2>2. << >> \o d = d
    BY <1>4, ConcatEmptySeq
  <2>3. ChunkOk(cur, max)
    <3>1. Len(Points(cur)) \in 1..max
      BY <1>2, <1>3, <2>0
    <3> QED
      BY <1>2, <3>1 DEF ChunkOk
  <2>4. /\ cc \in Seq(Seq(ResourceOf(U)))
        /\ ChunksOk(cc, max) /\ Tight(cc, max)
        /\ Gather(OfRequest(U), cc) = G \o Points(cur)
    <3>1. chunks # << >> => Len(Points(chunks[Len(chunks)])) + Len(Points(cur)) > max
      BY <1>2, <1>3
    <3> QED
      BY <1>1, <1>2, <1>3, <2>3, <3>1, OneMoreChunk DEF G
  <2>5. cc[Len(cc)] = cur
    BY <1>1, <1>2, AppendShape
  <2> HIDE DEF o, cc
  <2>6. new = [chunks |-> cc, open |-> o]
    BY <1>8, <1>b DEF o, cc
  <2>7. new \in AccOf(U, req) /\ new.chunks = cc /\ new.open = o
    BY <2>1, <2>4, <2>6 DEF AccOf
  <2>8. o.points <= max /\ Len(Points(cur)) + o.points > max
    BY <1>2, <1>4, <2>0, <2>1
  <2>9. Gather(OfRequest(U), cc) \o Points(o.current) = pts \o d
    BY <1>3, <2>1, <2>2, <2>4
  <2>10. PackOk(U, max, new, pts \o d)
    BY <2>4, <2>5, <2>7, <2>8, <2>9 DEF PackOk
  <2> QED
    BY <2>1, <2>7, <2>10 DEF new, d
<1>9. CASE ~Overflows(open, s, max)
  <2> DEFINE o == Push(req, open, s)
  <2>1. /\ o \in OpenIn(U, req) /\ o.ri = s.ri /\ o.points = open.points + cnt
        /\ Points(o.current) = Points(cur) \o d
    BY <1>1, <1>6, PushKeeps DEF cnt, d, cur
  <2> HIDE DEF o
  <2>2. new = [chunks |-> chunks, open |-> o]
    BY <1>9, <1>b DEF o
  <2>3. new \in AccOf(U, req) /\ new.chunks = chunks /\ new.open = o
    BY <1>1, <2>1, <2>2 DEF AccOf
  <2>4. o.points <= max
    BY <1>2, <1>4, <1>9, <1>a, <2>1
  <2>5. chunks # << >> => Len(Points(chunks[Len(chunks)])) + o.points > max
    <3> SUFFICES ASSUME chunks # << >>
                 PROVE  Len(Points(chunks[Len(chunks)])) + o.points > max
      OBVIOUS
    <3> DEFINE l == Len(Points(chunks[Len(chunks)]))
    <3>1. l + open.points > max
      BY <1>3
    <3>2. l \in Nat
      <4>1. Len(chunks) \in 1..Len(chunks)
        <5>1. Len(chunks) \in Nat /\ Len(chunks) # 0
          BY <1>1, LenProperties, EmptySeq
        <5> QED
          BY <5>1
      <4>2. chunks[Len(chunks)] \in Seq(ResourceOf(U))
        BY <1>1, <4>1, ElementOfSeq
      <4>3. Points(chunks[Len(chunks)]) \in Seq(PointOf(U))
        BY <4>2, PointsType
      <4> QED
        BY <4>3, LenProperties
    <3> HIDE DEF l
    <3>3. l + o.points > max
      BY <1>2, <1>4, <2>1, <3>1, <3>2
    <3> QED
      BY <3>3 DEF l
  <2>6. G \o Points(o.current) = pts \o d
    <3>1. Associates(PointOf(U))
      BY Associative
    <3>2. (G \o Points(cur)) \o d = G \o (Points(cur) \o d)
      BY <1>4, <1>5, <3>1 DEF Associates
    <3> QED
      BY <1>3, <2>1, <3>2
  <2>7. PackOk(U, max, new, pts \o d)
    BY <1>3, <2>3, <2>4, <2>5, <2>6 DEF PackOk, G
  <2> QED
    BY <2>1, <2>3, <2>7 DEF new, d
<1> QED
  BY <1>8, <1>9

(* Packing all slices of a request keeps all its points. *)
LEMMA PackedKeeps ==
  ASSUME NEW U, NEW max \in Nat \ {0}, NEW req \in Seq(ResourceOf(U)), NoneTwice(req),
         NEW slices \in Seq(SliceOf(U, req, max)), InOrder(slices)
  PROVE  /\ Packed(req, max, slices) \in AccOf(U, req)
         /\ PackOk(U, max, Packed(req, max, slices), Gather(OfSlice(U, req, max), slices))
<1> DEFINE n == Len(slices)
           S == AccOf(U, req)
           first == [chunks |-> << >>, open |-> Closed]
           F == OfSlice(U, req, max)
           tt == FMap(F, slices)
<1>1. n \in Nat /\ \A i \in 1..n : slices[i] \in SliceOf(U, req, max)
  BY LenProperties, ElementOfSeq
<1>2. /\ IsMap(F, SliceOf(U, req, max), Seq(PointOf(U)))
      /\ \A i \in 1..n : F[slices[i]] = SlicePoints(req, slices[i]) /\ SlicePoints(req, slices[i]) \in Seq(PointOf(U))
  BY <1>1, OfSliceMaps
<1>3. tt \in Seq(Seq(PointOf(U))) /\ Len(tt) = n /\ \A i \in 1..n : tt[i] = F[slices[i]]
  BY <1>2, MapShape
<1>4. PICK g : Flattens(g, tt, PointOf(U)) /\ FlattenSeq(tt) = g[n]
  BY <1>3, FlattenBy
<1>5. /\ g[0] = << >> /\ \A i \in 1..n : g[i] = g[i - 1] \o SlicePoints(req, slices[i])
      /\ Gather(F, slices) = g[n]
  BY <1>2, <1>3, <1>4 DEF Flattens, Gather
<1>6. \A i, j \in 1..n : i <= j => slices[i].ri <= slices[j].ri
  BY DEF InOrder
<1> HIDE DEF n, F, tt
<1>7. first \in S /\ PackOk(U, max, first, << >>) /\ first.open.ri = 0
  <2>1. /\ Closed \in OpenIn(U, req) /\ Closed.ri = 0 /\ Closed.points = 0
        /\ Points(Closed.current) = << >>
    BY ClosedIsOpen
  <2>2. first.chunks = << >> /\ first.open = Closed /\ << >> \in Seq(Seq(ResourceOf(U)))
    OBVIOUS
  <2>3. first \in S
    BY <2>1 DEF AccOf
  <2> HIDE DEF first
  <2>4. Gather(OfRequest(U), << >>) = << >>
    BY GatherEmpty
  <2>5. << >> \o << >> = << >>
    OBVIOUS
  <2>6. Len(<< >>) = 0 /\ (\A i \in 1..0 : FALSE) /\ (\A i \in 2..0 : FALSE) /\ 0 <= max
    OBVIOUS
  <2>7. ChunksOk(<< >>, max) /\ Tight(<< >>, max)
    BY <2>6 DEF ChunksOk, Tight
  <2> QED
    BY <2>1, <2>2, <2>3, <2>4, <2>5, <2>6, <2>7 DEF PackOk
<1> DEFINE Fits(acc, i) == PackOk(U, max, acc, g[i - 1]) /\ acc.open.ri <= slices[i].ri
           step == [p \in S \X (1..n) |-> IF Fits(p[1], p[2]) THEN Take(req, max, p[1], slices[p[2]]) ELSE p[1]]
<1>8. \A acc \in S, i \in 1..n : Fits(acc, i) =>
        /\ Take(req, max, acc, slices[i]) \in S
        /\ Take(req, max, acc, slices[i]).open.ri = slices[i].ri
        /\ PackOk(U, max, Take(req, max, acc, slices[i]), g[i - 1] \o SlicePoints(req, slices[i]))
  BY <1>1, TakeKeeps
<1>9. step \in [S \X (1..n) -> S]
  <2> HIDE DEF S, Fits
  <2> QED
    BY <1>8
<1>10. \A acc \in S, i \in 1..n : Fits(acc, i) => step[<<acc, i>>] = Take(req, max, acc, slices[i])
  <2> HIDE DEF S, Fits
  <2> QED
    OBVIOUS
<1> HIDE DEF step, first, S
<1>11. PICK h : Recurs(h, S, n, first, step)
  BY <1>1, <1>7, <1>9, Recursion
<1>12. h \in [0..n -> S] /\ h[0] = first /\ \A i \in 1..n : h[i] = step[<<h[i - 1], i>>]
  BY <1>11 DEF Recurs
<1> DEFINE P == {i \in 0..n : /\ PackOk(U, max, h[i], g[i])
                              /\ IF i = 0 THEN h[i].open.ri = 0
                                 ELSE h[i] = Take(req, max, h[i - 1], slices[i]) /\ h[i].open.ri = slices[i].ri}
<1>13. 0 \in P
  BY <1>1, <1>5, <1>7, <1>12
<1>14. ASSUME NEW i \in 0..(n - 1), i \in P
       PROVE  i + 1 \in P
  <2>1. i + 1 \in 1..n /\ i + 1 \in 0..n /\ i \in 0..n /\ (i + 1) - 1 = i /\ i + 1 # 0
    BY <1>1
  <2>2. h[i] \in S /\ slices[i + 1] \in SliceOf(U, req, max)
    BY <1>1, <1>12, <2>1
  <2>3. slices[i + 1].ri \in 1..Len(req) /\ Len(req) \in Nat
    BY <2>2, LenProperties DEF SliceOf
  <2>4. h[i].open.ri <= slices[i + 1].ri
    <3>1. CASE i = 0
      BY <1>14, <2>3, <3>1
    <3>2. CASE i # 0
      <4>1. i \in 1..n /\ i <= i + 1
        BY <1>1, <3>2
      <4> QED
        BY <1>6, <1>14, <2>1, <3>2, <4>1
    <3> QED
      BY <3>1, <3>2
  <2>5. Fits(h[i], i + 1)
    BY <1>14, <2>1, <2>4
  <2>6. h[i + 1] = Take(req, max, h[i], slices[i + 1])
    <3>1. h[i + 1] = step[<<h[i], i + 1>>]
      BY <1>12, <2>1
    <3> HIDE DEF Fits
    <3> QED
      BY <1>10, <2>1, <2>2, <2>5, <3>1
  <2>7. h[i + 1].open.ri = slices[i + 1].ri
        /\ PackOk(U, max, h[i + 1], g[i] \o SlicePoints(req, slices[i + 1]))
    <3>1. /\ Take(req, max, h[i], slices[i + 1]).open.ri = slices[i + 1].ri
          /\ PackOk(U, max, Take(req, max, h[i], slices[i + 1]), g[(i + 1) - 1] \o SlicePoints(req, slices[i + 1]))
      <4> HIDE DEF Fits
      <4> QED
        BY <1>8, <2>1, <2>2, <2>5
    <3> QED
      BY <2>1, <2>6, <3>1
  <2>8. g[i + 1] = g[i] \o SlicePoints(req, slices[i + 1])
    BY <1>5, <2>1
  <2> QED
    BY <2>1, <2>6, <2>7, <2>8
<1>15. \A i \in 0..n : i \in P
  <2> HIDE DEF P
  <2> QED
    BY <1>1, <1>13, <1>14, UpTo
<1>16. n \in 0..n /\ PackOk(U, max, h[n], g[n]) /\ h[n] \in S
  <2>1. n \in 0..n
    BY <1>1
  <2> QED
    BY <1>12, <1>15, <2>1
<1>17. \A i \in 1..n : h[i] = Take(req, max, h[i - 1], slices[i])
  <2>1. \A i \in 1..n : i \in 0..n /\ i # 0
    BY <1>1
  <2> QED
    BY <1>15, <2>1
<1> HIDE DEF P
<1>18. Packed(req, max, slices) = h[n]
  <2> DEFINE Eqn(f) == f = [k \in 0..n |-> IF k = 0 THEN first ELSE Take(req, max, f[k - 1], slices[k])]
             packed == CHOOSE f : Eqn(f)
             Q == {k \in 0..n : packed[k] = h[k]}
  <2>1. Eqn(h)
    <3>1. ASSUME NEW k \in 0..n
          PROVE  h[k] = IF k = 0 THEN first ELSE Take(req, max, h[k - 1], slices[k])
      <4>1. k # 0 => k \in 1..n
        BY <1>1
      <4> QED
        BY <1>12, <1>17, <4>1
    <3> QED
      BY <1>12, <3>1
  <2>2. Eqn(packed)
    BY <2>1
  <2>3. Packed(req, max, slices) = packed[n]
    BY DEF Packed, n, first
  <2> HIDE DEF packed
  <2>4. 0 \in Q
    BY <1>1, <1>12, <2>2
  <2>5. ASSUME NEW k \in 0..(n - 1), k \in Q
        PROVE  k + 1 \in Q
    <3>1. k + 1 \in 1..n /\ k + 1 \in 0..n /\ (k + 1) - 1 = k /\ k + 1 # 0
      BY <1>1
    <3>2. packed[k + 1] = Take(req, max, packed[k], slices[k + 1])
      BY <2>2, <3>1
    <3>3. h[k + 1] = Take(req, max, h[k], slices[k + 1])
      BY <1>17, <3>1
    <3> QED
      BY <2>5, <3>1, <3>2, <3>3
  <2>6. n \in Q
    <3> HIDE DEF Q
    <3>1. \A k \in 0..n : k \in Q
      BY <1>1, <2>4, <2>5, UpTo
    <3> QED
      BY <1>16, <3>1
  <2> QED
    BY <2>3, <2>6
<1> QED
  BY <1>5, <1>16, <1>18 DEF S, F

\* What a split of req promises.
SplitOk(U, req, max, split) ==
  /\ split \in Seq(Seq(ResourceOf(U)))
  /\ Gather(OfRequest(U), split) = Points(req)
  /\ Len(Points(req)) <= max => split = <<req>>
  /\ Len(Points(req)) > max => ChunksOk(split, max) /\ Tight(split, max)

(* split_request loses, repeats and reorders no point and sends no chunk   *)
(* that is empty, over the cap or needlessly small.                        *)
LEMMA SplitKeeps ==
  ASSUME NEW U, NEW max \in Nat \ {0}, NEW req \in Seq(ResourceOf(U)), NoneTwice(req)
  PROVE  SplitOk(U, req, max, split_request(req, max))
<1> DEFINE slices == AllSlices(req, max)
           acc == Packed(req, max, slices)
           cur == acc.open.current
           G == Gather(OfRequest(U), acc.chunks)
<1>1. Points(req) \in Seq(PointOf(U)) /\ Len(Points(req)) \in Nat
  BY PointsType, LenProperties
<1>2. CASE Len(Points(req)) <= max
  <2>1. split_request(req, max) = <<req>>
    BY <1>2 DEF split_request
  <2>2. <<req>> \in Seq(Seq(ResourceOf(U)))
    OBVIOUS
  <2>3. Gather(OfRequest(U), <<req>>) = Points(req)
    <3>1. << >> \in Seq(Seq(ResourceOf(U))) /\ <<req>> = Append(<< >>, req)
      OBVIOUS
    <3>2. Gather(OfRequest(U), Append(<< >>, req)) = Gather(OfRequest(U), << >>) \o Points(req)
      BY <3>1, OneMoreRequest
    <3>3. << >> \o Points(req) = Points(req)
      BY <1>1, ConcatEmptySeq
    <3> QED
      BY <3>1, <3>2, <3>3, GatherEmpty
  <2> QED
    BY <1>1, <1>2, <2>1, <2>2, <2>3 DEF SplitOk
<1>3. CASE ~(Len(Points(req)) <= max)
  <2>1. /\ slices \in Seq(SliceOf(U, req, max))
        /\ Gather(OfSlice(U, req, max), slices) = Points(req) /\ InOrder(slices)
    BY AllSlicesPoints
  <2>a. split_request(req, max) = IF acc.open.points > 0 THEN Append(acc.chunks, cur) ELSE acc.chunks
    BY <1>3 DEF split_request
  <2> HIDE DEF slices
  <2>2. acc \in AccOf(U, req) /\ PackOk(U, max, acc, Points(req))
    BY <2>1, PackedKeeps
  <2> HIDE DEF acc
  <2>3. acc.open \in OpenIn(U, req) /\ acc.chunks \in Seq(Seq(ResourceOf(U)))
    BY <2>2 DEF AccOf
  <2>4. /\ cur \in Seq(ResourceOf(U)) /\ acc.open.points = Len(Points(cur)) /\ acc.open.points \in Nat
        /\ NoneTwice(cur) /\ NoneBare(cur)
    BY <2>3 DEF OpenIn, OpenOk
  <2>5. /\ G \o Points(cur) = Points(req) /\ acc.open.points <= max
        /\ ChunksOk(acc.chunks, max) /\ Tight(acc.chunks, max)
        /\ acc.chunks # << >> => Len(Points(acc.chunks[Len(acc.chunks)])) + acc.open.points > max
    BY <2>2 DEF PackOk
  <2>6. CASE acc.open.points > 0
    <3>1. ChunkOk(cur, max)
      <4>1. Len(Points(cur)) \in 1..max
        BY <2>4, <2>5, <2>6
      <4> QED
        BY <2>4, <4>1 DEF ChunkOk
    <3> DEFINE cc == Append(acc.chunks, cur)
    <3> HIDE DEF cur
    <3>2. /\ cc \in Seq(Seq(ResourceOf(U))) /\ ChunksOk(cc, max) /\ Tight(cc, max)
          /\ Gather(OfRequest(U), cc) = G \o Points(cur)
      <4>1. PICK chunks \in Seq(Seq(ResourceOf(U))) : chunks = acc.chunks
        BY <2>3
      <4>2. chunks # << >> => Len(Points(chunks[Len(chunks)])) + Len(Points(cur)) > max
        BY <2>4, <2>5, <4>1
      <4>3. ChunksOk(chunks, max) /\ Tight(chunks, max) /\ cur \in Seq(ResourceOf(U))
        BY <2>4, <2>5, <4>1
      <4> QED
        BY <3>1, <4>1, <4>2, <4>3, OneMoreChunk
    <3> HIDE DEF cc
    <3>3. split_request(req, max) = cc
      BY <2>6, <2>a DEF cc
    <3> QED
      BY <1>3, <2>5, <3>2, <3>3 DEF SplitOk
  <2>7. CASE ~(acc.open.points > 0)
    <3>1. Points(cur) = << >>
      <4>1. Points(cur) \in Seq(PointOf(U)) /\ Len(Points(cur)) = 0
        BY <2>4, <2>7, PointsType
      <4> QED
        BY <4>1, EmptySeq
    <3>2. G \in Seq(PointOf(U))
      BY <2>3, OfRequestMaps, GatherType
    <3>3. G \o << >> = G
      BY <3>2, ConcatEmptySeq
    <3>4. split_request(req, max) = acc.chunks
      BY <2>7, <2>a
    <3> QED
      BY <1>3, <2>3, <2>5, <3>1, <3>3, <3>4 DEF SplitOk
  <2> QED
    BY <2>6, <2>7
<1> QED
  BY <1>2, <1>3
=============================================================================
