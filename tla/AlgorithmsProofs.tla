-------------------------- MODULE AlgorithmsProofs --------------------------
(***************************************************************************)
(* What the pure functions compute, for every argument: the split of an    *)
(* export, the preimage and the pair of a signature, the handle, the words *)
(* and the addresses a text spells, the value of a ciphertext.             *)
(***************************************************************************)
EXTENDS Algorithms, SplitLemmas

-----------------------------------------------------------------------------
(* A call returns what its function computes *)

CallInv ==
  /\ fn = "split_request" =>
       call \in Exports /\ (done => result = split_request(call.request, call.max))
  /\ fn = "decrypt_compressed" => call \in Ciphertexts /\ (done => result = decrypted(call))
  /\ fn = "sign" => call \in SignedAnswers /\ (done => result = signed(call))
  /\ fn = "parse" => call \in Texts /\ (done => result = fields(call))
  /\ fn = "try_from" => call \in WirePermissions /\ (done => result = converted(call))

(* A call returns once, what its function computes of its arguments. *)
LEMMA CallsReturn == AlgorithmsSpec => []CallInv
<1>1. AlgorithmsInit => CallInv
  BY DEF AlgorithmsInit, CallInv
<1>2. CallInv /\ [AlgorithmsNext]_algorithmVars => CallInv'
  <2> SUFFICES ASSUME CallInv, [AlgorithmsNext]_algorithmVars
               PROVE  CallInv'
    OBVIOUS
  <2>1. CASE Split
    BY <2>1 DEF Split, Returns, CallInv
  <2>2. CASE Decrypt
    BY <2>2 DEF Decrypt, Returns, CallInv
  <2>3. CASE Sign
    BY <2>3 DEF Sign, Returns, CallInv
  <2>4. CASE Parse
    BY <2>4 DEF Parse, Returns, CallInv
  <2>5. CASE Convert
    BY <2>5 DEF Convert, Returns, CallInv
  <2>6. CASE UNCHANGED algorithmVars
    BY <2>6 DEF algorithmVars, CallInv
  <2> QED
    BY <2>1, <2>2, <2>3, <2>4, <2>5, <2>6 DEF AlgorithmsNext
<1> QED
  BY <1>1, <1>2, PTL DEF AlgorithmsSpec

-----------------------------------------------------------------------------
(* The split of an export *)

(* Every request is split exactly, whatever its shape and the cap. *)
THEOREM SplitsAreExact == AlgorithmsSpec => []SplitExact
<1>1. CallInv => SplitExact
  <2> SUFFICES ASSUME CallInv, Called("split_request")
               PROVE  SplitExact
    BY DEF SplitExact
  <2> DEFINE U == STRING
             max == call.max
             original == Points(call.request)
             points == [k \in DOMAIN result |-> Points(result[k])]
  <2>1. call \in Exports /\ result = split_request(call.request, max)
    BY DEF CallInv, Called
  <2>2. call.request \in Seq(ResourceOf(U)) /\ max \in Nat \ {0} /\ NoneTwice(call.request)
    BY <2>1, ExportsAssumption DEF NoneTwice
  <2>3. SplitOk(U, call.request, max, result)
    BY <2>1, <2>2, SplitKeeps
  <2> HIDE DEF U
  <2>4. /\ result \in Seq(Seq(ResourceOf(U))) /\ Gather(OfRequest(U), result) = original
        /\ Len(original) <= max => result = <<call.request>>
        /\ Len(original) > max => ChunksOk(result, max) /\ Tight(result, max)
    BY <2>3 DEF SplitOk
  <2>5. DOMAIN result = 1..Len(result) /\ Len(result) \in Nat
        /\ \A k \in 1..Len(result) : result[k] \in Seq(ResourceOf(U))
    BY <2>4, LenProperties, ElementOfSeq
  <2>6. FlattenSeq(points) = original
    <3>1. points = FMap(OfRequest(U), result)
      BY <2>5, OfRequestMaps DEF FMap
    <3> QED
      BY <2>4, <3>1 DEF Gather
  <2>7. Len(original) \in Nat
    BY <2>2, PointsType, LenProperties
  <2>8. CASE Len(original) <= max
    BY <2>4, <2>8 DEF SplitExact
  <2>9. CASE ~(Len(original) <= max)
    <3>1. ChunksOk(result, max) /\ Tight(result, max)
      BY <2>2, <2>4, <2>7, <2>9
    <3>2. \A k \in DOMAIN points : points[k] = Points(result[k])
      OBVIOUS
    <3>3. \A k \in DOMAIN points : Len(points[k]) \in 1..max
      BY <2>5, <3>1, <3>2 DEF ChunksOk, ChunkOk
    <3>4. ASSUME NEW k \in DOMAIN points \ {1}
          PROVE  Len(points[k - 1]) + Len(points[k]) > max
      <4>1. k \in 2..Len(result) /\ k - 1 \in 1..Len(result)
        BY <2>5
      <4>2. k \in DOMAIN points /\ k - 1 \in DOMAIN points
        BY <2>5, <4>1
      <4> QED
        BY <3>1, <3>2, <4>1, <4>2 DEF Tight
    <3>5. ASSUME NEW k \in DOMAIN result
          PROVE  NoneTwice(result[k]) /\ NoneBare(result[k])
                 /\ DOMAIN result[k] = 1..Len(result[k])
      BY <2>5, <3>1, LenProperties DEF ChunksOk, ChunkOk
    <3>6. ASSUME NEW k \in DOMAIN result, NEW r \in DOMAIN result[k]
          PROVE  /\ result[k][r].scopes # << >>
                 /\ \A i, j \in DOMAIN result[k] :
                      result[k][i].resource = result[k][j].resource => i = j
      BY <3>5 DEF NoneTwice, NoneBare
    <3> HIDE DEF points, original, max
    <3> QED
      BY <2>6, <2>9, <3>3, <3>4, <3>6 DEF SplitExact, points, original, max
  <2> QED
    BY <2>8, <2>9
<1> QED
  BY <1>1, CallsReturn, PTL

-----------------------------------------------------------------------------
(* Numbers and their digits *)

\* h reads s digit by digit.
Reads(h, base, s) ==
  /\ h \in [0..Len(s) -> Nat]
  /\ h[0] = 0
  /\ \A i \in 1..Len(s) : h[i] = base * h[i - 1] + s[i]

(* Radix is what any such reading ends with. *)
LEMMA RadixIs ==
  ASSUME NEW base \in Nat, NEW s \in Seq(Nat), NEW h, Reads(h, base, s)
  PROVE  Radix(base, s) = h[Len(s)]
<1> DEFINE n == Len(s)
           E(f) == [k \in 0..n |-> IF k = 0 THEN 0 ELSE base * f[k - 1] + s[k]]
           g == CHOOSE f : f = E(f)
<1>1. n \in Nat
  BY LenProperties
<1>2. Radix(base, s) = g[n]
  BY DEF Radix
<1>3. /\ h \in [0..n -> Nat] /\ h[0] = 0
      /\ \A i \in 1..n : h[i] = base * h[i - 1] + s[i]
  BY DEF Reads
<1> HIDE DEF n
<1>4. h = E(h)
  <2>1. \A k \in 0..n : h[k] = E(h)[k]
    BY <1>1, <1>3
  <2> QED
    BY <1>3, <2>1
<1>5. g = E(g)
  BY <1>4
<1> HIDE DEF g
<1>6. g[0] = 0 /\ \A k \in 1..n : g[k] = base * g[k - 1] + s[k]
  BY <1>1, <1>5
<1> DEFINE P == {k \in 0..n : g[k] = h[k]}
<1>7. 0 \in P
  BY <1>1, <1>3, <1>6
<1>8. ASSUME NEW k \in 0..(n - 1), k \in P
      PROVE  k + 1 \in P
  <2>1. k + 1 \in 1..n /\ k + 1 \in 0..n /\ (k + 1) - 1 = k
    BY <1>1
  <2>2. g[k + 1] = base * g[k] + s[k + 1] /\ h[k + 1] = base * h[k] + s[k + 1]
    BY <1>3, <1>6, <2>1
  <2> QED
    BY <1>8, <2>1, <2>2
<1>9. n \in P
  <2> HIDE DEF P
  <2>1. \A k \in 0..n : k \in P
    BY <1>1, <1>7, <1>8, UpTo
  <2> QED
    BY <1>1, <2>1
<1> QED
  BY <1>2, <1>9 DEF n

(* There is one. *)
LEMMA RadixBy ==
  ASSUME NEW base \in Nat, NEW s \in Seq(Nat)
  PROVE  \E h : Reads(h, base, s) /\ Radix(base, s) = h[Len(s)]
<1> DEFINE n == Len(s)
           step == [p \in Nat \X (1..n) |-> base * p[1] + s[p[2]]]
<1>1. n \in Nat /\ \A i \in 1..n : s[i] \in Nat
  BY LenProperties, ElementOfSeq
<1> HIDE DEF n
<1>2. \A v \in Nat, i \in 1..n : base * v + s[i] \in Nat
  BY <1>1
<1>3. step \in [Nat \X (1..n) -> Nat] /\ \A v \in Nat, i \in 1..n : step[<<v, i>>] = base * v + s[i]
  BY <1>2
<1> HIDE DEF step
<1>4. PICK h : Recurs(h, Nat, n, 0, step)
  BY <1>1, <1>3, Recursion
<1>5. h \in [0..n -> Nat] /\ h[0] = 0 /\ \A i \in 1..n : h[i] = step[<<h[i - 1], i>>]
  BY <1>4 DEF Recurs
<1>6. \A i \in 1..n : h[i] = base * h[i - 1] + s[i]
  <2>1. \A i \in 1..n : i - 1 \in 0..n
    BY <1>1
  <2> QED
    BY <1>3, <1>5, <2>1
<1>7. Reads(h, base, s)
  BY <1>5, <1>6 DEF Reads, n
<1> QED
  BY <1>7, RadixIs

\* h takes the low bytes off v one by one.
TakesBytes(h, v, n) ==
  h \in [0..n -> Nat] /\ h[0] = v /\ \A i \in 1..n : h[i] = h[i - 1] \div 256

(* Quotients does. *)
LEMMA QuotientsAre ==
  ASSUME NEW v \in Nat, NEW n \in Nat
  PROVE  TakesBytes(Quotients(v, n), v, n)
<1> DEFINE E(f) == [k \in 0..n |-> IF k = 0 THEN v ELSE f[k - 1] \div 256]
           g == CHOOSE f : f = E(f)
           step == [p \in Nat \X (1..n) |-> p[1] \div 256]
<1>1. Quotients(v, n) = g
  BY DEF Quotients
<1>2. \A x \in Nat : x \div 256 \in Nat
  OBVIOUS
<1>3. step \in [Nat \X (1..n) -> Nat] /\ \A x \in Nat, i \in 1..n : step[<<x, i>>] = x \div 256
  BY <1>2
<1> HIDE DEF step
<1>4. PICK h : Recurs(h, Nat, n, v, step)
  BY <1>3, Recursion
<1>5. h \in [0..n -> Nat] /\ h[0] = v /\ \A i \in 1..n : h[i] = step[<<h[i - 1], i>>]
  BY <1>4 DEF Recurs
<1>6. \A i \in 1..n : h[i] = h[i - 1] \div 256
  <2>1. \A i \in 1..n : i - 1 \in 0..n
    OBVIOUS
  <2> QED
    BY <1>3, <1>5, <2>1
<1>7. h = E(h)
  <2>1. \A k \in 0..n : h[k] = E(h)[k]
    BY <1>5, <1>6
  <2> QED
    BY <1>5, <2>1
<1>8. g = E(g)
  BY <1>7
<1> HIDE DEF g
<1>9. g[0] = v /\ \A k \in 1..n : g[k] = g[k - 1] \div 256
  BY <1>8
<1> DEFINE P == {k \in 0..n : g[k] = h[k]}
<1>10. 0 \in P
  BY <1>5, <1>9
<1>11. ASSUME NEW k \in 0..(n - 1), k \in P
       PROVE  k + 1 \in P
  <2>1. k + 1 \in 1..n /\ k + 1 \in 0..n /\ (k + 1) - 1 = k
    OBVIOUS
  <2>2. g[k + 1] = g[k] \div 256 /\ h[k + 1] = h[k] \div 256
    BY <1>6, <1>9, <2>1
  <2> QED
    BY <1>11, <2>1, <2>2
<1>12. \A k \in 0..n : g[k] = h[k]
  <2> HIDE DEF P
  <2>1. \A k \in 0..n : k \in P
    BY <1>10, <1>11, UpTo
  <2> QED
    BY <2>1 DEF P
<1>13. g = h
  <2>1. g = [k \in 0..n |-> g[k]]
    BY <1>8
  <2> QED
    BY <1>5, <1>12, <2>1
<1> QED
  BY <1>1, <1>5, <1>6, <1>13 DEF TakesBytes

(* The bytes of a number that fits them stand for that number. *)
LEMMA BytesAreRead ==
  ASSUME NEW v, NEW n \in Nat, Fits(v, n)
  PROVE  Value(to_be_bytes(v, n)) = v
<1> DEFINE h == Quotients(v, n)
           b == to_be_bytes(v, n)
           r == [k \in 0..n |-> h[n - k]]
<1>1. v \in Nat /\ h[n] = 0
  BY DEF Fits
<1>2. h \in [0..n -> Nat] /\ h[0] = v /\ \A i \in 1..n : h[i] = h[i - 1] \div 256
  <2>1. TakesBytes(h, v, n)
    BY <1>1, QuotientsAre
  <2> HIDE DEF h
  <2> QED
    BY <2>1 DEF TakesBytes
<1>3. b = [i \in 1..n |-> h[n - i] % 256]
  BY DEF to_be_bytes
<1> HIDE DEF h, b
<1>4. \A i \in 1..n : n - i \in 0..n /\ h[n - i] \in Nat
  BY <1>2
<1>5. \A x \in Nat : x % 256 \in Nat /\ (256 * (x \div 256)) + (x % 256) = x
  OBVIOUS
<1>6. b \in [1..n -> Nat]
  BY <1>3, <1>4, <1>5
<1>7. b \in Seq(Nat) /\ Len(b) = n
  BY <1>6, FunctionIsSeq
<1>8. ASSUME NEW i \in 1..n
      PROVE  r[i] = 256 * r[i - 1] + b[i]
  <2>1. /\ i \in 0..n /\ i - 1 \in 0..n /\ n - (i - 1) \in 1..n /\ n - (i - 1) - 1 = n - i
    OBVIOUS
  <2>2. r[i] = h[n - i] /\ r[i - 1] = h[n - (i - 1)]
    BY <2>1
  <2>3. h[n - (i - 1)] = h[n - i] \div 256
    BY <1>2, <2>1
  <2>4. b[i] = h[n - i] % 256
    BY <1>3
  <2> HIDE DEF r
  <2> QED
    BY <1>4, <1>5, <2>2, <2>3, <2>4
<1>9. r \in [0..n -> Nat] /\ r[0] = 0 /\ r[n] = v
  <2>1. \A k \in 0..n : n - k \in 0..n
    OBVIOUS
  <2>2. n - 0 = n /\ n - n = 0 /\ 0 \in 0..n /\ n \in 0..n
    OBVIOUS
  <2> QED
    BY <1>1, <1>2, <2>1, <2>2
<1> HIDE DEF r
<1>10. Reads(r, 256, b)
  BY <1>7, <1>8, <1>9 DEF Reads
<1> QED
  BY <1>7, <1>9, <1>10, RadixIs DEF Value, b

-----------------------------------------------------------------------------
(* Signatures *)

(* A part of a joined sequence is where the lengths before it say. *)
LEMMA MiddleOf ==
  ASSUME NEW S, NEW a \in Seq(S), NEW b \in Seq(S), NEW c \in Seq(S)
  PROVE  /\ Len((a \o b) \o c) = Len(a) + Len(b) + Len(c)
         /\ SubSeq((a \o b) \o c, Len(a) + 1, Len(a) + Len(b)) = b
<1> DEFINE x == a \o b
           w == x \o c
           la == Len(a)
           lb == Len(b)
           lc == Len(c)
           p == SubSeq(w, la + 1, la + lb)
<1>1. la \in Nat /\ lb \in Nat /\ lc \in Nat
  BY LenProperties
<1>2. /\ x \in Seq(S) /\ Len(x) = la + lb
      /\ \A i \in 1..(la + lb) : x[i] = IF i <= la THEN a[i] ELSE b[i - la]
  BY ConcatProperties
<1> HIDE DEF x
<1>3. /\ w \in Seq(S) /\ Len(w) = la + lb + lc
      /\ \A i \in 1..(la + lb + lc) : w[i] = IF i <= la + lb THEN x[i] ELSE c[i - (la + lb)]
  <2>0. x \in Seq(S)
    BY <1>2
  <2>1. /\ w \in Seq(S) /\ Len(w) = Len(x) + lc
        /\ \A i \in 1..(Len(x) + lc) : w[i] = IF i <= Len(x) THEN x[i] ELSE c[i - Len(x)]
    BY <2>0, ConcatProperties
  <2> HIDE DEF w, la, lb, lc
  <2> QED
    BY <1>2, <2>1
<1> HIDE DEF w, la, lb, lc
<1>4. ASSUME NEW i \in 1..lb
      PROVE  w[la + 1 + i - 1] = b[i] /\ b[i] \in S
  <2>1. /\ la + i \in 1..(la + lb + lc) /\ la + i \in 1..(la + lb) /\ la + i <= la + lb
        /\ ~(la + i <= la) /\ (la + i) - la = i /\ la + 1 + i - 1 = la + i
    BY <1>1
  <2>2. w[la + i] = x[la + i] /\ x[la + i] = b[i]
    BY <1>2, <1>3, <2>1
  <2>3. b[i] \in S
    BY ElementOfSeq DEF lb
  <2> QED
    BY <2>1, <2>2, <2>3
<1>5. \A i \in (la + 1)..(la + lb) : w[i] \in S
  <2>1. \A i \in (la + 1)..(la + lb) : i \in 1..Len(w)
    BY <1>1, <1>3
  <2> QED
    BY <1>3, <2>1, ElementOfSeq
<1>6. PICK m \in Int : m = la + 1
  BY <1>1
<1>7. PICK n \in Int : n = la + lb
  BY <1>1
<1>a. /\ SubSeq(w, m, n) \in Seq(S)
      /\ Len(SubSeq(w, m, n)) = IF m <= n THEN n - m + 1 ELSE 0
      /\ \A i \in 1..(n - m + 1) : SubSeq(w, m, n)[i] = w[m + i - 1]
  <2>1. \A i \in m..n : w[i] \in S
    BY <1>5, <1>6, <1>7
  <2> QED
    BY <2>1, SubSeqProperties
<1>b. p = SubSeq(w, m, n)
  BY <1>6, <1>7
<1> HIDE DEF p
<1>c. p \in Seq(S) /\ Len(p) = lb /\ \A i \in 1..lb : p[i] = b[i]
  <2>1. n - m + 1 = lb /\ (~(m <= n) => lb = 0)
    BY <1>1, <1>6, <1>7
  <2>2. \A i \in 1..lb : w[m + i - 1] = b[i]
    BY <1>4, <1>6
  <2> QED
    BY <1>a, <1>b, <2>1, <2>2
<1>8. p = b
  BY <1>c, SeqEqual DEF lb
<1> QED
  BY <1>3, <1>8 DEF p, w, x, la, lb, lc

\* w is made of four parts, which can be read off it.
MadeOf(w, a, t, c, h) ==
  LET la == Len(a)
      lt == Len(t)
      lc == Len(c)
      lh == Len(h)
  IN /\ Len(w) = la + lt + lc + lh
     /\ SubSeq(w, 1, la) = a
     /\ SubSeq(w, la + 1, la + lt) = t
     /\ SubSeq(w, la + lt + 1, la + lt + lc) = c
     /\ SubSeq(w, la + lt + lc + 1, la + lt + lc + lh) = h

(* Four parts joined. *)
LEMMA FourParts ==
  ASSUME NEW S, NEW a \in Seq(S), NEW t \in Seq(S), NEW c \in Seq(S), NEW h \in Seq(S)
  PROVE  MadeOf(a \o ((t \o c) \o h), a, t, c, h)
<1> DEFINE w == a \o ((t \o c) \o h)
           at == a \o t
           atc == at \o c
           ch == c \o h
           tch == (t \o c) \o h
<1>1. << >> \in Seq(S) /\ Len(<< >>) = 0
  OBVIOUS
<1>2. Len(a) \in Nat /\ Len(t) \in Nat /\ Len(c) \in Nat /\ Len(h) \in Nat
  BY LenProperties
<1>3. /\ t \o c \in Seq(S) /\ ch \in Seq(S) /\ tch \in Seq(S)
  BY ConcatProperties
<1>4. at \in Seq(S) /\ Len(at) = Len(a) + Len(t)
  BY ConcatProperties
<1> HIDE DEF at, ch, tch
<1>5. atc \in Seq(S) /\ Len(atc) = Len(a) + Len(t) + Len(c)
  <2>1. atc \in Seq(S) /\ Len(atc) = Len(at) + Len(c)
    BY <1>4, ConcatProperties
  <2> HIDE DEF atc
  <2> QED
    BY <1>4, <2>1
<1>6. Associates(S)
  BY Associative
<1>7. w = a \o tch /\ w = at \o ch /\ w = atc \o h
  <2>1. w = a \o tch
    BY DEF tch
  <2>2. tch = t \o ch
    BY <1>6, Zenon DEF Associates, tch, ch
  <2>3. a \o (t \o ch) = at \o ch
    <3>1. \A z \in Seq(S) : at \o z = a \o (t \o z)
      BY <1>6, Zenon DEF Associates, at
    <3> QED
      BY <1>3, <3>1, Zenon
  <2>4. at \o ch = atc \o h
    BY <1>4, <1>6, Zenon DEF Associates, ch, atc
  <2> QED
    BY <2>1, <2>2, <2>3, <2>4
<1> HIDE DEF w, atc
<1>8. << >> \o a = a /\ (<< >> \o a) \o tch = w
  BY <1>7, ConcatEmptySeq
<1>9. w \o << >> = w
  <2>1. w \in Seq(S)
    BY <1>3, <1>7, ConcatProperties
  <2> QED
    BY <2>1, ConcatEmptySeq
<1>10. SubSeq(w, 1, Len(a)) = a
  <2>1. SubSeq((<< >> \o a) \o tch, Len(<< >>) + 1, Len(<< >>) + Len(a)) = a
    BY <1>1, <1>3, MiddleOf
  <2>2. 0 + 1 = 1 /\ 0 + Len(a) = Len(a)
    BY <1>2
  <2> QED
    BY <1>1, <1>8, <2>1, <2>2
<1>11. SubSeq(w, Len(a) + 1, Len(a) + Len(t)) = t
  <2>1. SubSeq((a \o t) \o ch, Len(a) + 1, Len(a) + Len(t)) = t
    BY <1>3, MiddleOf
  <2> QED
    BY <1>7, <2>1 DEF at
<1>12. SubSeq(w, Len(a) + Len(t) + 1, Len(a) + Len(t) + Len(c)) = c
       /\ Len(w) = Len(a) + Len(t) + Len(c) + Len(h)
  <2>1. SubSeq((at \o c) \o h, Len(at) + 1, Len(at) + Len(c)) = c
    BY <1>4, MiddleOf
  <2>2. Len(atc \o h) = Len(atc) + Len(h)
    BY <1>5, ConcatProperties
  <2>3. SubSeq(w, Len(at) + 1, Len(at) + Len(c)) = c
    BY <1>7, <2>1 DEF atc
  <2> QED
    BY <1>4, <1>5, <1>7, <2>2, <2>3
<1>13. SubSeq(w, Len(a) + Len(t) + Len(c) + 1, Len(a) + Len(t) + Len(c) + Len(h)) = h
  <2>1. SubSeq((atc \o h) \o << >>, Len(atc) + 1, Len(atc) + Len(h)) = h
    BY <1>1, <1>5, MiddleOf
  <2> QED
    BY <1>5, <1>7, <1>9, <2>1
<1>14. MadeOf(w, a, t, c, h)
  BY <1>10, <1>11, <1>12, <1>13 DEF MadeOf
<1> QED
  BY <1>14 DEF w

(* The preimage of a decrypt, read. *)
LEMMA ReadsDecrypt ==
  ASSUME NEW w, NEW v, NEW t, NEW c, NEW h, MadeOf(w, v, t, c, h),
         Len(v) = 32, Len(t) = 4, Len(c) = 8, Len(h) = 32
  PROVE  ReadPreimage(w) = [op |-> "decrypt", body |-> <<Value(v)>>, ty |-> Value(t),
                            chain |-> Value(c), hash |-> h]
<1>1. Len(w) = 76
  BY DEF MadeOf
<1>2. /\ SubSeq(w, 1, 32) = v /\ SubSeq(w, 33, 36) = t /\ SubSeq(w, 37, 44) = c
      /\ SubSeq(w, 45, 76) = h
  BY DEF MadeOf
<1>3. PICK n \in Int : n = Len(w)
  BY <1>1
<1>4. /\ n = 76 /\ 1 + 32 - 1 = 32 /\ n - 43 = 33 /\ 33 + 4 - 1 = 36 /\ n - 39 = 37
      /\ 37 + 8 - 1 = 44 /\ n - 31 = 45 /\ 45 + 32 - 1 = 76
  BY <1>1, <1>3
<1>5. /\ SubSeq(w, n - 43, n - 43 + 4 - 1) = t /\ SubSeq(w, n - 39, n - 39 + 8 - 1) = c
      /\ SubSeq(w, n - 31, n - 31 + 32 - 1) = h /\ SubSeq(w, 1, 1 + 32 - 1) = v
  BY <1>2, <1>4
<1>6. n = 76
  BY <1>4
<1>7. ReadPreimage(w) =
        [op |-> "decrypt", body |-> <<Value(SubSeq(w, 1, 1 + 32 - 1))>>,
         ty |-> Value(SubSeq(w, n - 43, n - 43 + 4 - 1)),
         chain |-> Value(SubSeq(w, n - 39, n - 39 + 8 - 1)),
         hash |-> SubSeq(w, n - 31, n - 31 + 32 - 1)]
  BY <1>3, <1>6, Zenon DEF ReadPreimage
<1> QED
  BY <1>5, <1>7, Zenon

(* The preimage of a seal, read: its length tells it from a decrypt's. *)
LEMMA ReadsSeal ==
  ASSUME NEW w, NEW d \in Nat, NEW x, NEW t, NEW c, NEW h, MadeOf(w, x, t, c, h),
         Len(x) = d + 56, Len(t) = 4, Len(c) = 8, Len(h) = 32,
         NEW data, NEW pk, NEW nonce, NEW rest, MadeOf(w, data, pk, nonce, rest),
         Len(data) = d, Len(pk) = 32, Len(nonce) = 24
  PROVE  ReadPreimage(w) = [op |-> "seal", body |-> <<data, pk, nonce>>,
                            ty |-> Value(t), chain |-> Value(c), hash |-> h]
<1>1. Len(w) = d + 100
  BY DEF MadeOf
<1>2. /\ SubSeq(w, d + 57, d + 60) = t /\ SubSeq(w, d + 61, d + 68) = c
      /\ SubSeq(w, d + 69, d + 100) = h
  <2>1. /\ d + 56 + 1 = d + 57 /\ d + 56 + 4 = d + 60 /\ d + 60 + 1 = d + 61
        /\ d + 60 + 8 = d + 68 /\ d + 68 + 1 = d + 69 /\ d + 68 + 32 = d + 100
    OBVIOUS
  <2> QED
    BY <2>1 DEF MadeOf
<1>3. /\ SubSeq(w, 1, d) = data /\ SubSeq(w, d + 1, d + 32) = pk
      /\ SubSeq(w, d + 33, d + 56) = nonce
  <2>1. d + 32 + 1 = d + 33 /\ d + 32 + 24 = d + 56
    OBVIOUS
  <2> QED
    BY <2>1 DEF MadeOf
<1>4. PICK n \in Int : n = Len(w)
  BY <1>1
<1>5. /\ n # 76 /\ n - 100 = d /\ 1 + d - 1 = d
      /\ n - 99 = d + 1 /\ d + 1 + 32 - 1 = d + 32 /\ n - 67 = d + 33 /\ d + 33 + 24 - 1 = d + 56
      /\ n - 43 = d + 57 /\ d + 57 + 4 - 1 = d + 60 /\ n - 39 = d + 61 /\ d + 61 + 8 - 1 = d + 68
      /\ n - 31 = d + 69 /\ d + 69 + 32 - 1 = d + 100
  BY <1>1, <1>4
<1>6. /\ SubSeq(w, n - 43, n - 43 + 4 - 1) = t /\ SubSeq(w, n - 39, n - 39 + 8 - 1) = c
      /\ SubSeq(w, n - 31, n - 31 + 32 - 1) = h
  BY <1>2, <1>5
<1>7. /\ SubSeq(w, 1, 1 + (n - 100) - 1) = data /\ SubSeq(w, n - 99, n - 99 + 32 - 1) = pk
      /\ SubSeq(w, n - 67, n - 67 + 24 - 1) = nonce
  BY <1>3, <1>5
<1>8. n # 76
  BY <1>5
<1>9. ReadPreimage(w) =
        [op |-> "seal",
         body |-> <<SubSeq(w, 1, 1 + (n - 100) - 1), SubSeq(w, n - 99, n - 99 + 32 - 1),
                    SubSeq(w, n - 67, n - 67 + 24 - 1)>>,
         ty |-> Value(SubSeq(w, n - 43, n - 43 + 4 - 1)),
         chain |-> Value(SubSeq(w, n - 39, n - 39 + 8 - 1)),
         hash |-> SubSeq(w, n - 31, n - 31 + 32 - 1)]
  BY <1>4, <1>8, Zenon DEF ReadPreimage
<1> QED
  BY <1>6, <1>7, <1>9, Zenon

\* f lists n values, all of them in S.
IsRun(f, n) == f = [i \in 1..n |-> f[i]]
RunOf(f, n, S) == IsRun(f, n) /\ \A i \in 1..n : f[i] \in S

(* A run of values is a sequence. *)
LEMMA RunIsSeq ==
  ASSUME NEW S, NEW n \in Nat, NEW f, RunOf(f, n, S)
  PROVE  f \in Seq(S) /\ Len(f) = n
<1>1. f \in [1..n -> S]
  BY DEF IsRun, RunOf
<1> QED
  BY <1>1, FunctionIsSeq

(* The bytes of a number, of a key and of a box are runs. *)
LEMMA BytesAreRuns ==
  ASSUME NEW v, NEW n \in Nat
  PROVE  IsRun(to_be_bytes(v, n), n) /\ IsRun(Material(v, n), n)
BY DEF IsRun, to_be_bytes, Material

(* Every type has a width. *)
LEMMA WidthsAreNumbers ==
  ASSUME NEW ty \in EncryptionTypes
  PROVE  width(ty) \in Nat
BY DEF EncryptionTypes, width

(* What is signed over a decrypt is read back. *)
LEMMA DecryptIsRead ==
  ASSUME NEW a, Fits(a.value, 32), Fits(a.ty, 4), Fits(a.chain, 8)
  PROVE  ReadPreimage(sign_decrypt(a)) =
           [op |-> "decrypt", body |-> <<a.value>>, ty |-> a.ty, chain |-> a.chain,
            hash |-> Material(a.hash, 32)]
<1> DEFINE v == to_be_bytes(a.value, 32)
           t == to_be_bytes(a.ty, 4)
           c == to_be_bytes(a.chain, 8)
           h == Material(a.hash, 32)
           S == {v[i] : i \in 1..32} \cup {t[i] : i \in 1..4} \cup {c[i] : i \in 1..8}
                  \cup {h[i] : i \in 1..32}
<1>1. sign_decrypt(a) = v \o ((t \o c) \o h)
  BY DEF sign_decrypt, Context
<1>2. IsRun(v, 32) /\ IsRun(t, 4) /\ IsRun(c, 8) /\ IsRun(h, 32)
  BY BytesAreRuns
<1> HIDE DEF v, t, c, h
<1>3. RunOf(v, 32, S) /\ RunOf(t, 4, S) /\ RunOf(c, 8, S) /\ RunOf(h, 32, S)
  BY <1>2 DEF RunOf
<1> HIDE DEF S
<1>4. v \in Seq(S) /\ Len(v) = 32
  BY <1>3, RunIsSeq
<1>5. t \in Seq(S) /\ Len(t) = 4
  BY <1>3, RunIsSeq
<1>6. c \in Seq(S) /\ Len(c) = 8
  BY <1>3, RunIsSeq
<1>7. h \in Seq(S) /\ Len(h) = 32
  BY <1>3, RunIsSeq
<1>8. MadeOf(sign_decrypt(a), v, t, c, h)
  BY <1>1, <1>4, <1>5, <1>6, <1>7, FourParts
<1>9. ReadPreimage(sign_decrypt(a))
        = [op |-> "decrypt", body |-> <<Value(v)>>, ty |-> Value(t), chain |-> Value(c), hash |-> h]
  BY <1>4, <1>5, <1>6, <1>7, <1>8, ReadsDecrypt
<1>10. Value(v) = a.value /\ Value(t) = a.ty /\ Value(c) = a.chain
  BY BytesAreRead DEF v, t, c
<1> QED
  BY <1>9, <1>10 DEF h

(* What is signed over a sealed answer is read back, whatever its width. *)
LEMMA SealIsRead ==
  ASSUME NEW a, a.ty \in EncryptionTypes, Fits(a.ty, 4), Fits(a.chain, 8), NEW sealed,
         sealed.data = CryptoBox(encode(a.ty, a.value), a.pk, a.nonce),
         sealed.public_key = Material(a.pk, 32), sealed.nonce = Material(a.nonce, 24)
  PROVE  ReadPreimage(sign_sealoutput(a, sealed)) =
           [op |-> "seal",
            body |-> <<CryptoBox(encode(a.ty, a.value), a.pk, a.nonce), Material(a.pk, 32),
                       Material(a.nonce, 24)>>,
            ty |-> a.ty, chain |-> a.chain, hash |-> Material(a.hash, 32)]
<1> DEFINE n == width(a.ty)
           plain == encode(a.ty, a.value)
           tag == Material(a.pk + a.nonce, 16)
           enc == [i \in DOMAIN plain |-> (plain[i] + a.pk + a.nonce) % 256]
           data == tag \o enc
           pk == Material(a.pk, 32)
           nonce == Material(a.nonce, 24)
           t == to_be_bytes(a.ty, 4)
           c == to_be_bytes(a.chain, 8)
           h == Material(a.hash, 32)
           S == {tag[i] : i \in 1..16} \cup {enc[i] : i \in 1..n} \cup {pk[i] : i \in 1..32}
                  \cup {nonce[i] : i \in 1..24} \cup {t[i] : i \in 1..4} \cup {c[i] : i \in 1..8}
                  \cup {h[i] : i \in 1..32}
           w == sign_sealoutput(a, sealed)
           ctx == (t \o c) \o h
           x == (data \o pk) \o nonce
           d == 16 + n
<1>1. CryptoBox(plain, a.pk, a.nonce) = data
  BY DEF CryptoBox
<1>2. w = x \o ctx
  BY <1>1 DEF sign_sealoutput, Context
<1>3. n \in Nat
  BY WidthsAreNumbers
<1>4. IsRun(enc, n)
  BY DEF encode, to_be_bytes, IsRun
<1>5. /\ IsRun(tag, 16) /\ IsRun(pk, 32) /\ IsRun(nonce, 24)
      /\ IsRun(t, 4) /\ IsRun(c, 8) /\ IsRun(h, 32)
  BY BytesAreRuns
<1> HIDE DEF tag, enc, pk, nonce, t, c, h, n, plain
<1>6. /\ RunOf(tag, 16, S) /\ RunOf(enc, n, S) /\ RunOf(pk, 32, S) /\ RunOf(nonce, 24, S)
      /\ RunOf(t, 4, S) /\ RunOf(c, 8, S) /\ RunOf(h, 32, S)
  BY <1>4, <1>5 DEF RunOf
<1> HIDE DEF S, data, ctx, x, d, w
<1>7. tag \in Seq(S) /\ Len(tag) = 16
  <2>1. RunOf(tag, 16, S) /\ 16 \in Nat
    BY <1>6
  <2> QED
    BY <2>1, RunIsSeq
<1>8. enc \in Seq(S) /\ Len(enc) = n
  BY <1>3, <1>6, RunIsSeq
<1>9. pk \in Seq(S) /\ Len(pk) = 32
  <2>1. RunOf(pk, 32, S) /\ 32 \in Nat
    BY <1>6
  <2> QED
    BY <2>1, RunIsSeq
<1>10. nonce \in Seq(S) /\ Len(nonce) = 24
  <2>1. RunOf(nonce, 24, S) /\ 24 \in Nat
    BY <1>6
  <2> QED
    BY <2>1, RunIsSeq
<1>11. t \in Seq(S) /\ Len(t) = 4
  <2>1. RunOf(t, 4, S) /\ 4 \in Nat
    BY <1>6
  <2> QED
    BY <2>1, RunIsSeq
<1>12. c \in Seq(S) /\ Len(c) = 8
  <2>1. RunOf(c, 8, S) /\ 8 \in Nat
    BY <1>6
  <2> QED
    BY <2>1, RunIsSeq
<1>13. h \in Seq(S) /\ Len(h) = 32
  <2>1. RunOf(h, 32, S) /\ 32 \in Nat
    BY <1>6
  <2> QED
    BY <2>1, RunIsSeq
<1> USE DEF data, ctx, x, d, w
<1>14. data \in Seq(S) /\ Len(data) = d
  <2>1. data \in Seq(S) /\ Len(data) = Len(tag) + Len(enc)
    BY <1>7, <1>8, ConcatProperties
  <2> QED
    BY <1>7, <1>8, <2>1
<1> HIDE DEF data
<1>15. ctx \in Seq(S)
  <2>1. t \o c \in Seq(S)
    BY <1>11, <1>12, ConcatProperties
  <2> QED
    BY <1>13, <2>1, ConcatProperties
<1>16. x \in Seq(S) /\ Len(x) = d + 56
  <2> DEFINE y == data \o pk
  <2>1. y \in Seq(S) /\ Len(y) = Len(data) + Len(pk)
    BY <1>9, <1>14, ConcatProperties
  <2> HIDE DEF y
  <2>2. y \o nonce \in Seq(S) /\ Len(y \o nonce) = Len(y) + Len(nonce)
    BY <1>10, <2>1, ConcatProperties
  <2>3. d \in Nat /\ d + 32 + 24 = d + 56
    BY <1>3
  <2> QED
    BY <1>9, <1>10, <1>14, <2>1, <2>2, <2>3 DEF y
<1> HIDE DEF w
<1>17. MadeOf(w, x, t, c, h)
  <2> HIDE DEF x
  <2> QED
    BY <1>2, <1>11, <1>12, <1>13, <1>16, FourParts
<1>18. w = data \o ((pk \o nonce) \o ctx)
  <2> HIDE DEF ctx
  <2>1. Associates(S)
    BY Associative
  <2>2. x = data \o (pk \o nonce)
    BY <1>9, <1>10, <1>14, <2>1, Zenon DEF Associates
  <2>3. pk \o nonce \in Seq(S)
    BY <1>9, <1>10, ConcatProperties
  <2>4. (data \o (pk \o nonce)) \o ctx = data \o ((pk \o nonce) \o ctx)
    BY <1>14, <1>15, <2>1, <2>3, Zenon DEF Associates
  <2> QED
    BY <1>2, <2>2, <2>4
<1> HIDE DEF ctx, x
<1>19. MadeOf(w, data, pk, nonce, ctx)
  BY <1>9, <1>10, <1>14, <1>15, <1>18, FourParts
<1>20. d \in Nat
  BY <1>3
<1> HIDE DEF d
<1>21. ReadPreimage(w) = [op |-> "seal", body |-> <<data, pk, nonce>>, ty |-> Value(t),
                          chain |-> Value(c), hash |-> h]
  BY <1>9, <1>10, <1>11, <1>12, <1>13, <1>14, <1>16, <1>17, <1>19, <1>20, ReadsSeal
<1>22. Value(t) = a.ty /\ Value(c) = a.chain
  BY BytesAreRead DEF t, c
<1> QED
  BY <1>1, <1>21, <1>22 DEF w, pk, nonce, h, plain

\* The pair (s, v) of a signature, read.
PairRead(a, r) ==
  /\ 2 * r.s <= a.order
  /\ LET id == r.v - IF a.format = "evm" THEN 27 ELSE 0
         odd == id % 2 = 1
     IN /\ <<r.s, odd>> \in {<<a.s, a.recid.odd>>, <<a.order - a.s, ~a.recid.odd>>}
        /\ id \div 2 = IF a.recid.reduced THEN 1 ELSE 0

(* The pair is the signer's or its mirror image, with a low s. *)
LEMMA PairIsSigners ==
  ASSUME NEW a, a.order \in Nat, a.s \in 1..(a.order - 1),
         a.recid \in [odd : BOOLEAN, reduced : BOOLEAN],
         NEW r, r.s = sign_prehash(a.s, a.recid, a.order).s,
         r.v = convert_v(a.format, sign_prehash(a.s, a.recid, a.order).recid)
  PROVE  PairRead(a, r)
<1> DEFINE high == 2 * a.s > a.order
           recid == sign_prehash(a.s, a.recid, a.order).recid
           base == IF a.format = "evm" THEN 27 ELSE 0
           id == r.v - base
<1>1. /\ r.s = IF high THEN a.order - a.s ELSE a.s
      /\ recid.odd = (a.recid.odd # high) /\ recid.reduced = a.recid.reduced
  BY DEF sign_prehash
<1>2. 2 * r.s <= a.order
  BY <1>1
<1>3. base \in {0, 27}
  OBVIOUS
<1>4. r.v = (IF recid.odd THEN 1 ELSE 0) + (IF recid.reduced THEN 2 ELSE 0) + base
  BY DEF convert_v
<1> HIDE DEF recid, base
<1>5. id = (IF recid.odd THEN 1 ELSE 0) + (IF recid.reduced THEN 2 ELSE 0)
  BY <1>3, <1>4
<1> HIDE DEF id
<1>6. (id % 2 = 1) = recid.odd
  <2>1. CASE recid.odd
    <3>1. id = 1 \/ id = 3
      BY <1>5, <2>1
    <3>2. id % 2 = 1
      BY <3>1
    <3> QED
      BY <1>1, <2>1, <3>2
  <2>2. CASE ~recid.odd
    <3>1. id = 0 \/ id = 2
      BY <1>5, <2>2
    <3>2. id % 2 # 1
      BY <3>1
    <3> QED
      BY <1>1, <2>2, <3>2
  <2> QED
    BY <2>1, <2>2
<1>7. id \div 2 = IF a.recid.reduced THEN 1 ELSE 0
  <2>1. CASE a.recid.reduced
    <3>1. id = 2 \/ id = 3
      BY <1>1, <1>5, <2>1
    <3> QED
      BY <2>1, <3>1
  <2>2. CASE ~a.recid.reduced
    <3>1. id = 0 \/ id = 1
      BY <1>1, <1>5, <2>2
    <3> QED
      BY <2>2, <3>1
  <2> QED
    BY <2>1, <2>2
<1>8. a.recid.odd \in BOOLEAN
  OBVIOUS
<1>9. <<r.s, id % 2 = 1>> \in {<<a.s, a.recid.odd>>, <<a.order - a.s, ~a.recid.odd>>}
  <2>1. CASE high
    <3>1. (a.recid.odd # high) = ~a.recid.odd
      BY <1>8, <2>1
    <3> QED
      BY <1>1, <1>6, <2>1, <3>1
  <2>2. CASE ~high
    <3>1. (a.recid.odd # high) = a.recid.odd
      BY <1>8, <2>2
    <3> QED
      BY <1>1, <1>6, <2>2, <3>1
  <2> QED
    BY <2>1, <2>2
<1> QED
  BY <1>2, <1>7, <1>9 DEF PairRead, id, base

(* Every signature commits to one answer and recovers the signer's key,    *)
(* whatever the answer, its width and the order of the group.              *)
THEOREM SignaturesAreBinding == AlgorithmsSpec => []SignaturesBindAnswer
<1>1. CallInv => SignaturesBindAnswer
  <2> SUFFICES ASSUME CallInv, Called("sign"), result.err = "none"
               PROVE  SignaturesBindAnswer
    BY DEF SignaturesBindAnswer
  <2>1. /\ call \in SignedAnswers /\ result = signed(call)
        /\ call.op \in {"decrypt", "seal"} /\ call.ty \in EncryptionTypes
        /\ call.order \in Nat /\ call.s \in 1..(call.order - 1)
        /\ call.recid \in [odd : BOOLEAN, reduced : BOOLEAN]
        /\ Fits(call.value, 32) /\ Fits(call.ty, 4) /\ Fits(call.chain, 8)
    BY AnswersAssumption DEF CallInv, Called
  <2> DEFINE sealed == seal_to_user(call.recipient, encode(call.ty, call.value), call.pk, call.nonce)
             sig == sign_prehash(call.s, call.recid, call.order)
             Over(preimage) == [err |-> "none", preimage |-> preimage,
                                v |-> convert_v(call.format, sig.recid), s |-> sig.s]
  <2>2. CASE call.op = "decrypt"
    <3>1. result = Over(sign_decrypt(call))
      BY <2>1, <2>2 DEF signed
    <3>2. result.preimage = sign_decrypt(call) /\ result.s = sig.s
          /\ result.v = convert_v(call.format, sig.recid)
      BY <3>1
    <3>3. PairRead(call, result)
      BY <2>1, <3>2, PairIsSigners
    <3>4. ReadPreimage(result.preimage) =
           [op |-> "decrypt", body |-> <<call.value>>, ty |-> call.ty, chain |-> call.chain,
            hash |-> Material(call.hash, 32)]
      BY <2>1, <3>2, DecryptIsRead
    <3> QED
      BY <2>2, <3>3, <3>4 DEF SignaturesBindAnswer, PairRead
  <2>3. CASE call.op = "seal"
    <3>1. sealed.err = "none" /\ result = Over(sign_sealoutput(call, sealed))
      BY <2>1, <2>3 DEF signed
    <3>2. result.preimage = sign_sealoutput(call, sealed) /\ result.s = sig.s
          /\ result.v = convert_v(call.format, sig.recid)
      BY <3>1
    <3>3. PairRead(call, result)
      BY <2>1, <3>2, PairIsSigners
    <3>4. /\ sealed.data = CryptoBox(encode(call.ty, call.value), call.pk, call.nonce)
          /\ sealed.public_key = Material(call.pk, 32) /\ sealed.nonce = Material(call.nonce, 24)
      BY <3>1 DEF seal_to_user
    <3> HIDE DEF sealed
    <3>5. ReadPreimage(result.preimage) =
           [op |-> "seal",
            body |-> <<CryptoBox(encode(call.ty, call.value), call.pk, call.nonce),
                       Material(call.pk, 32), Material(call.nonce, 24)>>,
            ty |-> call.ty, chain |-> call.chain, hash |-> Material(call.hash, 32)]
      BY <2>1, <3>2, <3>4, SealIsRead
    <3> QED
      BY <2>3, <3>3, <3>5 DEF SignaturesBindAnswer, PairRead
  <2> QED
    BY <2>1, <2>2, <2>3
<1> QED
  BY <1>1, CallsReturn, PTL

-----------------------------------------------------------------------------
(* Words, addresses and handles *)

(* What digits stand for is a natural number. *)
LEMMA RadixIsNat ==
  ASSUME NEW base \in Nat, NEW s \in Seq(Nat)
  PROVE  Radix(base, s) \in Nat
<1>1. PICK h : Reads(h, base, s) /\ Radix(base, s) = h[Len(s)]
  BY RadixBy
<1>2. Len(s) \in 0..Len(s)
  BY LenProperties
<1> QED
  BY <1>1, <1>2 DEF Reads

(* A number has the same value digit by digit and byte by byte. *)
LEMMA RadixOfPairs ==
  ASSUME NEW s \in Seq(Nat), NEW b \in Seq(Nat), Len(s) = 2 * Len(b),
         \A i \in 1..Len(b) : b[i] = 16 * s[2 * i - 1] + s[2 * i]
  PROVE  Radix(256, b) = Radix(16, s)
<1> DEFINE m == Len(b)
<1>1. m \in Nat /\ Len(s) = 2 * m /\ \A i \in 1..m : b[i] = 16 * s[2 * i - 1] + s[2 * i]
  BY LenProperties
<1>a. \A i \in 1..Len(s) : s[i] \in Nat
  BY ElementOfSeq
<1>2. PICK h : Reads(h, 16, s) /\ Radix(16, s) = h[Len(s)]
  BY RadixBy
<1> HIDE DEF m
<1>3. /\ h \in [0..(2 * m) -> Nat] /\ h[0] = 0
      /\ \A i \in 1..(2 * m) : h[i] = 16 * h[i - 1] + s[i]
  BY <1>1, <1>2 DEF Reads
<1> DEFINE k == [j \in 0..m |-> h[2 * j]]
<1>4. k \in [0..m -> Nat] /\ k[0] = 0
  <2>1. \A j \in 0..m : 2 * j \in 0..(2 * m)
    BY <1>1
  <2>2. 2 * 0 = 0 /\ 0 \in 0..m
    BY <1>1
  <2> QED
    BY <1>3, <2>1, <2>2
<1>5. ASSUME NEW j \in 1..m
      PROVE  k[j] = 256 * k[j - 1] + b[j]
  <2>1. /\ 2 * j \in 1..(2 * m) /\ 2 * j - 1 \in 1..(2 * m) /\ (2 * j - 1) - 1 = 2 * (j - 1)
        /\ j \in 0..m /\ j - 1 \in 0..m /\ 2 * (j - 1) \in 0..(2 * m)
    BY <1>1
  <2>2. h[2 * j] = 16 * h[2 * j - 1] + s[2 * j]
        /\ h[2 * j - 1] = 16 * h[2 * (j - 1)] + s[2 * j - 1]
    BY <1>3, <2>1
  <2>3. b[j] = 16 * s[2 * j - 1] + s[2 * j]
    BY <1>1
  <2>4. k[j] = h[2 * j] /\ k[j - 1] = h[2 * (j - 1)]
    BY <2>1
  <2>5. h[2 * (j - 1)] \in Nat /\ s[2 * j - 1] \in Nat /\ s[2 * j] \in Nat
    BY <1>1, <1>3, <1>a, <2>1
  <2>6. PICK x \in Nat, d \in Nat, e \in Nat :
          x = h[2 * (j - 1)] /\ d = s[2 * j - 1] /\ e = s[2 * j]
    BY <2>5
  <2>7. k[j] = 16 * (16 * x + d) + e /\ k[j - 1] = x /\ b[j] = 16 * d + e
    BY <2>2, <2>3, <2>4, <2>6
  <2>8. 16 * (16 * x + d) + e = 256 * x + (16 * d + e)
    OBVIOUS
  <2> QED
    BY <2>7, <2>8
<1> HIDE DEF k
<1>6. Reads(k, 256, b)
  BY <1>4, <1>5 DEF Reads, m
<1>7. Radix(256, b) = k[m]
  BY <1>6, RadixIs DEF m
<1>8. k[m] = h[2 * m]
  BY <1>1 DEF k
<1> QED
  BY <1>1, <1>2, <1>7, <1>8

\* t is s after a number of zeros.
ZerosBefore(t, s) ==
  LET pad == Len(t) - Len(s) IN
    Len(s) <= Len(t) /\ \A i \in 1..Len(t) : t[i] = IF i <= pad THEN 0 ELSE s[i - pad]

(* Zeros before a number do not change it. *)
LEMMA RadixOfPadded ==
  ASSUME NEW s \in Seq(Nat), NEW t \in Seq(Nat), ZerosBefore(t, s)
  PROVE  Radix(16, t) = Radix(16, s)
<1> DEFINE n == Len(s)
           w == Len(t)
           pad == w - n
<1>1. n \in Nat /\ w \in Nat /\ n <= w
  BY LenProperties DEF ZerosBefore
<1>2. pad \in Nat /\ pad + n = w
  BY <1>1
<1>3. \A i \in 1..w : t[i] = IF i <= pad THEN 0 ELSE s[i - pad]
  BY DEF ZerosBefore
<1>4. PICK h : Reads(h, 16, s) /\ Radix(16, s) = h[n]
  BY RadixBy
<1>5. /\ h \in [0..n -> Nat] /\ h[0] = 0 /\ \A i \in 1..n : h[i] = 16 * h[i - 1] + s[i]
  BY <1>4 DEF Reads
<1> HIDE DEF n, w, pad
<1> DEFINE k == [i \in 0..w |-> IF i <= pad THEN 0 ELSE h[i - pad]]
<1>6. k \in [0..w -> Nat] /\ k[0] = 0
  <2>1. \A i \in 0..w : ~(i <= pad) => i - pad \in 0..n
    BY <1>1, <1>2
  <2>2. 0 \in 0..w /\ 0 <= pad
    BY <1>1, <1>2
  <2> QED
    BY <1>5, <2>1, <2>2
<1>7. ASSUME NEW i \in 1..w
      PROVE  k[i] = 16 * k[i - 1] + t[i]
  <2>1. i \in 0..w /\ i - 1 \in 0..w /\ i \in Nat
    BY <1>1
  <2>2. CASE i <= pad
    <3>1. i - 1 <= pad
      BY <1>2, <2>1, <2>2
    <3>2. k[i] = 0 /\ k[i - 1] = 0 /\ t[i] = 0
      BY <1>3, <2>1, <2>2, <3>1
    <3> QED
      BY <3>2
  <2>3. CASE i = pad + 1
    <3>1. i - 1 <= pad /\ ~(i <= pad) /\ i - pad = 1 /\ 1 \in 1..n /\ 1 - 1 = 0
      BY <1>1, <1>2, <2>1, <2>3
    <3>2. k[i] = h[1] /\ k[i - 1] = 0 /\ t[i] = s[1]
      BY <1>3, <2>1, <3>1
    <3>3. h[1] = 16 * h[0] + s[1]
      BY <1>5, <3>1
    <3> QED
      BY <1>5, <3>2, <3>3
  <2>4. CASE i > pad + 1
    <3>1. /\ ~(i - 1 <= pad) /\ ~(i <= pad) /\ i - pad \in 1..n /\ (i - 1) - pad = (i - pad) - 1
      BY <1>1, <1>2, <2>1, <2>4
    <3>2. k[i] = h[i - pad] /\ k[i - 1] = h[(i - pad) - 1] /\ t[i] = s[i - pad]
      BY <1>3, <2>1, <3>1
    <3> QED
      BY <1>5, <3>1, <3>2
  <2> QED
    BY <1>2, <2>1, <2>2, <2>3, <2>4
<1> HIDE DEF k
<1>8. Reads(k, 16, t)
  BY <1>6, <1>7 DEF Reads, w
<1>9. Radix(16, t) = k[w]
  BY <1>8, RadixIs DEF w
<1>10. k[w] = h[n]
  <2>1. w \in 0..w /\ (w <= pad => n = 0) /\ w - pad = n
    BY <1>1, <1>2
  <2> QED
    BY <1>5, <2>1 DEF k
<1> QED
  BY <1>4, <1>9, <1>10

(* More in every place is more, of the same length. *)
LEMMA RadixMonotone ==
  ASSUME NEW s \in Seq(Nat), NEW t \in Seq(Nat), Len(s) = Len(t),
         \A i \in 1..Len(s) : s[i] <= t[i]
  PROVE  Radix(16, s) <= Radix(16, t) /\ Radix(16, s) \in Nat
<1> DEFINE n == Len(s)
<1>1. n \in Nat /\ Len(t) = n /\ \A i \in 1..n : s[i] <= t[i] /\ s[i] \in Nat /\ t[i] \in Nat
  BY LenProperties, ElementOfSeq
<1>2. PICK h : Reads(h, 16, s) /\ Radix(16, s) = h[n]
  BY RadixBy
<1>3. PICK g : Reads(g, 16, t) /\ Radix(16, t) = g[n]
  BY <1>1, RadixBy
<1>4. /\ h \in [0..n -> Nat] /\ h[0] = 0 /\ \A i \in 1..n : h[i] = 16 * h[i - 1] + s[i]
  BY <1>2 DEF Reads
<1>5. /\ g \in [0..n -> Nat] /\ g[0] = 0 /\ \A i \in 1..n : g[i] = 16 * g[i - 1] + t[i]
  BY <1>1, <1>3 DEF Reads
<1> HIDE DEF n
<1> DEFINE P == {i \in 0..n : h[i] <= g[i]}
<1>6. 0 \in P
  BY <1>1, <1>4, <1>5
<1>7. ASSUME NEW i \in 0..(n - 1), i \in P
      PROVE  i + 1 \in P
  <2>1. i + 1 \in 1..n /\ i + 1 \in 0..n /\ (i + 1) - 1 = i /\ i \in 0..n
    BY <1>1
  <2>2. /\ h[i + 1] = 16 * h[i] + s[i + 1] /\ g[i + 1] = 16 * g[i] + t[i + 1]
        /\ s[i + 1] <= t[i + 1] /\ h[i] <= g[i] /\ h[i] \in Nat /\ g[i] \in Nat
        /\ s[i + 1] \in Nat /\ t[i + 1] \in Nat
    BY <1>1, <1>4, <1>5, <1>7, <2>1
  <2>3. \A x, y, d, e \in Nat : x <= y /\ d <= e => 16 * x + d <= 16 * y + e
    OBVIOUS
  <2>4. h[i + 1] <= g[i + 1]
    BY <2>2, <2>3
  <2> QED
    BY <2>1, <2>4
<1>8. n \in P /\ n \in 0..n
  <2> HIDE DEF P
  <2>1. \A i \in 0..n : i \in P
    BY <1>1, <1>6, <1>7, UpTo
  <2> QED
    BY <1>1, <2>1
<1> QED
  BY <1>2, <1>3, <1>4, <1>8

-----------------------------------------------------------------------------
(* Hexadecimal texts *)

(* Every digit stands for less than sixteen. *)
LEMMA DigitValues ==
  /\ \A c \in DOMAIN DigitOf : DigitOf[c] \in 0..15 /\ DigitOf[c] \in Nat
  /\ "0" \in DOMAIN DigitOf /\ DigitOf["0"] = 0 /\ "X" \notin DOMAIN DigitOf
<1>1. DOMAIN DigitOf = {"0", "1", "2", "3", "4", "5", "6", "7", "8", "9", "a", "b", "c", "d", "e",
                        "f", "A", "B", "C", "D", "E", "F"}
  BY DEF DigitOf
<1>2. \A c \in {"0", "1", "2", "3"} : DigitOf[c] \in 0..15
  BY DEF DigitOf
<1>3. \A c \in {"4", "5", "6", "7", "8", "9"} : DigitOf[c] \in 0..15
  BY DEF DigitOf
<1>4. \A c \in {"a", "b", "c", "A", "B", "C"} : DigitOf[c] \in 0..15
  BY DEF DigitOf
<1>5. \A c \in {"d", "e", "f", "D", "E", "F"} : DigitOf[c] \in 0..15
  BY DEF DigitOf
<1>6. DigitOf["0"] = 0
  BY DEF DigitOf
<1>7. \A c \in DOMAIN DigitOf : DigitOf[c] \in 0..15
  BY <1>1, <1>2, <1>3, <1>4, <1>5
<1> QED
  BY <1>1, <1>6, <1>7

(* Upper and lower case stand for the same digit. *)
LEMMA LowerFacts ==
  ASSUME NEW c \in Characters
  PROVE  /\ lower(c) \in Characters /\ lower(lower(c)) = lower(c)
         /\ lower(c) \in DOMAIN DigitOf <=> c \in DOMAIN DigitOf
         /\ DigitOf[lower(c)] = DigitOf[c]
<1>1. CASE c \in {"A", "B", "C", "D", "E", "F"}
  BY <1>1 DEF lower, DigitOf, Characters
<1>2. CASE c \notin {"A", "B", "C", "D", "E", "F"}
  BY <1>2 DEF lower
<1> QED
  BY <1>1, <1>2

(* The digits of a hexadecimal text. *)
LEMMA DigitsShape ==
  ASSUME NEW chars \in Seq(Characters), IsHex(chars)
  PROVE  /\ Digits(chars) \in Seq(Nat) /\ Len(Digits(chars)) = Len(chars)
         /\ \A i \in 1..Len(chars) : Digits(chars)[i] = DigitOf[chars[i]] /\ chars[i] \in DOMAIN DigitOf
         /\ \A i \in 1..Len(chars) : Digits(chars)[i] \in 0..15
<1>1. Len(chars) \in Nat /\ DOMAIN chars = 1..Len(chars)
  BY LenProperties
<1>2. \A i \in 1..Len(chars) : chars[i] \in DOMAIN DigitOf
  BY <1>1 DEF IsHex
<1>3. \A i \in 1..Len(chars) : Digits(chars)[i] = DigitOf[chars[i]]
  BY <1>1 DEF Digits
<1>4. Digits(chars) \in [1..Len(chars) -> Nat]
  BY <1>1, <1>2, DigitValues DEF Digits
<1> QED
  BY <1>1, <1>2, <1>3, <1>4, FunctionIsSeq, DigitValues

(* Decoding takes an even number of digits and keeps their number. *)
LEMMA DecodeFacts ==
  ASSUME NEW chars \in Seq(Characters)
  PROVE  /\ decode(chars).ok \in BOOLEAN
         /\ decode(chars).ok <=> IsHex(chars) /\ Len(chars) % 2 = 0
         /\ decode(chars).ok =>
              /\ decode(chars).bytes \in Seq(Nat) /\ Len(decode(chars).bytes) = Len(chars) \div 2
              /\ Value(decode(chars).bytes) = Number(Digits(chars))
<1> DEFINE n == Len(chars)
           m == n \div 2
           b == [i \in 1..m |-> 16 * DigitOf[chars[2 * i - 1]] + DigitOf[chars[2 * i]]]
<1>1. n \in Nat
  BY LenProperties
<1>2. n % 2 \in {0, 1} /\ m \in Nat /\ (n % 2 = 0 => n = 2 * m)
  BY <1>1
<1>3. CASE ~IsHex(chars) \/ n % 2 = 1
  BY <1>2, <1>3 DEF decode, Rejected
<1>4. CASE ~(~IsHex(chars) \/ n % 2 = 1)
  <2>1. IsHex(chars) /\ n % 2 = 0 /\ n = 2 * m
    BY <1>2, <1>4
  <2>2. decode(chars) = [ok |-> TRUE, bytes |-> b]
    BY <1>4 DEF decode
  <2> HIDE DEF m
  <2> DEFINE s == Digits(chars)
  <2>3. /\ s \in Seq(Nat) /\ Len(s) = n
        /\ \A i \in 1..n : s[i] = DigitOf[chars[i]] /\ s[i] \in 0..15
    BY <2>1, DigitsShape
  <2> HIDE DEF s, n
  <2>4. ASSUME NEW i \in 1..m
        PROVE  b[i] = 16 * s[2 * i - 1] + s[2 * i] /\ b[i] \in Nat
    <3>1. 2 * i - 1 \in 1..n /\ 2 * i \in 1..n
      BY <1>2, <2>1
    <3>2. b[i] = 16 * DigitOf[chars[2 * i - 1]] + DigitOf[chars[2 * i]]
      OBVIOUS
    <3>3. b[i] = 16 * s[2 * i - 1] + s[2 * i]
      BY <2>3, <3>1, <3>2
    <3> HIDE DEF b
    <3>4. PICK x \in Nat, y \in Nat : x = s[2 * i - 1] /\ y = s[2 * i]
      BY <2>3, <3>1
    <3>5. 16 * x + y \in Nat
      OBVIOUS
    <3> QED
      BY <3>3, <3>4, <3>5
  <2>5. b \in [1..m -> Nat]
    BY <2>4
  <2> HIDE DEF b
  <2>6. b \in Seq(Nat) /\ Len(b) = m
    BY <1>2, <2>5, FunctionIsSeq
  <2>7. Len(s) = 2 * Len(b) /\ \A i \in 1..Len(b) : b[i] = 16 * s[2 * i - 1] + s[2 * i]
    BY <2>1, <2>3, <2>4, <2>6
  <2>8. Radix(256, b) = Radix(16, s)
    BY <2>3, <2>6, <2>7, RadixOfPairs
  <2> QED
    BY <2>1, <2>2, <2>6, <2>8 DEF Value, Number, s, m, n
<1> QED
  BY <1>3, <1>4

\* chars with zeros before it, to a word.
Padded(chars) ==
  [i \in 1..WordDigits |-> IF i <= WordDigits - Len(chars) THEN "0"
                           ELSE chars[i - (WordDigits - Len(chars))]]

(* Padding keeps a text hexadecimal, and its number. *)
LEMMA PaddedFacts ==
  ASSUME NEW chars \in Seq(Characters), Len(chars) <= WordDigits
  PROVE  /\ Padded(chars) \in Seq(Characters) /\ Len(Padded(chars)) = WordDigits
         /\ IsHex(Padded(chars)) <=> IsHex(chars)
         /\ IsHex(chars) => ZerosBefore(Digits(Padded(chars)), Digits(chars))
         /\ IsHex(chars) => Number(Digits(Padded(chars))) = Number(Digits(chars))
         /\ Len(chars) = WordDigits => Padded(chars) = chars
<1> DEFINE n == Len(chars)
           w == WordDigits
           pad == w - n
           p == Padded(chars)
<1>1. n \in Nat /\ w \in Nat /\ n <= w /\ DOMAIN chars = 1..n /\ \A i \in 1..n : chars[i] \in Characters
  BY LenProperties, ElementOfSeq, WireAssumption
<1>2. p = [i \in 1..w |-> IF i <= pad THEN "0" ELSE chars[i - pad]]
  BY DEF Padded
<1> HIDE DEF n, w, p
<1>3. pad \in Nat /\ \A i \in 1..w : ~(i <= pad) => i - pad \in 1..n
  BY <1>1
<1>4. DOMAIN p = 1..w /\ \A i \in 1..w : p[i] = IF i <= pad THEN "0" ELSE chars[i - pad]
  BY <1>2
<1>5. ASSUME NEW i \in 1..w
      PROVE  p[i] \in Characters
  <2>1. CASE i <= pad
    <3>1. p[i] = "0" /\ "0" \in Characters
      BY <1>4, <2>1, DigitValues DEF Characters
    <3> QED
      BY <3>1
  <2>2. CASE ~(i <= pad)
    BY <1>1, <1>3, <1>4, <2>2
  <2> QED
    BY <2>1, <2>2
<1>6. p \in [1..w -> Characters]
  BY <1>2, <1>4, <1>5
<1>7. p \in Seq(Characters) /\ Len(p) = w
  BY <1>1, <1>6, FunctionIsSeq
<1>8. IsHex(p) => IsHex(chars)
  <2> SUFFICES ASSUME IsHex(p), NEW i \in 1..n
               PROVE  chars[i] \in DOMAIN DigitOf
    BY <1>1 DEF IsHex
  <2>1. i + pad \in 1..w /\ ~(i + pad <= pad) /\ (i + pad) - pad = i
    BY <1>1
  <2>2. p[i + pad] = chars[i]
    BY <1>4, <2>1
  <2> QED
    BY <1>4, <2>1, <2>2 DEF IsHex
<1>9. IsHex(chars) => IsHex(p)
  <2> SUFFICES ASSUME IsHex(chars), NEW i \in 1..w
               PROVE  p[i] \in DOMAIN DigitOf
    BY <1>4 DEF IsHex
  <2>1. ~(i <= pad) => chars[i - pad] \in DOMAIN DigitOf
    BY <1>1, <1>3 DEF IsHex
  <2> QED
    BY <1>4, <2>1, DigitValues
<1>10. ASSUME IsHex(chars)
       PROVE  ZerosBefore(Digits(p), Digits(chars)) /\ Number(Digits(p)) = Number(Digits(chars))
  <2> DEFINE s == Digits(chars)
             t == Digits(p)
  <2>1. s \in Seq(Nat) /\ Len(s) = n /\ \A i \in 1..n : s[i] = DigitOf[chars[i]]
    BY <1>10, DigitsShape DEF n
  <2>2. t \in Seq(Nat) /\ Len(t) = w /\ \A i \in 1..w : t[i] = DigitOf[p[i]]
    BY <1>7, <1>9, <1>10, DigitsShape
  <2> HIDE DEF s, t
  <2>3. ASSUME NEW i \in 1..w
        PROVE  t[i] = IF i <= pad THEN 0 ELSE s[i - pad]
    <3>1. CASE i <= pad
      BY <1>4, <2>2, <3>1, DigitValues
    <3>2. CASE ~(i <= pad)
      <4>1. i - pad \in 1..n /\ p[i] = chars[i - pad]
        BY <1>3, <1>4, <3>2
      <4>2. t[i] = DigitOf[chars[i - pad]] /\ s[i - pad] = DigitOf[chars[i - pad]]
        BY <2>1, <2>2, <4>1
      <4> QED
        BY <3>2, <4>2
    <3> QED
      BY <3>1, <3>2
  <2>4. ZerosBefore(t, s)
    BY <1>1, <2>1, <2>2, <2>3 DEF ZerosBefore
  <2>5. Radix(16, t) = Radix(16, s)
    BY <2>1, <2>2, <2>4, RadixOfPadded
  <2> QED
    BY <2>4, <2>5 DEF Number, s, t
<1>11. ASSUME n = w
       PROVE  p = chars
  <2>1. \A i \in 1..w : ~(i <= pad) /\ i - pad = i
    BY <1>1, <1>11
  <2>2. \A i \in 1..w : p[i] = chars[i]
    BY <1>4, <2>1
  <2> QED
    BY <1>7, <1>11, <2>2, SeqEqual DEF n
<1> QED
  BY <1>7, <1>8, <1>9, <1>10, <1>11 DEF n, w, p

(* The characters of a text once its prefix is stripped. *)
LEMMA StripFacts ==
  ASSUME NEW t \in WireText
  PROVE  /\ t.chars \in Seq(Characters) /\ Strip0x(t) \in Seq(Characters)
         /\ t.prefix # "0X" => Strip0x(t) = t.chars
         /\ t.prefix = "0X" => ~IsHex(Strip0x(t)) /\ Len(Strip0x(t)) # 0
<1>1. t.chars \in Seq(Characters)
  BY DEF WireText
<1>2. CASE t.prefix = "0X"
  <2> DEFINE z == <<"0", "X">>
             x == z \o t.chars
  <2>1. z \in Seq(Characters) /\ Len(z) = 2 /\ z[2] = "X"
    <3>1. "0" \in Characters /\ "X" \in Characters
      BY DigitValues DEF Characters
    <3> QED
      BY <3>1
  <2>2. Strip0x(t) = x
    BY <1>2 DEF Strip0x
  <2> HIDE DEF z
  <2>3. /\ x \in Seq(Characters) /\ Len(x) = Len(z) + Len(t.chars)
        /\ \A i \in 1..(Len(z) + Len(t.chars)) : x[i] = IF i <= Len(z) THEN z[i] ELSE t.chars[i - Len(z)]
    BY <1>1, <2>1, ConcatProperties
  <2> HIDE DEF x
  <2>4. Len(t.chars) \in Nat
    BY <1>1, LenProperties
  <2>5. 2 \in 1..(2 + Len(t.chars)) /\ 2 <= 2
    BY <2>4
  <2>6. x[2] = "X" /\ 2 \in 1..Len(x) /\ Len(x) # 0
    BY <2>1, <2>3, <2>4, <2>5
  <2>7. DOMAIN x = 1..Len(x)
    BY <2>3, LenProperties
  <2>8. ~IsHex(x)
    BY <2>6, <2>7, DigitValues DEF IsHex
  <2> QED
    BY <1>1, <1>2, <2>2, <2>3, <2>6, <2>8
<1>3. CASE t.prefix # "0X"
  BY <1>1, <1>3 DEF Strip0x
<1> QED
  BY <1>2, <1>3

(* A word: what parses is a hexadecimal text that fits, and keeps its      *)
(* number.                                                                 *)
LEMMA WordParses ==
  ASSUME NEW t \in WireText
  PROVE  /\ parse_b32(t).ok \in BOOLEAN
         /\ parse_b32(t).ok <=> IsHex(Strip0x(t)) /\ Len(Strip0x(t)) <= WordDigits
         /\ parse_b32(t).ok => Value(parse_b32(t).bytes) = Number(Digits(Strip0x(t)))
         /\ Len(Strip0x(t)) <= WordDigits => parse_b32(t) = decode(Padded(Strip0x(t)))
<1> DEFINE chars == Strip0x(t)
           p == Padded(chars)
<1>1. chars \in Seq(Characters) /\ Len(chars) \in Nat /\ WordDigits \in Nat /\ WordDigits % 2 = 0
  BY StripFacts, LenProperties, WireAssumption
<1>2. CASE Len(chars) > WordDigits
  <2>1. parse_b32(t) = Rejected
    BY <1>2 DEF parse_b32
  <2> HIDE DEF chars
  <2> QED
    BY <1>1, <1>2, <2>1 DEF Rejected, chars
<1>3. CASE ~(Len(chars) > WordDigits)
  <2>1. parse_b32(t) = decode(p)
    BY <1>3 DEF parse_b32, Padded
  <2> HIDE DEF chars, p
  <2>2. Len(chars) <= WordDigits
    BY <1>1, <1>3
  <2>3. /\ p \in Seq(Characters) /\ Len(p) = WordDigits /\ (IsHex(p) <=> IsHex(chars))
        /\ IsHex(chars) => Number(Digits(p)) = Number(Digits(chars))
    BY <1>1, <2>2, PaddedFacts DEF p
  <2>4. /\ decode(p).ok \in BOOLEAN /\ (decode(p).ok <=> IsHex(p) /\ Len(p) % 2 = 0)
        /\ decode(p).ok => Value(decode(p).bytes) = Number(Digits(p))
    BY <2>3, DecodeFacts
  <2> QED
    BY <1>1, <2>1, <2>2, <2>3, <2>4 DEF chars, p
<1> QED
  BY <1>2, <1>3

(* A run of zeros is zero, to any base. *)
LEMMA RadixOfZeros ==
  ASSUME NEW base \in Nat, NEW n \in Nat
  PROVE  [i \in 1..n |-> 0] \in Seq(Nat) /\ Radix(base, [i \in 1..n |-> 0]) = 0
<1> DEFINE z == [i \in 1..n |-> 0]
           h == [i \in 0..n |-> 0]
<1>1. z \in [1..n -> Nat] /\ \A i \in 1..n : z[i] = 0
  OBVIOUS
<1>2. h \in [0..n -> Nat] /\ \A i \in 0..n : h[i] = 0
  OBVIOUS
<1> HIDE DEF z, h
<1>3. z \in Seq(Nat) /\ Len(z) = n
  BY <1>1, FunctionIsSeq
<1>4. \A i \in 1..n : h[i] = base * h[i - 1] + z[i]
  <2>1. \A i \in 1..n : i \in 0..n /\ i - 1 \in 0..n
    OBVIOUS
  <2>2. base * 0 + 0 = 0
    OBVIOUS
  <2> QED
    BY <1>1, <1>2, <2>1, <2>2
<1>5. Reads(h, base, z) /\ h[n] = 0
  <2>1. 0 \in 0..n /\ n \in 0..n
    OBVIOUS
  <2> QED
    BY <1>2, <1>3, <1>4, <2>1 DEF Reads
<1>6. Radix(base, z) = 0
  BY <1>3, <1>5, RadixIs
<1> QED
  BY <1>3, <1>6 DEF z

(* An address: what parses is empty or has all its digits, and keeps its   *)
(* number.                                                                 *)
LEMMA AddressParses ==
  ASSUME NEW t \in WireText
  PROVE  /\ parse_addr(t).ok \in BOOLEAN
         /\ parse_addr(t).ok <=> IsHex(Strip0x(t)) /\ Len(Strip0x(t)) \in {0, AddressDigits}
         /\ parse_addr(t).ok => Value(parse_addr(t).bytes) = Number(Digits(Strip0x(t)))
<1> DEFINE chars == Strip0x(t)
           h == AddressDigits \div 2
           zeros == [i \in 1..h |-> 0]
<1>1. /\ chars \in Seq(Characters) /\ Len(chars) \in Nat /\ DOMAIN chars = 1..Len(chars)
      /\ AddressDigits \in Nat \ {0} /\ AddressDigits % 2 = 0 /\ h \in Nat
  BY StripFacts, LenProperties, WireAssumption
<1>2. CASE chars = << >>
  <2>1. parse_addr(t) = [ok |-> TRUE, bytes |-> zeros]
    BY <1>2 DEF parse_addr
  <2> HIDE DEF chars
  <2>2. Len(chars) = 0 /\ IsHex(chars) /\ Digits(chars) = << >>
    <3>1. Len(<< >>) = 0 /\ DOMAIN << >> = {}
      OBVIOUS
    <3> QED
      BY <1>2, <3>1 DEF IsHex, Digits
  <2>3. Radix(256, zeros) = 0
    BY <1>1, RadixOfZeros
  <2>4. Radix(16, << >>) = 0
    <3>1. [i \in 1..0 |-> 0] = << >>
      OBVIOUS
    <3>2. Radix(16, [i \in 1..0 |-> 0]) = 0
      BY RadixOfZeros
    <3> QED
      BY <3>1, <3>2
  <2> HIDE DEF zeros
  <2> QED
    BY <2>1, <2>2, <2>3, <2>4 DEF Value, Number, chars
<1>3. CASE chars # << >> /\ Len(chars) # AddressDigits
  <2>1. parse_addr(t) = Rejected
    BY <1>3 DEF parse_addr
  <2> HIDE DEF chars
  <2>2. Len(chars) # 0
    BY <1>1, <1>3, EmptySeq
  <2> QED
    BY <1>3, <2>1, <2>2 DEF Rejected, chars
<1>4. CASE chars # << >> /\ Len(chars) = AddressDigits
  <2>1. parse_addr(t) = decode(chars)
    BY <1>4 DEF parse_addr
  <2> HIDE DEF chars
  <2>2. /\ decode(chars).ok \in BOOLEAN /\ (decode(chars).ok <=> IsHex(chars) /\ Len(chars) % 2 = 0)
        /\ decode(chars).ok => Value(decode(chars).bytes) = Number(Digits(chars))
    BY <1>1, DecodeFacts
  <2> QED
    BY <1>1, <1>4, <2>1, <2>2 DEF chars
<1> QED
  BY <1>2, <1>3, <1>4

(* Lower case spells the same digits. *)
LEMMA LowercaseFacts ==
  ASSUME NEW chars \in Seq(Characters)
  PROVE  /\ lowercase(chars) \in Seq(Characters) /\ Len(lowercase(chars)) = Len(chars)
         /\ IsHex(lowercase(chars)) <=> IsHex(chars)
         /\ Digits(lowercase(chars)) = Digits(chars)
         /\ decode(lowercase(chars)) = decode(chars)
         /\ lowercase(lowercase(chars)) = lowercase(chars)
<1> DEFINE n == Len(chars)
           l == lowercase(chars)
<1>1. n \in Nat /\ DOMAIN chars = 1..n /\ \A i \in 1..n : chars[i] \in Characters
  BY LenProperties, ElementOfSeq
<1>2. l = [i \in 1..n |-> lower(chars[i])]
  BY <1>1 DEF lowercase
<1> HIDE DEF n, l
<1>3. DOMAIN l = 1..n /\ \A i \in 1..n : l[i] = lower(chars[i])
  BY <1>2
<1>4. \A i \in 1..n : l[i] \in Characters /\ lower(l[i]) = l[i]
  BY <1>1, <1>3, LowerFacts
<1>5. l \in [1..n -> Characters]
  BY <1>1, <1>2, <1>4
<1>6. l \in Seq(Characters) /\ Len(l) = n
  BY <1>1, <1>5, FunctionIsSeq
<1>7. \A i \in 1..n : DigitOf[l[i]] = DigitOf[chars[i]]
                      /\ (l[i] \in DOMAIN DigitOf <=> chars[i] \in DOMAIN DigitOf)
  BY <1>1, <1>3, LowerFacts
<1>8. IsHex(l) <=> IsHex(chars)
  BY <1>1, <1>3, <1>7 DEF IsHex
<1>9. Digits(l) = Digits(chars)
  BY <1>1, <1>3, <1>7 DEF Digits
<1>10. decode(l) = decode(chars)
  <2>1. CASE ~IsHex(chars) \/ n % 2 = 1
    BY <1>6, <1>8, <2>1 DEF decode, n
  <2>2. CASE ~(~IsHex(chars) \/ n % 2 = 1)
    <3> DEFINE m == n \div 2
               b == [i \in 1..m |-> 16 * DigitOf[chars[2 * i - 1]] + DigitOf[chars[2 * i]]]
               c == [i \in 1..m |-> 16 * DigitOf[l[2 * i - 1]] + DigitOf[l[2 * i]]]
    <3>1. decode(chars) = [ok |-> TRUE, bytes |-> b] /\ decode(l) = [ok |-> TRUE, bytes |-> c]
      BY <1>6, <1>8, <2>2 DEF decode, n
    <3>2. m \in Nat /\ 2 * m <= n
      BY <1>1
    <3> HIDE DEF m
    <3>3. ASSUME NEW i \in 1..m
          PROVE  DigitOf[chars[2 * i - 1]] = DigitOf[l[2 * i - 1]]
                 /\ DigitOf[chars[2 * i]] = DigitOf[l[2 * i]]
      <4>1. 2 * i - 1 \in 1..n /\ 2 * i \in 1..n
        BY <1>1, <3>2
      <4> QED
        BY <1>7, <4>1
    <3>4. b = c
      BY <3>3
    <3> QED
      BY <3>1, <3>4
  <2> QED
    BY <2>1, <2>2
<1>11. lowercase(l) = l
  <2>1. lowercase(l) = [i \in 1..n |-> lower(l[i])]
    BY <1>3 DEF lowercase
  <2> QED
    BY <1>4, <1>5, <2>1
<1> QED
  BY <1>6, <1>8, <1>9, <1>10, <1>11 DEF l, n

(* Every handle is read alike, whatever the width of a word. *)
THEOREM HandlesAreOne == AlgorithmsSpec => []HandlesAgree
<1>1. ASSUME NEW t \in WireText
      PROVE  LET handle == Handle_parse(t)
                 ct_hash == parse_ct_hash(t)
             IN /\ handle.ok <=> ct_hash.ok
                /\ handle.ok =>
                     /\ parse_ct_hash(handle.hex) = ct_hash
                     /\ Handle_parse(handle.hex) = handle
                     /\ handle.u256 = Value(ct_hash.bytes)
  <2> DEFINE chars == t.chars
             n == Len(chars)
             hex == [prefix |-> "0x", chars |-> lowercase(chars)]
             d == decode(chars)
  <2>1. chars \in Seq(Characters) /\ n \in Nat /\ WordDigits \in Nat /\ WordDigits % 2 = 0
    BY StripFacts, LenProperties, WireAssumption
  <2>2. /\ d.ok \in BOOLEAN /\ (d.ok <=> IsHex(chars) /\ n % 2 = 0)
        /\ d.ok => Len(d.bytes) = n \div 2 /\ Value(d.bytes) = Number(Digits(chars))
    BY <2>1, DecodeFacts
  <2>3. hex.chars = lowercase(chars)
    OBVIOUS
  <2>4. /\ Len(lowercase(chars)) = n /\ (IsHex(lowercase(chars)) <=> IsHex(chars))
        /\ Digits(lowercase(chars)) = Digits(chars) /\ decode(lowercase(chars)) = d
        /\ lowercase(lowercase(chars)) = lowercase(chars)
    BY <2>1, LowercaseFacts
  <2>5. CASE n = WordDigits /\ IsHex(chars)
    <3>1. d.ok /\ Len(d.bytes) = WordDigits \div 2
      BY <2>1, <2>2, <2>5
    <3>2. parse_ct_hash(t) = d
      BY <3>1 DEF parse_ct_hash
    <3>3. Handle_parse(t) = [ok |-> TRUE, u256 |-> Number(Digits(chars)), hex |-> hex]
      BY <2>5 DEF Handle_parse
    <3>4. parse_ct_hash(hex) = d
      BY <2>3, <2>4, <3>1 DEF parse_ct_hash
    <3>5. Handle_parse(hex) = [ok |-> TRUE, u256 |-> Number(Digits(chars)), hex |-> hex]
      BY <2>3, <2>4, <2>5 DEF Handle_parse
    <3> HIDE DEF hex, d, chars
    <3> QED
      BY <2>2, <3>1, <3>2, <3>3, <3>4, <3>5
  <2>6. CASE ~(n = WordDigits /\ IsHex(chars))
    <3>1. Handle_parse(t) = Rejected
      BY <2>6 DEF Handle_parse
    <3>2. ~(d.ok /\ Len(d.bytes) = WordDigits \div 2)
      <4>a. ASSUME NEW x \in Nat, NEW y \in Nat, x % 2 = 0, y % 2 = 0, x \div 2 = y \div 2
            PROVE  x = y
        BY <4>a
      <4>1. n % 2 = 0 /\ n \div 2 = WordDigits \div 2 => n = WordDigits
        BY <2>1, <4>a
      <4> QED
        BY <2>2, <2>6, <4>1
    <3>3. parse_ct_hash(t) = Rejected
      BY <3>2 DEF parse_ct_hash
    <3> QED
      BY <3>1, <3>3 DEF Rejected
  <2> QED
    BY <2>5, <2>6
<1>2. CallInv => HandlesAgree
  <2> SUFFICES ASSUME CallInv, Called("parse")
               PROVE  HandlesAgree
    BY DEF HandlesAgree
  <2>1. call \in WireText /\ result = fields(call)
    BY TextsAssumption DEF CallInv, Called
  <2>2. result.handle = Handle_parse(call) /\ result.ct_hash = parse_ct_hash(call)
    BY <2>1 DEF fields
  <2> QED
    BY <1>1, <2>1, <2>2 DEF HandlesAgree
<1> QED
  BY <1>2, CallsReturn, PTL

(* A hexadecimal text that fits a word is a number that fits one. *)
LEMMA WordsFit ==
  ASSUME NEW chars \in Seq(Characters), IsHex(chars), Len(chars) <= WordDigits
  PROVE  Number(Digits(chars)) \in Nat /\ Number(Digits(chars)) <= MAX_U256 /\ MAX_U256 \in Nat
<1> DEFINE p == Padded(chars)
           s == Digits(p)
           top == [i \in 1..WordDigits |-> 15]
<1>1. /\ p \in Seq(Characters) /\ Len(p) = WordDigits /\ IsHex(p)
      /\ Number(s) = Number(Digits(chars))
  BY PaddedFacts
<1> HIDE DEF p
<1>2. s \in Seq(Nat) /\ Len(s) = WordDigits /\ \A i \in 1..WordDigits : s[i] \in 0..15
  BY <1>1, DigitsShape
<1>3. top \in Seq(Nat) /\ Len(top) = WordDigits /\ \A i \in 1..WordDigits : top[i] = 15
  <2>1. top \in [1..WordDigits -> Nat] /\ WordDigits \in Nat
    BY WireAssumption
  <2>2. \A i \in 1..WordDigits : top[i] = 15
    OBVIOUS
  <2> HIDE DEF top
  <2> QED
    BY <2>1, <2>2, FunctionIsSeq
<1>4. MAX_U256 = Radix(16, top)
  BY DEF MAX_U256, Number
<1> HIDE DEF s, top
<1>5. Radix(16, s) <= Radix(16, top) /\ Radix(16, s) \in Nat
  <2>a. ASSUME NEW i \in 1..WordDigits
        PROVE  s[i] <= top[i]
    <3>1. s[i] \in 0..15 /\ top[i] = 15
      BY <1>2, <1>3
    <3> QED
      BY <3>1
  <2>1. Len(s) = Len(top) /\ \A i \in 1..Len(s) : s[i] <= top[i]
    BY <1>2, <1>3, <2>a
  <2> QED
    BY <1>2, <1>3, <2>1, RadixMonotone
<1>6. Radix(16, top) \in Nat
  <2>1. Len(top) = Len(top) /\ \A i \in 1..Len(top) : top[i] <= top[i]
    BY <1>3
  <2> QED
    BY <1>3, <2>1, RadixMonotone
<1> QED
  BY <1>1, <1>4, <1>5, <1>6 DEF Number, s

(* The fields of one text. *)
LEMMA FieldsOfText ==
  ASSUME NEW t \in WireText, NEW r, r = fields(t)
  PROVE  LET chars == Strip0x(t) IN
          /\ r.b32.ok <=> IsHex(chars) /\ Len(chars) <= WordDigits
          /\ r.b32.ok => Value(r.b32.bytes) = Number(Digits(chars))
          /\ r.addr.ok => r.b32.ok /\ Value(r.addr.bytes) = Value(r.b32.bytes)
          /\ r.signature.ok /\ r.b32.ok => Value(r.signature.bytes) = Value(r.b32.bytes)
          /\ r.b32.ok /\ t.prefix # "" =>
               r.revoker_data = [ok |-> TRUE, number |-> Value(r.b32.bytes)]
          /\ r.version.ok =>
               /\ r.version = r.b32
               /\ r.handle.hex = [prefix |-> t.prefix, chars |-> t.chars]
<1> DEFINE chars == Strip0x(t)
<1>1. /\ r.b32 = parse_b32(t) /\ r.addr = parse_addr(t) /\ r.signature = hex_serde(t)
      /\ r.revoker_data = u256_str(t) /\ r.version = parse_version(t) /\ r.handle = Handle_parse(t)
  BY DEF fields
<1>2. /\ chars \in Seq(Characters) /\ t.chars \in Seq(Characters) /\ Len(chars) \in Nat
      /\ t.prefix # "0X" => chars = t.chars
      /\ t.prefix = "0X" => ~IsHex(chars)
      /\ t.prefix \in {"", "0x", "0X"}
  BY StripFacts, LenProperties DEF WireText
<1>3. /\ parse_b32(t).ok \in BOOLEAN
      /\ parse_b32(t).ok <=> IsHex(chars) /\ Len(chars) <= WordDigits
      /\ parse_b32(t).ok => Value(parse_b32(t).bytes) = Number(Digits(chars))
      /\ Len(chars) <= WordDigits => parse_b32(t) = decode(Padded(chars))
  BY WordParses
<1>4. /\ parse_addr(t).ok <=> IsHex(chars) /\ Len(chars) \in {0, AddressDigits}
      /\ parse_addr(t).ok => Value(parse_addr(t).bytes) = Number(Digits(chars))
  BY AddressParses
<1>5. hex_serde(t) = decode(chars)
  BY DEF hex_serde
<1> HIDE DEF chars
<1>6. /\ decode(chars).ok => Value(decode(chars).bytes) = Number(Digits(chars))
  BY <1>2, DecodeFacts
<1>7. parse_addr(t).ok => parse_b32(t).ok
  <2>1. 0 <= WordDigits /\ AddressDigits <= WordDigits
    BY WireAssumption
  <2> QED
    BY <1>3, <1>4, <2>1
<1>8. ASSUME parse_b32(t).ok, t.prefix # ""
      PROVE  u256_str(t) = [ok |-> TRUE, number |-> Number(Digits(chars))]
  <2>1. t.prefix = "0x" /\ chars = t.chars /\ IsHex(chars) /\ Len(chars) <= WordDigits
    BY <1>2, <1>3, <1>8
  <2>2. DOMAIN Digits(chars) = 1..Len(chars)
    BY <1>2, LenProperties DEF Digits
  <2>3. \A i \in DOMAIN Digits(chars) : Digits(chars)[i] \in 0..15 /\ ~(Digits(chars)[i] >= 16)
    <3>1. \A i \in 1..Len(chars) : Digits(chars)[i] \in 0..15
      BY <1>2, <2>1, DigitsShape, Zenon
    <3>2. \A k \in 0..15 : ~(k >= 16)
      OBVIOUS
    <3> QED
      BY <2>2, <3>1, <3>2, Zenon
  <2>4. ~(Number(Digits(chars)) > MAX_U256)
    <3>1. /\ Number(Digits(chars)) \in Nat /\ MAX_U256 \in Nat
          /\ Number(Digits(chars)) <= MAX_U256
      BY <1>2, <2>1, WordsFit
    <3> QED
      BY <3>1
  <2> QED
    BY <2>1, <2>3, <2>4 DEF u256_str, Number
<1>9. ASSUME parse_version(t).ok
      PROVE  /\ parse_version(t) = parse_b32(t)
             /\ Handle_parse(t).hex = [prefix |-> t.prefix, chars |-> t.chars]
  <2>1. /\ t.prefix = "0x" /\ Len(t.chars) = WordDigits /\ lowercase(t.chars) = t.chars
        /\ parse_version(t) = decode(t.chars)
    BY <1>9 DEF parse_version, Rejected
  <2>2. chars = t.chars /\ Len(chars) <= WordDigits
    BY <1>2, <2>1
  <2>3. Padded(chars) = chars
    BY <1>2, <2>1, <2>2, PaddedFacts
  <2>4. parse_version(t) = parse_b32(t)
    BY <1>3, <2>1, <2>2, <2>3
  <2>5. IsHex(t.chars)
    BY <1>3, <1>9, <2>2, <2>4
  <2>6. Handle_parse(t).hex = [prefix |-> "0x", chars |-> lowercase(t.chars)]
    BY <2>1, <2>5 DEF Handle_parse
  <2> QED
    BY <2>1, <2>4, <2>6
<1>10. r.revoker_data = u256_str(t) /\ (r.b32.ok /\ t.prefix # "" =>
               r.revoker_data = [ok |-> TRUE, number |-> Value(r.b32.bytes)])
  BY <1>1, <1>3, <1>8
<1>11. r.version.ok => /\ r.version = r.b32
                       /\ r.handle.hex = [prefix |-> t.prefix, chars |-> t.chars]
  BY <1>1, <1>9
<1>12. /\ r.b32.ok <=> IsHex(chars) /\ Len(chars) <= WordDigits
       /\ r.b32.ok => Value(r.b32.bytes) = Number(Digits(chars))
       /\ r.addr.ok => r.b32.ok /\ Value(r.addr.bytes) = Value(r.b32.bytes)
       /\ r.signature.ok /\ r.b32.ok => Value(r.signature.bytes) = Value(r.b32.bytes)
  BY <1>1, <1>3, <1>4, <1>5, <1>6, <1>7
<1> QED
  BY <1>10, <1>11, <1>12 DEF chars

\* All elements of s are in G.
AllIn(s, G) == \A i \in DOMAIN s : s[i] \in G

\* The texts that parse as an address, and as a word.
Addresses == {t \in WireText : IsHex(Strip0x(t)) /\ Len(Strip0x(t)) \in {0, AddressDigits}}
Words == {t \in WireText : IsHex(Strip0x(t)) /\ Len(Strip0x(t)) \in 0..WordDigits}

(* Parsing an address or a word, in these terms. *)
LEMMA ParsedTexts ==
  ASSUME NEW t \in WireText
  PROVE  /\ parse_addr(t).ok <=> t \in Addresses
         /\ parse_addr(t).ok => Value(parse_addr(t).bytes) = Number(Digits(Strip0x(t)))
         /\ parse_b32(t).ok <=> t \in Words
         /\ parse_b32(t).ok => Value(parse_b32(t).bytes) = Number(Digits(Strip0x(t)))
         /\ parse_addr(t).ok \in BOOLEAN /\ parse_b32(t).ok \in BOOLEAN
<1>1. Len(Strip0x(t)) \in Nat /\ WordDigits \in Nat
  BY StripFacts, LenProperties, WireAssumption
<1>2. Len(Strip0x(t)) \in 0..WordDigits <=> Len(Strip0x(t)) <= WordDigits
  BY <1>1
<1> QED
  BY <1>2, AddressParses, WordParses DEF Addresses, Words

\* The lists of p fit, and all its texts parse.
Convertible(p) ==
  /\ Len(p.contracts) <= MAX_SCOPE_ENTRIES /\ Len(p.handles) <= MAX_SCOPE_ENTRIES
  /\ AllIn(p.contracts, Addresses) /\ AllIn(p.handles, Words)
  /\ p.issuer \in Addresses /\ p.recipient \in Addresses /\ p.revoker_contract \in Addresses
  /\ p.sealing_key \in Words

(* A permission is converted if and only if all of it can be, and then     *)
(* with every entry in its place.                                          *)
LEMMA PermissionConverts ==
  ASSUME NEW p, p.contracts \in Seq(WireText), p.handles \in Seq(WireText), p.issuer \in WireText,
         p.recipient \in WireText, p.revoker_contract \in WireText, p.sealing_key \in WireText
  PROVE  /\ try_from(p).ok <=> Convertible(p)
         /\ Convertible(p) =>
              try_from(p) =
                [ok |-> TRUE, issuer |-> parse_addr(p.issuer).bytes, expiration |-> p.expiration,
                 recipient |-> parse_addr(p.recipient).bytes, revoker_data |-> p.revoker_data,
                 revoker_contract |-> parse_addr(p.revoker_contract).bytes, scope |-> p.scope,
                 contracts |-> [i \in DOMAIN p.contracts |-> parse_addr(p.contracts[i]).bytes],
                 handles |-> [i \in DOMAIN p.handles |-> parse_b32(p.handles[i]).bytes],
                 sealing_key |-> parse_b32(p.sealing_key).bytes,
                 issuer_signature |-> p.issuer_signature,
                 recipient_signature |-> p.recipient_signature]
<1> DEFINE cs == p.contracts
           hs == p.handles
           contracts == [i \in DOMAIN cs |-> parse_addr(cs[i])]
           handles == [i \in DOMAIN hs |-> parse_b32(hs[i])]
           All(s) == \A i \in DOMAIN s : s[i].ok
           Bytes(s) == [i \in DOMAIN s |-> s[i].bytes]
           long == Len(cs) > MAX_SCOPE_ENTRIES \/ Len(hs) > MAX_SCOPE_ENTRIES
           bad == \/ ~All(contracts) \/ ~All(handles) \/ ~parse_addr(p.issuer).ok
                  \/ ~parse_addr(p.recipient).ok \/ ~parse_addr(p.revoker_contract).ok
                  \/ ~parse_b32(p.sealing_key).ok
           Tuple(c, h) ==
             [ok |-> TRUE, issuer |-> parse_addr(p.issuer).bytes, expiration |-> p.expiration,
              recipient |-> parse_addr(p.recipient).bytes, revoker_data |-> p.revoker_data,
              revoker_contract |-> parse_addr(p.revoker_contract).bytes, scope |-> p.scope,
              contracts |-> c, handles |-> h, sealing_key |-> parse_b32(p.sealing_key).bytes,
              issuer_signature |-> p.issuer_signature,
              recipient_signature |-> p.recipient_signature]
<1>1. /\ Len(cs) \in Nat /\ Len(hs) \in Nat /\ MAX_SCOPE_ENTRIES \in Nat
      /\ \A i \in DOMAIN cs : cs[i] \in WireText
      /\ \A i \in DOMAIN hs : hs[i] \in WireText
  BY LenProperties, ElementOfSeq, WireAssumption
<1>2. All(contracts) <=> AllIn(cs, Addresses)
  BY <1>1, ParsedTexts DEF AllIn
<1>3. All(handles) <=> AllIn(hs, Words)
  BY <1>1, ParsedTexts DEF AllIn
<1>4. /\ parse_addr(p.issuer).ok <=> p.issuer \in Addresses
      /\ parse_addr(p.recipient).ok <=> p.recipient \in Addresses
      /\ parse_addr(p.revoker_contract).ok <=> p.revoker_contract \in Addresses
      /\ parse_b32(p.sealing_key).ok <=> p.sealing_key \in Words
  BY ParsedTexts
<1>5. try_from(p) = IF long THEN Rejected ELSE IF bad THEN Rejected
                    ELSE Tuple(Bytes(contracts), Bytes(handles))
  BY DEF try_from
<1>6. Bytes(contracts) = [i \in DOMAIN cs |-> parse_addr(cs[i]).bytes]
      /\ Bytes(handles) = [i \in DOMAIN hs |-> parse_b32(hs[i]).bytes]
  OBVIOUS
<1>7. Convertible(p) <=> ~long /\ ~bad
  <2> HIDE DEF All, contracts, handles
  <2> QED
    BY <1>1, <1>2, <1>3, <1>4 DEF Convertible
<1>8. Tuple(Bytes(contracts), Bytes(handles)).ok = TRUE /\ Rejected.ok = FALSE
  BY DEF Rejected
<1> HIDE DEF All, Bytes, contracts, handles, long, bad, Tuple
<1>9. try_from(p).ok <=> Convertible(p)
  BY <1>5, <1>7, <1>8
<1>10. Convertible(p) => try_from(p) = Tuple(Bytes(contracts), Bytes(handles))
  BY <1>5, <1>7
<1> QED
  BY <1>6, <1>9, <1>10 DEF Tuple

\* What serde asks of p.
Read(p) ==
  /\ p.expiration \in 0..MAX_U64 /\ p.scope \in 0..255 /\ IsUint256(p.revoker_data)
  /\ WholeBytes(p.issuer_signature) /\ WholeBytes(p.recipient_signature)

(* A revoker's datum is read if it is a number that fits, and as what it   *)
(* means.                                                                  *)
LEMMA DatumIsRead ==
  ASSUME NEW d \in NumOrStr
  PROVE  /\ u256_flex(d).ok <=> IsUint256(d)
         /\ IsUint256(d) => u256_flex(d).number = Meant(d)
<1>1. CASE d.kind = "none"
  BY <1>1 DEF u256_flex, IsUint256, Meant
<1>2. CASE d.kind = "num"
  BY <1>2 DEF u256_flex, IsUint256, Meant, unsigned, Rejected
<1>3. CASE d.kind = "str"
  <2> DEFINE t == d.str
             chars == t.chars
             radix == IF t.prefix = "" THEN 10 ELSE 16
             digits == Digits(chars)
             value == Radix(radix, digits)
             over == \E i \in DOMAIN digits : digits[i] >= radix
  <2>1. t \in WireText /\ chars \in Seq(Characters)
    BY <1>3 DEF NumOrStr, WireText
  <2>2. u256_flex(d) = u256_str(t) /\ Meant(d) = value
    BY <1>3 DEF u256_flex, Meant
  <2>3. u256_str(t) = IF ~IsHex(chars) THEN Rejected
                      ELSE IF over \/ value > MAX_U256 THEN Rejected
                      ELSE [ok |-> TRUE, number |-> value]
    BY DEF u256_str
  <2>4. IsUint256(d) <=> /\ IsHex(chars) /\ value <= MAX_U256
                         /\ t.prefix # "" \/ \A i \in DOMAIN chars : DigitOf[chars[i]] < 10
    BY <1>3, <2>2 DEF IsUint256
  <2>5. ASSUME IsHex(chars)
        PROVE  over <=> ~(t.prefix # "" \/ \A i \in DOMAIN chars : DigitOf[chars[i]] < 10)
    <3>1. /\ digits \in Seq(Nat) /\ Len(digits) = Len(chars)
          /\ \A i \in 1..Len(chars) : digits[i] = DigitOf[chars[i]] /\ digits[i] \in 0..15
      BY <2>1, <2>5, DigitsShape
    <3>2. DOMAIN digits = 1..Len(chars) /\ DOMAIN chars = 1..Len(chars)
      BY <2>1, <3>1, LenProperties
    <3> HIDE DEF digits, chars, t
    <3>3. CASE t.prefix = ""
      <4>1. over <=> \E i \in 1..Len(chars) : digits[i] >= 10
        BY <3>2, <3>3
      <4>2. \A i \in 1..Len(chars) : digits[i] >= 10 <=> ~(DigitOf[chars[i]] < 10)
        <5>1. \A k \in 0..15 : k >= 10 <=> ~(k < 10)
          OBVIOUS
        <5> QED
          BY <3>1, <5>1, Zenon
      <4> HIDE DEF over
      <4> QED
        BY <3>2, <3>3, <4>1, <4>2, Zenon
    <3>4. CASE t.prefix # ""
      <4>1. over <=> \E i \in 1..Len(chars) : digits[i] >= 16
        BY <3>2, <3>4
      <4>2. \A i \in 1..Len(chars) : ~(digits[i] >= 16)
        <5>1. \A k \in 0..15 : ~(k >= 16)
          OBVIOUS
        <5> QED
          BY <3>1, <5>1, Zenon
      <4> HIDE DEF over
      <4> QED
        BY <3>4, <4>1, <4>2, Zenon
    <3> QED
      BY <3>3, <3>4
  <2>6. ASSUME IsHex(chars)
        PROVE  value \in Nat /\ MAX_U256 \in Nat
    <3>1. digits \in Seq(Nat) /\ radix \in Nat
      BY <2>1, <2>5, <2>6, DigitsShape
    <3> HIDE DEF digits, radix
    <3>2. value \in Nat
      BY <3>1, RadixIsNat
    <3>3. MAX_U256 \in Nat
      <4>1. [i \in 1..WordDigits |-> 15] \in [1..WordDigits -> Nat] /\ WordDigits \in Nat
        BY WireAssumption
      <4>2. [i \in 1..WordDigits |-> 15] \in Seq(Nat)
        BY <4>1, FunctionIsSeq
      <4> QED
        BY <4>2, RadixIsNat DEF MAX_U256, Number
    <3> QED
      BY <3>2, <3>3
  <2> HIDE DEF over, value, digits, chars, t
  <2>7. CASE ~IsHex(chars)
    <3>1. u256_flex(d) = Rejected /\ ~IsUint256(d)
      BY <2>2, <2>3, <2>4, <2>7, Zenon
    <3> QED
      BY <3>1 DEF Rejected
  <2>8. CASE IsHex(chars)
    <3>1. value > MAX_U256 <=> ~(value <= MAX_U256)
      BY <2>6, <2>8
    <3>2. IsUint256(d) <=> ~(over \/ value > MAX_U256)
      BY <2>4, <2>5, <2>8, <3>1
    <3> QED
      BY <2>2, <2>3, <2>8, <3>2 DEF Rejected
  <2> QED
    BY <2>7, <2>8
<1> QED
  BY <1>1, <1>2, <1>3 DEF NumOrStr

(* A signature is read if it is whole bytes, and as those. *)
LEMMA SignatureIsRead ==
  ASSUME NEW t \in WireText
  PROVE  /\ hex_serde(t).ok <=> WholeBytes(t)
         /\ WholeBytes(t) => KeepsLength(hex_serde(t).bytes, t)
<1> DEFINE chars == Strip0x(t)
<1>1. chars \in Seq(Characters) /\ Len(chars) \in Nat
  BY StripFacts, LenProperties
<1>2. hex_serde(t) = decode(chars)
  BY DEF hex_serde
<1> HIDE DEF chars
<1>3. /\ decode(chars).ok <=> IsHex(chars) /\ Len(chars) % 2 = 0
      /\ decode(chars).ok =>
           /\ Len(decode(chars).bytes) = Len(chars) \div 2
           /\ Value(decode(chars).bytes) = Number(Digits(chars))
  BY <1>1, DecodeFacts
<1>4. Len(chars) % 2 = 0 => 2 * (Len(chars) \div 2) = Len(chars)
  BY <1>1
<1> QED
  BY <1>2, <1>3, <1>4 DEF WholeBytes, KeepsLength, Keeps, Spelled, chars

(* A permission is read if its numbers fit and its signatures are bytes;   *)
(* its texts are left as they are.                                         *)
LEMMA PermissionIsRead ==
  ASSUME NEW p \in WirePermission
  PROVE  /\ deserialize(p).ok <=> Read(p)
         /\ Read(p) =>
              LET a == deserialize(p).acp IN
                /\ a.contracts = p.contracts /\ a.handles = p.handles /\ a.issuer = p.issuer
                /\ a.recipient = p.recipient /\ a.revoker_contract = p.revoker_contract
                /\ a.sealing_key = p.sealing_key
                /\ a.expiration = p.expiration /\ a.scope = p.scope
                /\ a.revoker_data = Meant(p.revoker_data)
                /\ KeepsLength(a.issuer_signature, p.issuer_signature)
                /\ KeepsLength(a.recipient_signature, p.recipient_signature)
<1> DEFINE e == unsigned(p.expiration, MAX_U64)
           d == u256_flex(p.revoker_data)
           c == unsigned(p.scope, 255)
           i == hex_serde(p.issuer_signature)
           r == hex_serde(p.recipient_signature)
           acp == [p EXCEPT !.expiration = e.number, !.revoker_data = d.number, !.scope = c.number,
                            !.issuer_signature = i.bytes, !.recipient_signature = r.bytes]
<1>1. deserialize(p) = IF ~e.ok \/ ~d.ok \/ ~c.ok \/ ~i.ok \/ ~r.ok THEN Rejected
                       ELSE [ok |-> TRUE, acp |-> acp]
  BY DEF deserialize
<1>2. /\ p.expiration \in Int /\ p.scope \in Int /\ p.revoker_data \in NumOrStr
      /\ p.issuer_signature \in WireText /\ p.recipient_signature \in WireText
  BY DEF WirePermission
<1>3. /\ e.ok <=> p.expiration \in 0..MAX_U64
      /\ p.expiration \in 0..MAX_U64 => e.number = p.expiration
      /\ c.ok <=> p.scope \in 0..255
      /\ p.scope \in 0..255 => c.number = p.scope
  BY DEF unsigned, Rejected
<1>4. d.ok <=> IsUint256(p.revoker_data)
  BY <1>2, DatumIsRead
<1>5. IsUint256(p.revoker_data) => d.number = Meant(p.revoker_data)
  BY <1>2, DatumIsRead
<1>6. /\ i.ok <=> WholeBytes(p.issuer_signature)
      /\ WholeBytes(p.issuer_signature) => KeepsLength(i.bytes, p.issuer_signature)
  BY <1>2, SignatureIsRead
<1>7. /\ r.ok <=> WholeBytes(p.recipient_signature)
      /\ WholeBytes(p.recipient_signature) => KeepsLength(r.bytes, p.recipient_signature)
  BY <1>2, SignatureIsRead
<1> HIDE DEF e, d, c, i, r
<1>8. /\ acp.contracts = p.contracts /\ acp.handles = p.handles /\ acp.issuer = p.issuer
      /\ acp.recipient = p.recipient /\ acp.revoker_contract = p.revoker_contract
      /\ acp.sealing_key = p.sealing_key
      /\ acp.expiration = e.number /\ acp.scope = c.number /\ acp.revoker_data = d.number
      /\ acp.issuer_signature = i.bytes /\ acp.recipient_signature = r.bytes
  BY DEF WirePermission
<1>9. [ok |-> TRUE, acp |-> acp].ok = TRUE /\ [ok |-> TRUE, acp |-> acp].acp = acp
      /\ Rejected.ok = FALSE
  BY DEF Rejected
<1> HIDE DEF acp
<1>10. deserialize(p).ok <=> e.ok /\ d.ok /\ c.ok /\ i.ok /\ r.ok
  BY <1>1, <1>9
<1>11. deserialize(p).ok => deserialize(p).acp = acp
  BY <1>1, <1>9
<1>12. deserialize(p).ok <=> Read(p)
  BY <1>3, <1>4, <1>6, <1>7, <1>10 DEF Read
<1> QED
  BY <1>3, <1>5, <1>6, <1>7, <1>8, <1>11, <1>12 DEF Read

(* Spells, in the same terms. *)
LEMMA SpelledTexts ==
  ASSUME NEW s \in Seq(WireText)
  PROVE  /\ Spells(s, {0, AddressDigits}) <=> AllIn(s, Addresses)
         /\ Spells(s, 0..WordDigits) <=> AllIn(s, Words)
         /\ Spells(s, {0, AddressDigits}) => Spells(s, 0..AddressDigits)
<1>1. \A i \in DOMAIN s : s[i] \in WireText
  BY LenProperties, ElementOfSeq
<1>2. {0, AddressDigits} \subseteq 0..AddressDigits
  BY WireAssumption
<1> QED
  BY <1>1, <1>2 DEF Spells, AllIn, Addresses, Words

(* A permission with every address left out or in full is legible if serde *)
(* reads it and it can be converted.                                       *)
LEMMA LegibleIs ==
  ASSUME NEW p \in WirePermission
  PROVE  /\ Legible(p, {0, AddressDigits}) <=> Read(p) /\ Convertible(p)
         /\ Legible(p, {0, AddressDigits}) => Legible(p, 0..AddressDigits)
<1> DEFINE three == <<p.issuer, p.recipient, p.revoker_contract>>
           one == <<p.sealing_key>>
<1>1. /\ p.contracts \in Seq(WireText) /\ p.handles \in Seq(WireText) /\ p.issuer \in WireText
      /\ p.recipient \in WireText /\ p.revoker_contract \in WireText /\ p.sealing_key \in WireText
  BY DEF WirePermission
<1>2. three \in Seq(WireText) /\ one \in Seq(WireText)
  BY <1>1
<1>3. AllIn(three, Addresses) <=> /\ p.issuer \in Addresses /\ p.recipient \in Addresses
                                  /\ p.revoker_contract \in Addresses
  <2>1. DOMAIN three = 1..3 /\ three[1] = p.issuer /\ three[2] = p.recipient
        /\ three[3] = p.revoker_contract
    OBVIOUS
  <2> HIDE DEF three
  <2>2. \A i \in 1..3 : i = 1 \/ i = 2 \/ i = 3
    OBVIOUS
  <2>3. 1 \in 1..3 /\ 2 \in 1..3 /\ 3 \in 1..3
    OBVIOUS
  <2> QED
    BY <2>1, <2>2, <2>3 DEF AllIn
<1>4. AllIn(one, Words) <=> p.sealing_key \in Words
  <2>1. DOMAIN one = 1..1 /\ one[1] = p.sealing_key
    OBVIOUS
  <2> HIDE DEF one
  <2> QED
    BY <2>1 DEF AllIn
<1> HIDE DEF three, one
<1>5. /\ Spells(three, {0, AddressDigits}) <=> AllIn(three, Addresses)
      /\ Spells(three, {0, AddressDigits}) => Spells(three, 0..AddressDigits)
      /\ Spells(one, 0..WordDigits) <=> AllIn(one, Words)
  BY <1>2, SpelledTexts
<1>6. /\ Spells(p.contracts, {0, AddressDigits}) <=> AllIn(p.contracts, Addresses)
      /\ Spells(p.contracts, {0, AddressDigits}) => Spells(p.contracts, 0..AddressDigits)
      /\ Spells(p.handles, 0..WordDigits) <=> AllIn(p.handles, Words)
  BY <1>1, SpelledTexts
<1> QED
  BY <1>3, <1>4, <1>5, <1>6, Zenon DEF Legible, Read, Convertible, three, one

(* Every permission keeps its fields. *)
LEMMA PermissionsAreKept == CallInv => PermissionKept
<1> SUFFICES ASSUME CallInv, Called("try_from")
             PROVE  PermissionKept
  BY DEF PermissionKept
<1> DEFINE p == call
           a == deserialize(p).acp
<1>1. p \in WirePermission /\ result = converted(p)
  BY PermissionsAssumption DEF CallInv, Called
<1> HIDE DEF p
<1>2. /\ p.contracts \in Seq(WireText) /\ p.handles \in Seq(WireText) /\ p.issuer \in WireText
      /\ p.recipient \in WireText /\ p.revoker_contract \in WireText /\ p.sealing_key \in WireText
  BY <1>1 DEF WirePermission
<1>3. result = IF deserialize(p).ok THEN try_from(a) ELSE Rejected
  BY <1>1 DEF converted
<1>4. deserialize(p).ok <=> Read(p)
  BY <1>1, PermissionIsRead
<1>5. ASSUME Read(p)
      PROVE  /\ a.contracts = p.contracts /\ a.handles = p.handles /\ a.issuer = p.issuer
             /\ a.recipient = p.recipient /\ a.revoker_contract = p.revoker_contract
             /\ a.sealing_key = p.sealing_key
             /\ a.expiration = p.expiration /\ a.scope = p.scope
             /\ a.revoker_data = Meant(p.revoker_data)
             /\ KeepsLength(a.issuer_signature, p.issuer_signature)
             /\ KeepsLength(a.recipient_signature, p.recipient_signature)
  BY <1>1, <1>5, PermissionIsRead
<1> HIDE DEF a
<1>6. ASSUME Read(p)
      PROVE  /\ try_from(a).ok <=> Convertible(p)
             /\ Convertible(p) =>
                  try_from(a) =
                    [ok |-> TRUE, issuer |-> parse_addr(p.issuer).bytes,
                     expiration |-> a.expiration,
                     recipient |-> parse_addr(p.recipient).bytes, revoker_data |-> a.revoker_data,
                     revoker_contract |-> parse_addr(p.revoker_contract).bytes, scope |-> a.scope,
                     contracts |-> [i \in DOMAIN p.contracts |-> parse_addr(p.contracts[i]).bytes],
                     handles |-> [i \in DOMAIN p.handles |-> parse_b32(p.handles[i]).bytes],
                     sealing_key |-> parse_b32(p.sealing_key).bytes,
                     issuer_signature |-> a.issuer_signature,
                     recipient_signature |-> a.recipient_signature]
  <2>1. Convertible(a) <=> Convertible(p)
    BY <1>5, <1>6 DEF Convertible
  <2>2. /\ a.contracts \in Seq(WireText) /\ a.handles \in Seq(WireText) /\ a.issuer \in WireText
        /\ a.recipient \in WireText /\ a.revoker_contract \in WireText /\ a.sealing_key \in WireText
    BY <1>2, <1>5, <1>6
  <2>3. try_from(a).ok <=> Convertible(a)
    BY <2>2, PermissionConverts
  <2>4. Convertible(a) =>
          try_from(a) =
            [ok |-> TRUE, issuer |-> parse_addr(a.issuer).bytes, expiration |-> a.expiration,
             recipient |-> parse_addr(a.recipient).bytes, revoker_data |-> a.revoker_data,
             revoker_contract |-> parse_addr(a.revoker_contract).bytes, scope |-> a.scope,
             contracts |-> [i \in DOMAIN a.contracts |-> parse_addr(a.contracts[i]).bytes],
             handles |-> [i \in DOMAIN a.handles |-> parse_b32(a.handles[i]).bytes],
             sealing_key |-> parse_b32(a.sealing_key).bytes,
             issuer_signature |-> a.issuer_signature,
             recipient_signature |-> a.recipient_signature]
    BY <2>2, PermissionConverts
  <2> QED
    BY <1>5, <1>6, <2>1, <2>3, <2>4
<1>7. result.ok <=> Read(p) /\ Convertible(p)
  <2>1. Rejected.ok = FALSE
    BY DEF Rejected
  <2> QED
    BY <1>3, <1>4, <1>6, <2>1
<1>8. /\ Legible(p, {0, AddressDigits}) <=> result.ok
      /\ result.ok => Legible(p, 0..AddressDigits)
  BY <1>1, <1>7, LegibleIs
<1>9. ASSUME result.ok
      PROVE  /\ Keeps(result.issuer, p.issuer) /\ Keeps(result.recipient, p.recipient)
             /\ Keeps(result.revoker_contract, p.revoker_contract)
             /\ Keeps(result.sealing_key, p.sealing_key)
             /\ KeepsAll(result.contracts, p.contracts) /\ KeepsAll(result.handles, p.handles)
             /\ result.expiration = p.expiration /\ result.scope = p.scope
             /\ result.revoker_data = Meant(p.revoker_data)
             /\ KeepsLength(result.issuer_signature, p.issuer_signature)
             /\ KeepsLength(result.recipient_signature, p.recipient_signature)
  <2>1. Read(p) /\ Convertible(p) /\ result = try_from(a)
    BY <1>3, <1>4, <1>7, <1>9
  <2>2. /\ result.issuer = parse_addr(p.issuer).bytes
        /\ result.recipient = parse_addr(p.recipient).bytes
        /\ result.revoker_contract = parse_addr(p.revoker_contract).bytes
        /\ result.sealing_key = parse_b32(p.sealing_key).bytes
        /\ result.contracts = [i \in DOMAIN p.contracts |-> parse_addr(p.contracts[i]).bytes]
        /\ result.handles = [i \in DOMAIN p.handles |-> parse_b32(p.handles[i]).bytes]
        /\ result.expiration = a.expiration /\ result.scope = a.scope
        /\ result.revoker_data = a.revoker_data
        /\ result.issuer_signature = a.issuer_signature
        /\ result.recipient_signature = a.recipient_signature
    BY <1>6, <2>1
  <2>3. \A t \in Addresses : Keeps(parse_addr(t).bytes, t)
    BY ParsedTexts DEF Addresses, Keeps, Spelled
  <2>4. \A t \in Words : Keeps(parse_b32(t).bytes, t)
    BY ParsedTexts DEF Words, Keeps, Spelled
  <2>5. /\ Keeps(result.issuer, p.issuer) /\ Keeps(result.recipient, p.recipient)
        /\ Keeps(result.revoker_contract, p.revoker_contract)
        /\ Keeps(result.sealing_key, p.sealing_key)
    BY <2>1, <2>2, <2>3, <2>4 DEF Convertible
  <2>6. KeepsAll(result.contracts, p.contracts)
    BY <2>1, <2>2, <2>3 DEF Convertible, AllIn, KeepsAll
  <2>7. KeepsAll(result.handles, p.handles)
    BY <2>1, <2>2, <2>4 DEF Convertible, AllIn, KeepsAll
  <2> QED
    BY <1>5, <2>1, <2>2, <2>5, <2>6, <2>7
<1> QED
  BY <1>8, <1>9 DEF PermissionKept, p

(* Every field keeps its number and every permission its fields, whatever  *)
(* the widths and the limit.                                               *)
THEOREM FieldsAreKept == AlgorithmsSpec => []FieldsKeepValue
<1>1. CallInv => FieldsKeepValue
  <2> SUFFICES ASSUME CallInv
               PROVE  FieldsKeepValue
    OBVIOUS
  <2>1. PermissionKept
    BY PermissionsAreKept
  <2>2. ASSUME Called("parse")
        PROVE  call \in WireText /\ result = fields(call)
    BY <2>2, TextsAssumption DEF CallInv, Called
  <2> QED
    BY <2>1, <2>2, FieldsOfText DEF FieldsKeepValue
<1> QED
  BY <1>1, CallsReturn, PTL

-----------------------------------------------------------------------------
(* Powers of two *)

\* h holds the first powers.
Doubles(h, n) ==
  h \in [0..n -> Nat \ {0}] /\ h[0] = 1 /\ \A i \in 1..n : h[i] = 2 * h[i - 1]

(* The powers up to any number exist. *)
LEMMA DoublesExist ==
  ASSUME NEW n \in Nat
  PROVE  \E h : Doubles(h, n)
<1> DEFINE S == Nat \ {0}
           step == [p \in S \X (1..n) |-> 2 * p[1]]
<1>1. step \in [S \X (1..n) -> S] /\ \A v \in S, i \in 1..n : step[<<v, i>>] = 2 * v
  OBVIOUS
<1>2. 1 \in S
  OBVIOUS
<1> HIDE DEF step, S
<1>3. PICK h : Recurs(h, S, n, 1, step)
  BY <1>1, <1>2, Recursion
<1>4. h \in [0..n -> S] /\ h[0] = 1 /\ \A i \in 1..n : h[i] = step[<<h[i - 1], i>>]
  BY <1>3 DEF Recurs
<1>5. \A i \in 1..n : i - 1 \in 0..n
  OBVIOUS
<1>6. \A i \in 1..n : h[i] = 2 * h[i - 1]
  BY <1>1, <1>4, <1>5
<1>7. Doubles(h, n)
  BY <1>4, <1>6 DEF Doubles, S
<1> QED
  BY <1>7

(* They are the same in every list of them. *)
LEMMA DoublesAgree ==
  ASSUME NEW n \in Nat, NEW m \in Nat, n <= m, NEW h, NEW g, Doubles(h, n), Doubles(g, m)
  PROVE  h[n] = g[n]
<1>1. /\ h \in [0..n -> Nat \ {0}] /\ h[0] = 1 /\ \A i \in 1..n : h[i] = 2 * h[i - 1]
      /\ g \in [0..m -> Nat \ {0}] /\ g[0] = 1 /\ \A i \in 1..m : g[i] = 2 * g[i - 1]
  BY DEF Doubles
<1> DEFINE P == {i \in 0..n : h[i] = g[i]}
<1>2. 0 \in P
  BY <1>1
<1>3. ASSUME NEW i \in 0..(n - 1), i \in P
      PROVE  i + 1 \in P
  <2>1. i + 1 \in 1..n /\ i + 1 \in 1..m /\ i + 1 \in 0..n /\ (i + 1) - 1 = i
    OBVIOUS
  <2>2. h[i + 1] = 2 * h[i] /\ g[i + 1] = 2 * g[i] /\ h[i] = g[i]
    BY <1>1, <1>3, <2>1
  <2> QED
    BY <2>1, <2>2
<1>4. n \in P
  <2> HIDE DEF P
  <2>1. \A i \in 0..n : i \in P
    BY <1>2, <1>3, UpTo
  <2> QED
    BY <2>1
<1> QED
  BY <1>4

(* The definition of Pow2 has a solution, which is what it seems. *)
LEMMA Pow2Is ==
  /\ Pow2[0] = 1
  /\ \A n \in Nat : Pow2[n + 1] = 2 * Pow2[n]
<1> DEFINE E(f) == [n \in Nat |-> IF n = 0 THEN 1 ELSE 2 * f[n - 1]]
           of[n \in Nat] == CHOOSE h : Doubles(h, n)
           F == [n \in Nat |-> of[n][n]]
<1>1. \A n \in Nat : Doubles(of[n], n)
  BY DoublesExist
<1> HIDE DEF of
<1>2. ASSUME NEW n \in Nat
      PROVE  F[n + 1] = 2 * F[n]
  <2>1. n + 1 \in Nat /\ n <= n + 1 /\ n + 1 \in 1..(n + 1) /\ (n + 1) - 1 = n
    OBVIOUS
  <2>2. of[n][n] = of[n + 1][n]
    BY <1>1, <2>1, DoublesAgree
  <2>3. of[n + 1][n + 1] = 2 * of[n + 1][n]
    BY <1>1, <2>1 DEF Doubles
  <2> QED
    BY <2>1, <2>2, <2>3
<1>3. F[0] = 1
  BY <1>1 DEF Doubles
<1>4. F = E(F)
  <2>1. ASSUME NEW n \in Nat
        PROVE  F[n] = E(F)[n]
    <3>1. CASE n = 0
      BY <1>3, <3>1
    <3>2. CASE n # 0
      <4>1. n - 1 \in Nat /\ (n - 1) + 1 = n
        BY <3>2
      <4>2. F[n] = 2 * F[n - 1]
        BY <1>2, <4>1
      <4> HIDE DEF F
      <4> QED
        BY <3>2, <4>2
    <3> QED
      BY <3>1, <3>2
  <2>2. DOMAIN F = Nat
    OBVIOUS
  <2>3. F = [n \in Nat |-> F[n]]
    OBVIOUS
  <2> HIDE DEF F
  <2> QED
    BY <2>1, <2>2, <2>3
<1>5. Pow2 = CHOOSE f : f = E(f)
  BY DEF Pow2
<1> HIDE DEF F
<1>6. Pow2 = E(Pow2)
  <2> DEFINE c == CHOOSE f : f = E(f)
  <2>1. c = E(c)
    BY <1>4
  <2> QED
    BY <1>5, <2>1
<1>7. Pow2[0] = 1
  BY <1>6
<1>8. ASSUME NEW n \in Nat
      PROVE  Pow2[n + 1] = 2 * Pow2[n]
  <2>1. n + 1 \in Nat /\ n + 1 # 0 /\ (n + 1) - 1 = n
    OBVIOUS
  <2>2. Pow2[n + 1] = E(Pow2)[n + 1]
    BY <1>6
  <2> QED
    BY <2>1, <2>2
<1> QED
  BY <1>7, <1>8

(* Powers are positive. *)
LEMMA Pow2Positive == \A n \in Nat : Pow2[n] \in Nat \ {0}
<1> SUFFICES ASSUME NEW n \in Nat
             PROVE  Pow2[n] \in Nat \ {0}
  OBVIOUS
<1> DEFINE P == {i \in Nat : Pow2[i] \in Nat \ {0}}
<1>1. 0 \in P
  BY Pow2Is
<1>2. ASSUME NEW i \in 0..(n - 1), i \in P
      PROVE  i + 1 \in P
  <2>1. i \in Nat /\ Pow2[i + 1] = 2 * Pow2[i] /\ Pow2[i] \in Nat \ {0}
    BY <1>2, Pow2Is
  <2> QED
    BY <2>1
<1>3. n \in P
  <2> HIDE DEF P
  <2>1. \A i \in 0..n : i \in P
    BY <1>1, <1>2, UpTo
  <2> QED
    BY <2>1
<1> QED
  BY <1>3

(* A shift by a and by b is a shift by both. *)
LEMMA Pow2Plus == \A a, b \in Nat : Pow2[a + b] = Pow2[a] * Pow2[b]
<1> SUFFICES ASSUME NEW a \in Nat, NEW b \in Nat
             PROVE  Pow2[a + b] = Pow2[a] * Pow2[b]
  OBVIOUS
<1> DEFINE P == {i \in Nat : Pow2[a + i] = Pow2[a] * Pow2[i]}
<1>0. \A n \in Nat : Pow2[n] \in Nat
  BY Pow2Positive
<1>1. 0 \in P
  BY <1>0, Pow2Is
<1>2. ASSUME NEW i \in 0..(b - 1), i \in P
      PROVE  i + 1 \in P
  <2>1. i \in Nat /\ a + i \in Nat /\ a + (i + 1) = (a + i) + 1
    OBVIOUS
  <2>2. Pow2[i + 1] = 2 * Pow2[i] /\ Pow2[(a + i) + 1] = 2 * Pow2[a + i]
    BY <2>1, Pow2Is
  <2>3. Pow2[a + i] = Pow2[a] * Pow2[i]
    BY <1>2
  <2>4. \A x, y \in Nat : 2 * (x * y) = x * (2 * y)
    OBVIOUS
  <2>5. Pow2[a + (i + 1)] = Pow2[a] * Pow2[i + 1]
    BY <1>0, <2>1, <2>2, <2>3, <2>4
  <2> QED
    BY <2>1, <2>5
<1>3. b \in P
  <2> HIDE DEF P
  <2>1. \A i \in 0..b : i \in P
    BY <1>1, <1>2, UpTo
  <2> QED
    BY <2>1
<1> QED
  BY <1>3

(* A longer shift is no less. *)
LEMMA Pow2Monotone == \A a, b \in Nat : a <= b => Pow2[a] <= Pow2[b]
<1> SUFFICES ASSUME NEW a \in Nat, NEW b \in Nat, a <= b
             PROVE  Pow2[a] <= Pow2[b]
  OBVIOUS
<1>1. b - a \in Nat /\ a + (b - a) = b
  OBVIOUS
<1>2. Pow2[b] = Pow2[a] * Pow2[b - a]
  BY <1>1, Pow2Plus
<1>3. Pow2[a] \in Nat /\ Pow2[b - a] \in Nat \ {0}
  BY <1>1, Pow2Positive
<1>4. \A x \in Nat, y \in Nat \ {0} : x <= x * y
  OBVIOUS
<1> QED
  BY <1>2, <1>3, <1>4

-----------------------------------------------------------------------------
(* Sums *)

\* h adds up s.
Sums(h, s) ==
  /\ h \in [0..Len(s) -> Nat]
  /\ h[0] = 0
  /\ \A i \in 1..Len(s) : h[i] = h[i - 1] + s[i]

(* Total is what adding up ends with. *)
LEMMA TotalBy ==
  ASSUME NEW s \in Seq(Nat)
  PROVE  \E h : Sums(h, s) /\ Total(s) = h[Len(s)]
<1> DEFINE n == Len(s)
           E(f) == [k \in 0..n |-> IF k = 0 THEN 0 ELSE f[k - 1] + s[k]]
           g == CHOOSE f : f = E(f)
<1>1. n \in Nat /\ \A i \in 1..n : s[i] \in Nat
  BY LenProperties, ElementOfSeq
<1>2. Total(s) = g[n]
  BY DEF Total
<1>3. PICK h : Reads(h, 1, s)
  BY RadixBy
<1>4. /\ h \in [0..n -> Nat] /\ h[0] = 0
      /\ \A i \in 1..n : h[i] = 1 * h[i - 1] + s[i]
  BY <1>3 DEF Reads
<1> HIDE DEF n
<1>5. \A i \in 1..n : h[i] = h[i - 1] + s[i]
  <2>1. \A i \in 1..n : i - 1 \in 0..n
    BY <1>1
  <2> QED
    BY <1>1, <1>4, <2>1
<1>6. h = E(h)
  <2>1. \A k \in 0..n : h[k] = E(h)[k]
    BY <1>1, <1>4, <1>5
  <2> QED
    BY <1>4, <2>1
<1>7. g = E(g)
  BY <1>6
<1> HIDE DEF g
<1>8. g[0] = 0 /\ \A k \in 1..n : g[k] = g[k - 1] + s[k]
  BY <1>1, <1>7
<1> DEFINE P == {k \in 0..n : g[k] = h[k]}
<1>9. 0 \in P
  BY <1>1, <1>4, <1>8
<1>10. ASSUME NEW k \in 0..(n - 1), k \in P
       PROVE  k + 1 \in P
  <2>1. k + 1 \in 1..n /\ k + 1 \in 0..n /\ (k + 1) - 1 = k
    BY <1>1
  <2>2. g[k + 1] = g[k] + s[k + 1] /\ h[k + 1] = h[k] + s[k + 1]
    BY <1>5, <1>8, <2>1
  <2> QED
    BY <1>10, <2>1, <2>2
<1>11. n \in P
  <2> HIDE DEF P
  <2>1. \A k \in 0..n : k \in P
    BY <1>1, <1>9, <1>10, UpTo
  <2> QED
    BY <1>1, <2>1
<1>12. Sums(h, s)
  BY <1>4, <1>5 DEF Sums, n
<1> QED
  BY <1>2, <1>11, <1>12 DEF n

-----------------------------------------------------------------------------
(* Ciphertexts *)

\* The sequence whose total a positional number is.
Shifted(d, p) == [i \in DOMAIN d |-> d[i] * Pow2[p * (i - 1)]]

(* A shifted digit is a number. *)
LEMMA ShiftedShape ==
  ASSUME NEW p \in Nat, NEW d \in Seq(Nat)
  PROVE  /\ Shifted(d, p) \in Seq(Nat) /\ Len(Shifted(d, p)) = Len(d)
         /\ \A i \in 1..Len(d) : Shifted(d, p)[i] = d[i] * Pow2[p * (i - 1)]
<1>1. Len(d) \in Nat /\ DOMAIN d = 1..Len(d) /\ \A i \in 1..Len(d) : d[i] \in Nat
  BY LenProperties, ElementOfSeq
<1>2. ASSUME NEW i \in 1..Len(d)
      PROVE  d[i] * Pow2[p * (i - 1)] \in Nat
  <2>1. i - 1 \in Nat
    BY <1>1
  <2>2. p * (i - 1) \in Nat
    BY <2>1
  <2>3. Pow2[p * (i - 1)] \in Nat
    BY <2>2, Pow2Positive
  <2>4. d[i] \in Nat
    BY <1>1
  <2> QED
    BY <2>3, <2>4
<1>3. /\ Shifted(d, p) \in [1..Len(d) -> Nat]
      /\ \A i \in 1..Len(d) : Shifted(d, p)[i] = d[i] * Pow2[p * (i - 1)]
  BY <1>1, <1>2 DEF Shifted
<1> QED
  BY <1>1, <1>3, FunctionIsSeq

(* One more digit shifts by one more width. *)
LEMMA NextShift ==
  ASSUME NEW p \in Nat, NEW i \in Nat
  PROVE  /\ p * i \in Nat /\ p * (i + 1) \in Nat
         /\ Pow2[p * (i + 1)] = Pow2[p] * Pow2[p * i]
         /\ Pow2[p] \in Nat \ {0} /\ Pow2[p * i] \in Nat \ {0}
<1>1. p * i \in Nat /\ p * (i + 1) \in Nat /\ p * (i + 1) = p + p * i
  OBVIOUS
<1> QED
  BY <1>1, Pow2Plus, Pow2Positive

(* Digits of p bits make a number of p bits for each. *)
LEMMA DigitsFit ==
  ASSUME NEW p \in Nat, NEW d \in Seq(Nat), \A i \in 1..Len(d) : d[i] < Pow2[p]
  PROVE  Positional(d, p) \in 0..(Pow2[p * Len(d)] - 1)
<1> DEFINE n == Len(d)
<1>1. n \in Nat /\ \A i \in 1..n : d[i] \in Nat /\ d[i] < Pow2[p]
  BY LenProperties, ElementOfSeq
<1>2. /\ Shifted(d, p) \in Seq(Nat) /\ Len(Shifted(d, p)) = n
      /\ \A i \in 1..n : Shifted(d, p)[i] = d[i] * Pow2[p * (i - 1)]
  BY ShiftedShape
<1>3. PICK h : Sums(h, Shifted(d, p)) /\ Total(Shifted(d, p)) = h[n]
  BY <1>2, TotalBy
<1> HIDE DEF n
<1>4. /\ h \in [0..n -> Nat] /\ h[0] = 0
      /\ \A i \in 1..n : h[i] = h[i - 1] + d[i] * Pow2[p * (i - 1)]
  BY <1>2, <1>3 DEF Sums
<1> DEFINE P == {i \in 0..n : h[i] < Pow2[p * i]}
<1>5. 0 \in P
  <2>1. p * 0 = 0
    OBVIOUS
  <2>2. Pow2[p * 0] = 1
    BY <2>1, Pow2Is
  <2> QED
    BY <1>1, <1>4, <2>2
<1>6. ASSUME NEW i \in 0..(n - 1), i \in P
      PROVE  i + 1 \in P
  <2>1. i \in Nat /\ i + 1 \in 1..n /\ i + 1 \in 0..n /\ (i + 1) - 1 = i /\ i \in 0..n
    BY <1>1
  <2>2. h[i + 1] = h[i] + d[i + 1] * Pow2[p * i]
    BY <1>4, <2>1
  <2>3. /\ Pow2[p * (i + 1)] = Pow2[p] * Pow2[p * i]
        /\ Pow2[p] \in Nat \ {0} /\ Pow2[p * i] \in Nat \ {0}
    BY <2>1, NextShift
  <2>4. d[i + 1] \in Nat /\ d[i + 1] < Pow2[p] /\ h[i] \in Nat /\ h[i] < Pow2[p * i]
    BY <1>1, <1>4, <1>6, <2>1
  <2>5. \A a, b, x, y \in Nat : a < x /\ b < y => a + b * x < y * x
    <3> SUFFICES ASSUME NEW a \in Nat, NEW b \in Nat, NEW x \in Nat, NEW y \in Nat, a < x, b < y
                 PROVE  a + b * x < y * x
      OBVIOUS
    <3>1. PICK z \in Nat : y = b + 1 + z
      <4>1. y - b - 1 \in Nat /\ y = b + 1 + (y - b - 1)
        OBVIOUS
      <4> QED
        BY <4>1
    <3>2. y * x = b * x + x + z * x
      BY <3>1
    <3>3. z * x \in Nat /\ b * x \in Nat
      OBVIOUS
    <3> QED
      BY <3>2, <3>3
  <2>6. h[i + 1] < Pow2[p * (i + 1)]
    BY <2>2, <2>3, <2>4, <2>5
  <2> QED
    BY <2>1, <2>6
<1>7. n \in P
  <2> HIDE DEF P
  <2>1. \A i \in 0..n : i \in P
    BY <1>1, <1>5, <1>6, UpTo
  <2> QED
    BY <1>1, <2>1
<1>8. h[n] \in Nat /\ h[n] < Pow2[p * n] /\ Pow2[p * n] \in Nat
  <2>1. n \in 0..n /\ p * n \in Nat
    BY <1>1
  <2> QED
    BY <1>4, <1>7, <2>1, Pow2Positive
<1>9. Positional(d, p) = h[n]
  BY <1>3 DEF Positional, Shifted
<1> QED
  BY <1>8, <1>9 DEF n

(* A block without a fault passed every check. *)
LEMMA FaultNone ==
  ASSUME NEW key, NEW b, Fault(key, b) = "none"
  PROVE  /\ b.dim = Len(key.s) /\ b.log \in 1..(Word - 1) /\ b.initial_len = b.dim + 1
<1> DEFINE C == Checks(key, b)
           failed == {i \in DOMAIN C : ~C[i][1]}
<1>1. DOMAIN C = 1..7
  BY DEF Checks
<1>2. \A i \in 1..7 : C[i][2] # "none"
  <2>1. \A i \in 1..7 : i = 1 \/ i = 2 \/ i = 3 \/ i = 4 \/ i = 5 \/ i = 6 \/ i = 7
    OBVIOUS
  <2>2. /\ C[1][2] # "none" /\ C[2][2] # "none" /\ C[3][2] # "none" /\ C[4][2] # "none"
        /\ C[5][2] # "none" /\ C[6][2] # "none" /\ C[7][2] # "none"
    BY DEF Checks
  <2> QED
    BY <2>1, <2>2
<1>3. failed = {}
  <2> SUFFICES ASSUME failed # {}
               PROVE  FALSE
    OBVIOUS
  <2>1. failed \subseteq Nat /\ failed \subseteq 1..7
    BY <1>1
  <2>2. Fault(key, b) = C[Min(failed)][2]
    BY DEF Fault
  <2> HIDE DEF failed, C
  <2>3. \E x \in failed : \A y \in failed : x <= y
    BY <2>1, LeastNatural
  <2>4. Min(failed) \in failed
    BY <2>3 DEF Min
  <2> QED
    BY <1>2, <2>1, <2>2, <2>4
<1>4. \A i \in 1..7 : C[i][1]
  BY <1>1, <1>3
<1>5. C[4][1] /\ C[5][1] /\ C[6][1]
  BY <1>4
<1> QED
  BY <1>5 DEF Checks

\* The moduli and the bits of a key.
KeyTyped(key) == key.s \in Seq(Nat) /\ key.msg \in Nat \ {0} /\ key.carry \in Nat \ {0}

\* The products of a mask and a key.
Products(key, b) == [i \in 1..Len(key.s) |-> b.words[i] * key.s[i]]

(* The words of a block without a fault are one more than the key's, and   *)
(* their products have a sum.                                              *)
LEMMA BlockWords ==
  ASSUME NEW key, KeyTyped(key), NEW b \in BlockMirror, Fault(key, b) = "none"
  PROVE  /\ Len(key.s) \in Nat
         /\ b.words[Len(key.s) + 1] \in Nat
         /\ b.log \in Nat \ {0} /\ b.log < Word
         /\ Total(Products(key, b)) \in Nat
<1>1. b.words \in Seq(Nat) /\ Len(b.words) = b.initial_len
  BY DEF BlockMirror
<1>2. b.dim = Len(key.s) /\ b.log \in 1..(Word - 1) /\ b.initial_len = b.dim + 1
  BY FaultNone
<1>3. key.s \in Seq(Nat) /\ Len(key.s) \in Nat
  BY LenProperties DEF KeyTyped
<1>4. \A i \in 1..(Len(key.s) + 1) : b.words[i] \in Nat
  BY <1>1, <1>2, ElementOfSeq
<1>5. \A i \in 1..Len(key.s) : key.s[i] \in Nat /\ b.words[i] \in Nat
  BY <1>3, <1>4, ElementOfSeq
<1> DEFINE q == Products(key, b)
<1>6. q \in [1..Len(key.s) -> Nat]
  <2>1. \A i \in 1..Len(key.s) : b.words[i] * key.s[i] \in Nat
    BY <1>5
  <2> QED
    BY <2>1 DEF Products
<1> HIDE DEF q
<1>7. q \in Seq(Nat) /\ Len(q) \in Nat
  BY <1>3, <1>6, FunctionIsSeq
<1>8. PICK h : Sums(h, q) /\ Total(q) = h[Len(q)]
  BY <1>7, TotalBy
<1>9. Total(q) \in Nat
  BY <1>7, <1>8 DEF Sums
<1>10. b.words[Len(key.s) + 1] \in Nat
  <2>1. Len(key.s) + 1 \in 1..(Len(key.s) + 1)
    BY <1>3
  <2> QED
    BY <1>4, <2>1
<1> QED
  BY <1>2, <1>3, <1>9, <1>10, DirectDecryptAssumption DEF q

(* A remainder is below its divisor. *)
LEMMA Remainder ==
  ASSUME NEW x \in Int, NEW y \in Nat \ {0}
  PROVE  /\ x % y \in Nat /\ x % y < y /\ x \div y \in Int
         /\ \E q \in Int, r \in Nat : r < y /\ x = y * q + r /\ x \div y = q /\ x % y = r
<1>1. x % y \in Nat /\ x % y < y /\ x \div y \in Int
  OBVIOUS
<1>2. PICK q \in Int : q = x \div y
  BY <1>1
<1>3. PICK r \in Nat : r = x % y /\ r < y
  BY <1>1
<1>4. x % y = x - y * (x \div y)
  OBVIOUS
<1>5. r = x - y * q
  BY <1>2, <1>3, <1>4
<1>6. x = y * q + r
  BY <1>5
<1> QED
  BY <1>1, <1>2, <1>3, <1>6

\* The difference decode_block rounds.
Decoded(key, b) ==
  ((b.words[Len(key.s) + 1] - (Total(Products(key, b)) % Pow2[Word])) % Pow2[Word]) % Pow2[b.log]

(* What decode_block returns. *)
LEMMA DecodeBlockIs ==
  ASSUME NEW key, NEW b, Fault(key, b) = "none"
  PROVE  decode_block(key, b) = Ok(Round(Decoded(key, b), 2 * key.msg * key.carry, b.log))
<1>1. decode_block(key, b) =
        IF Fault(key, b) # "none" THEN Err(Fault(key, b))
        ELSE Ok(Round(Decoded(key, b), 2 * key.msg * key.carry, b.log))
  BY Zenon DEF decode_block, Decoded, Products
<1> QED
  BY <1>1

(* The cleartext of a block is a number, and of a refused one it is 0. *)
LEMMA BlockValue ==
  ASSUME NEW key, KeyTyped(key), NEW b \in BlockMirror
  PROVE  decode_block(key, b).value \in Nat
<1>1. CASE Fault(key, b) # "none"
  BY <1>1 DEF decode_block, Err
<1>2. CASE Fault(key, b) = "none"
  <2>1. /\ b.words[Len(key.s) + 1] \in Nat /\ b.log \in Nat \ {0}
        /\ Total(Products(key, b)) \in Nat
    BY <1>2, BlockWords
  <2>2. Pow2[Word] \in Nat \ {0} /\ Pow2[b.log] \in Nat \ {0} /\ Pow2[b.log - 1] \in Nat
    <3>1. b.log - 1 \in Nat
      BY <2>1
    <3> QED
      BY <2>1, <3>1, DirectDecryptAssumption, Pow2Positive
  <2>3. Decoded(key, b) \in Nat
    <3>1. Total(Products(key, b)) % Pow2[Word] \in Nat
      BY <2>1, <2>2, Remainder
    <3>2. b.words[Len(key.s) + 1] - (Total(Products(key, b)) % Pow2[Word]) \in Int
      <4>1. \A x, y \in Nat : x - y \in Int
        OBVIOUS
      <4> QED
        BY <2>1, <3>1, <4>1
    <3>3. (b.words[Len(key.s) + 1] - (Total(Products(key, b)) % Pow2[Word])) % Pow2[Word] \in Int
      BY <2>2, <3>2, Remainder
    <3> QED
      BY <2>2, <3>3, Remainder DEF Decoded
  <2>4. PICK space \in Nat \ {0} : space = 2 * key.msg * key.carry
    <3>1. \A x, y \in Nat \ {0} : 2 * x * y \in Nat \ {0}
      OBVIOUS
    <3> QED
      BY <3>1 DEF KeyTyped
  <2>5. Decoded(key, b) * space + Pow2[b.log - 1] \in Int
    BY <2>2, <2>3, <2>4
  <2>6. (Decoded(key, b) * space + Pow2[b.log - 1]) \div Pow2[b.log] \in Int
    BY <2>2, <2>5, Remainder
  <2>7. Round(Decoded(key, b), space, b.log) \in Nat
    BY <2>4, <2>6, Remainder DEF Round
  <2>8. decode_block(key, b) = Ok(Round(Decoded(key, b), space, b.log))
    BY <1>2, <2>4, DecodeBlockIs
  <2> QED
    BY <2>7, <2>8 DEF Ok
<1> QED
  BY <1>1, <1>2

DigitSet(key) == 0..(key.msg - 1)

(* A remainder by the message modulus is a digit. *)
LEMMA RemaindersAreDigits ==
  ASSUME NEW key, KeyTyped(key), NEW m \in Nat
  PROVE  m % key.msg \in DigitSet(key) /\ (m \div key.msg) % key.msg \in DigitSet(key)
<1>1. PICK g \in Nat \ {0} : g = key.msg
  BY DEF KeyTyped
<1>2. m % g \in Nat /\ m % g < g /\ m \div g \in Int
  BY Remainder
<1>3. (m \div g) % g \in Nat /\ (m \div g) % g < g
  BY <1>2, Remainder
<1>4. m % g \in 0..(g - 1) /\ (m \div g) % g \in 0..(g - 1)
  BY <1>2, <1>3
<1> QED
  BY <1>1, <1>4 DEF DigitSet

\* The digits of the paired blocks, and those of the last.
PairsOf(key, radix) ==
  [i \in DOMAIN radix.paired |-> PairOf(key, decode_block(key, radix.paired[i]).value)]

LastOf(key, radix) ==
  [i \in DOMAIN radix.last |-> decode_block(key, radix.last[i]).value % key.msg]

(* The digits of a radix ciphertext are below the message modulus. *)
LEMMA DigitsType ==
  ASSUME NEW key, KeyTyped(key), NEW radix \in GenericMirror
  PROVE  /\ PairsOf(key, radix) \in Seq(Seq(DigitSet(key)))
         /\ LastOf(key, radix) \in Seq(DigitSet(key))
         /\ Len(PairsOf(key, radix)) = Len(radix.paired)
         /\ Len(LastOf(key, radix)) = Len(radix.last)
         /\ RadixDigits(key, radix) \in Seq(DigitSet(key))
<1>1. radix.paired \in Seq(BlockMirror) /\ radix.last \in Seq(BlockMirror)
  BY DEF GenericMirror
<1>2. /\ Len(radix.paired) \in Nat /\ DOMAIN radix.paired = 1..Len(radix.paired)
      /\ \A i \in 1..Len(radix.paired) : radix.paired[i] \in BlockMirror
  BY <1>1, LenProperties, ElementOfSeq
<1>3. /\ Len(radix.last) \in Nat /\ DOMAIN radix.last = 1..Len(radix.last)
      /\ \A i \in 1..Len(radix.last) : radix.last[i] \in BlockMirror
  BY <1>1, LenProperties, ElementOfSeq
<1>4. PairsOf(key, radix) \in [1..Len(radix.paired) -> Seq(DigitSet(key))]
  <2>1. ASSUME NEW i \in 1..Len(radix.paired)
        PROVE  PairOf(key, decode_block(key, radix.paired[i]).value) \in Seq(DigitSet(key))
    <3>1. PICK m \in Nat : m = decode_block(key, radix.paired[i]).value
      BY <1>2, BlockValue
    <3>2. m % key.msg \in DigitSet(key) /\ (m \div key.msg) % key.msg \in DigitSet(key)
      BY RemaindersAreDigits
    <3> QED
      BY <3>1, <3>2 DEF PairOf
  <2> QED
    BY <1>2, <2>1 DEF PairsOf
<1>5. LastOf(key, radix) \in [1..Len(radix.last) -> DigitSet(key)]
  <2>1. ASSUME NEW i \in 1..Len(radix.last)
        PROVE  decode_block(key, radix.last[i]).value % key.msg \in DigitSet(key)
    <3>1. decode_block(key, radix.last[i]).value \in Nat
      BY <1>3, BlockValue
    <3> QED
      BY <3>1, RemaindersAreDigits
  <2> QED
    BY <1>3, <2>1 DEF LastOf
<1>6. RadixDigits(key, radix) = FlattenSeq(PairsOf(key, radix)) \o LastOf(key, radix)
  BY DEF RadixDigits, PairsOf, LastOf
<1>7. PairsOf(key, radix) \in Seq(Seq(DigitSet(key))) /\ Len(PairsOf(key, radix)) = Len(radix.paired)
  BY <1>2, <1>4, FunctionIsSeq
<1>8. LastOf(key, radix) \in Seq(DigitSet(key)) /\ Len(LastOf(key, radix)) = Len(radix.last)
  BY <1>3, <1>5, FunctionIsSeq
<1>9. FlattenSeq(PairsOf(key, radix)) \in Seq(DigitSet(key))
  BY <1>7, FlattenType
<1>10. RadixDigits(key, radix) \in Seq(DigitSet(key))
  BY <1>6, <1>8, <1>9, ConcatProperties
<1> QED
  BY <1>7, <1>8, <1>10

\* The widths of a digit: one, or none if the modulus is no power of two.
Widths(key) == {k \in 1..Word : Pow2[k] = key.msg}

(* The least element of a set of numbers is in it. *)
LEMMA LeastIsIn ==
  ASSUME NEW I, I \subseteq Nat, I # {}
  PROVE  Min(I) \in I
<1>1. \E x \in I : \A y \in I : x <= y
  BY LeastNatural, Zenon
<1> QED
  BY <1>1, Zenon DEF Min

(* What decode_radix returns when it returns a value. *)
LEMMA DecodeRadixIs ==
  ASSUME NEW key, NEW radix \in GenericMirror, NEW w, decode_radix(key, radix, w).err = "none"
  PROVE  \E p \in Widths(key) :
           /\ ~TooWide(RadixDigits(key, radix), p, w)
           /\ decode_radix(key, radix, w).value = Positional(RadixDigits(key, radix), p)
<1> DEFINE p == CHOOSE k \in Widths(key) : TRUE
           blocks == radix.paired \o radix.last
           failed == {i \in DOMAIN blocks : decode_block(key, blocks[i]).err # "none"}
           digits == RadixDigits(key, radix)
<1>1. decode_radix(key, radix, w) =
        IF Widths(key) = {} THEN Err("invalid message modulus")
        ELSE IF failed # {} THEN decode_block(key, blocks[Min(failed)])
        ELSE IF digits = << >> THEN Err("empty radix ciphertext")
        ELSE IF TooWide(digits, p, w) THEN Err("WidthExceeded")
        ELSE Ok(Positional(digits, p))
  BY Zenon DEF decode_radix, Widths
<1>2. radix.paired \in Seq(BlockMirror) /\ radix.last \in Seq(BlockMirror)
  BY DEF GenericMirror
<1>3. blocks \in Seq(BlockMirror)
  BY <1>2, ConcatProperties
<1>4. failed # {} => Min(failed) \in failed
  <2> SUFFICES ASSUME failed # {}
               PROVE  Min(failed) \in failed
    BY Zenon
  <2> HIDE DEF blocks
  <2>1. failed \subseteq Nat
    BY <1>3, LenProperties
  <2> HIDE DEF failed
  <2> QED
    BY <2>1, LeastIsIn, Zenon
<1>5. failed # {} => decode_block(key, blocks[Min(failed)]).err # "none"
  BY <1>4, Zenon
<1>6. p \in Widths(key) \/ Widths(key) = {}
  OBVIOUS
<1> HIDE DEF failed, blocks, digits, p
<1>7. Err("invalid message modulus").err # "none" /\ Err("empty radix ciphertext").err # "none"
      /\ Err("WidthExceeded").err # "none"
  BY DEF Err
<1>8. Widths(key) # {} /\ ~TooWide(digits, p, w) /\ decode_radix(key, radix, w) = Ok(Positional(digits, p))
  BY <1>1, <1>5, <1>7
<1>9. decode_radix(key, radix, w).value = Positional(digits, p)
  BY <1>8 DEF Ok
<1> QED
  BY <1>6, <1>8, <1>9 DEF digits

(* A width divides what it is rounded up to. *)
LEMMA MultipleType ==
  ASSUME NEW n \in Nat, NEW k \in Nat \ {0}
  PROVE  next_multiple_of(n, k) \in Nat
<1>1. n + k - 1 \in Nat
  OBVIOUS
<1>2. (n + k - 1) \div k \in Nat
  BY <1>1
<1> QED
  BY <1>2 DEF next_multiple_of

(* What decode_radix returns has no more bits than it was asked for. *)
LEMMA RadixFits ==
  ASSUME NEW key, KeyTyped(key), NEW radix \in GenericMirror, NEW w \in Nat,
         decode_radix(key, radix, w).err = "none"
  PROVE  \E p \in 1..Word :
           /\ Pow2[p] = key.msg
           /\ decode_radix(key, radix, w).value \in 0..(Pow2[next_multiple_of(w, p)] - 1)
<1> DEFINE d == RadixDigits(key, radix)
<1>1. PICK p \in Widths(key) :
        ~TooWide(d, p, w) /\ decode_radix(key, radix, w).value = Positional(d, p)
  BY DecodeRadixIs
<1>2. p \in 1..Word /\ p \in Nat \ {0} /\ Pow2[p] = key.msg
  BY <1>1, DirectDecryptAssumption DEF Widths
<1>3. d \in Seq(0..(key.msg - 1))
  BY DigitsType DEF DigitSet
<1> HIDE DEF d
<1>4. key.msg \in Nat
  BY DEF KeyTyped
<1>5. Len(d) \in Nat /\ \A i \in 1..Len(d) : d[i] \in 0..(key.msg - 1)
  BY <1>3, LenProperties, ElementOfSeq
<1>6. \A i \in 1..Len(d) : d[i] \in Nat /\ d[i] < Pow2[p]
  BY <1>2, <1>4, <1>5
<1>7. d \in Seq(Nat)
  <2>1. 0..(key.msg - 1) \subseteq Nat
    BY <1>4
  <2> QED
    BY <1>3, <2>1, Widen
<1>8. Positional(d, p) \in 0..(Pow2[p * Len(d)] - 1)
  BY <1>2, <1>6, <1>7, DigitsFit
<1>9. next_multiple_of(w, p) \in Nat
  BY <1>2, MultipleType
<1>10. p * Len(d) \in Nat /\ p * Len(d) <= next_multiple_of(w, p)
  <2>1. p * Len(d) \in Nat
    BY <1>2, <1>5
  <2> QED
    BY <1>1, <1>9, <2>1 DEF TooWide
<1>11. Pow2[p * Len(d)] <= Pow2[next_multiple_of(w, p)]
  BY <1>9, <1>10, Pow2Monotone
<1>12. Pow2[p * Len(d)] \in Nat /\ Pow2[next_multiple_of(w, p)] \in Nat
  BY <1>9, <1>10, Pow2Positive
<1>13. Positional(d, p) \in 0..(Pow2[next_multiple_of(w, p)] - 1)
  BY <1>8, <1>11, <1>12
<1> QED
  BY <1>1, <1>2, <1>13

\* The key of the store.
KeyOfStore(ck) == [s |-> ck.s, msg |-> ck.msg, carry |-> ck.carry]

(* A decryption that answers went through decrypt_compressed. *)
LEMMA DecryptedIs ==
  ASSUME NEW c, decrypted(c).err = "none"
  PROVE  /\ c.ty \in EncryptionTypes
         /\ decrypted(c) = decrypt_compressed(KeyOfStore(c.ck), c.ty, c.ct)
<1> DEFINE store == load(c.ck)
<1>1. store.err = "none" \/ store.err = "KeyLoad"
  BY DEF load
<1>2. CASE store.err # "none"
  <2>1. decrypted(c) = Err(store.err)
    BY <1>2 DEF decrypted
  <2> QED
    BY <1>1, <1>2, <2>1 DEF Err
<1>3. CASE store.err = "none"
  <2>1. store.zone_0 = KeyOfStore(c.ck)
    BY <1>3 DEF load, from_client_key, KeyOfStore
  <2>2. c.zone = 0
    <3> SUFFICES ASSUME c.zone # 0
                 PROVE  FALSE
      OBVIOUS
    <3>1. decrypted(c) = Err("UnsupportedZone")
      BY <1>3 DEF decrypted, direct_key
    <3> QED
      BY <3>1 DEF Err
  <2>3. direct_key(store, c.zone) = {KeyOfStore(c.ck)}
    BY <2>1, <2>2 DEF direct_key
  <2>4. from_i32(c.ty).err = "none"
    <3> SUFFICES ASSUME from_i32(c.ty).err # "none"
                 PROVE  FALSE
      OBVIOUS
    <3>1. decrypted(c) = from_i32(c.ty)
      BY <1>3, <2>3 DEF decrypted
    <3> QED
      BY <3>1
  <2>5. c.ty \in EncryptionTypes
    BY <2>4 DEF from_i32, Err
  <2>6. decrypted(c) = decrypt_compressed(CHOOSE key \in {KeyOfStore(c.ck)} : TRUE, c.ty, c.ct)
    BY <1>3, <2>3, <2>4 DEF decrypted
  <2>7. (CHOOSE key \in {KeyOfStore(c.ck)} : TRUE) = KeyOfStore(c.ck)
    OBVIOUS
  <2> QED
    BY <2>5, <2>6, <2>7
<1> QED
  BY <1>2, <1>3

(* What decrypt_compressed returns when it returns a value. *)
LEMMA CompressedIs ==
  ASSUME NEW key, NEW ty, NEW ct, decrypt_compressed(key, ty, ct).err = "none"
  PROVE  /\ Readable(ty, ct)
         /\ decrypt_compressed(key, ty, ct) =
              IF ty = 0 THEN decrypt_bool(key, ct) ELSE decode_radix(key, ct.radix, bits(ty))
<1>1. Err("Deserialize").err # "none" /\ Err("seeded").err # "none"
  BY DEF Err
<1> QED
  BY <1>1 DEF decrypt_compressed

(* The key of the store is typed. *)
LEMMA StoreKeyTyped ==
  ASSUME NEW c \in Ciphertexts
  PROVE  /\ KeyTyped(KeyOfStore(c.ck)) /\ KeyTyped(c.ck)
         /\ KeyOfStore(c.ck).s = c.ck.s /\ KeyOfStore(c.ck).msg = c.ck.msg
         /\ KeyOfStore(c.ck).carry = c.ck.carry
<1>1. c.ck.s \in Seq(Nat) /\ c.ck.msg \in Nat \ {0} /\ c.ck.carry \in Nat \ {0}
  BY CiphertextsAssumption
<1> QED
  BY <1>1 DEF KeyTyped, KeyOfStore

(* The widths of the types are numbers. *)
LEMMA BitsType ==
  ASSUME NEW ty \in EncryptionTypes
  PROVE  bits(ty) \in Nat \ {0}
BY DEF EncryptionTypes, bits

(* WidthHolds: whatever the ciphertext source sends, decrypt_compressed    *)
(* answers no value with more digits than the declared type has room for,  *)
(* and for a boolean no value but 0 and 1.                                 *)
THEOREM WidthsHold == AlgorithmsSpec => []WidthHolds
<1>1. CallInv => WidthHolds
  <2> SUFFICES ASSUME CallInv, done, fn = "decrypt_compressed", result.err = "none"
               PROVE  IF call.ty = 0 THEN result.value \in {0, 1}
                      ELSE \E per_digit \in 1..Word :
                             /\ Pow2[per_digit] = call.ck.msg
                             /\ result.value \in
                                  0..(Pow2[next_multiple_of(bits(call.ty), per_digit)] - 1)
    BY DEF WidthHolds, Called
  <2>1. call \in Ciphertexts /\ result = decrypted(call)
    BY DEF CallInv
  <2> DEFINE key == KeyOfStore(call.ck)
  <2>2. /\ call.ty \in EncryptionTypes
        /\ result = decrypt_compressed(key, call.ty, call.ct)
    BY <2>1, DecryptedIs
  <2>3. KeyTyped(key) /\ key.msg = call.ck.msg
    BY <2>1, StoreKeyTyped
  <2> HIDE DEF key
  <2>4. /\ Readable(call.ty, call.ct)
        /\ result = IF call.ty = 0 THEN decrypt_bool(key, call.ct)
                    ELSE decode_radix(key, call.ct.radix, bits(call.ty))
    BY <2>2, CompressedIs
  <2>5. CASE call.ty = 0
    <3>1. result = decrypt_bool(key, call.ct)
      BY <2>4, <2>5
    <3>2. result = Ok(IF decode_block(key, call.ct.block).value % key.msg # 0 THEN 1 ELSE 0)
      BY <3>1 DEF decrypt_bool
    <3> QED
      BY <2>5, <3>2 DEF Ok
  <2>6. CASE call.ty # 0
    <3>1. call.ct.radix \in GenericMirror
      <4>1. call.ct.kind = "uint" /\ call.ct \in UintMirror \cup BoolMirror
        BY <2>1, <2>4, <2>6, CiphertextsAssumption DEF Readable
      <4>2. call.ct \in UintMirror
        BY <4>1 DEF BoolMirror
      <4> QED
        BY <4>2 DEF UintMirror
    <3>2. result = decode_radix(key, call.ct.radix, bits(call.ty))
      BY <2>4, <2>6
    <3>3. bits(call.ty) \in Nat
      BY <2>2, BitsType
    <3>4. \E p \in 1..Word :
            Pow2[p] = key.msg /\ result.value \in 0..(Pow2[next_multiple_of(bits(call.ty), p)] - 1)
      BY <2>3, <3>1, <3>2, <3>3, RadixFits
    <3> QED
      BY <2>3, <2>6, <3>4
  <2> QED
    BY <2>5, <2>6
<1> QED
  BY <1>1, CallsReturn, PTL

-----------------------------------------------------------------------------
(* Decryption of what was encrypted *)

\* q and r are quotient and remainder of x by y.
Divided(x, y, q, r) ==
  x \in Int /\ y \in Nat \ {0} /\ q \in Int /\ r \in Nat /\ r < y /\ x = y * q + r

(* Quotient and remainder are unique. *)
LEMMA RemainderIs ==
  ASSUME NEW x, NEW y, NEW q, NEW r, Divided(x, y, q, r)
  PROVE  x % y = r /\ x \div y = q
BY DEF Divided

(* A multiple of the modulus changes no remainder. *)
LEMMA AddMultiple ==
  ASSUME NEW x \in Int, NEW y \in Nat \ {0}, NEW k \in Int
  PROVE  (x + y * k) % y = x % y
<1>1. PICK q \in Int, r \in Nat : r < y /\ x = y * q + r /\ x % y = r
  BY Remainder
<1>2. x + y * k = y * (q + k) + r /\ x + y * k \in Int /\ q + k \in Int
  BY <1>1
<1>3. Divided(x + y * k, y, q + k, r)
  BY <1>1, <1>2 DEF Divided
<1> QED
  BY <1>1, <1>3, RemainderIs

(* Equal remainders are a multiple apart. *)
LEMMA SameRemainder ==
  ASSUME NEW x \in Int, NEW z \in Int, NEW y \in Nat \ {0}, x % y = z % y
  PROVE  \E k \in Int : x = z + y * k
<1>1. PICK q \in Int, r \in Nat : x = y * q + r /\ x % y = r
  BY Remainder
<1>2. PICK q2 \in Int, r2 \in Nat : z = y * q2 + r2 /\ z % y = r2
  BY Remainder
<1>3. r = r2
  BY <1>1, <1>2
<1>4. q - q2 \in Int /\ x = z + y * (q - q2)
  BY <1>1, <1>2, <1>3
<1> QED
  BY <1>4

\* A word that is D and y modulo M, a divisor of W; and y taken out of it.
Masks(M, W, word, D, y) ==
  /\ M \in Nat \ {0} /\ W \in Nat \ {0} /\ \E K \in Nat \ {0} : W = M * K
  /\ word \in Int /\ D \in Int /\ y \in Int /\ word % M = (D + y) % M

Unmasks(M, W, word, D, y) == ((word - (D % W)) % W) % M = y % M

(* The wrapping subtraction of decode_block, modulo a divisor M of the     *)
(* word's modulus W: what was added to the scalar product remains.         *)
LEMMA Unmasked ==
  ASSUME NEW M, NEW W, NEW word, NEW D, NEW y, Masks(M, W, word, D, y)
  PROVE  Unmasks(M, W, word, D, y)
<1>0. PICK K \in Nat \ {0} : W = M * K
  BY DEF Masks
<1> SUFFICES ASSUME M \in Nat \ {0}, W \in Nat \ {0}, word \in Int, D \in Int, y \in Int,
                    word % M = (D + y) % M
             PROVE  ((word - (D % W)) % W) % M = y % M
  BY DEF Masks, Unmasks
<1>1. PICK a \in Int : word = (D + y) + M * a
  <2>1. D + y \in Int
    OBVIOUS
  <2> QED
    BY <2>1, SameRemainder
<1>2. PICK b \in Int, d \in Nat : D = W * b + d /\ D % W = d
  BY Remainder
<1>3. PICK x \in Int : x = word - d
  BY <1>2
<1>4. PICK e \in Int, r \in Nat : x = W * e + r /\ x % W = r
  BY Remainder
<1>5. r = y + M * (a + K * b - K * e) /\ a + K * b - K * e \in Int
  <2>1. r = (D + y) + M * a - d - W * e
    BY <1>1, <1>3, <1>4
  <2>2. r = W * b + y + M * a - W * e
    BY <1>2, <2>1
  <2>3. W * b = M * (K * b) /\ W * e = M * (K * e)
    BY <1>0
  <2>4. K * b \in Int /\ K * e \in Int
    OBVIOUS
  <2>5. PICK u \in Int, v \in Int : u = K * b /\ v = K * e
    BY <2>4
  <2>6. r = M * u + y + M * a - M * v
    BY <2>2, <2>3, <2>5
  <2>7. M * (a + u - v) = M * a + M * u - M * v
    OBVIOUS
  <2>8. M * a \in Int /\ M * u \in Int /\ M * v \in Int
    OBVIOUS
  <2>9. r = y + M * (a + u - v)
    BY <2>6, <2>7, <2>8
  <2> QED
    BY <2>5, <2>9
<1>6. r % M = y % M
  BY <1>5, AddMultiple
<1> QED
  BY <1>2, <1>3, <1>4, <1>6

\* space cleartexts, a step apart, fill M = 2 * H; the noise is up to half of a
\* step; and m rounded from its place.
Noisy(M, H, space, step, m, noise) ==
  /\ M \in Nat \ {0} /\ H \in Nat /\ M = 2 * H /\ space \in Nat \ {0}
  /\ step \in Nat /\ step * space = M /\ m \in Nat /\ m < space
  /\ noise \in Int /\ -step <= 2 * noise /\ 2 * noise < step

RoundsTo(M, H, space, step, m, noise) ==
  ((((m * step + noise) % M) * space + H) \div M) % space = m

(* Rounding takes the noise away. *)
LEMMA Rounds ==
  ASSUME NEW M, NEW H, NEW space, NEW step, NEW m, NEW noise, Noisy(M, H, space, step, m, noise)
  PROVE  RoundsTo(M, H, space, step, m, noise)
<1> SUFFICES ASSUME M \in Nat \ {0}, H \in Nat, M = 2 * H, space \in Nat \ {0},
                    step \in Nat, step * space = M, m \in Nat, m < space,
                    noise \in Int, -step <= 2 * noise, 2 * noise < step
             PROVE  ((((m * step + noise) % M) * space + H) \div M) % space = m
  BY DEF Noisy, RoundsTo
<1> DEFINE y == m * step + noise
<1>1. y \in Int
  OBVIOUS
<1>2. PICK q \in Int, dec \in Nat : y = M * q + dec /\ y % M = dec
  BY <1>1, Remainder
<1> DEFINE low == noise * space + H
<1>3. low \in Nat /\ low < M
  <2>1. 2 * (noise * space) >= -M
    <3>1. 2 * noise + step \in Nat
      OBVIOUS
    <3>2. (2 * noise + step) * space \in Nat
      BY <3>1
    <3>3. (2 * noise + step) * space = 2 * (noise * space) + step * space
      OBVIOUS
    <3>4. PICK u \in Int : u = noise * space
      OBVIOUS
    <3> QED
      BY <3>2, <3>3, <3>4
  <2>2. 2 * (noise * space) < M
    <3>1. step - 2 * noise - 1 \in Nat
      OBVIOUS
    <3>2. (step - 2 * noise - 1) * space \in Nat
      BY <3>1
    <3>3. (step - 2 * noise - 1) * space = step * space - 2 * (noise * space) - space
      OBVIOUS
    <3>4. PICK u \in Int : u = noise * space
      OBVIOUS
    <3> QED
      BY <3>2, <3>3, <3>4
  <2>3. PICK u \in Int : u = noise * space
    OBVIOUS
  <2> QED
    BY <2>1, <2>2, <2>3
<1>4. dec * space + H = M * (m - space * q) + low
  <2>1. dec = m * step + noise - M * q
    BY <1>2
  <2>2. dec * space = m * (step * space) + noise * space - M * (space * q)
    <3>1. (m * step + noise - M * q) * space = m * (step * space) + noise * space - M * (space * q)
      OBVIOUS
    <3> QED
      BY <2>1, <3>1
  <2>3. PICK u \in Int, v \in Int : u = noise * space /\ v = space * q
    OBVIOUS
  <2>4. M * (m - v) = M * m - M * v /\ m * M = M * m
    OBVIOUS
  <2>5. M * m \in Int /\ M * v \in Int
    OBVIOUS
  <2> QED
    BY <2>2, <2>3, <2>4, <2>5
<1>5. m - space * q \in Int /\ dec * space + H \in Int
  OBVIOUS
<1> HIDE DEF low
<1>6. (dec * space + H) \div M = m - space * q
  <2>1. PICK x \in Int : x = dec * space + H
    BY <1>5
  <2>2. PICK k \in Int : k = m - space * q
    BY <1>5
  <2>3. x = M * k + low
    BY <1>4, <2>1, <2>2
  <2>4. Divided(x, M, k, low)
    BY <1>3, <2>3 DEF Divided
  <2>5. x \div M = k
    BY <2>4, RemainderIs
  <2> QED
    BY <2>1, <2>2, <2>5
<1>7. (m - space * q) % space = m
  <2>1. m - space * q = space * (-q) + m /\ -q \in Int
    OBVIOUS
  <2>2. PICK x \in Int : x = m - space * q
    BY <1>5
  <2>3. Divided(x, space, -q, m)
    BY <2>1, <2>2 DEF Divided
  <2>4. x % space = m
    BY <2>3, RemainderIs
  <2> QED
    BY <2>2, <2>4
<1> QED
  BY <1>2, <1>6, <1>7

(* A block that passes every check has no fault. *)
LEMMA NoFault ==
  ASSUME NEW key, NEW b, b.msg = key.msg, b.carry = key.carry, b.pattern = "KeyswitchBootstrap",
         b.form = "Classic", b.dim = Len(key.s), b.log \in 1..(Word - 1),
         b.initial_len = b.dim + 1,
         b.packed_len = (b.initial_len * b.log + Word - 1) \div Word
  PROVE  Fault(key, b) = "none"
<1> DEFINE C == Checks(key, b)
<1>1. DOMAIN C = 1..7
  BY DEF Checks
<1>2. \A i \in 1..7 : i = 1 \/ i = 2 \/ i = 3 \/ i = 4 \/ i = 5 \/ i = 6 \/ i = 7
  OBVIOUS
<1>3. C[1][1] /\ C[2][1] /\ C[3][1] /\ C[4][1] /\ C[5][1] /\ C[6][1] /\ C[7][1]
  BY DEF Checks
<1>4. \A i \in 1..7 : C[i][1]
  BY <1>2, <1>3
<1>5. {i \in DOMAIN C : ~C[i][1]} = {}
  <2> HIDE DEF C
  <2> QED
    BY <1>1, <1>4
<1> QED
  BY <1>5 DEF Fault

(* decode_block gives back what was encrypted. *)
LEMMA BlockDecodes ==
  ASSUME NEW ck, KeyTyped(ck), NEW b \in BlockMirror, NEW m \in Cleartexts(ck), Encrypts(ck, b, m)
  PROVE  decode_block(KeyOfStore(ck), b) = Ok(m)
<1> DEFINE key == KeyOfStore(ck)
<1>1. key.s = ck.s /\ key.msg = ck.msg /\ key.carry = ck.carry /\ KeyTyped(key)
  BY DEF KeyTyped, KeyOfStore
<1> HIDE DEF key
<1>2. PICK space \in Nat \ {0} : space = 2 * ck.msg * ck.carry
  <2>1. \A x, y \in Nat \ {0} : 2 * x * y \in Nat \ {0}
    OBVIOUS
  <2> QED
    BY <2>1 DEF KeyTyped
<1>3. m \in Nat /\ m < space
  BY <1>2 DEF Cleartexts
<1> DEFINE n == Len(ck.s)
           M == Pow2[b.log]
           step == M \div space
<1>4. b = [msg |-> ck.msg, carry |-> ck.carry, pattern |-> "KeyswitchBootstrap",
           form |-> "Classic", dim |-> n, log |-> b.log, initial_len |-> n + 1,
           packed_len |-> ((n + 1) * b.log + Word - 1) \div Word, words |-> b.words]
  BY DEF Encrypts
<1>5. b.log \in 1..(Word - 1) /\ step * space = M
  BY <1>2 DEF Encrypts
<1>6. PICK noise \in -(step \div 2)..((step - 1) \div 2) :
        b.words[n + 1] % M = (Total(Products(ck, b)) + m * step + noise) % M
  BY <1>2 DEF Encrypts, Products
<1>7. Fault(key, b) = "none"
  <2>1. /\ b.msg = ck.msg /\ b.carry = ck.carry /\ b.pattern = "KeyswitchBootstrap"
        /\ b.form = "Classic" /\ b.dim = n /\ b.initial_len = n + 1
        /\ b.packed_len = ((n + 1) * b.log + Word - 1) \div Word
    BY <1>4
  <2> QED
    BY <1>1, <1>5, <2>1, NoFault
<1>8. Products(key, b) = Products(ck, b)
  BY <1>1 DEF Products
<1>9. /\ n \in Nat /\ b.words[n + 1] \in Nat /\ b.log \in Nat \ {0} /\ b.log < Word
      /\ Total(Products(ck, b)) \in Nat
  BY <1>1, <1>7, <1>8, BlockWords
<1> HIDE DEF n
<1>10. PICK K \in Nat \ {0} : Pow2[Word] = M * K
  <2>1. PICK j \in Nat : b.log + j = Word
    <3>1. Word - b.log \in Nat /\ b.log + (Word - b.log) = Word
      BY <1>9, DirectDecryptAssumption
    <3> QED
      BY <3>1
  <2>2. Pow2[b.log + j] = Pow2[b.log] * Pow2[j]
    BY <1>9, Pow2Plus
  <2>3. Pow2[j] \in Nat \ {0}
    BY Pow2Positive
  <2> QED
    BY <2>1, <2>2, <2>3
<1>11. M \in Nat \ {0} /\ Pow2[Word] \in Nat \ {0}
  BY <1>9, DirectDecryptAssumption, Pow2Positive
<1>12. PICK H \in Nat : M = 2 * H /\ H = Pow2[b.log - 1]
  <2>1. b.log - 1 \in Nat /\ (b.log - 1) + 1 = b.log
    BY <1>9
  <2> QED
    BY <2>1, Pow2Is, Pow2Positive
<1> HIDE DEF M
<1>13. step \in Nat
  BY <1>11
<1> HIDE DEF step
<1>14. noise \in Int /\ -step <= 2 * noise /\ 2 * noise < step
  BY <1>6, <1>13
<1> DEFINE y == m * step + noise
           D == Total(Products(ck, b))
           word == b.words[n + 1]
<1>15. y \in Int
  BY <1>3, <1>13, <1>14
<1>16. word % M = (D + y) % M
  <2>1. PICK u \in Int : u = m * step
    BY <1>3, <1>13
  <2>2. D + m * step + noise = D + y
    BY <1>9, <1>14, <2>1
  <2> QED
    BY <1>6, <2>2
<1>17. D \in Int /\ word \in Int
  BY <1>9
<1> HIDE DEF D, word, y
<1>18. ((word - (D % Pow2[Word])) % Pow2[Word]) % M = y % M
  <2>1. Masks(M, Pow2[Word], word, D, y)
    BY <1>10, <1>11, <1>15, <1>16, <1>17 DEF Masks
  <2>2. Unmasks(M, Pow2[Word], word, D, y)
    BY <2>1, Unmasked
  <2> QED
    BY <2>2 DEF Unmasks
<1>19. Decoded(key, b) = y % M
  BY <1>1, <1>8, <1>18 DEF Decoded, D, word, n, M
<1>20. (((y % M) * space + H) \div M) % space = m
  <2>1. ((((m * step + noise) % M) * space + H) \div M) % space = m
    <3>1. Noisy(M, H, space, step, m, noise)
      BY <1>3, <1>5, <1>11, <1>12, <1>13, <1>14 DEF Noisy
    <3>2. RoundsTo(M, H, space, step, m, noise)
      BY <3>1, Rounds
    <3> QED
      BY <3>2 DEF RoundsTo
  <2> QED
    BY <2>1 DEF y
<1>21. Round(Decoded(key, b), space, b.log) = m
  BY <1>12, <1>19, <1>20 DEF Round, M
<1>22. decode_block(key, b) = Ok(Round(Decoded(key, b), space, b.log))
  BY <1>1, <1>2, <1>7, DecodeBlockIs
<1> QED
  BY <1>21, <1>22 DEF key

(* The low digits of v and the next one. *)
LEMMA NextDigit ==
  ASSUME NEW v \in Nat, NEW X \in Nat \ {0}, NEW B \in Nat \ {0}
  PROVE  v % (B * X) = (v % X) + ((v \div X) % B) * X
<1>1. PICK q \in Int, r \in Nat : r < X /\ v = X * q + r /\ v \div X = q /\ v % X = r
  BY Remainder
<1>2. PICK z \in Int, e \in Nat : e < B /\ q = B * z + e /\ q % B = e
  BY Remainder
<1>3. PICK Y \in Nat \ {0} : Y = B * X
  OBVIOUS
<1>4. e * X \in Nat /\ r + e * X < Y
  <2>1. PICK j \in Nat : B = e + 1 + j
    <3>1. B - e - 1 \in Nat /\ B = e + 1 + (B - e - 1)
      BY <1>2
    <3> QED
      BY <3>1
  <2>2. B * X = e * X + X + j * X
    BY <2>1
  <2>3. j * X \in Nat /\ e * X \in Nat
    OBVIOUS
  <2> QED
    BY <1>1, <1>3, <2>2, <2>3
<1>5. v = Y * z + (r + e * X)
  <2>1. X * (B * z + e) = (B * X) * z + e * X
    OBVIOUS
  <2>2. v = (B * X) * z + e * X + r
    BY <1>1, <1>2, <2>1
  <2>3. PICK s \in Int : s = Y * z
    OBVIOUS
  <2> QED
    BY <1>1, <1>3, <1>4, <2>2, <2>3
<1>6. PICK low \in Nat : low = r + e * X
  BY <1>4
<1>7. v % Y = low
  <2>1. Divided(v, Y, z, low)
    BY <1>4, <1>5, <1>6 DEF Divided
  <2> QED
    BY <2>1, RemainderIs
<1> QED
  BY <1>1, <1>2, <1>3, <1>6, <1>7

\* d is the expansion of v in digits of p bits.
Expands(d, v, p) ==
  /\ d \in Seq(Nat) /\ v \in Nat /\ p \in Nat /\ v < Pow2[p * Len(d)]
  /\ \A i \in 1..Len(d) : d[i] = (v \div Pow2[p * (i - 1)]) % Pow2[p]

(* A number is put together from its digits. *)
LEMMA PositionalIs ==
  ASSUME NEW d, NEW v, NEW p, Expands(d, v, p)
  PROVE  Positional(d, p) = v
<1> DEFINE n == Len(d)
<1>1. /\ d \in Seq(Nat) /\ v \in Nat /\ p \in Nat /\ v < Pow2[p * n]
      /\ \A i \in 1..n : d[i] = (v \div Pow2[p * (i - 1)]) % Pow2[p]
  BY DEF Expands
<1>2. n \in Nat
  BY <1>1, LenProperties
<1>3. /\ Shifted(d, p) \in Seq(Nat) /\ Len(Shifted(d, p)) = n
      /\ \A i \in 1..n : Shifted(d, p)[i] = d[i] * Pow2[p * (i - 1)]
  BY <1>1, ShiftedShape
<1>4. PICK h : Sums(h, Shifted(d, p)) /\ Total(Shifted(d, p)) = h[n]
  BY <1>3, TotalBy
<1> HIDE DEF n
<1>5. /\ h \in [0..n -> Nat] /\ h[0] = 0
      /\ \A i \in 1..n : h[i] = h[i - 1] + d[i] * Pow2[p * (i - 1)]
  BY <1>3, <1>4 DEF Sums
<1> DEFINE P == {i \in 0..n : h[i] = v % Pow2[p * i]}
<1>6. 0 \in P
  <2>1. p * 0 = 0
    BY <1>1
  <2>2. Pow2[p * 0] = 1
    BY <2>1, Pow2Is
  <2>3. v % 1 = 0
    BY <1>1
  <2>4. h[0] = v % Pow2[p * 0]
    BY <1>5, <2>2, <2>3
  <2> QED
    BY <1>2, <2>4
<1>7. ASSUME NEW i \in 0..(n - 1), i \in P
      PROVE  i + 1 \in P
  <2>1. i \in Nat /\ i + 1 \in 1..n /\ i + 1 \in 0..n /\ (i + 1) - 1 = i
    BY <1>2
  <2>2. PICK X \in Nat \ {0}, B \in Nat \ {0} :
          X = Pow2[p * i] /\ B = Pow2[p] /\ Pow2[p * (i + 1)] = B * X
    <3>1. /\ Pow2[p * (i + 1)] = Pow2[p] * Pow2[p * i]
          /\ Pow2[p] \in Nat \ {0} /\ Pow2[p * i] \in Nat \ {0}
      BY <1>1, <2>1, NextShift
    <3> QED
      BY <3>1
  <2>3. h[i + 1] = h[i] + d[i + 1] * X
    BY <1>5, <2>1, <2>2
  <2>4. d[i + 1] = (v \div X) % B
    BY <1>1, <2>1, <2>2
  <2>5. h[i] = v % X
    BY <1>7, <2>2
  <2>6. v % (B * X) = (v % X) + ((v \div X) % B) * X
    BY <1>1, NextDigit
  <2>7. h[i + 1] = v % Pow2[p * (i + 1)]
    BY <2>2, <2>3, <2>4, <2>5, <2>6
  <2> QED
    BY <2>1, <2>7
<1>8. n \in P
  <2> HIDE DEF P
  <2>1. \A i \in 0..n : i \in P
    BY <1>2, <1>6, <1>7, UpTo
  <2> QED
    BY <1>2, <2>1
<1>9. h[n] = v
  <2>1. p * n \in Nat
    BY <1>1, <1>2
  <2>2. PICK X \in Nat \ {0} : X = Pow2[p * n]
    BY <2>1, Pow2Positive
  <2>3. v = X * 0 + v /\ v < X
    BY <1>1, <2>2
  <2>4. v % X = v
    <3>1. Divided(v, X, 0, v)
      BY <1>1, <2>3 DEF Divided
    <3> QED
      BY <3>1, RemainderIs
  <2> QED
    BY <1>8, <2>2, <2>4
<1> QED
  BY <1>4, <1>9 DEF Positional, Shifted

(* Different shifts are different factors. *)
LEMMA Pow2Injective == \A a, b \in Nat : Pow2[a] = Pow2[b] => a = b
<1>1. ASSUME NEW a \in Nat, NEW b \in Nat, a < b
      PROVE  Pow2[a] < Pow2[b]
  <2>1. Pow2[a + 1] <= Pow2[b]
    BY <1>1, Pow2Monotone
  <2>2. Pow2[a + 1] = 2 * Pow2[a] /\ Pow2[a] \in Nat \ {0} /\ Pow2[b] \in Nat
    BY Pow2Is, Pow2Positive
  <2> QED
    BY <2>1, <2>2
<1>2. \A a \in Nat : Pow2[a] \in Nat
  BY Pow2Positive
<1>3. \A x, y \in Nat : x < y => x # y
  OBVIOUS
<1> SUFFICES ASSUME NEW a \in Nat, NEW b \in Nat, a # b
             PROVE  Pow2[a] # Pow2[b]
  OBVIOUS
<1>4. a < b \/ b < a
  OBVIOUS
<1> QED
  BY <1>1, <1>2, <1>3, <1>4

\* The i-th digit of v, low one first.
DigitIn(ck, v, p, i) == (v \div Pow2[p * (i - 1)]) % ck.msg

(* The blocks of an encryption decode, to its digits. *)
LEMMA BlocksDecode ==
  ASSUME NEW ck, KeyTyped(ck), NEW radix \in GenericMirror, NEW v, NEW p, NEW w,
         EncryptsRadix(ck, radix, v, p, w)
  PROVE  /\ \A k \in 1..Len(radix.paired) :
              /\ decode_block(KeyOfStore(ck), radix.paired[k]).err = "none"
              /\ PairOf(KeyOfStore(ck), decode_block(KeyOfStore(ck), radix.paired[k]).value) =
                   <<DigitIn(ck, v, p, 2 * k - 1), DigitIn(ck, v, p, 2 * k)>>
         /\ \A k \in 1..Len(radix.last) :
              /\ decode_block(KeyOfStore(ck), radix.last[k]).err = "none"
              /\ decode_block(KeyOfStore(ck), radix.last[k]).value % ck.msg =
                   DigitIn(ck, v, p, 2 * Len(radix.paired) + Len(radix.last))
<1> DEFINE key == KeyOfStore(ck)
<1>1. key.msg = ck.msg
  BY DEF KeyOfStore
<1>2. radix.paired \in Seq(BlockMirror) /\ radix.last \in Seq(BlockMirror)
  BY DEF GenericMirror
<1>3. /\ DOMAIN radix.paired = 1..Len(radix.paired)
      /\ \A i \in 1..Len(radix.paired) : radix.paired[i] \in BlockMirror
  BY <1>2, LenProperties, ElementOfSeq
<1>4. /\ DOMAIN radix.last = 1..Len(radix.last)
      /\ \A i \in 1..Len(radix.last) : radix.last[i] \in BlockMirror
  BY <1>2, LenProperties, ElementOfSeq
<1>5. \A m : Ok(m).err = "none" /\ Ok(m).value = m
  BY DEF Ok
<1> HIDE DEF key
<1>6. ASSUME NEW k \in 1..Len(radix.paired)
      PROVE  /\ decode_block(key, radix.paired[k]).err = "none"
             /\ PairOf(key, decode_block(key, radix.paired[k]).value) =
                  <<DigitIn(ck, v, p, 2 * k - 1), DigitIn(ck, v, p, 2 * k)>>
  <2>1. PICK m \in Cleartexts(ck) :
          /\ PairOf(ck, m) = <<DigitIn(ck, v, p, 2 * k - 1), DigitIn(ck, v, p, 2 * k)>>
          /\ Encrypts(ck, radix.paired[k], m)
    BY <1>3 DEF EncryptsRadix, DigitIn
  <2>2. decode_block(key, radix.paired[k]) = Ok(m)
    BY <1>3, <2>1, BlockDecodes DEF key
  <2>3. PairOf(key, m) = PairOf(ck, m)
    BY <1>1 DEF PairOf
  <2> QED
    BY <1>5, <2>1, <2>2, <2>3
<1>7. ASSUME NEW k \in 1..Len(radix.last)
      PROVE  /\ decode_block(key, radix.last[k]).err = "none"
             /\ decode_block(key, radix.last[k]).value % ck.msg =
                  DigitIn(ck, v, p, 2 * Len(radix.paired) + Len(radix.last))
  <2>1. PICK m \in Cleartexts(ck) :
          /\ m % ck.msg = DigitIn(ck, v, p, 2 * Len(radix.paired) + Len(radix.last))
          /\ Encrypts(ck, radix.last[k], m)
    BY <1>4 DEF EncryptsRadix, DigitIn
  <2>2. decode_block(key, radix.last[k]) = Ok(m)
    BY <1>4, <2>1, BlockDecodes DEF key
  <2> QED
    BY <1>5, <2>1, <2>2
<1> QED
  BY <1>6, <1>7 DEF key

(* The digits decode_radix reads off an encryption are those of the        *)
(* plaintext.                                                              *)
LEMMA DigitsDecode ==
  ASSUME NEW ck, KeyTyped(ck), NEW radix \in GenericMirror, NEW v, NEW p, NEW w,
         EncryptsRadix(ck, radix, v, p, w)
  PROVE  /\ Len(RadixDigits(KeyOfStore(ck), radix)) = 2 * Len(radix.paired) + Len(radix.last)
         /\ \A i \in 1..(2 * Len(radix.paired) + Len(radix.last)) :
              RadixDigits(KeyOfStore(ck), radix)[i] = DigitIn(ck, v, p, i)
<1> DEFINE key == KeyOfStore(ck)
           pairs == PairsOf(key, radix)
           last == LastOf(key, radix)
           L == Len(radix.paired)
           l == Len(radix.last)
           S == DigitSet(key)
           flat == FlattenSeq(pairs)
<1>1. KeyTyped(key) /\ key.msg = ck.msg
  BY DEF KeyTyped, KeyOfStore
<1>2. L \in Nat /\ l \in Nat /\ l <= 1 /\ DOMAIN radix.paired = 1..L /\ DOMAIN radix.last = 1..l
  BY LenProperties DEF GenericMirror
<1>3. /\ pairs \in Seq(Seq(S)) /\ last \in Seq(S) /\ Len(pairs) = L /\ Len(last) = l
  BY <1>1, DigitsType
<1>4. \A k \in 1..L : pairs[k] = <<DigitIn(ck, v, p, 2 * k - 1), DigitIn(ck, v, p, 2 * k)>>
  BY <1>2, BlocksDecode DEF PairsOf
<1>5. \A k \in 1..l : last[k] = DigitIn(ck, v, p, 2 * L + l)
  <2>1. \A k \in 1..l : last[k] = decode_block(key, radix.last[k]).value % key.msg
    BY <1>2 DEF LastOf
  <2> QED
    BY <1>1, <2>1, BlocksDecode
<1>6. RadixDigits(key, radix) = flat \o last
  BY DEF RadixDigits, PairsOf, LastOf
<1> HIDE DEF key, pairs, last, L, l, S
<1>7. \A k \in 1..L : /\ Len(pairs[k]) = 2 /\ pairs[k][1] = DigitIn(ck, v, p, 2 * k - 1)
                      /\ pairs[k][2] = DigitIn(ck, v, p, 2 * k)
  BY <1>4
<1>8. /\ flat \in Seq(S) /\ Len(flat) = 2 * L
      /\ \A k \in 1..L : flat[2 * k - 1] = pairs[k][1] /\ flat[2 * k] = pairs[k][2]
  BY <1>3, <1>7, FlattenType, FlattenPairs
<1> HIDE DEF flat
<1>9. /\ Len(flat \o last) = Len(flat) + Len(last)
      /\ \A i \in 1..(Len(flat) + Len(last)) :
           (flat \o last)[i] = IF i <= Len(flat) THEN flat[i] ELSE last[i - Len(flat)]
  BY <1>3, <1>8, ConcatProperties
<1>10. ASSUME NEW i \in 1..(2 * L + l)
       PROVE  (flat \o last)[i] = DigitIn(ck, v, p, i)
  <2>1. CASE i <= 2 * L
    <3>1. (flat \o last)[i] = flat[i]
      BY <1>3, <1>8, <1>9, <2>1
    <3>2. PICK k \in 1..L : i = 2 * k - 1 \/ i = 2 * k
      <4>1. (i + 1) \div 2 \in 1..L /\ (i = 2 * ((i + 1) \div 2) - 1 \/ i = 2 * ((i + 1) \div 2))
        BY <1>2, <2>1
      <4> QED
        BY <4>1
    <3> QED
      BY <1>7, <1>8, <3>1, <3>2
  <2>2. CASE ~(i <= 2 * L)
    <3>1. l = 1 /\ i = 2 * L + l /\ i - 2 * L = 1 /\ 1 \in 1..l
      BY <1>2, <2>2
    <3>2. (flat \o last)[i] = last[i - 2 * L]
      BY <1>3, <1>8, <1>9, <2>2
    <3>3. (flat \o last)[i] = last[1]
      BY <3>1, <3>2
    <3>4. last[1] = DigitIn(ck, v, p, 2 * L + l)
      BY <1>5, <3>1
    <3> QED
      BY <3>1, <3>3, <3>4
  <2> QED
    BY <2>1, <2>2
<1>11. Len(flat \o last) = 2 * L + l
  BY <1>3, <1>8, <1>9
<1> QED
  BY <1>6, <1>10, <1>11 DEF key, L, l

(* decode_radix gives back what was encrypted. *)
LEMMA RadixDecodes ==
  ASSUME NEW ck, KeyTyped(ck), NEW radix \in GenericMirror, NEW v \in Nat,
         NEW p \in 1..Word, Pow2[p] = ck.msg, NEW w \in Nat, EncryptsRadix(ck, radix, v, p, w)
  PROVE  decode_radix(KeyOfStore(ck), radix, w) = Ok(v)
<1> DEFINE key == KeyOfStore(ck)
           blocks == radix.paired \o radix.last
           failed == {i \in DOMAIN blocks : decode_block(key, blocks[i]).err # "none"}
           digits == RadixDigits(key, radix)
           L == Len(radix.paired)
           l == Len(radix.last)
           n == 2 * L + l
<1>1. KeyTyped(key) /\ key.msg = ck.msg
  BY DEF KeyTyped, KeyOfStore
<1>2. radix.paired \in Seq(BlockMirror) /\ radix.last \in Seq(BlockMirror) /\ L \in Nat /\ l \in Nat
  BY LenProperties DEF GenericMirror
<1>3. n >= 1 /\ p * n <= next_multiple_of(w, p) /\ v < Pow2[p * n]
  BY DEF EncryptsRadix
<1>4. failed = {}
  <2>1. /\ blocks \in Seq(BlockMirror) /\ Len(blocks) = L + l
        /\ \A i \in 1..(L + l) : blocks[i] = IF i <= L THEN radix.paired[i] ELSE radix.last[i - L]
    BY <1>2, ConcatProperties
  <2>2. DOMAIN blocks = 1..(L + l)
    BY <2>1, LenProperties
  <2>3. /\ \A k \in 1..L : decode_block(key, radix.paired[k]).err = "none"
        /\ \A k \in 1..l : decode_block(key, radix.last[k]).err = "none"
    BY BlocksDecode
  <2> HIDE DEF blocks, key, L, l
  <2>4. ASSUME NEW i \in 1..(L + l)
        PROVE  decode_block(key, blocks[i]).err = "none"
    <3>1. CASE i <= L
      <4>1. i \in 1..L
        BY <1>2, <3>1
      <4>2. blocks[i] = radix.paired[i]
        BY <2>1, <3>1, Zenon
      <4> QED
        BY <2>3, <4>1, <4>2, Zenon
    <3>2. CASE ~(i <= L)
      <4>1. i - L \in 1..l
        BY <1>2, <3>2
      <4> QED
        BY <2>1, <2>3, <3>2, <4>1
    <3> QED
      BY <3>1, <3>2
  <2> QED
    BY <2>2, <2>4
<1>5. Len(digits) = n /\ \A i \in 1..n : digits[i] = DigitIn(ck, v, p, i)
  BY DigitsDecode
<1>6. digits \in Seq(DigitSet(key))
  BY <1>1, DigitsType
<1>7. digits # << >>
  <2>1. n \in Nat
    <3> HIDE DEF L, l
    <3> QED
      BY <1>2
  <2> HIDE DEF digits, n
  <2>2. n # 0
    BY <1>3, <2>1
  <2> QED
    BY <1>5, <2>2
<1>8. p \in Nat /\ Pow2[p] = key.msg
  BY <1>1, DirectDecryptAssumption
<1>9. Widths(key) = {p}
  <2>1. p \in Widths(key)
    BY <1>8 DEF Widths
  <2>2. ASSUME NEW k \in Widths(key)
        PROVE  k = p
    <3>1. k \in Nat /\ Pow2[k] = Pow2[p]
      BY <1>8, DirectDecryptAssumption DEF Widths
    <3> QED
      BY <1>8, <3>1, Pow2Injective
  <2> QED
    BY <2>1, <2>2
<1>10. ~TooWide(digits, p, w)
  <2>1. n \in Int /\ p \in Nat \ {0}
    <3> HIDE DEF L, l
    <3> QED
      BY <1>2, DirectDecryptAssumption
  <2>2. next_multiple_of(w, p) \in Int
    BY <2>1, MultipleType
  <2> HIDE DEF digits, n
  <2>3. PICK x \in Int : x = p * n
    BY <2>1
  <2>4. ~(x > next_multiple_of(w, p))
    BY <1>3, <2>2, <2>3
  <2> QED
    BY <1>5, <2>3, <2>4 DEF TooWide
<1>11. Expands(digits, v, p)
  <2>1. digits \in Seq(Nat)
    <3>1. DigitSet(key) \subseteq Nat
      BY <1>1 DEF KeyTyped, DigitSet
    <3> HIDE DEF digits
    <3> QED
      BY <1>6, <3>1, Widen
  <2>2. \A i \in 1..n : digits[i] = (v \div Pow2[p * (i - 1)]) % Pow2[p]
    BY <1>5 DEF DigitIn
  <2> HIDE DEF digits, n
  <2> QED
    BY <1>3, <1>5, <1>8, <2>1, <2>2 DEF Expands
<1>12. Positional(digits, p) = v
  BY <1>11, PositionalIs
<1>13. decode_radix(key, radix, w) =
         IF Widths(key) = {} THEN Err("invalid message modulus")
         ELSE IF failed # {} THEN decode_block(key, blocks[Min(failed)])
         ELSE IF digits = << >> THEN Err("empty radix ciphertext")
         ELSE IF TooWide(digits, CHOOSE k \in Widths(key) : TRUE, w) THEN Err("WidthExceeded")
         ELSE Ok(Positional(digits, CHOOSE k \in Widths(key) : TRUE))
  BY Zenon DEF decode_radix, Widths
<1> HIDE DEF key, failed, blocks, digits
<1>14. (CHOOSE k \in Widths(key) : TRUE) = p
  BY <1>9
<1>15. decode_radix(key, radix, w) = Ok(v)
  BY <1>4, <1>7, <1>9, <1>10, <1>12, <1>13, <1>14
<1> QED
  BY <1>15 DEF key

(* A decryption with the right key, zone and type is decrypt_compressed's. *)
LEMMA StandardDecrypts ==
  ASSUME NEW c, c.ck.pattern = "Standard", c.zone = 0, c.ty \in EncryptionTypes
  PROVE  decrypted(c) = decrypt_compressed(KeyOfStore(c.ck), c.ty, c.ct)
<1> DEFINE store == load(c.ck)
<1>1. store.err = "none" /\ store.zone_0 = KeyOfStore(c.ck)
  BY DEF load, from_client_key, KeyOfStore
<1>2. direct_key(store, c.zone) = {KeyOfStore(c.ck)}
  BY <1>1 DEF direct_key
<1>3. from_i32(c.ty).err = "none"
  BY DEF from_i32, Ok
<1>4. (CHOOSE key \in {KeyOfStore(c.ck)} : TRUE) = KeyOfStore(c.ck)
  OBVIOUS
<1>5. decrypted(c) = decrypt_compressed(CHOOSE key \in {KeyOfStore(c.ck)} : TRUE, c.ty, c.ct)
  BY <1>1, <1>2, <1>3 DEF decrypted
<1> QED
  BY <1>4, <1>5

(* DecryptsPlaintext: whatever the mask, the key and the noise within half *)
(* a step, decrypt_compressed gives back the plaintext of an encryption of *)
(* any supported type.                                                     *)
THEOREM DecryptionIsCorrect == AlgorithmsSpec => []DecryptsPlaintext
<1>1. CallInv => DecryptsPlaintext
  <2> SUFFICES ASSUME CallInv, done, fn = "decrypt_compressed", call.plaintext >= 0
               PROVE  result = [err |-> "none", value |-> call.plaintext]
    BY DEF DecryptsPlaintext, Called
  <2>1. call \in Ciphertexts /\ result = decrypted(call)
    BY DEF CallInv
  <2>2. /\ call.plaintext \in Nat /\ Encryption(call) /\ call.ct \in UintMirror \cup BoolMirror
        /\ KeyTyped(call.ck)
    BY <2>1, CiphertextsAssumption, StoreKeyTyped
  <2> DEFINE ck == call.ck
             ct == call.ct
             key == KeyOfStore(ck)
             v == call.plaintext
  <2>3. /\ ck.pattern = "Standard" /\ call.zone = 0 /\ call.ty \in EncryptionTypes
        /\ ct.form = "ModulusSwitched" /\ ct.size <= CT_SIZE_LIMIT
    BY <2>2 DEF Encryption
  <2>4. PICK p \in 1..Word :
          /\ Pow2[p] = ck.msg
          /\ IF call.ty = 0 THEN ct.kind = "bool" /\ v \in {0, 1} /\ Encrypts(ck, ct.block, v)
             ELSE ct.kind = "uint" /\ EncryptsRadix(ck, ct.radix, v, p, bits(call.ty))
    BY <2>2 DEF Encryption
  <2>5. Readable(call.ty, ct)
    BY <2>3, <2>4 DEF Readable
  <2>6. result = IF call.ty = 0 THEN decrypt_bool(key, ct)
                 ELSE decode_radix(key, ct.radix, bits(call.ty))
    <3>1. result = decrypt_compressed(key, call.ty, ct)
      BY <2>1, <2>3, StandardDecrypts
    <3> QED
      BY <2>3, <2>5, <3>1 DEF decrypt_compressed
  <2>7. CASE call.ty = 0
    <3>1. ct.kind = "bool" /\ v \in {0, 1} /\ Encrypts(ck, ct.block, v)
      BY <2>4, <2>7
    <3>2. ct.block \in BlockMirror
      <4>1. ct \in BoolMirror
        BY <2>2, <3>1 DEF UintMirror
      <4> QED
        BY <4>1 DEF BoolMirror
    <3>3. key.msg = ck.msg /\ ck.msg \in Nat /\ ck.msg >= 2 /\ ck.carry \in Nat \ {0}
      <4>1. Pow2[1] = 2 /\ p \in Nat /\ 1 <= p
        <5>1. Pow2[0 + 1] = 2 * Pow2[0] /\ Pow2[0] = 1
          BY Pow2Is
        <5>2. 0 + 1 = 1
          OBVIOUS
        <5> QED
          BY <5>1, <5>2, DirectDecryptAssumption
      <4>2. Pow2[1] <= Pow2[p]
        BY <4>1, Pow2Monotone
      <4> QED
        BY <2>2, <2>4, <4>1, <4>2 DEF KeyTyped, KeyOfStore
    <3>4. v \in Cleartexts(ck)
      <4>1. \A x, y \in Nat : x >= 2 /\ y >= 1 => 2 * x * y >= 4
        <5> SUFFICES ASSUME NEW x \in Nat, NEW y \in Nat, x >= 2, y >= 1
                     PROVE  2 * x * y >= 4
          OBVIOUS
        <5>1. (x - 2) * y >= 0
          <6>1. x - 2 \in Nat
            OBVIOUS
          <6> QED
            BY <6>1
        <5>2. (x - 2) * y = x * y - 2 * y
          OBVIOUS
        <5>3. PICK z \in Int : z = x * y
          OBVIOUS
        <5>4. 2 * x * y = 2 * z
          BY <5>3
        <5> QED
          BY <5>1, <5>2, <5>3, <5>4
      <4>2. PICK s \in Int : s = 2 * ck.msg * ck.carry /\ s >= 4
        BY <3>3, <4>1
      <4> QED
        BY <3>1, <4>2 DEF Cleartexts
    <3>5. decode_block(key, ct.block) = Ok(v)
      BY <2>2, <3>1, <3>2, <3>4, BlockDecodes
    <3>6. v % key.msg = v
      <4>1. PICK g \in Nat \ {0} : g = key.msg /\ v < g
        BY <3>1, <3>3
      <4>2. Divided(v, g, 0, v)
        BY <2>2, <4>1 DEF Divided
      <4> QED
        BY <4>1, <4>2, RemainderIs
    <3> HIDE DEF key
    <3>7. decrypt_bool(key, ct) = Ok(v)
      BY <3>1, <3>5, <3>6 DEF decrypt_bool, Ok
    <3> QED
      BY <2>6, <2>7, <3>7 DEF Ok
  <2>8. CASE call.ty # 0
    <3>1. ct.kind = "uint" /\ EncryptsRadix(ck, ct.radix, v, p, bits(call.ty))
      BY <2>4, <2>8
    <3>2. ct.radix \in GenericMirror
      <4>1. ct \in UintMirror
        BY <2>2, <3>1 DEF BoolMirror
      <4> QED
        BY <4>1 DEF UintMirror
    <3>3. bits(call.ty) \in Nat
      BY <2>3, BitsType
    <3>4. decode_radix(key, ct.radix, bits(call.ty)) = Ok(v)
      BY <2>2, <2>4, <3>1, <3>2, <3>3, RadixDecodes
    <3> QED
      BY <2>6, <2>8, <3>4 DEF Ok
  <2> QED
    BY <2>7, <2>8
<1> QED
  BY <1>1, CallsReturn, PTL
=============================================================================
