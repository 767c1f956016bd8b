--------------------------- MODULE SequenceLemmas ---------------------------
(***************************************************************************)
(* What the queue operations the models are built from do: removing the    *)
(* first occurrence of an element (LruCache's pop and get, a waiter that   *)
(* leaves tokio's semaphore), putting one in front, dropping the last.     *)
(***************************************************************************)
EXTENDS Integers, SequencesExt, SequenceTheorems, WellFoundedInduction, TLAPS

\* A sequence without duplicates.
Distinct(s) == \A i, j \in 1..Len(s) : s[i] = s[j] => i = j

(* A non-empty set of naturals has a least element. *)
LEMMA LeastNatural ==
  ASSUME NEW I, I \subseteq Nat, I # {}
  PROVE  \E n \in I : \A k \in I : n <= k
<1> DEFINE R == OpToRel(<, Nat)
<1>1. PICK n \in I : \A k \in I : ~(<<k, n>> \in R)
  BY NatLessThanWellFounded, WFMin
<1>2. \A k \in I : ~(k < n)
  BY <1>1 DEF OpToRel
<1> QED
  BY <1>2

(* Removing an element that occurs closes the gap at its first occurrence. *)
LEMMA RemoveFirstShape ==
  ASSUME NEW S, NEW s \in Seq(S), NEW e, \E i \in 1..Len(s) : s[i] = e
  PROVE  \E m \in 1..Len(s) :
           /\ s[m] = e
           /\ RemoveFirst(s, e) \in Seq(S)
           /\ Len(RemoveFirst(s, e)) = Len(s) - 1
           /\ \A i \in 1..(Len(s) - 1) :
                RemoveFirst(s, e)[i] = IF i < m THEN s[i] ELSE s[i + 1]
<1> DEFINE I == {i \in 1..Len(s) : s[i] = e}
           m == SelectInSeq(s, LAMBDA v : v = e)
           a == SubSeq(s, 1, m - 1)
           b == SubSeq(s, m + 1, Len(s))
<1>1. Len(s) \in Nat /\ \A i \in 1..Len(s) : s[i] \in S
  BY ElementOfSeq, LenProperties
<1>2. I # {} /\ I \subseteq Nat
  BY <1>1
<1>3. m = Min(I)
  BY <1>2 DEF SelectInSeq
<1>4. m \in I
  BY <1>2, <1>3, LeastNatural DEF Min
<1> HIDE DEF m
<1>5. m \in 1..Len(s) /\ s[m] = e
  BY <1>4
<1>6. /\ a \in Seq(S) /\ Len(a) = m - 1
      /\ \A i \in 1..(m - 1) : a[i] = s[i]
  <2>1. 1 \in Int /\ m - 1 \in Int /\ \A i \in 1..(m - 1) : s[i] \in S
    BY <1>1, <1>5
  <2>2. /\ a \in Seq(S)
        /\ Len(a) = IF 1 <= m - 1 THEN (m - 1) - 1 + 1 ELSE 0
        /\ \A i \in 1..((m - 1) - 1 + 1) : a[i] = s[1 + i - 1]
    BY <2>1, SubSeqProperties
  <2> QED
    BY <2>2, <1>1, <1>5
<1>7. /\ b \in Seq(S) /\ Len(b) = Len(s) - m
      /\ \A i \in 1..(Len(s) - m) : b[i] = s[m + i]
  <2>1. m + 1 \in Int /\ Len(s) \in Int /\ \A i \in (m + 1)..Len(s) : s[i] \in S
    BY <1>1, <1>5
  <2>2. /\ b \in Seq(S)
        /\ Len(b) = IF m + 1 <= Len(s) THEN Len(s) - (m + 1) + 1 ELSE 0
        /\ \A i \in 1..(Len(s) - (m + 1) + 1) : b[i] = s[(m + 1) + i - 1]
    BY <2>1, SubSeqProperties
  <2> QED
    BY <2>2, <1>1, <1>5
<1>8. RemoveFirst(s, e) = a \o b
  BY DEF RemoveFirst, RemoveAt, m
<1>9. /\ a \o b \in Seq(S)
      /\ Len(a \o b) = Len(a) + Len(b)
      /\ \A i \in 1..(Len(a) + Len(b)) :
           (a \o b)[i] = IF i <= Len(a) THEN a[i] ELSE b[i - Len(a)]
  BY <1>6, <1>7, ConcatProperties
<1> HIDE DEF a, b
<1>10. Len(a \o b) = Len(s) - 1
  BY <1>1, <1>5, <1>6, <1>7, <1>9
<1>11. ASSUME NEW i \in 1..(Len(s) - 1)
       PROVE  (a \o b)[i] = IF i < m THEN s[i] ELSE s[i + 1]
  <2>1. i \in 1..(Len(a) + Len(b))
    BY <1>1, <1>5, <1>6, <1>7
  <2>2. CASE i < m
    BY <2>1, <2>2, <1>1, <1>5, <1>6, <1>9
  <2>3. CASE ~(i < m)
    <3>1. (a \o b)[i] = b[i - (m - 1)]
      BY <2>1, <2>3, <1>1, <1>5, <1>6, <1>9
    <3>2. i - (m - 1) \in 1..(Len(s) - m)
      BY <2>3, <1>1, <1>5
    <3>3. b[i - (m - 1)] = s[m + (i - (m - 1))]
      BY <3>2, <1>7
    <3>4. m + (i - (m - 1)) = i + 1
      BY <1>1, <1>5
    <3> QED
      BY <3>1, <3>3, <3>4, <2>3, <1>1, <1>5
  <2> QED
    BY <2>2, <2>3
<1> QED
  BY <1>5, <1>8, <1>9, <1>10, <1>11

(* The elements of a sequence are the values at its positions. *)
LEMMA ToSetRange ==
  ASSUME NEW S, NEW s \in Seq(S)
  PROVE  /\ Len(s) \in Nat
         /\ ToSet(s) = {s[i] : i \in 1..Len(s)}
         /\ \A i \in 1..Len(s) : s[i] \in S
         /\ ToSet(s) \subseteq S
<1>1. Len(s) \in Nat /\ DOMAIN s = 1..Len(s) /\ \A i \in 1..Len(s) : s[i] \in S
  BY ElementOfSeq, LenProperties
<1> QED
  BY <1>1 DEF ToSet

(* Removing from a sequence without duplicates removes exactly that element. *)
LEMMA RemoveFirstDistinct ==
  ASSUME NEW S, NEW s \in Seq(S), NEW e
  PROVE  /\ RemoveFirst(s, e) \in Seq(S)
         /\ Len(RemoveFirst(s, e)) <= Len(s)
         /\ Distinct(s) =>
              /\ Distinct(RemoveFirst(s, e))
              /\ ToSet(RemoveFirst(s, e)) = ToSet(s) \ {e}
              /\ e \in ToSet(s) => Len(RemoveFirst(s, e)) = Len(s) - 1
<1> DEFINE r == RemoveFirst(s, e)
<1>1. /\ Len(s) \in Nat
      /\ ToSet(s) = {s[i] : i \in 1..Len(s)}
      /\ \A i \in 1..Len(s) : s[i] \in S
  BY ToSetRange
<1>2. CASE ~ \E i \in 1..Len(s) : s[i] = e
  <2>1. r = s
    BY <1>2 DEF RemoveFirst
  <2>2. e \notin ToSet(s)
    BY <1>1, <1>2
  <2> QED
    BY <1>1, <2>1, <2>2
<1>3. CASE \E i \in 1..Len(s) : s[i] = e
  <2>1. PICK m \in 1..Len(s) :
          /\ s[m] = e
          /\ r \in Seq(S)
          /\ Len(r) = Len(s) - 1
          /\ \A i \in 1..(Len(s) - 1) : r[i] = IF i < m THEN s[i] ELSE s[i + 1]
    BY <1>3, RemoveFirstShape
  <2> HIDE DEF r
  <2>2. ToSet(r) = {r[i] : i \in 1..Len(r)}
    BY <2>1, ToSetRange
  <2>3. ASSUME Distinct(s)
        PROVE  Distinct(r)
    <3> SUFFICES ASSUME NEW i \in 1..Len(r), NEW j \in 1..Len(r), r[i] = r[j]
                 PROVE  i = j
      BY DEF Distinct
    <3> DEFINE pos(k) == IF k < m THEN k ELSE k + 1
    <3>1. r[i] = s[pos(i)] /\ r[j] = s[pos(j)]
      BY <2>1
    <3>2. pos(i) \in 1..Len(s) /\ pos(j) \in 1..Len(s)
      BY <2>1, <1>1
    <3>3. pos(i) = pos(j)
      BY <3>1, <3>2, <2>3 DEF Distinct
    <3> QED
      BY <3>3, <2>1, <1>1
  <2>4. ASSUME Distinct(s)
        PROVE  ToSet(r) = ToSet(s) \ {e}
    <3>1. ASSUME NEW i \in 1..Len(r)
          PROVE  r[i] \in ToSet(s) \ {e}
      <4> DEFINE p == IF i < m THEN i ELSE i + 1
      <4>1. r[i] = s[p] /\ p \in 1..Len(s) /\ p # m
        BY <2>1, <1>1
      <4>2. s[p] # s[m]
        BY <4>1, <2>4 DEF Distinct
      <4> QED
        BY <4>1, <4>2, <2>1, <1>1
    <3>2. ASSUME NEW k \in 1..Len(s), s[k] # e
          PROVE  s[k] \in ToSet(r)
      <4> DEFINE q == IF k < m THEN k ELSE k - 1
      <4>1. q \in 1..Len(r) /\ r[q] = s[k]
        BY <3>2, <2>1, <1>1
      <4> QED
        BY <4>1, <2>2
    <3> QED
      BY <3>1, <3>2, <2>2, <1>1
  <2> QED
    BY <2>1, <2>3, <2>4, <1>1 DEF r
<1> QED
  BY <1>2, <1>3

(* An element put in front. *)
LEMMA ConsDistinct ==
  ASSUME NEW S, NEW s \in Seq(S), NEW e \in S
  PROVE  /\ <<e>> \o s \in Seq(S)
         /\ Len(<<e>> \o s) = Len(s) + 1
         /\ ToSet(<<e>> \o s) = ToSet(s) \cup {e}
         /\ Distinct(s) /\ e \notin ToSet(s) => Distinct(<<e>> \o s)
<1> DEFINE c == <<e>> \o s
<1>1. /\ Len(s) \in Nat
      /\ ToSet(s) = {s[i] : i \in 1..Len(s)}
  BY ToSetRange
<1>2. /\ c \in Seq(S) /\ Len(c) = Len(s) + 1
      /\ c[1] = e
      /\ \A i \in 2..(Len(s) + 1) : c[i] = s[i - 1]
  <2>1. <<e>> \in Seq(S) /\ Len(<<e>>) = 1 /\ <<e>>[1] = e
    OBVIOUS
  <2>2. /\ c \in Seq(S) /\ Len(c) = Len(<<e>>) + Len(s)
        /\ \A i \in 1..(Len(<<e>>) + Len(s)) :
             c[i] = IF i <= Len(<<e>>) THEN <<e>>[i] ELSE s[i - Len(<<e>>)]
    BY <2>1, ConcatProperties
  <2> QED
    BY <2>1, <2>2, <1>1
<1> HIDE DEF c
<1>3. ToSet(c) = {c[i] : i \in 1..Len(c)}
  BY <1>2, ToSetRange
<1>4. ToSet(c) = ToSet(s) \cup {e}
  <2>1. \A k \in 1..Len(s) : k + 1 \in 2..(Len(s) + 1) /\ c[k + 1] = s[k]
    BY <1>1, <1>2
  <2>2. ASSUME NEW k \in 1..Len(s)
        PROVE  s[k] \in ToSet(c)
    <3>1. k + 1 \in 1..Len(c) /\ c[k + 1] = s[k]
      BY <2>1, <1>1, <1>2
    <3> QED
      BY <3>1, <1>3
  <2>3. e \in ToSet(c)
    BY <1>1, <1>2, <1>3
  <2>4. ASSUME NEW i \in 1..Len(c)
        PROVE  c[i] \in ToSet(s) \cup {e}
    <3>1. CASE i = 1
      BY <3>1, <1>2
    <3>2. CASE i # 1
      <4>1. i - 1 \in 1..Len(s) /\ c[i] = s[i - 1]
        BY <3>2, <1>1, <1>2
      <4> QED
        BY <4>1, <1>1
    <3> QED
      BY <3>1, <3>2
  <2> QED
    BY <2>2, <2>3, <2>4, <1>1, <1>3
<1>5. ASSUME Distinct(s), e \notin ToSet(s)
      PROVE  Distinct(c)
  <2>1. \A k \in 1..Len(s) : s[k] # e
    BY <1>5, <1>1
  <2> SUFFICES ASSUME NEW i \in 1..Len(c), NEW j \in 1..Len(c), c[i] = c[j]
               PROVE  i = j
    BY DEF Distinct
  <2>2. CASE i = 1 /\ j = 1
    BY <2>2
  <2>3. CASE i = 1 /\ j # 1
    <3>1. j - 1 \in 1..Len(s) /\ c[j] = s[j - 1]
      BY <2>3, <1>1, <1>2
    <3> QED
      BY <3>1, <2>1, <2>3, <1>2
  <2>4. CASE i # 1 /\ j = 1
    <3>1. i - 1 \in 1..Len(s) /\ c[i] = s[i - 1]
      BY <2>4, <1>1, <1>2
    <3> QED
      BY <3>1, <2>1, <2>4, <1>2
  <2>5. CASE i # 1 /\ j # 1
    <3>1. /\ i - 1 \in 1..Len(s) /\ c[i] = s[i - 1]
          /\ j - 1 \in 1..Len(s) /\ c[j] = s[j - 1]
      BY <2>5, <1>1, <1>2
    <3>2. i - 1 = j - 1
      BY <3>1, <1>5 DEF Distinct
    <3> QED
      BY <3>2, <1>2, <1>1
  <2> QED
    BY <2>2, <2>3, <2>4, <2>5
<1> QED
  BY <1>2, <1>4, <1>5 DEF c

(* The last element dropped. *)
LEMMA FrontDistinct ==
  ASSUME NEW S, NEW s \in Seq(S), Len(s) > 0
  PROVE  /\ Front(s) \in Seq(S)
         /\ Len(Front(s)) = Len(s) - 1
         /\ Last(s) \in ToSet(s)
         /\ Distinct(s) =>
              /\ Distinct(Front(s))
              /\ ToSet(Front(s)) = ToSet(s) \ {Last(s)}
<1> DEFINE f == Front(s)
<1>1. /\ Len(s) \in Nat
      /\ ToSet(s) = {s[i] : i \in 1..Len(s)}
      /\ \A i \in 1..Len(s) : s[i] \in S
  BY ToSetRange
<1>2. /\ f \in Seq(S) /\ Len(f) = Len(s) - 1
      /\ \A i \in 1..(Len(s) - 1) : f[i] = s[i]
  <2>1. 1 \in Int /\ Len(s) - 1 \in Int /\ \A i \in 1..(Len(s) - 1) : s[i] \in S
    BY <1>1
  <2>2. /\ f \in Seq(S)
        /\ Len(f) = IF 1 <= Len(s) - 1 THEN (Len(s) - 1) - 1 + 1 ELSE 0
        /\ \A i \in 1..((Len(s) - 1) - 1 + 1) : f[i] = s[1 + i - 1]
    BY <2>1, SubSeqProperties DEF Front
  <2> HIDE DEF f
  <2>3. Len(f) = Len(s) - 1
    <3> DEFINE n == Len(s)
               l == Len(f)
    <3>1. n \in Nat /\ n > 0 /\ l = IF 1 <= n - 1 THEN (n - 1) - 1 + 1 ELSE 0
      BY <2>2, <1>1
    <3> HIDE DEF n, l
    <3>2. l = n - 1
      BY <3>1
    <3> QED
      BY <3>2 DEF n, l
  <2>4. ASSUME NEW i \in 1..(Len(s) - 1)
        PROVE  f[i] = s[i]
    <3>1. i \in 1..((Len(s) - 1) - 1 + 1) /\ 1 + i - 1 = i
      BY <1>1
    <3> QED
      BY <3>1, <2>2
  <2> QED
    BY <2>2, <2>3, <2>4
<1>3. Last(s) = s[Len(s)] /\ Len(s) \in 1..Len(s)
  BY <1>1 DEF Last
<1> HIDE DEF f
<1>4. ToSet(f) = {f[i] : i \in 1..Len(f)}
  BY <1>2, ToSetRange
<1>5. Distinct(s) => Distinct(f)
  BY <1>1, <1>2 DEF Distinct
<1>6. ASSUME Distinct(s)
      PROVE  ToSet(f) = ToSet(s) \ {Last(s)}
  <2>1. ASSUME NEW i \in 1..Len(f)
        PROVE  f[i] \in ToSet(s) \ {Last(s)}
    <3>1. i \in 1..Len(s) /\ i # Len(s) /\ f[i] = s[i]
      BY <1>1, <1>2
    <3> QED
      BY <3>1, <1>1, <1>3, <1>6 DEF Distinct
  <2>2. ASSUME NEW k \in 1..Len(s), s[k] # Last(s)
        PROVE  s[k] \in ToSet(f)
    <3>1. k \in 1..Len(f) /\ f[k] = s[k]
      BY <2>2, <1>1, <1>2, <1>3
    <3> QED
      BY <3>1, <1>4
  <2> QED
    BY <2>1, <2>2, <1>1, <1>4
<1> QED
  BY <1>1, <1>2, <1>3, <1>5, <1>6 DEF f

(* An element put at the end: a request that queues for a permit. *)
LEMMA AppendDistinct ==
  ASSUME NEW S, NEW s \in Seq(S), NEW e \in S
  PROVE  /\ Append(s, e) \in Seq(S)
         /\ ToSet(Append(s, e)) = ToSet(s) \cup {e}
         /\ Distinct(s) /\ e \notin ToSet(s) => Distinct(Append(s, e))
<1> DEFINE a == Append(s, e)
<1>1. /\ Len(s) \in Nat
      /\ ToSet(s) = {s[i] : i \in 1..Len(s)}
  BY ToSetRange
<1>2. /\ a \in Seq(S) /\ Len(a) = Len(s) + 1
      /\ \A i \in 1..Len(s) : a[i] = s[i]
      /\ a[Len(s) + 1] = e
  BY AppendProperties
<1> HIDE DEF a
<1>3. ToSet(a) = {a[i] : i \in 1..Len(a)}
  BY <1>2, ToSetRange
<1>4. \A i \in 1..Len(a) : i \in 1..Len(s) \/ i = Len(s) + 1
  BY <1>1, <1>2
<1>5. \A i \in 1..Len(s) : i \in 1..Len(a) /\ Len(s) + 1 \in 1..Len(a) /\ i # Len(s) + 1
  BY <1>1, <1>2
<1>6. Len(s) + 1 \in 1..Len(a)
  BY <1>1, <1>2
<1>7. ToSet(a) = ToSet(s) \cup {e}
  <2>1. ASSUME NEW i \in 1..Len(a)
        PROVE  a[i] \in ToSet(s) \cup {e}
    BY <1>1, <1>2, <1>4
  <2>2. ASSUME NEW i \in 1..Len(s)
        PROVE  s[i] \in ToSet(a)
    BY <1>2, <1>3, <1>5
  <2>3. e \in ToSet(a)
    BY <1>2, <1>3, <1>6
  <2> QED
    BY <2>1, <2>2, <2>3, <1>1, <1>3
<1>8. ASSUME Distinct(s), e \notin ToSet(s)
      PROVE  Distinct(a)
  <2>1. \A i \in 1..Len(s) : s[i] # e
    BY <1>1, <1>8
  <2> SUFFICES ASSUME NEW i \in 1..Len(a), NEW j \in 1..Len(a), a[i] = a[j]
               PROVE  i = j
    BY DEF Distinct
  <2>2. CASE i \in 1..Len(s) /\ j \in 1..Len(s)
    BY <2>2, <1>2, <1>8 DEF Distinct
  <2>3. CASE i = Len(s) + 1 /\ j = Len(s) + 1
    BY <2>3
  <2>4. CASE i \in 1..Len(s) /\ j = Len(s) + 1
    BY <2>1, <2>4, <1>2
  <2>5. CASE i = Len(s) + 1 /\ j \in 1..Len(s)
    BY <2>1, <2>5, <1>2
  <2> QED
    BY <2>2, <2>3, <2>4, <2>5, <1>4
<1> QED
  BY <1>2, <1>7, <1>8 DEF a

(* The first element taken: the oldest waiter gets its permit. *)
LEMMA TailDistinct ==
  ASSUME NEW S, NEW s \in Seq(S), s # << >>
  PROVE  /\ Tail(s) \in Seq(S)
         /\ Head(s) \in ToSet(s)
         /\ Distinct(s) =>
              /\ Distinct(Tail(s))
              /\ ToSet(Tail(s)) = ToSet(s) \ {Head(s)}
<1> DEFINE t == Tail(s)
<1>1. /\ Len(s) \in Nat /\ Len(s) # 0
      /\ ToSet(s) = {s[i] : i \in 1..Len(s)}
  BY ToSetRange, EmptySeq, LenProperties
<1>2. /\ t \in Seq(S) /\ Len(t) = Len(s) - 1
      /\ \A i \in 1..Len(t) : t[i] = s[i + 1]
  BY HeadTailProperties
<1>3. Head(s) = s[1] /\ 1 \in 1..Len(s)
  BY <1>1
<1> HIDE DEF t
<1>4. ToSet(t) = {t[i] : i \in 1..Len(t)}
  BY <1>2, ToSetRange
<1>5. \A i \in 1..Len(t) : i + 1 \in 1..Len(s) /\ i + 1 # 1
  BY <1>1, <1>2
<1>6. ASSUME Distinct(s)
      PROVE  Distinct(t)
  <2> SUFFICES ASSUME NEW i \in 1..Len(t), NEW j \in 1..Len(t), t[i] = t[j]
               PROVE  i = j
    BY DEF Distinct
  <2>1. i + 1 = j + 1
    BY <1>2, <1>5, <1>6 DEF Distinct
  <2> QED
    BY <2>1, <1>1, <1>2
<1>7. ASSUME Distinct(s)
      PROVE  ToSet(t) = ToSet(s) \ {Head(s)}
  <2>1. ASSUME NEW i \in 1..Len(t)
        PROVE  t[i] \in ToSet(s) \ {Head(s)}
    BY <1>1, <1>2, <1>3, <1>5, <1>7 DEF Distinct
  <2>2. ASSUME NEW k \in 1..Len(s), s[k] # Head(s)
        PROVE  s[k] \in ToSet(t)
    <3>1. k # 1
      BY <2>2, <1>3
    <3>2. k - 1 \in 1..Len(t) /\ (k - 1) + 1 = k
      BY <3>1, <1>1, <1>2
    <3>3. t[k - 1] = s[k]
      BY <3>2, <1>2
    <3> QED
      BY <3>2, <3>3, <1>4
  <2> QED
    BY <2>1, <2>2, <1>1, <1>4
<1> QED
  BY <1>1, <1>2, <1>3, <1>6, <1>7 DEF t

-----------------------------------------------------------------------------
(* Induction and recursion up to a number *)

(* Induction: a set that holds 0 and, with a number below n, the next one, *)
(* holds all numbers up to n.                                              *)
LEMMA UpTo ==
  ASSUME NEW n \in Nat, NEW P, 0 \in P, \A i \in 0..(n - 1) : i \in P => i + 1 \in P
  PROVE  \A i \in 0..n : i \in P
<1> DEFINE I == {i \in 0..n : i \notin P}
<1> SUFFICES ASSUME I # {}
             PROVE  FALSE
  OBVIOUS
<1>1. PICK m \in I : \A k \in I : m <= k
  <2>1. I \subseteq Nat
    OBVIOUS
  <2> HIDE DEF I
  <2> QED
    BY <2>1, LeastNatural
<1>2. m # 0 /\ m \in 0..n /\ m \notin P
  BY <1>1
<1>3. m - 1 \in 0..(n - 1) /\ (m - 1) + 1 = m /\ m - 1 \in 0..n /\ ~(m <= m - 1)
  BY <1>2
<1>4. m - 1 \in P
  BY <1>1, <1>3
<1> QED
  BY <1>2, <1>3, <1>4

\* h starts at a and goes on with step.
Recurs(h, S, n, a, step) ==
  h \in [0..n -> S] /\ h[0] = a /\ \A i \in 1..n : h[i] = step[<<h[i - 1], i>>]

(* Recursion: a first value and a step determine values up to n. *)
LEMMA Recursion ==
  ASSUME NEW S, NEW n \in Nat, NEW a \in S, NEW step \in [S \X (1..n) -> S]
  PROVE  \E h : Recurs(h, S, n, a, step)
<1> DEFINE Good(k, h) == h[0] = a /\ \A i \in 1..k : h[i] = step[<<h[i - 1], i>>]
           P == {k \in 0..n : \E h \in [0..k -> S] : Good(k, h)}
<1>1. 0 \in P
  <2> DEFINE h == [i \in 0..0 |-> a]
  <2>1. h \in [0..0 -> S] /\ Good(0, h) /\ 0 \in 0..n
    OBVIOUS
  <2> HIDE DEF h, Good
  <2> QED
    BY <2>1
<1>2. ASSUME NEW k \in 0..(n - 1), k \in P
      PROVE  k + 1 \in P
  <2>1. PICK h \in [0..k -> S] : Good(k, h)
    BY <1>2
  <2> DEFINE g == [i \in 0..(k + 1) |-> IF i = k + 1 THEN step[<<h[k], k + 1>>] ELSE h[i]]
  <2>2. k \in Nat /\ k + 1 \in 1..n /\ k + 1 \in 0..n /\ k \in 0..k
    OBVIOUS
  <2>3. step[<<h[k], k + 1>>] \in S
    BY <2>1, <2>2
  <2>4. g \in [0..(k + 1) -> S]
    BY <2>1, <2>2, <2>3
  <2>5. g[0] = a
    BY <2>1, <2>2
  <2>6. ASSUME NEW i \in 1..(k + 1)
        PROVE  g[i] = step[<<g[i - 1], i>>]
    <3>1. CASE i = k + 1
      <4>1. g[k] = h[k] /\ g[k + 1] = step[<<h[k], k + 1>>] /\ i - 1 = k
        BY <2>2, <3>1
      <4> QED
        BY <3>1, <4>1
    <3>2. CASE i # k + 1
      <4>1. i \in 1..k /\ i - 1 \in 0..k /\ g[i] = h[i] /\ g[i - 1] = h[i - 1]
        BY <2>2, <3>2
      <4> QED
        BY <2>1, <4>1
    <3> QED
      BY <3>1, <3>2
  <2> QED
    BY <2>2, <2>4, <2>5, <2>6
<1>3. n \in P
  <2> HIDE DEF P
  <2>1. \A i \in 0..n : i \in P
    BY <1>1, <1>2, UpTo
  <2> QED
    BY <2>1
<1> QED
  BY <1>3 DEF Recurs

-----------------------------------------------------------------------------
(* FlattenSeq *)

\* h is the concatenation of the first sequences of ss, for every number.
Flattens(h, ss, S) ==
  /\ h \in [0..Len(ss) -> Seq(S)]
  /\ h[0] = << >>
  /\ \A i \in 1..Len(ss) : h[i] = h[i - 1] \o ss[i]

(* FlattenSeq is the last of these concatenations. *)
LEMMA FlattenBy ==
  ASSUME NEW S, NEW ss \in Seq(Seq(S))
  PROVE  \E h : Flattens(h, ss, S) /\ FlattenSeq(ss) = h[Len(ss)]
<1> DEFINE n == Len(ss)
<1>1. n \in Nat /\ \A i \in 1..n : ss[i] \in Seq(S)
  BY LenProperties, ElementOfSeq
<1> HIDE DEF n
<1> DEFINE step == [p \in Seq(S) \X (1..n) |-> p[1] \o ss[p[2]]]
<1>2. step \in [Seq(S) \X (1..n) -> Seq(S)]
  BY <1>1, ConcatProperties
<1>3. << >> \in Seq(S)
  OBVIOUS
<1>4. PICK h \in [0..n -> Seq(S)] :
        h[0] = << >> /\ \A i \in 1..n : h[i] = step[<<h[i - 1], i>>]
  <2> DEFINE Q == Seq(S)
  <2>1. step \in [Q \X (1..n) -> Q] /\ << >> \in Q
    BY <1>2, <1>3
  <2> HIDE DEF step, Q
  <2>2. \E h : Recurs(h, Q, n, << >>, step)
    BY <1>1, <2>1, Recursion
  <2> QED
    BY <2>2 DEF Q, Recurs
<1>5. \A i \in 1..n : h[i - 1] \in Seq(S) /\ h[i] = h[i - 1] \o ss[i]
  <2>1. \A i \in 1..n : i - 1 \in 0..n
    BY <1>1
  <2> QED
    BY <1>4, <2>1
<1>6. Flattens(h, ss, S)
  BY <1>4, <1>5 DEF Flattens, n
<1>7. CASE n = 0
  <2>1. FlattenSeq(ss) = ss /\ ss = << >>
    BY <1>7, EmptySeq DEF FlattenSeq, n
  <2> QED
    BY <1>4, <1>6, <1>7, <2>1 DEF n
<1>8. CASE n # 0
  <2> DEFINE Eqn(f) == f = [i \in 1..n |-> IF i = 1 THEN ss[i] ELSE f[i - 1] \o ss[i]]
             flatten == CHOOSE f : Eqn(f)
             g == [i \in 1..n |-> h[i]]
  <2>1. h[1] = ss[1]
    <3>a. 1 \in 1..n /\ 1 - 1 = 0
      BY <1>1, <1>8
    <3>1. h[1] = h[0] \o ss[1]
      BY <1>5, <3>a
    <3> QED
      BY <1>1, <1>4, <3>a, <3>1, ConcatEmptySeq
  <2>2. Eqn(g)
    <3>1. ASSUME NEW i \in 1..n
          PROVE  g[i] = IF i = 1 THEN ss[i] ELSE g[i - 1] \o ss[i]
      <4>1. i # 1 => i - 1 \in 1..n
        BY <1>1
      <4> QED
        BY <1>5, <2>1, <4>1, Zenon
    <3> QED
      BY <3>1
  <2>3. Eqn(flatten)
    BY <2>2, Zenon
  <2> DEFINE P == {i \in 0..n : i # 0 => flatten[i] = h[i]}
  <2>4. ASSUME NEW i \in 0..(n - 1), i \in P
        PROVE  i + 1 \in P
    <3>1. i + 1 \in 1..n /\ i + 1 \in 0..n /\ (i + 1) - 1 = i /\ (i # 0 => i + 1 # 1)
      BY <1>1
    <3>2. flatten[i + 1] = IF i + 1 = 1 THEN ss[i + 1] ELSE flatten[i] \o ss[i + 1]
      <4> HIDE DEF flatten
      <4> QED
        BY <2>3, <3>1
    <3>3. h[i + 1] = h[i] \o ss[i + 1]
      BY <1>5, <3>1
    <3> HIDE DEF flatten
    <3>4. flatten[i + 1] = h[i + 1]
      <4>1. CASE i = 0
        <5>1. i + 1 = 1
          BY <4>1
        <5> QED
          BY <2>1, <3>2, <5>1
      <4>2. CASE i # 0
        BY <2>4, <3>1, <3>2, <3>3, <4>2
      <4> QED
        BY <4>1, <4>2
    <3> QED
      BY <3>1, <3>4
  <2>5. 0 \in P
    BY <1>1
  <2>6. \A i \in 0..n : i \in P
    <3> HIDE DEF P
    <3> QED
      BY <1>1, <2>4, <2>5, UpTo
  <2>7. flatten[n] = h[n]
    <3>1. n \in 0..n
      BY <1>1
    <3> HIDE DEF flatten
    <3> QED
      BY <1>8, <2>6, <3>1
  <2>8. FlattenSeq(ss) = flatten[n]
    BY <1>8 DEF FlattenSeq, n
  <2> QED
    BY <1>6, <2>7, <2>8 DEF n
<1> QED
  BY <1>7, <1>8

(* What is flattened is a sequence of what the parts are made of. *)
LEMMA FlattenType ==
  ASSUME NEW S, NEW ss \in Seq(Seq(S))
  PROVE  FlattenSeq(ss) \in Seq(S)
<1>1. PICK h : Flattens(h, ss, S) /\ FlattenSeq(ss) = h[Len(ss)]
  BY FlattenBy
<1>2. Len(ss) \in 0..Len(ss)
  BY LenProperties
<1> QED
  BY <1>1, <1>2 DEF Flattens

(* Flattening one sequence of sequences after another. *)
LEMMA FlattenConcat ==
  ASSUME NEW S, NEW ss \in Seq(Seq(S)), NEW tt \in Seq(Seq(S))
  PROVE  FlattenSeq(ss \o tt) = FlattenSeq(ss) \o FlattenSeq(tt)
<1> DEFINE m == Len(ss)
           n == Len(tt)
           all == ss \o tt
<1>1. m \in Nat /\ n \in Nat
  BY LenProperties
<1>2. /\ all \in Seq(Seq(S)) /\ Len(all) = m + n
      /\ \A i \in 1..m : all[i] = ss[i]
      /\ \A i \in 1..n : all[m + i] = tt[i]
  <2>1. /\ all \in Seq(Seq(S)) /\ Len(all) = Len(ss) + Len(tt)
        /\ \A i \in 1..(Len(ss) + Len(tt)) :
             all[i] = IF i <= Len(ss) THEN ss[i] ELSE tt[i - Len(ss)]
    BY ConcatProperties
  <2> HIDE DEF all
  <2>2. \A i \in 1..m : i \in 1..(m + n) /\ i <= m
    BY <1>1
  <2>3. \A i \in 1..n : m + i \in 1..(m + n) /\ ~(m + i <= m) /\ (m + i) - m = i
    BY <1>1
  <2> QED
    BY <2>1, <2>2, <2>3
<1>3. PICK f : Flattens(f, ss, S) /\ FlattenSeq(ss) = f[m]
  BY FlattenBy
<1>4. PICK g : Flattens(g, tt, S) /\ FlattenSeq(tt) = g[n]
  BY FlattenBy
<1>5. PICK h : Flattens(h, all, S) /\ FlattenSeq(all) = h[Len(all)]
  BY <1>2, FlattenBy
<1> HIDE DEF m, n, all
<1>6. /\ f \in [0..m -> Seq(S)] /\ f[0] = << >> /\ \A i \in 1..m : f[i] = f[i - 1] \o ss[i]
      /\ g \in [0..n -> Seq(S)] /\ g[0] = << >> /\ \A i \in 1..n : g[i] = g[i - 1] \o tt[i]
      /\ h[0] = << >> /\ \A i \in 1..(m + n) : h[i] = h[i - 1] \o all[i]
  BY <1>2, <1>3, <1>4, <1>5 DEF Flattens, m, n
<1>7. h[m] = f[m]
  <2> DEFINE P == {i \in 0..m : h[i] = f[i]}
  <2>1. 0 \in P
    BY <1>1, <1>6
  <2>2. ASSUME NEW i \in 0..(m - 1), i \in P
        PROVE  i + 1 \in P
    <3>1. i + 1 \in 1..m /\ i + 1 \in 1..(m + n) /\ i + 1 \in 0..m /\ (i + 1) - 1 = i
      BY <1>1
    <3>2. h[i + 1] = h[i] \o all[i + 1] /\ f[i + 1] = f[i] \o ss[i + 1]
      BY <1>6, <3>1
    <3> QED
      BY <1>2, <2>2, <3>1, <3>2
  <2> HIDE DEF P
  <2>3. m \in P
    <3>1. \A i \in 0..m : i \in P
      BY <1>1, <2>1, <2>2, UpTo
    <3> QED
      BY <1>1, <3>1
  <2> QED
    BY <2>3 DEF P
<1>8. h[m + n] = f[m] \o g[n]
  <2> DEFINE P == {i \in 0..n : h[m + i] = f[m] \o g[i]}
  <2>a. m \in 0..m /\ f[m] \in Seq(S)
    BY <1>1, <1>6
  <2>1. 0 \in P
    <3>1. m + 0 = m /\ 0 \in 0..n
      BY <1>1
    <3>2. f[m] \o << >> = f[m]
      BY <2>a, ConcatEmptySeq
    <3> QED
      BY <1>6, <1>7, <3>1, <3>2
  <2>2. ASSUME NEW i \in 0..(n - 1), i \in P
        PROVE  i + 1 \in P
    <3>1. /\ i + 1 \in 1..n /\ m + (i + 1) \in 1..(m + n) /\ i + 1 \in 0..n /\ i \in 0..n
          /\ (i + 1) - 1 = i /\ (m + (i + 1)) - 1 = m + i
      BY <1>1
    <3>2. h[m + (i + 1)] = h[m + i] \o tt[i + 1] /\ g[i + 1] = g[i] \o tt[i + 1]
      BY <1>2, <1>6, <3>1
    <3>3. g[i] \in Seq(S) /\ tt[i + 1] \in Seq(S)
      BY <1>6, <3>1, ElementOfSeq DEF n
    <3>4. (f[m] \o g[i]) \o tt[i + 1] = f[m] \o (g[i] \o tt[i + 1])
      <4>1. \A a, b, c \in Seq(S) : (a \o b) \o c = a \o (b \o c)
        BY ConcatAssociative
      <4> QED
        BY <2>a, <3>3, <4>1
    <3> QED
      BY <2>2, <3>1, <3>2, <3>4
  <2> HIDE DEF P
  <2>3. n \in P
    <3>1. \A i \in 0..n : i \in P
      BY <1>1, <2>1, <2>2, UpTo
    <3> QED
      BY <1>1, <3>1
  <2> QED
    BY <2>3 DEF P
<1> QED
  BY <1>2, <1>3, <1>4, <1>5, <1>8 DEF all

(* Nothing, and one sequence. *)
LEMMA FlattenSmall ==
  ASSUME NEW S, NEW s \in Seq(S)
  PROVE  FlattenSeq(<< >>) = << >> /\ FlattenSeq(<<s>>) = s
<1>1. FlattenSeq(<< >>) = << >>
  BY DEF FlattenSeq
<1>2. <<s>> \in Seq(Seq(S)) /\ Len(<<s>>) = 1 /\ <<s>>[1] = s
  OBVIOUS
<1>3. PICK h : Flattens(h, <<s>>, S) /\ FlattenSeq(<<s>>) = h[1]
  BY <1>2, FlattenBy
<1>4. 1 \in 1..1 /\ 1 - 1 = 0
  OBVIOUS
<1>5. h[1] = << >> \o s
  BY <1>2, <1>3, <1>4 DEF Flattens
<1> QED
  BY <1>1, <1>3, <1>5, ConcatEmptySeq

(* One more at the end, one more in front. *)
LEMMA FlattenStep ==
  ASSUME NEW S, NEW ss \in Seq(Seq(S)), NEW s \in Seq(S)
  PROVE  /\ FlattenSeq(Append(ss, s)) = FlattenSeq(ss) \o s
         /\ FlattenSeq(<<s>> \o ss) = s \o FlattenSeq(ss)
<1>1. <<s>> \in Seq(Seq(S)) /\ FlattenSeq(<<s>>) = s
  BY FlattenSmall
<1>2. Append(ss, s) = ss \o <<s>>
  BY AppendIsConcat
<1> QED
  BY <1>1, <1>2, FlattenConcat

(* Pairs laid end to end. *)
LEMMA FlattenPairs ==
  ASSUME NEW S, NEW ss \in Seq(Seq(S)), \A i \in 1..Len(ss) : Len(ss[i]) = 2
  PROVE  /\ Len(FlattenSeq(ss)) = 2 * Len(ss)
         /\ \A i \in 1..Len(ss) :
              FlattenSeq(ss)[2 * i - 1] = ss[i][1] /\ FlattenSeq(ss)[2 * i] = ss[i][2]
<1> DEFINE n == Len(ss)
<1>1. n \in Nat /\ \A i \in 1..n : ss[i] \in Seq(S) /\ Len(ss[i]) = 2
  BY LenProperties, ElementOfSeq
<1>2. PICK h : Flattens(h, ss, S) /\ FlattenSeq(ss) = h[n]
  BY FlattenBy
<1>3. /\ h \in [0..n -> Seq(S)] /\ h[0] = << >> /\ \A i \in 1..n : h[i] = h[i - 1] \o ss[i]
  BY <1>2 DEF Flattens
<1> HIDE DEF n
<1> DEFINE Laid(k, s) ==
             Len(s) = 2 * k /\ \A i \in 1..k : s[2 * i - 1] = ss[i][1] /\ s[2 * i] = ss[i][2]
           P == {k \in 0..n : Laid(k, h[k])}
<1>4. 0 \in P
  <2>1. Len(<< >>) = 2 * 0 /\ 1..0 = {}
    OBVIOUS
  <2> QED
    BY <1>1, <1>3, <2>1
<1>5. ASSUME NEW k \in 0..(n - 1), k \in P
      PROVE  k + 1 \in P
  <2>1. k \in Nat /\ k \in 0..n /\ k + 1 \in 1..n /\ k + 1 \in 0..n /\ (k + 1) - 1 = k
    BY <1>1
  <2>2. PICK s \in Seq(S) : s = h[k] /\ Laid(k, s)
    BY <1>3, <1>5, <2>1
  <2>3. PICK t \in Seq(S) : t = ss[k + 1] /\ Len(t) = 2
    BY <1>1, <2>1
  <2>4. h[k + 1] = s \o t
    BY <1>3, <2>1, <2>2, <2>3
  <2>5. /\ Len(s \o t) = 2 * k + 2
        /\ \A i \in 1..(2 * k + 2) : (s \o t)[i] = IF i <= 2 * k THEN s[i] ELSE t[i - 2 * k]
    <3>1. Len(s) = 2 * k
      BY <2>2
    <3>2. /\ Len(s \o t) = Len(s) + Len(t)
          /\ \A i \in 1..(Len(s) + Len(t)) :
               (s \o t)[i] = IF i <= Len(s) THEN s[i] ELSE t[i - Len(s)]
      BY ConcatProperties
    <3> QED
      BY <2>1, <2>3, <3>1, <3>2
  <2>6. ASSUME NEW i \in 1..(k + 1)
        PROVE  (s \o t)[2 * i - 1] = ss[i][1] /\ (s \o t)[2 * i] = ss[i][2]
    <3>1. 2 * i - 1 \in 1..(2 * k + 2) /\ 2 * i \in 1..(2 * k + 2)
      BY <2>1
    <3>2. CASE i = k + 1
      <4>1. ~(2 * i - 1 <= 2 * k) /\ ~(2 * i <= 2 * k) /\ (2 * i - 1) - 2 * k = 1 /\ 2 * i - 2 * k = 2
        BY <2>1, <3>2
      <4>2. (s \o t)[2 * i - 1] = t[1] /\ (s \o t)[2 * i] = t[2]
        BY <2>5, <3>1, <4>1
      <4> QED
        BY <2>3, <3>2, <4>2
    <3>3. CASE i # k + 1
      <4>1. i \in 1..k /\ 2 * i - 1 <= 2 * k /\ 2 * i <= 2 * k
        BY <2>1, <3>3
      <4>2. (s \o t)[2 * i - 1] = s[2 * i - 1] /\ (s \o t)[2 * i] = s[2 * i]
        BY <2>5, <3>1, <4>1
      <4> QED
        BY <2>2, <4>1, <4>2
    <3> QED
      BY <3>2, <3>3
  <2>7. Laid(k + 1, s \o t)
    <3>1. 2 * k + 2 = 2 * (k + 1)
      BY <2>1
    <3> QED
      BY <2>5, <2>6, <3>1
  <2> QED
    BY <2>1, <2>4, <2>7
<1>6. n \in P
  <2> HIDE DEF P
  <2>1. \A i \in 0..n : i \in P
    BY <1>1, <1>4, <1>5, UpTo
  <2> QED
    BY <1>1, <2>1
<1> QED
  BY <1>2, <1>6 DEF n

-----------------------------------------------------------------------------
(* A function applied to every element *)

FMap(F, s) == [i \in DOMAIN s |-> F[s[i]]]

\* Opaque, so that the provers find the sets a lemma is used for.
IsMap(F, A, B) == F \in [A -> B]

(* A function on the first numbers is a sequence. *)
LEMMA FunctionIsSeq ==
  ASSUME NEW B, NEW n \in Nat, NEW f \in [1..n -> B]
  PROVE  f \in Seq(B) /\ Len(f) = n /\ DOMAIN f = 1..n
OBVIOUS

(* Applied to every element, a function keeps the length and the places. *)
LEMMA MapShape ==
  ASSUME NEW A, NEW B, NEW F, IsMap(F, A, B), NEW s \in Seq(A)
  PROVE  /\ FMap(F, s) \in Seq(B) /\ Len(FMap(F, s)) = Len(s)
         /\ \A i \in 1..Len(s) : FMap(F, s)[i] = F[s[i]]
<1>1. Len(s) \in Nat /\ DOMAIN s = 1..Len(s) /\ \A i \in 1..Len(s) : s[i] \in A
  BY LenProperties, ElementOfSeq
<1>2. FMap(F, s) \in [1..Len(s) -> B] /\ \A i \in 1..Len(s) : FMap(F, s)[i] = F[s[i]]
  BY <1>1 DEF FMap, IsMap
<1> QED
  BY <1>1, <1>2, FunctionIsSeq

(* The element put at the end is mapped at the end. *)
LEMMA MapAppend ==
  ASSUME NEW A, NEW B, NEW F, IsMap(F, A, B), NEW s \in Seq(A), NEW e \in A
  PROVE  FMap(F, Append(s, e)) = Append(FMap(F, s), F[e])
<1> DEFINE n == Len(s)
           a == Append(s, e)
           f == FMap(F, s)
           l == FMap(F, a)
           r == Append(f, F[e])
<1>1. n \in Nat /\ F[e] \in B
  BY LenProperties DEF IsMap
<1>2. /\ a \in Seq(A) /\ Len(a) = n + 1
      /\ \A i \in 1..n : a[i] = s[i]
      /\ a[n + 1] = e
  BY AppendProperties
<1>3. f \in Seq(B) /\ Len(f) = n /\ \A i \in 1..n : f[i] = F[s[i]]
  BY MapShape
<1> HIDE DEF a, f
<1>4. l \in Seq(B) /\ Len(l) = Len(a) /\ \A i \in 1..Len(a) : l[i] = F[a[i]]
  BY <1>2, MapShape
<1>5. /\ r \in Seq(B) /\ Len(r) = Len(f) + 1
      /\ \A i \in 1..Len(f) : r[i] = f[i]
      /\ r[Len(f) + 1] = F[e]
  BY <1>1, <1>3, AppendProperties
<1> HIDE DEF n, l, r
<1>6. ASSUME NEW i \in 1..(n + 1)
      PROVE  l[i] = r[i]
  <2>1. l[i] = F[a[i]]
    BY <1>2, <1>4
  <2>2. CASE i \in 1..n
    <3>1. a[i] = s[i]
      BY <1>2, <2>2
    <3>2. r[i] = f[i]
      BY <1>3, <1>5, <2>2
    <3> QED
      BY <1>3, <2>1, <2>2, <3>1, <3>2
  <2>3. CASE i = n + 1
    <3>1. a[i] = e
      BY <1>2, <2>3
    <3>2. r[i] = F[e]
      BY <1>3, <1>5, <2>3
    <3> QED
      BY <2>1, <3>1, <3>2
  <2> QED
    BY <1>1, <2>2, <2>3
<1>7. l = r
  BY <1>2, <1>3, <1>4, <1>5, <1>6, SeqEqual
<1> QED
  BY <1>7 DEF l, r, a, f

(* Two sequences are mapped one after the other. *)
LEMMA MapConcat ==
  ASSUME NEW A, NEW B, NEW F, IsMap(F, A, B), NEW s \in Seq(A), NEW t \in Seq(A)
  PROVE  FMap(F, s \o t) = FMap(F, s) \o FMap(F, t)
<1> DEFINE m == Len(s)
           n == Len(t)
           a == s \o t
           f == FMap(F, s)
           g == FMap(F, t)
           l == FMap(F, a)
           r == f \o g
<1>1. m \in Nat /\ n \in Nat
  BY LenProperties
<1>2. /\ a \in Seq(A) /\ Len(a) = m + n
      /\ \A i \in 1..(m + n) : a[i] = IF i <= m THEN s[i] ELSE t[i - m]
  BY ConcatProperties
<1>3. /\ f \in Seq(B) /\ Len(f) = m /\ \A i \in 1..m : f[i] = F[s[i]]
      /\ g \in Seq(B) /\ Len(g) = n /\ \A i \in 1..n : g[i] = F[t[i]]
  BY MapShape
<1> HIDE DEF a, f, g
<1>4. l \in Seq(B) /\ Len(l) = Len(a) /\ \A i \in 1..Len(a) : l[i] = F[a[i]]
  <2>1. a \in Seq(A)
    BY <1>2
  <2>2. ASSUME NEW x \in Seq(A)
        PROVE  /\ FMap(F, x) \in Seq(B) /\ Len(FMap(F, x)) = Len(x)
               /\ \A i \in 1..Len(x) : FMap(F, x)[i] = F[x[i]]
    BY MapShape
  <2> QED
    BY <2>1, <2>2
<1>5. /\ r \in Seq(B) /\ Len(r) = Len(f) + Len(g)
      /\ \A i \in 1..(Len(f) + Len(g)) : r[i] = IF i <= Len(f) THEN f[i] ELSE g[i - Len(f)]
  BY <1>3, ConcatProperties
<1> HIDE DEF m, n, l, r
<1>6. ASSUME NEW i \in 1..(m + n)
      PROVE  l[i] = r[i]
  <2>0. l[i] = F[a[i]]
    BY <1>2, <1>4
  <2>1. CASE i <= m
    <3>1. i \in 1..m
      BY <1>1, <2>1
    <3>2. a[i] = s[i]
      BY <1>2, <2>1
    <3>3. r[i] = f[i]
      BY <1>3, <1>5, <2>1
    <3> QED
      BY <1>3, <2>0, <3>1, <3>2, <3>3
  <2>2. CASE ~(i <= m)
    <3>1. i - m \in 1..n
      BY <1>1, <2>2
    <3>2. a[i] = t[i - m]
      BY <1>2, <2>2
    <3>3. r[i] = g[i - m]
      BY <1>3, <1>5, <2>2
    <3> QED
      BY <1>3, <2>0, <3>1, <3>2, <3>3
  <2> QED
    BY <2>1, <2>2
<1>7. l = r
  BY <1>2, <1>3, <1>4, <1>5, <1>6, SeqEqual
<1> QED
  BY <1>7 DEF l, r, a, f, g

(* Of no elements nothing is made. *)
LEMMA MapEmpty ==
  ASSUME NEW F
  PROVE  FMap(F, << >>) = << >>
BY DEF FMap

(* Flattening what is made of the elements of a flattened sequence, at     *)
(* once or part by part.                                                   *)
LEMMA FlattenMapFlatten ==
  ASSUME NEW A, NEW B, NEW F, IsMap(F, A, Seq(B)), NEW ss \in Seq(Seq(A)), NEW G,
         IsMap(G, Seq(A), Seq(B)),
         \A s \in Seq(A) : G[s] = FlattenSeq(FMap(F, s))
  PROVE  FlattenSeq(FMap(F, FlattenSeq(ss))) = FlattenSeq(FMap(G, ss))
<1> DEFINE n == Len(ss)
           gg == FMap(G, ss)
<1>1. n \in Nat /\ \A i \in 1..n : ss[i] \in Seq(A)
  BY LenProperties, ElementOfSeq
<1>2. gg \in Seq(Seq(B)) /\ Len(gg) = n /\ \A i \in 1..n : gg[i] = G[ss[i]]
  BY MapShape
<1>3. PICK f : Flattens(f, ss, A) /\ FlattenSeq(ss) = f[n]
  BY FlattenBy
<1>4. PICK h : Flattens(h, gg, B) /\ FlattenSeq(gg) = h[n]
  BY <1>2, FlattenBy
<1> HIDE DEF n, gg
<1>5. /\ f \in [0..n -> Seq(A)] /\ f[0] = << >> /\ \A i \in 1..n : f[i] = f[i - 1] \o ss[i]
      /\ h \in [0..n -> Seq(B)] /\ h[0] = << >> /\ \A i \in 1..n : h[i] = h[i - 1] \o gg[i]
  BY <1>2, <1>3, <1>4 DEF Flattens, n
<1> DEFINE P == {i \in 0..n : G[f[i]] = h[i]}
<1>6. 0 \in P
  <2>1. << >> \in Seq(A) /\ FMap(F, << >>) = << >> /\ FlattenSeq(<< >>) = << >>
    BY MapEmpty DEF FlattenSeq
  <2>2. G[<< >>] = << >>
    BY <2>1
  <2> QED
    BY <1>1, <1>5, <2>2
<1>7. ASSUME NEW i \in 0..(n - 1), i \in P
      PROVE  i + 1 \in P
  <2>1. i + 1 \in 1..n /\ i + 1 \in 0..n /\ i \in 0..n /\ (i + 1) - 1 = i
    BY <1>1
  <2>2. f[i] \in Seq(A) /\ ss[i + 1] \in Seq(A) /\ f[i + 1] \in Seq(A)
    BY <1>1, <1>5, <2>1
  <2>3. f[i + 1] = f[i] \o ss[i + 1] /\ h[i + 1] = h[i] \o gg[i + 1]
    BY <1>5, <2>1
  <2>4. PICK a \in Seq(A), b \in Seq(A) : a = f[i] /\ b = ss[i + 1]
    BY <2>2
  <2>5. FMap(F, a \o b) = FMap(F, a) \o FMap(F, b)
    BY MapConcat
  <2>6. FMap(F, a) \in Seq(Seq(B)) /\ FMap(F, b) \in Seq(Seq(B))
    BY MapShape
  <2>7. FlattenSeq(FMap(F, a \o b)) = FlattenSeq(FMap(F, a)) \o FlattenSeq(FMap(F, b))
    BY <2>5, <2>6, FlattenConcat
  <2>8. a \o b \in Seq(A)
    BY ConcatProperties
  <2>9. G[a \o b] = G[a] \o G[b]
    BY <2>7, <2>8
  <2>10. gg[i + 1] = G[b]
    BY <1>2, <2>1, <2>4
  <2>11. G[f[i + 1]] = h[i + 1]
    BY <1>7, <2>3, <2>4, <2>9, <2>10
  <2> QED
    BY <2>1, <2>11
<1>8. n \in P
  <2> HIDE DEF P
  <2>1. \A i \in 0..n : i \in P
    BY <1>1, <1>6, <1>7, UpTo
  <2> QED
    BY <1>1, <2>1
<1>9. f[n] \in Seq(A)
  BY <1>1, <1>5
<1> QED
  BY <1>3, <1>4, <1>8, <1>9 DEF gg

(* A sequence over a set is one over every larger set. *)
LEMMA Widen ==
  ASSUME NEW A, NEW B, A \subseteq B, NEW s \in Seq(A)
  PROVE  s \in Seq(B)
<1>1. Len(s) \in Nat /\ s \in [1..Len(s) -> A]
  BY LenProperties
<1>2. s \in [1..Len(s) -> B]
  BY <1>1
<1> QED
  BY <1>1, <1>2, FunctionIsSeq

\* What a function makes of every element, in one sequence.
Gather(F, s) == FlattenSeq(FMap(F, s))

(* What is gathered is a sequence of what the function makes. *)
LEMMA GatherType ==
  ASSUME NEW A, NEW B, NEW F, IsMap(F, A, Seq(B)), NEW s \in Seq(A)
  PROVE  Gather(F, s) \in Seq(B)
<1>1. FMap(F, s) \in Seq(Seq(B))
  BY MapShape
<1> QED
  BY <1>1, FlattenType DEF Gather

(* From no elements nothing is gathered. *)
LEMMA GatherEmpty ==
  ASSUME NEW F
  PROVE  Gather(F, << >>) = << >>
BY MapEmpty DEF Gather, FlattenSeq

(* What the last element makes comes last. *)
LEMMA GatherAppend ==
  ASSUME NEW A, NEW B, NEW F, IsMap(F, A, Seq(B)), NEW s \in Seq(A), NEW e \in A
  PROVE  Gather(F, Append(s, e)) = Gather(F, s) \o F[e]
<1>1. FMap(F, s) \in Seq(Seq(B)) /\ F[e] \in Seq(B)
  BY MapShape DEF IsMap
<1>2. FMap(F, Append(s, e)) = Append(FMap(F, s), F[e])
  BY MapAppend
<1> QED
  BY <1>1, <1>2, FlattenStep DEF Gather

\* Gathering through F is done one element of A at a time.
Appends(F, A) == \A s \in Seq(A), e \in A : Gather(F, Append(s, e)) = Gather(F, s) \o F[e]

(* The same, of every sequence. *)
LEMMA GatherAppends ==
  ASSUME NEW A, NEW B, NEW F, IsMap(F, A, Seq(B))
  PROVE  Appends(F, A)
<1> SUFFICES ASSUME NEW s \in Seq(A), NEW e \in A
             PROVE  Gather(F, Append(s, e)) = Gather(F, s) \o F[e]
  BY DEF Appends
<1> QED
  BY GatherAppend

\* tt is what F makes of each part of ss.
GathersTo(F, ss, tt) == Len(tt) = Len(ss) /\ \A i \in 1..Len(ss) : Gather(F, ss[i]) = tt[i]

(* The same function made of each part gathers the whole. *)
LEMMA GatherParts ==
  ASSUME NEW A, NEW B, NEW F, IsMap(F, A, Seq(B)), NEW ss \in Seq(Seq(A)), NEW tt \in Seq(Seq(B)),
         GathersTo(F, ss, tt)
  PROVE  Gather(F, FlattenSeq(ss)) = FlattenSeq(tt)
<1> DEFINE G == [s \in Seq(A) |-> Gather(F, s)]
<1>1. \A s \in Seq(A) : Gather(F, s) \in Seq(B)
  BY GatherType
<1>2. IsMap(G, Seq(A), Seq(B))
  BY <1>1 DEF IsMap
<1>3. \A s \in Seq(A) : G[s] = FlattenSeq(FMap(F, s))
  BY DEF Gather
<1>4. \A i \in 1..Len(ss) : ss[i] \in Seq(A) /\ G[ss[i]] = tt[i]
  BY ElementOfSeq DEF GathersTo
<1> HIDE DEF G
<1>5. FlattenSeq(FMap(F, FlattenSeq(ss))) = FlattenSeq(FMap(G, ss))
  BY <1>2, <1>3, FlattenMapFlatten
<1>6. /\ FMap(G, ss) \in Seq(Seq(B)) /\ Len(FMap(G, ss)) = Len(ss)
      /\ \A i \in 1..Len(ss) : FMap(G, ss)[i] = G[ss[i]]
  BY <1>2, MapShape
<1>7. FMap(G, ss) = tt
  BY <1>4, <1>6, SeqEqual DEF GathersTo
<1> QED
  BY <1>5, <1>7 DEF Gather

\* f is s without its last element.
FrontOf(f, s, A) ==
  /\ Len(f) = Len(s) - 1 /\ s[Len(s)] \in A
  /\ \A i \in 1..Len(f) : f[i] = s[i]
  /\ s = Append(f, s[Len(s)])
  /\ \A e \in A : [s EXCEPT ![Len(s)] = e] = Append(f, e)

(* A sequence is its front and its last element, and replacing the last    *)
(* one keeps the front.                                                    *)
LEMMA LastOne ==
  ASSUME NEW A, NEW s \in Seq(A), s # << >>
  PROVE  \E f \in Seq(A) : FrontOf(f, s, A)
<1> DEFINE n == Len(s)
           f == [i \in 1..(n - 1) |-> s[i]]
<1>1. n \in Nat /\ n # 0 /\ DOMAIN s = 1..n /\ \A i \in 1..n : s[i] \in A
  BY LenProperties, ElementOfSeq, EmptySeq
<1>2. n - 1 \in Nat /\ n \in 1..n /\ \A i \in 1..(n - 1) : i \in 1..n
  BY <1>1
<1>3. f \in [1..(n - 1) -> A]
  BY <1>1, <1>2
<1>4. f \in Seq(A) /\ Len(f) = n - 1
  BY <1>2, <1>3, FunctionIsSeq
<1>5. \A i \in 1..Len(f) : f[i] = s[i]
  BY <1>4
<1> HIDE DEF f, n
<1>6. ASSUME NEW e \in A
      PROVE  [s EXCEPT ![n] = e] = Append(f, e)
  <2> DEFINE l == [s EXCEPT ![n] = e]
             r == Append(f, e)
  <2>1. l \in [1..n -> A] /\ l[n] = e /\ \A i \in 1..(n - 1) : l[i] = s[i]
    BY <1>1, <1>2
  <2>2. l \in Seq(A) /\ Len(l) = n
    BY <1>1, <2>1, FunctionIsSeq
  <2>3. /\ r \in Seq(A) /\ Len(r) = Len(f) + 1
        /\ \A i \in 1..Len(f) : r[i] = f[i]
        /\ r[Len(f) + 1] = e
    BY <1>4, AppendProperties
  <2>4. Len(f) + 1 = n
    BY <1>1, <1>4
  <2> HIDE DEF l, r
  <2>5. ASSUME NEW i \in 1..n
        PROVE  l[i] = r[i]
    <3>1. CASE i = n
      BY <2>1, <2>3, <2>4, <3>1
    <3>2. CASE i # n
      <4>1. i \in 1..(n - 1)
        BY <1>1, <3>2
      <4> QED
        BY <1>4, <1>5, <2>1, <2>3, <4>1
    <3> QED
      BY <3>1, <3>2
  <2>6. l = r
    BY <2>2, <2>3, <2>4, <2>5, SeqEqual
  <2> QED
    BY <2>6 DEF l, r
<1>7. [s EXCEPT ![n] = s[n]] = s
  <2>1. s \in [1..n -> A]
    BY LenProperties DEF n
  <2> QED
    BY <1>2, <2>1
<1>8. s[n] \in A
  BY <1>1, <1>2
<1>9. s = Append(f, s[n])
  BY <1>6, <1>7, <1>8
<1> QED
  BY <1>4, <1>5, <1>6, <1>8, <1>9 DEF n, FrontOf

(* What an element put at the end changes. *)
LEMMA AppendShape ==
  ASSUME NEW A, NEW s \in Seq(A), NEW e \in A
  PROVE  /\ Append(s, e) \in Seq(A) /\ Len(Append(s, e)) = Len(s) + 1 /\ Append(s, e) # << >>
         /\ \A i \in 1..Len(s) : Append(s, e)[i] = s[i]
         /\ Append(s, e)[Len(s) + 1] = e
         /\ Len(s) \in Nat
<1>1. /\ Append(s, e) \in Seq(A) /\ Len(Append(s, e)) = Len(s) + 1
      /\ \A i \in 1..Len(s) : Append(s, e)[i] = s[i]
      /\ Append(s, e)[Len(s) + 1] = e
  BY AppendProperties
<1>2. Len(s) \in Nat /\ Len(<< >>) = 0
  BY LenProperties
<1>3. Len(s) + 1 # 0
  BY <1>2
<1> QED
  BY <1>1, <1>2, <1>3

Associates(S) == \A x, y, z \in Seq(S) : (x \o y) \o z = x \o (y \o z)

(* Joining sequences is associative. *)
LEMMA Associative ==
  ASSUME NEW S
  PROVE  Associates(S)
<1>1. \A x, y, z \in Seq(S) : (x \o y) \o z = x \o (y \o z)
  BY ConcatAssociative
<1> QED
  BY <1>1 DEF Associates

(* A sequence is its head and its tail. *)
LEMMA HeadThenTail ==
  ASSUME NEW S, NEW s \in Seq(S), s # << >>
  PROVE  s = <<Head(s)>> \o Tail(s)
<1> DEFINE h == <<Head(s)>>
           t == Tail(s)
           w == h \o t
<1>1. Len(s) \in Nat /\ Len(s) # 0 /\ Head(s) = s[1]
  BY LenProperties, EmptySeq
<1>2. Head(s) \in S /\ t \in Seq(S) /\ Len(t) = Len(s) - 1 /\ \A i \in 1..Len(t) : t[i] = s[i + 1]
  BY HeadTailProperties
<1>3. h \in Seq(S) /\ Len(h) = 1 /\ h[1] = s[1]
  BY <1>1, <1>2
<1> HIDE DEF h, t
<1>4. /\ w \in Seq(S) /\ Len(w) = Len(h) + Len(t)
      /\ \A i \in 1..(Len(h) + Len(t)) : w[i] = IF i <= Len(h) THEN h[i] ELSE t[i - Len(h)]
  <2>1. h \in Seq(S) /\ t \in Seq(S)
    BY <1>2, <1>3
  <2> QED
    BY <2>1, ConcatProperties
<1> HIDE DEF w
<1>5. Len(w) = Len(s)
  BY <1>1, <1>2, <1>3, <1>4
<1>6. ASSUME NEW i \in 1..Len(s)
      PROVE  w[i] = s[i]
  <2>1. i \in 1..(Len(h) + Len(t))
    BY <1>4, <1>5
  <2>2. CASE i = 1
    BY <1>3, <1>4, <2>1, <2>2
  <2>3. CASE i # 1
    <3>1. ~(i <= 1) /\ i - 1 \in 1..Len(t) /\ (i - 1) + 1 = i
      BY <1>1, <1>2, <2>3
    <3>2. w[i] = t[i - 1]
      BY <1>3, <1>4, <2>1, <3>1
    <3> QED
      BY <1>2, <3>1, <3>2
  <2> QED
    BY <2>2, <2>3
<1>7. w = s
  BY <1>4, <1>5, <1>6, SeqEqual
<1> QED
  BY <1>7 DEF w, h, t

(* A beginning of a sequence is its first elements. *)
LEMMA BeginningOf ==
  ASSUME NEW S, NEW a \in Seq(S), NEW b \in Seq(S)
  PROVE  Len(a) <= Len(a \o b) /\ a = SubSeq(a \o b, 1, Len(a))
<1> DEFINE w == a \o b
           n == Len(a)
           p == SubSeq(w, 1, n)
<1>1. n \in Nat /\ Len(b) \in Nat
  BY LenProperties
<1>2. /\ w \in Seq(S) /\ Len(w) = n + Len(b)
      /\ \A i \in 1..(n + Len(b)) : w[i] = IF i <= n THEN a[i] ELSE b[i - n]
  BY ConcatProperties
<1> HIDE DEF w, n
<1>3. \A i \in 1..n : w[i] = a[i] /\ w[i] \in S
  <2>1. \A i \in 1..n : i \in 1..(n + Len(b)) /\ i <= n
    BY <1>1
  <2>2. \A i \in 1..n : a[i] \in S
    BY ElementOfSeq DEF n
  <2> QED
    BY <1>2, <2>1, <2>2
<1>4. /\ p \in Seq(S)
      /\ Len(p) = IF 1 <= n THEN n - 1 + 1 ELSE 0
      /\ \A i \in 1..(n - 1 + 1) : p[i] = w[1 + i - 1]
  <2>1. 1 \in Int /\ n \in Int
    BY <1>1
  <2> QED
    BY <1>3, <2>1, SubSeqProperties
<1> HIDE DEF p
<1>5. Len(p) = n /\ \A i \in 1..n : p[i] = a[i]
  <2>1. n - 1 + 1 = n /\ (~(1 <= n) => n = 0) /\ \A i \in 1..n : 1 + i - 1 = i
    BY <1>1
  <2> QED
    BY <1>3, <1>4, <2>1
<1>6. p = a
  BY <1>4, <1>5, SeqEqual DEF n
<1>7. n <= Len(w)
  BY <1>1, <1>2
<1> QED
  BY <1>6, <1>7 DEF p, w, n
=============================================================================
