--------------------------- MODULE PipelineProofs ---------------------------
(***************************************************************************)
(* What the signature pipeline and the decision keep for every page, every *)
(* embedding and every setting of the thresholds.                          *)
(***************************************************************************)
EXTENDS Pipeline, FiniteSetTheorems, WellFoundedInduction, TLAPS

-----------------------------------------------------------------------------
(* Sums over finite functions *)

Rest(s) == s \ {CHOOSE x \in s : TRUE}

(* g gives the sum of f over each part of s.                               *)
Sums(f, s, g) ==
  \A r \in SUBSET s : g[r] = IF r = {} THEN 0 ELSE f[CHOOSE x \in r : TRUE] + g[Rest(r)]

(* A collection of finite sets has a member that holds no other.           *)
LEMMA Smallest ==
  ASSUME NEW D, IsFiniteSet(D), NEW B, B \subseteq SUBSET D, B # {}
  PROVE  \E s \in B : \A r \in B : r \subseteq s => r = s
<1>1. B \subseteq FiniteSubsetsOf(D)
  BY FS_Subset DEF FiniteSubsetsOf
<1>2. PICK s \in B : \A r \in B : <<r, s>> \notin StrictSubsetOrdering(D)
  BY <1>1, FS_StrictSubsetOrderingWellFounded, WFMin
<1> QED
  BY <1>2 DEF StrictSubsetOrdering

LEMMA RestOf == \A r : r # {} => Rest(r) \subseteq r /\ Rest(r) # r
BY DEF Rest

(* Sums over two sets agree on what the sets share.                        *)
LEMMA SumsAgree ==
  ASSUME NEW f, NEW s, IsFiniteSet(s), NEW g, Sums(f, s, g), NEW t, NEW h, Sums(f, t, h)
  PROVE  \A r \in SUBSET s : r \subseteq t => g[r] = h[r]
<1> DEFINE B == {r \in SUBSET s : r \subseteq t /\ g[r] # h[r]}
<1> SUFFICES ASSUME B # {} PROVE FALSE
  OBVIOUS
<1>1. PICK r \in B : \A q \in B : q \subseteq r => q = r
  <2>1. B \subseteq SUBSET s
    OBVIOUS
  <2> HIDE DEF B
  <2> QED
    BY <2>1, Smallest
<1>2. r # {}
  BY DEF Sums
<1>3. Rest(r) \subseteq r /\ Rest(r) # r
  BY <1>2, RestOf
<1>4. g[Rest(r)] = h[Rest(r)]
  BY <1>1, <1>3
<1> QED
  BY <1>2, <1>4 DEF Sums

LEMMA SumsExist ==
  ASSUME NEW T, 0 \in T, \A a, b \in T : a + b \in T,
         NEW D, IsFiniteSet(D), NEW f, \A x \in D : f[x] \in T
  PROVE  \E g \in [SUBSET D -> T] : Sums(f, D, g)
<1> DEFINE Summed(s) == \E g \in [SUBSET s -> T] : Sums(f, s, g)
           B == {s \in SUBSET D : ~ Summed(s)}
<1> SUFFICES ASSUME B # {} PROVE FALSE
  OBVIOUS
<1>1. PICK s \in B : \A q \in B : q \subseteq s => q = s
  <2>1. B \subseteq SUBSET D
    OBVIOUS
  <2> HIDE DEF B
  <2> QED
    BY <2>1, Smallest
<1> DEFINE G(q) == CHOOSE g \in [SUBSET q -> T] : Sums(f, q, g)
           h == [r \in SUBSET s |-> IF r = {} THEN 0 ELSE f[CHOOSE x \in r : TRUE] + G(Rest(r))[Rest(r)]]
<1>2. ASSUME NEW r \in SUBSET s, r # {}
      PROVE  Rest(r) \in SUBSET r /\ IsFiniteSet(Rest(r)) /\ Rest(r) # s
  <2>1. Rest(r) \subseteq r /\ Rest(r) # r
    BY <1>2, RestOf
  <2> QED
    BY <2>1, FS_Subset
<1>3. ASSUME NEW r \in SUBSET s, r # {}
      PROVE  G(Rest(r)) \in [SUBSET Rest(r) -> T] /\ Sums(f, Rest(r), G(Rest(r)))
  <2>1. Summed(Rest(r))
    BY <1>1, <1>2, <1>3
  <2> QED
    BY <2>1
<1>4. h \in [SUBSET s -> T]
  <2> SUFFICES ASSUME NEW r \in SUBSET s, r # {}
               PROVE  f[CHOOSE x \in r : TRUE] + G(Rest(r))[Rest(r)] \in T
    OBVIOUS
  <2>1. f[CHOOSE x \in r : TRUE] \in T
    OBVIOUS
  <2>2. G(Rest(r))[Rest(r)] \in T
    BY <1>3
  <2> HIDE DEF G
  <2> QED
    BY <2>1, <2>2
<1>5. ASSUME NEW r \in SUBSET s, r # {} PROVE h[Rest(r)] = G(Rest(r))[Rest(r)]
  <2> DEFINE q == Rest(r)
  <2>0. q \in SUBSET s /\ IsFiniteSet(q)
    BY <1>2, <1>5
  <2>1. Sums(f, q, G(q))
    BY <1>3, <1>5
  <2>2. CASE q = {}
    BY <2>1, <2>2 DEF Sums
  <2>3. CASE q # {}
    <3>1. G(q)[q] = f[CHOOSE x \in q : TRUE] + G(q)[Rest(q)]
      <4> HIDE DEF G
      <4> QED
        BY <2>1, <2>3 DEF Sums
    <3>2. Sums(f, Rest(q), G(Rest(q))) /\ IsFiniteSet(Rest(q)) /\ Rest(q) \subseteq q
      BY <1>2, <1>3, <2>0, <2>3
    <3>3. G(Rest(q))[Rest(q)] = G(q)[Rest(q)]
      <4> HIDE DEF G, q
      <4> QED
        BY <2>1, <3>2, SumsAgree
    <3>4. h[q] = f[CHOOSE x \in q : TRUE] + G(Rest(q))[Rest(q)]
      <4> HIDE DEF G
      <4> QED
        BY <2>0, <2>3
    <3> HIDE DEF G, h
    <3> QED
      BY <3>1, <3>3, <3>4
  <2> QED
    BY <2>2, <2>3
<1>6. Sums(f, s, h)
  <2> HIDE DEF G
  <2>1. ASSUME NEW r \in SUBSET s
        PROVE  h[r] = IF r = {} THEN 0 ELSE f[CHOOSE x \in r : TRUE] + h[Rest(r)]
    <3>1. CASE r = {}
      BY <3>1
    <3>2. CASE r # {}
      <4>1. h[r] = f[CHOOSE x \in r : TRUE] + G(Rest(r))[Rest(r)]
        BY <3>2
      <4> HIDE DEF h
      <4> QED
        BY <3>2, <4>1, <1>5
    <3> QED
      BY <3>1, <3>2
  <2> HIDE DEF h
  <2> QED
    BY <2>1 DEF Sums
<1> QED
  BY <1>1, <1>4, <1>6

LEMMA TotalIs ==
  ASSUME NEW f
  PROVE  Total(f) = (CHOOSE g : g = [s \in SUBSET DOMAIN f |->
                       IF s = {} THEN 0 ELSE f[CHOOSE x \in s : TRUE] + g[s \ {CHOOSE x \in s : TRUE}]])[DOMAIN f]
BY DEF Total, SumFunction, SumFunctionOnSet, FoldFunctionOnSet, MapThenFoldSet

LEMMA TotalSums ==
  ASSUME NEW f, NEW D, D = DOMAIN f, IsFiniteSet(D), NEW g, Sums(f, D, g)
  PROVE  Total(f) = g[D]
<1> DEFINE k == [s \in SUBSET D |-> g[s]]
           Is(h) == h = [s \in SUBSET D |->
                       IF s = {} THEN 0 ELSE f[CHOOSE x \in s : TRUE] + h[s \ {CHOOSE x \in s : TRUE}]]
<1>1. Is(k)
  <2>1. \A s \in SUBSET D : Rest(s) \in SUBSET D
    BY DEF Rest
  <2>2. \A s \in SUBSET D : k[s] = IF s = {} THEN 0 ELSE f[CHOOSE x \in s : TRUE] + k[Rest(s)]
    BY <2>1 DEF Sums
  <2>3. k = [s \in SUBSET D |-> k[s]]
    OBVIOUS
  <2>4. k = [s \in SUBSET D |-> IF s = {} THEN 0 ELSE f[CHOOSE x \in s : TRUE] + k[Rest(s)]]
    <3> HIDE DEF k
    <3> QED
      BY <2>2, <2>3
  <2> HIDE DEF k
  <2> QED
    BY <2>4, Zenon DEF Rest
<1>2. Is(CHOOSE h : Is(h))
  BY <1>1
<1>3. PICK h : h = CHOOSE i : Is(i)
  OBVIOUS
<1>4. Total(f) = h[D]
  BY <1>3, TotalIs
<1>5. Sums(f, D, h)
  <2>1. h = [s \in SUBSET D |->
               IF s = {} THEN 0 ELSE f[CHOOSE x \in s : TRUE] + h[s \ {CHOOSE x \in s : TRUE}]]
    <3>1. Is(h)
      <4> HIDE DEF Is
      <4> QED
        BY <1>2, <1>3
    <3> QED
      BY <3>1, Zenon
  <2> HIDE DEF Is
  <2> QED
    BY <2>1 DEF Sums, Rest
<1> HIDE DEF Is, k
<1> QED
  BY <1>4, <1>5, SumsAgree

(* The sum of finitely many members of T is in T.                          *)
LEMMA TotalIn ==
  ASSUME NEW T, 0 \in T, \A a, b \in T : a + b \in T,
         NEW f, IsFiniteSet(DOMAIN f), \A x \in DOMAIN f : f[x] \in T
  PROVE  Total(f) \in T
<1>1. PICK g \in [SUBSET DOMAIN f -> T] : Sums(f, DOMAIN f, g)
  BY SumsExist
<1>2. Total(f) = g[DOMAIN f]
  BY <1>1, TotalSums
<1> QED
  BY <1>1, <1>2

LEMMA TotalNat ==
  ASSUME NEW f, IsFiniteSet(DOMAIN f), \A x \in DOMAIN f : f[x] \in Nat
  PROVE  Total(f) \in Nat
<1>1. 0 \in Nat /\ \A a, b \in Nat : a + b \in Nat
  OBVIOUS
<1> QED
  BY <1>1, TotalIn

LEMMA TotalInt ==
  ASSUME NEW f, IsFiniteSet(DOMAIN f), \A x \in DOMAIN f : f[x] \in Int
  PROVE  Total(f) \in Int
<1>1. 0 \in Int /\ \A a, b \in Int : a + b \in Int
  OBVIOUS
<1> QED
  BY <1>1, TotalIn

-----------------------------------------------------------------------------
(* Scores *)

LEMMA Quotient ==
  ASSUME NEW a \in Nat, NEW b \in Nat \ {0}, NEW k \in Nat
  PROVE  /\ a \div b \in Nat
         /\ a <= k * b => a \div b <= k
         /\ b * (a \div b) <= a
<1>1. PICK q \in Int : q = a \div b
  OBVIOUS
<1>2. b * q <= a /\ a < b * q + b
  BY <1>1
<1>3. q >= 0
  <2>1. CASE q <= -1
    <3>1. b * q <= b * (-1)
      BY <2>1
    <3> QED
      BY <1>2, <3>1
  <2> QED
    BY <2>1
<1>4. ASSUME a <= k * b PROVE q <= k
  <2>1. CASE q >= k + 1
    <3>1. b * q >= b * (k + 1)
      BY <2>1
    <3> QED
      BY <1>2, <1>4, <3>1
  <2> QED
    BY <2>1
<1> QED
  BY <1>1, <1>2, <1>3, <1>4

(* A distance below the threshold gets 80% or more, one above it less.     *)
LEMMA ConfidenceSides ==
  ASSUME NEW d \in Nat, NEW t \in Nat, t <= Ceiling
  PROVE  /\ d # t => Confidence(d, t) \in Int
         /\ d < t => Confidence(d, t) >= 8000
         /\ d > t => Confidence(d, t) < 8000
<1>1. Ceiling \in Nat /\ Ceiling < Far /\ Far = 2000
  BY DecisionAssumption DEF Far
<1>2. ASSUME d < t PROVE Confidence(d, t) \in Int /\ Confidence(d, t) >= 8000
  <2>1. 1900 * d \in Nat /\ t \in Nat \ {0} /\ 1900 * d <= 1900 * t
    BY <1>2
  <2>2. (1900 * d) \div t \in Nat /\ (1900 * d) \div t <= 1900
    BY <2>1, Quotient
  <2>3. Confidence(d, t) = 9900 - (1900 * d) \div t
    BY <1>2 DEF Confidence
  <2> QED
    BY <2>2, <2>3
<1>3. ASSUME d > t PROVE Confidence(d, t) \in Int /\ Confidence(d, t) < 8000
  <2>1. 7900 * (d - t) \in Nat /\ Far - t \in Nat \ {0}
    BY <1>1, <1>3
  <2>2. (7900 * (d - t)) \div (Far - t) \in Nat
    BY <2>1, Quotient
  <2>3. PICK q \in Nat : q = (7900 * (d - t)) \div (Far - t)
    BY <2>2
  <2>4. Confidence(d, t) = 7900 - Least(7900, q)
    BY <1>3, <2>3 DEF Confidence
  <2>5. Least(7900, q) \in Nat
    BY DEF Least
  <2> QED
    BY <2>4, <2>5
<1> QED
  BY <1>2, <1>3

LEMMA ThresholdTyped ==
  ASSUME NEW f, IsFiniteSet(DOMAIN f), \A x \in DOMAIN f : f[x] \in Nat
  PROVE  /\ WriterThreshold(f) \in 0..Ceiling
         /\ \/ WriterThreshold(f) = Ceiling
            \/ Spread(f) # 0 /\ Count(f) >= 2 /\ WriterThreshold(f) >= Least(MeanDistance(f), Ceiling)
<1> DEFINE n == Count(f)
           total == Total(f)
           low == Least(total \div n, Ceiling)
           Admits(t) == LET past == 20 * (n * t - total)
                        IN  past <= 0 \/ past * past <= 49 * Spread(f)
           Stops(t) == t = Ceiling \/ ~ Admits(t + 1)
<1>1. Ceiling \in Nat
  BY DecisionAssumption
<1>2. CASE n < 2 \/ Spread(f) = 0
  BY <1>1, <1>2 DEF WriterThreshold
<1>3. CASE ~ (n < 2 \/ Spread(f) = 0)
  <2>1. n \in Nat \ {0} /\ total \in Nat
    BY <1>3, FS_CardinalityType, TotalNat DEF Count
  <2>2. total \div n \in Nat /\ n * (total \div n) <= total
    BY <2>1, Quotient
  <2>3. low \in 0..Ceiling /\ low <= total \div n
    BY <1>1, <2>2 DEF Least
  <2>4. Admits(low)
    <3>1. PICK q \in Nat : q = total \div n
      BY <2>2
    <3>2. n * low <= n * q
      <4> HIDE DEF n, low
      <4> QED
        BY <2>1, <2>3, <3>1
    <3>3. n * low - total <= 0
      <4> HIDE DEF n, low, total
      <4> QED
        BY <2>1, <2>2, <2>3, <3>1, <3>2
    <3>4. n * low - total \in Int
      <4> HIDE DEF n, low, total
      <4> QED
        BY <2>1, <2>3
    <3>5. 20 * (n * low - total) <= 0
      <4> HIDE DEF n, low, total
      <4> QED
        BY <3>3, <3>4
    <3> QED
      BY <3>5
  <2> DEFINE Enough == {t \in low..Ceiling : Stops(t)}
  <2> HIDE DEF low, Admits
  <2>5. Enough \subseteq Nat /\ Ceiling \in Enough
    BY <1>1, <2>3
  <2>6. PICK t \in Enough : \A u \in Enough : ~ (u < t)
    <3>1. PICK t \in Enough : \A u \in Enough : <<u, t>> \notin OpToRel(<, Nat)
      <4> HIDE DEF Enough
      <4> QED
        BY <2>5, WFMin, NatLessThanWellFounded, Zenon
    <3>2. \A u \in Enough : ~ (u < t)
      <4> HIDE DEF Enough
      <4> QED
        BY <2>5, <3>1, Zenon DEF OpToRel
    <3> QED
      BY <3>2
  <2>7. t \in low..Ceiling /\ Admits(t)
    <3>1. CASE t = low
      BY <2>4, <3>1
    <3>2. CASE t # low
      <4>1. t - 1 \in low..Ceiling /\ t - 1 < t
        BY <1>1, <2>3, <2>6, <3>2
      <4>2. ~ Stops(t - 1)
        BY <2>6, <4>1
      <4> QED
        BY <4>1, <4>2, <2>5
    <3> QED
      BY <3>1, <3>2
  <2>8. \E u \in low..Ceiling : Admits(u) /\ Stops(u)
    BY <2>6, <2>7
  <2>9. WriterThreshold(f) = CHOOSE u \in low..Ceiling : Admits(u) /\ Stops(u)
    BY <1>3 DEF WriterThreshold, Admits, low
  <2>10. WriterThreshold(f) \in low..Ceiling
    BY <2>8, <2>9
  <2>11. n >= 2 /\ Spread(f) # 0
    BY <1>3, <2>1
  <2>12. low = Least(MeanDistance(f), Ceiling)
    BY DEF low, MeanDistance
  <2> HIDE DEF n
  <2> QED
    BY <1>1, <2>3, <2>10, <2>11, <2>12 DEF n
<1> QED
  BY <1>2, <1>3

LEMMA IntraTyped ==
  ASSUME NEW points, IsFiniteSet(DOMAIN points), \A i \in DOMAIN points : points[i] \in Nat
  PROVE  /\ IsFiniteSet(DOMAIN Intra(points))
         /\ \A p \in DOMAIN Intra(points) : Intra(points)[p] \in Nat
<1> DEFINE D == DOMAIN points
           P == {q \in D \X D : q[1] < q[2]}
<1>1. IsFiniteSet(P)
  <2>1. IsFiniteSet(D \X D)
    BY FS_Product
  <2> QED
    BY <2>1, FS_Subset
<1>2. Intra(points) = [p \in P |-> Apart(points[p[1]], points[p[2]])]
  BY DEF Intra
<1>3. \A p \in P : Apart(points[p[1]], points[p[2]]) \in Nat
  BY DEF Apart, Larger
<1> HIDE DEF P
<1> QED
  BY <1>1, <1>2, <1>3

(* What ScoresAgree asks of one score.                                     *)
Agrees(s) ==
  /\ s.threshold <= Ceiling
  /\ s.band = "valid" => s.verdict = "VALID" /\ s.confidence >= 8000
  /\ s.band = "fraud" => s.verdict = "FRAUD" /\ s.confidence < 8000
  /\ s.distance # s.threshold => (s.verdict = "VALID" <=> s.confidence >= 8000)

LEMMA JudgedAgrees ==
  ASSUME NEW d \in Nat, NEW t \in 0..Ceiling
  PROVE  Agrees(Judged(d, t))
<1>1. Ceiling \in Nat /\ Margin \in Nat /\ Margin > 0
  BY DecisionAssumption
<1>2. PICK c : c = Confidence(d, t)
  OBVIOUS
<1>3. (d # t => c \in Int) /\ (d < t => c >= 8000) /\ (d > t => c < 8000)
  BY <1>1, <1>2, ConfidenceSides
<1>4. Band(d, t) = "valid" => d < t
  BY <1>1 DEF Band
<1>5. Band(d, t) = "fraud" => d > t
  BY <1>1 DEF Band, Near
<1>6. Judged(d, t) = [distance |-> d, threshold |-> t, verdict |-> Verdict(d, t),
                      band |-> Band(d, t), confidence |-> c]
  BY <1>2 DEF Judged
<1> QED
  BY <1>1, <1>3, <1>4, <1>5, <1>6 DEF Agrees, Verdict

LEMMA DecideAgrees ==
  ASSUME NEW query \in Nat, NEW points, IsFiniteSet(DOMAIN points), DOMAIN points # {},
         \A i \in DOMAIN points : points[i] \in Nat
  PROVE  \A i \in DOMAIN Decide(query, points) : Agrees(Decide(query, points)[i])
<1> DEFINE D == DOMAIN points
           distances == [i \in D |-> Apart(query, points[i])]
           t == WriterThreshold(Intra(points))
           Distance(i) == IF i = 0 THEN MeanDistance(distances) ELSE distances[i]
<1>1. t \in 0..Ceiling
  BY IntraTyped, ThresholdTyped
<1>2. \A i \in D : distances[i] \in Nat
  BY DEF Apart, Larger
<1>3. MeanDistance(distances) \in Nat
  <2>1. Cardinality(D) \in Nat \ {0}
    BY FS_CardinalityType, FS_EmptySet
  <2>2. Total(distances) \in Nat
    <3> HIDE DEF distances
    <3>1. DOMAIN distances = D
      BY DEF distances
    <3> QED
      BY <1>2, <3>1, TotalNat
  <2>3. MeanDistance(distances) = Total(distances) \div Cardinality(D)
    BY DEF MeanDistance, Count
  <2> HIDE DEF D, distances
  <2> QED
    BY <2>1, <2>2, <2>3, Quotient
<1>4. \A i \in {0} \cup D : Distance(i) \in Nat
  BY <1>2, <1>3
<1>5. Decide(query, points) = [i \in {0} \cup D |-> Judged(Distance(i), t)]
  BY DEF Decide
<1>6. \A i \in {0} \cup D : Agrees(Judged(Distance(i), t))
  <2> HIDE DEF D, Distance, t
  <2> QED
    BY <1>1, <1>4, JudgedAgrees
<1> HIDE DEF D, Distance, t
<1> QED
  BY <1>5, <1>6

(* A verdict, its band and its confidence tell one story, for every writer *)
(* and every query, whatever the ceiling and the margin (decision.py).     *)
THEOREM ScoresAlwaysAgree == PipelineSpec => []ScoresAgree
<1>1. PipelineInit => ScoresAgree
  BY DEF PipelineInit, ScoresAgree, NoResult
<1>2. ScoresAgree /\ [PipelineNext]_pipelineVars => ScoresAgree'
  <2> SUFFICES ASSUME ScoresAgree, [PipelineNext]_pipelineVars PROVE ScoresAgree'
    OBVIOUS
  <2>1. CASE UNCHANGED result
    BY <2>1 DEF ScoresAgree
  <2>2. CASE result'.scores = <<>>
    BY <2>2 DEF ScoresAgree
  <2>3. CASE VerifyUpload
    <3>1. CASE \E outcome : Refuse(outcome)
      BY <2>2, <3>1 DEF Refuse, NoResult
    <3>2. ASSUME NEW vector \in Point, DOMAIN Usable(card') # {}, card' \in Cards,
                 result'.scores = Decide(vector, Usable(card'))
          PROVE  ScoresAgree'
      <4>1. PICK n \in 0..MaxReferences : card' \in [1..n -> Point \cup {Damaged}]
        BY <3>2 DEF Cards
      <4>2. PICK points : points = Usable(card')
        OBVIOUS
      <4>3. DOMAIN points \subseteq 1..n /\ \A i \in DOMAIN points : points[i] \in Nat
        BY <4>1, <4>2, PageAssumption DEF Usable
      <4>4. IsFiniteSet(DOMAIN points)
        BY <4>3, FS_Interval, FS_Subset
      <4>5. vector \in Nat
        BY PageAssumption
      <4>6. \A i \in DOMAIN result'.scores : Agrees(result'.scores[i])
        BY <3>2, <4>2, <4>3, <4>4, <4>5, DecideAgrees
      <4> QED
        BY <4>6 DEF ScoresAgree, Agrees
    <3>3. card' \in Cards
      BY <2>3 DEF VerifyUpload
    <3>4. \/ \E outcome : Refuse(outcome)
          \/ /\ DOMAIN Usable(card') # {}
             /\ \E vector \in Point :
                  result' = [outcome |-> "verdict",
                             query |-> IsolateSignatureInk(pick.image),
                             compared |-> Normalised(IsolateSignatureInk(pick.image)),
                             scores |-> Decide(vector, Usable(card'))]
      BY <2>3, Zenon DEF VerifyUpload
    <3> QED
      BY <3>1, <3>2, <3>3, <3>4
  <2>4. CASE RefuseUpload \/ FindRegions
    BY <2>1, <2>2, <2>4 DEF RefuseUpload, FindRegions, Refuse, NoResult
  <2> QED
    BY <2>1, <2>3, <2>4
       DEF PipelineNext, pipelineVars, PickWhole, SubmitUnseen, PickRegion
<1> QED
  BY <1>1, <1>2, PTL DEF PipelineSpec

-----------------------------------------------------------------------------
(* Blobs *)

MarkType == [x : Int, y : Int, w : Nat \ {0}, h : Nat \ {0}, ink : Nat, line : BOOLEAN]

(* A finite set under a total order has a first member.                    *)
LEMMA FirstOf ==
  ASSUME NEW S, IsFiniteSet(S), S # {}, NEW R,
         \A a, b \in S : <<a, b>> \in R \/ <<b, a>> \in R,
         \A a, b, c \in S : <<a, b>> \in R /\ <<b, c>> \in R => <<a, c>> \in R
  PROVE  \E a \in S : \A b \in S : <<a, b>> \in R
<1> DEFINE B == {s \in SUBSET S : s # {} /\ ~ \E a \in s : \A b \in s : <<a, b>> \in R}
<1> SUFFICES ASSUME B # {} PROVE FALSE
  OBVIOUS
<1>1. PICK s \in B : \A r \in B : r \subseteq s => r = s
  <2>1. B \subseteq SUBSET S
    OBVIOUS
  <2> HIDE DEF B
  <2> QED
    BY <2>1, Smallest
<1>2. PICK x \in s : TRUE
  OBVIOUS
<1>3. CASE s = {x}
  BY <1>3
<1>4. CASE s # {x}
  <2>1. s \ {x} # {} /\ s \ {x} # s /\ s \ {x} \subseteq s
    BY <1>2, <1>4
  <2>2. PICK a \in s \ {x} : \A b \in s \ {x} : <<a, b>> \in R
    <3>1. s \ {x} \in SUBSET S /\ s \ {x} \notin B
      BY <1>1, <2>1
    <3> QED
      BY <2>1, <3>1
  <2>3. CASE <<a, x>> \in R
    BY <2>2, <2>3
  <2>4. CASE <<x, a>> \in R
    <3>1. \A b \in s \ {x} : <<x, b>> \in R
      BY <2>2, <2>4
    <3>2. <<x, x>> \in R
      OBVIOUS
    <3> QED
      BY <1>2, <3>1, <3>2
  <2> QED
    BY <1>2, <2>3, <2>4
<1> QED
  BY <1>3, <1>4

LEMMA InGroups ==
  ASSUME NEW M, NEW dx, NEW dy, NEW S \in Groups(M, dx, dy)
  PROVE  /\ S \subseteq M /\ S # {}
         /\ \A a \in S, b \in M \ S : ~ Joins(a, b, dx, dy)
         /\ \A T \in SUBSET S : T # {} /\ T # S => \E a \in T, b \in S \ T : Joins(a, b, dx, dy)
BY DEF Groups

(* Of two groups that meet, one in a part of the marks, each lies in the   *)
(* other.                                                                  *)
LEMMA MeetingGroups ==
  ASSUME NEW M, NEW N, N \subseteq M, NEW dx, NEW dy,
         NEW G \in Groups(M, dx, dy), G \subseteq N, NEW S \in Groups(N, dx, dy), G \cap S # {}
  PROVE  S = G
<1>1. G \subseteq S
  <2> SUFFICES ASSUME G \cap S # G PROVE FALSE
    OBVIOUS
  <2>1. PICK a \in G \cap S, b \in G \ (G \cap S) : Joins(a, b, dx, dy)
    <3>1. \A T \in SUBSET G : T # {} /\ T # G => \E a \in T, b \in G \ T : Joins(a, b, dx, dy)
      BY InGroups
    <3>2. G \cap S \in SUBSET G
      OBVIOUS
    <3> QED
      BY <3>1, <3>2
  <2> QED
    BY <2>1, InGroups
<1>2. S \subseteq G
  <2> SUFFICES ASSUME G \cap S # S PROVE FALSE
    OBVIOUS
  <2>1. PICK a \in G \cap S, b \in S \ (G \cap S) : Joins(a, b, dx, dy)
    <3>1. \A T \in SUBSET S : T # {} /\ T # S => \E a \in T, b \in S \ T : Joins(a, b, dx, dy)
      BY InGroups
    <3>2. G \cap S \in SUBSET S
      OBVIOUS
    <3> QED
      BY <3>1, <3>2
  <2>2. a \in G /\ b \in M \ G
    BY <2>1, InGroups
  <2> QED
    BY <2>1, <2>2, InGroups
<1> QED
  BY <1>1, <1>2

(* Marks that are some of the groups fall into the same groups again.      *)
LEMMA GroupsAgain ==
  ASSUME NEW M, NEW dx, NEW dy, NEW K, K \subseteq Groups(M, dx, dy)
  PROVE  Groups(UNION K, dx, dy) = K
<1>1. UNION K \subseteq M
  BY InGroups
<1>2. K \subseteq Groups(UNION K, dx, dy)
  <2> SUFFICES ASSUME NEW S \in K PROVE S \in Groups(UNION K, dx, dy)
    OBVIOUS
  <2>1. S \subseteq UNION K /\ S # {}
    BY InGroups
  <2>2. \A a \in S, b \in (UNION K) \ S : ~ Joins(a, b, dx, dy)
    BY <1>1, InGroups
  <2>3. \A T \in (SUBSET S) \ {{}, S} : \E a \in T, b \in S \ T : Joins(a, b, dx, dy)
    BY InGroups
  <2> QED
    BY <2>1, <2>2, <2>3 DEF Groups
<1>3. Groups(UNION K, dx, dy) \subseteq K
  <2> SUFFICES ASSUME NEW S \in Groups(UNION K, dx, dy) PROVE S \in K
    OBVIOUS
  <2>1. PICK a \in S, G \in K : a \in G
    BY InGroups
  <2>2. S = G
    BY <1>1, <2>1, MeetingGroups
  <2> QED
    BY <2>2
<1> QED
  BY <1>2, <1>3

LEMMA InkTyped ==
  ASSUME NEW S, IsFiniteSet(S), S \subseteq MarkType
  PROVE  Ink(S) \in Nat
<1> DEFINE f == [m \in S |-> m.ink]
<1>1. DOMAIN f = S /\ \A m \in S : f[m] \in Nat
  BY DEF MarkType
<1>2. Ink(S) = Total(f)
  BY DEF Ink
<1> HIDE DEF f
<1> QED
  BY <1>1, <1>2, TotalNat

Leads(blobs, b) ==
  \A c \in blobs \ {b} :
    \/ Ink(b) > Ink(c)
    \/ Ink(b) = Ink(c) /\ \E m \in b : \A n \in c : MetBefore(m, n)

(* Two blobs cannot both come first.                                       *)
LEMMA OneLeads ==
  ASSUME NEW blobs, \A b \in blobs : Ink(b) \in Nat /\ b \subseteq MarkType,
         NEW b \in blobs, NEW c \in blobs, Leads(blobs, b), Leads(blobs, c)
  PROVE  b = c
<1> SUFFICES ASSUME b # c PROVE FALSE
  OBVIOUS
<1>1. Ink(b) \in Nat /\ Ink(c) \in Nat
  OBVIOUS
<1>2. Ink(b) > Ink(c) \/ (Ink(b) = Ink(c) /\ \E m \in b : \A n \in c : MetBefore(m, n))
  BY DEF Leads
<1>3. Ink(c) > Ink(b) \/ (Ink(c) = Ink(b) /\ \E m \in c : \A n \in b : MetBefore(m, n))
  BY DEF Leads
<1>4. PICK m \in b, n \in c : MetBefore(m, n) /\ MetBefore(n, m)
  BY <1>1, <1>2, <1>3
<1>5. m.x \in Int /\ m.y \in Int /\ n.x \in Int /\ n.y \in Int
  BY DEF MarkType
<1> QED
  BY <1>4, <1>5 DEF MetBefore

(* Among finitely many blobs one comes first.                              *)
LEMMA SomeLeads ==
  ASSUME NEW M, IsFiniteSet(M), M \subseteq MarkType,
         NEW blobs, blobs \subseteq Groups(M, 9, 9), blobs # {}
  PROVE  \E b \in blobs : Leads(blobs, b)
<1>1. \A b \in blobs : b \subseteq M /\ b # {} /\ IsFiniteSet(b) /\ Ink(b) \in Nat
  <2> SUFFICES ASSUME NEW b \in blobs PROVE b \subseteq M /\ b # {} /\ IsFiniteSet(b) /\ Ink(b) \in Nat
    OBVIOUS
  <2>1. b \subseteq M /\ b # {}
    BY InGroups
  <2>2. IsFiniteSet(b)
    BY <2>1, FS_Subset
  <2> QED
    BY <2>1, <2>2, InkTyped
<1>2. IsFiniteSet(blobs)
  <2>1. blobs \in SUBSET (SUBSET M)
    BY <1>1
  <2>2. IsFiniteSet(SUBSET M)
    BY FS_SUBSET
  <2> QED
    BY <2>1, <2>2, FS_Subset
<1>3. PICK x \in blobs : \A c \in blobs : Ink(x) >= Ink(c)
  <2> DEFINE R == {p \in blobs \X blobs : Ink(p[1]) >= Ink(p[2])}
  <2>1. \A a, b \in blobs : <<a, b>> \in R <=> Ink(a) >= Ink(b)
    OBVIOUS
  <2>2. \A a, b \in blobs : <<a, b>> \in R \/ <<b, a>> \in R
    <3> HIDE DEF R
    <3> SUFFICES ASSUME NEW a \in blobs, NEW b \in blobs PROVE Ink(a) >= Ink(b) \/ Ink(b) >= Ink(a)
      BY <2>1
    <3> QED
      BY <1>1
  <2>3. \A a, b, c \in blobs : <<a, b>> \in R /\ <<b, c>> \in R => <<a, c>> \in R
    <3> HIDE DEF R
    <3> SUFFICES ASSUME NEW a \in blobs, NEW b \in blobs, NEW c \in blobs, Ink(a) >= Ink(b), Ink(b) >= Ink(c)
                 PROVE  Ink(a) >= Ink(c)
      BY <2>1
    <3> QED
      BY <1>1
  <2>4. \E a \in blobs : \A b \in blobs : <<a, b>> \in R
    <3> HIDE DEF R
    <3> QED
      BY <1>2, <2>2, <2>3, FirstOf
  <2> QED
    BY <2>1, <2>4
<1> DEFINE largest == {c \in blobs : Ink(c) = Ink(x)}
           U == UNION largest
<1>4. U \subseteq MarkType /\ U # {} /\ IsFiniteSet(U)
  <2>1. U \subseteq M /\ U # {}
    BY <1>1
  <2> QED
    BY <2>1, FS_Subset
<1>5. PICK m \in U : \A n \in U : MetBefore(m, n) \/ (m.x = n.x /\ m.y = n.y)
  <2> DEFINE R == {p \in U \X U : MetBefore(p[1], p[2]) \/ (p[1].x = p[2].x /\ p[1].y = p[2].y)}
  <2>1. \A m, n \in U : <<m, n>> \in R <=> MetBefore(m, n) \/ (m.x = n.x /\ m.y = n.y)
    OBVIOUS
  <2> HIDE DEF R, U
  <2>2. \A m \in U : m.x \in Int /\ m.y \in Int
    BY <1>4 DEF MarkType
  <2>3. \A a, b \in U : <<a, b>> \in R \/ <<b, a>> \in R
    <3> SUFFICES ASSUME NEW a \in U, NEW b \in U
                 PROVE  \/ MetBefore(a, b) \/ (a.x = b.x /\ a.y = b.y)
                        \/ MetBefore(b, a) \/ (b.x = a.x /\ b.y = a.y)
      BY <2>1
    <3> QED
      BY <2>2 DEF MetBefore
  <2>4. \A a, b, c \in U : <<a, b>> \in R /\ <<b, c>> \in R => <<a, c>> \in R
    <3> SUFFICES ASSUME NEW a \in U, NEW b \in U, NEW c \in U,
                        MetBefore(a, b) \/ (a.x = b.x /\ a.y = b.y),
                        MetBefore(b, c) \/ (b.x = c.x /\ b.y = c.y)
                 PROVE  MetBefore(a, c) \/ (a.x = c.x /\ a.y = c.y)
      BY <2>1
    <3> QED
      BY <2>2 DEF MetBefore
  <2>5. \E a \in U : \A b \in U : <<a, b>> \in R
    BY <1>4, <2>3, <2>4, FirstOf
  <2>6. PICK a \in U : \A b \in U : <<a, b>> \in R
    BY <2>5
  <2>7. \A b \in U : MetBefore(a, b) \/ (a.x = b.x /\ a.y = b.y)
    BY <2>1, <2>6
  <2> QED
    BY <2>7
<1>6. PICK b \in largest : m \in b
  OBVIOUS
<1>7. ASSUME NEW c \in blobs \ {b}
      PROVE  Ink(b) > Ink(c) \/ (Ink(b) = Ink(c) /\ \A n \in c : MetBefore(m, n))
  <2>1. CASE Ink(c) # Ink(x)
    BY <1>1, <1>3, <1>6, <2>1
  <2>2. CASE Ink(c) = Ink(x)
    <3> SUFFICES ASSUME NEW n \in c PROVE MetBefore(m, n)
      BY <2>2
    <3>1. n \in U
      BY <2>2
    <3>2. CASE m.x = n.x /\ m.y = n.y
      <4>1. n \notin b
        <5>1. ASSUME n \in b PROVE c = b
          BY <5>1, MeetingGroups, InGroups
        <5> QED
          BY <5>1
      <4>2. Joins(m, n, 9, 9)
        <5>1. m.x \in Int /\ m.y \in Int /\ m.w \in Nat /\ m.h \in Nat /\ n.w \in Nat /\ n.h \in Nat
          BY <1>4, <3>1 DEF MarkType
        <5> QED
          BY <3>2, <5>1 DEF Joins, GapX, GapY, Larger
      <4>3. n \in M
        BY <1>1
      <4>4. \A a \in b, d \in M \ b : ~ Joins(a, d, 9, 9)
        BY <1>6, InGroups
      <4> QED
        BY <1>6, <4>1, <4>2, <4>3, <4>4
    <3> QED
      BY <1>5, <3>1, <3>2
  <2> QED
    BY <2>1, <2>2
<1> QED
  BY <1>6, <1>7 DEF Leads

LEMMA DominantLeads ==
  ASSUME NEW blobs, \E b \in blobs : Leads(blobs, b)
  PROVE  Dominant(blobs) \in blobs /\ Leads(blobs, Dominant(blobs))
<1>1. Dominant(blobs) = CHOOSE b \in blobs : Leads(blobs, b)
  BY DEF Dominant, Leads
<1> QED
  BY <1>1

-----------------------------------------------------------------------------
(* Cleaning *)

Proper(img) ==
  /\ img \in [x : Int, y : Int, w : Int, h : Int, light : {"even", "shadow", "dark"},
              marks : SUBSET MarkType]
  /\ IsFiniteSet(img.marks)

Blobs(img) == Groups(img.marks \ Lines(img, img.w), 9, 9)

Kept(blobs, main) ==
  {b \in blobs : 4 * Ink(b) >= Ink(main) \/ BelongsTo(Box(b), Box(main))}

LEMMA IsolateIs ==
  ASSUME NEW img
  PROVE  IsolateSignatureInk(img) =
           IF Blobs(img) = {} \/ Kept(Blobs(img), Dominant(Blobs(img))) = Blobs(img)
           THEN Flatten(img)
           ELSE [Flatten(img) EXCEPT !.marks = UNION Kept(Blobs(img), Dominant(Blobs(img)))]
BY DEF IsolateSignatureInk, Blobs, Kept

(* The blobs of an image have a first one, and it stays.                   *)
LEMMA DominantStays ==
  ASSUME NEW img, Proper(img), Blobs(img) # {}
  PROVE  LET blobs == Blobs(img)
         IN  /\ \A b \in blobs : Ink(b) \in Nat /\ b \subseteq MarkType
             /\ Dominant(blobs) \in Kept(blobs, Dominant(blobs))
             /\ Leads(blobs, Dominant(blobs))
<1> DEFINE M == img.marks \ Lines(img, img.w)
           blobs == Blobs(img)
<1>1. IsFiniteSet(M) /\ M \subseteq MarkType
  <2>1. M \subseteq img.marks
    OBVIOUS
  <2> QED
    BY <2>1, FS_Subset DEF Proper
<1>2. blobs = Groups(M, 9, 9)
  BY DEF Blobs
<1> HIDE DEF M, blobs
<1>3. \A b \in blobs : Ink(b) \in Nat /\ b \subseteq MarkType
  <2> SUFFICES ASSUME NEW b \in blobs PROVE Ink(b) \in Nat /\ b \subseteq MarkType
    OBVIOUS
  <2>1. b \subseteq M
    BY <1>2, InGroups
  <2> QED
    BY <1>1, <2>1, FS_Subset, InkTyped
<1>4. PICK main : main = Dominant(blobs)
  OBVIOUS
<1>5. main \in blobs /\ Leads(blobs, main)
  <2>1. blobs # {}
    BY DEF blobs
  <2> QED
    BY <1>1, <1>2, <1>4, <2>1, SomeLeads, DominantLeads
<1>6. 4 * Ink(main) >= Ink(main)
  BY <1>3, <1>5
<1> QED
  BY <1>3, <1>4, <1>5, <1>6 DEF Kept, blobs

(* Cleaning an image once more changes nothing, whatever marks, lines and  *)
(* light it has: "cleanup is a no-op on those" (verification.py:234-238).  *)
THEOREM CleanedOnce ==
  ASSUME NEW img, Proper(img)
  PROVE  LET clean == IsolateSignatureInk(img)
         IN  /\ Proper(clean) /\ clean.light = "even"
             /\ IsolateSignatureInk(clean) = clean
<1> DEFINE blobs == Blobs(img)
           main == Dominant(blobs)
           keep == Kept(blobs, main)
<1>1. PICK clean : clean = IsolateSignatureInk(img)
  OBVIOUS
<1>2. CASE blobs = {} \/ keep = blobs
  <2>1. clean = Flatten(img)
    BY <1>1, <1>2, IsolateIs
  <2>2. Proper(clean) /\ clean.light = "even" /\ clean.marks = img.marks /\ clean.w = img.w
    BY <2>1 DEF Flatten, Proper
  <2>3. Flatten(clean) = clean
    BY <2>2 DEF Flatten, Proper
  <2>4. Blobs(clean) = blobs
    BY <2>2 DEF Blobs, Lines
  <2>5. IsolateSignatureInk(clean) = clean
    BY <1>2, <2>3, <2>4, IsolateIs
  <2> QED
    BY <1>1, <2>2, <2>5
<1>3. CASE ~ (blobs = {} \/ keep = blobs)
  <2>1. clean = [Flatten(img) EXCEPT !.marks = UNION keep]
    BY <1>1, <1>3, IsolateIs
  <2>2. keep \subseteq blobs
    BY DEF Kept
  <2>3. UNION keep \subseteq img.marks \ Lines(img, img.w)
    <3>1. \A b \in blobs : b \subseteq img.marks \ Lines(img, img.w)
      BY InGroups DEF Blobs
    <3> QED
      BY <2>2, <3>1
  <2>4. IsFiniteSet(UNION keep)
    BY <2>3, FS_Subset DEF Proper
  <2>5. Proper(clean) /\ clean.light = "even" /\ clean.marks = UNION keep /\ clean.w = img.w
    <3> HIDE DEF keep
    <3> QED
      BY <2>1, <2>3, <2>4 DEF Flatten, Proper
  <2>6. Flatten(clean) = clean
    BY <2>5 DEF Flatten, Proper
  <2>7. Lines(clean, clean.w) = {}
    <3> HIDE DEF keep
    <3> QED
      BY <2>3, <2>5 DEF Lines
  <2>8. Blobs(clean) = keep
    <3>1. Blobs(clean) = Groups(UNION keep, 9, 9)
      BY <2>5, <2>7 DEF Blobs
    <3>2. keep \subseteq Groups(img.marks \ Lines(img, img.w), 9, 9)
      BY <2>2 DEF Blobs
    <3> HIDE DEF keep
    <3> QED
      BY <3>1, <3>2, GroupsAgain
  <2>9. Dominant(keep) = main
    <3>1. /\ \A b \in blobs : Ink(b) \in Nat /\ b \subseteq MarkType
          /\ main \in keep /\ Leads(blobs, main)
      <4>1. blobs # {}
        BY <1>3
      <4> QED
        BY <4>1, DominantStays
    <3> HIDE DEF keep, main, blobs
    <3>2. Leads(keep, main)
      BY <2>2, <3>1 DEF Leads
    <3>3. Dominant(keep) \in keep /\ Leads(keep, Dominant(keep))
      BY <3>1, <3>2, DominantLeads
    <3> QED
      BY <2>2, <3>1, <3>2, <3>3, OneLeads
  <2>10. Kept(keep, main) = keep
    BY DEF Kept
  <2>11. IsolateSignatureInk(clean) = clean
    <3> HIDE DEF keep, main
    <3> QED
      BY <2>6, <2>8, <2>9, <2>10, IsolateIs
  <2> QED
    BY <1>1, <2>5, <2>11
<1> QED
  BY <1>2, <1>3

-----------------------------------------------------------------------------
(* Regions cut out of a page *)

OnPage(m) ==
  /\ m \in MarkType /\ m.x >= 0 /\ m.y >= 0
  /\ m.x + m.w <= PageWidth /\ m.y + m.h <= PageHeight

LEMMA Extremes ==
  ASSUME NEW S, IsFiniteSet(S), S # {}, S \subseteq Int
  PROVE  /\ Min(S) \in S /\ \A x \in S : Min(S) <= x
         /\ Max(S) \in S /\ \A x \in S : Max(S) >= x
<1>1. \E x \in S : \A y \in S : x <= y
  <2> DEFINE R == {p \in S \X S : p[1] <= p[2]}
  <2>1. \A a, b \in S : <<a, b>> \in R <=> a <= b
    OBVIOUS
  <2> HIDE DEF R
  <2>2. \A a, b \in S : <<a, b>> \in R \/ <<b, a>> \in R
    <3> SUFFICES ASSUME NEW a \in S, NEW b \in S PROVE a <= b \/ b <= a
      BY <2>1
    <3> QED
      OBVIOUS
  <2>3. \A a, b, c \in S : <<a, b>> \in R /\ <<b, c>> \in R => <<a, c>> \in R
    <3> SUFFICES ASSUME NEW a \in S, NEW b \in S, NEW c \in S, a <= b, b <= c PROVE a <= c
      BY <2>1
    <3> QED
      OBVIOUS
  <2>4. PICK a \in S : \A b \in S : <<a, b>> \in R
    BY <2>2, <2>3, FirstOf
  <2> QED
    BY <2>1, <2>4
<1>2. \E x \in S : \A y \in S : x >= y
  <2> DEFINE R == {p \in S \X S : p[1] >= p[2]}
  <2>1. \A a, b \in S : <<a, b>> \in R <=> a >= b
    OBVIOUS
  <2> HIDE DEF R
  <2>2. \A a, b \in S : <<a, b>> \in R \/ <<b, a>> \in R
    <3> SUFFICES ASSUME NEW a \in S, NEW b \in S PROVE a >= b \/ b >= a
      BY <2>1
    <3> QED
      OBVIOUS
  <2>3. \A a, b, c \in S : <<a, b>> \in R /\ <<b, c>> \in R => <<a, c>> \in R
    <3> SUFFICES ASSUME NEW a \in S, NEW b \in S, NEW c \in S, a >= b, b >= c PROVE a >= c
      BY <2>1
    <3> QED
      OBVIOUS
  <2>4. PICK a \in S : \A b \in S : <<a, b>> \in R
    BY <2>2, <2>3, FirstOf
  <2> QED
    BY <2>1, <2>4
<1> QED
  BY <1>1, <1>2 DEF Min, Max

LEMMA ImageFinite ==
  ASSUME NEW S, NEW f, IsFiniteSet(S), f = [x \in S |-> f[x]]
  PROVE  IsFiniteSet({f[x] : x \in S})
<1>1. f \in Surjection(S, {f[x] : x \in S})
  BY DEF Surjection
<1> QED
  BY <1>1, FS_Surjection

(* Along one axis: what marks within 0..size span lies there too.          *)
LEMMA Spanned ==
  ASSUME NEW S, IsFiniteSet(S), S # {}, NEW size \in Int, NEW lo, NEW len,
         lo = [m \in S |-> lo[m]], len = [m \in S |-> len[m]],
         \A m \in S : lo[m] \in Nat /\ len[m] \in Nat \ {0} /\ lo[m] + len[m] <= size
  PROVE  LET span == Span({lo[m] : m \in S}, {lo[m] + len[m] : m \in S})
         IN  /\ span.at \in Nat /\ span.size \in Nat \ {0}
             /\ span.at + span.size <= size
<1> DEFINE Lo == {lo[m] : m \in S}
           end == [m \in S |-> lo[m] + len[m]]
           Hi == {end[m] : m \in S}
<1>1. IsFiniteSet(Lo) /\ Lo # {} /\ Lo \subseteq Int
  BY ImageFinite
<1>2. IsFiniteSet(Hi) /\ Hi # {} /\ Hi \subseteq Int
  <2>1. IsFiniteSet(Hi)
    <3>1. end = [m \in S |-> end[m]]
      OBVIOUS
    <3> HIDE DEF end
    <3> QED
      BY <3>1, ImageFinite
  <2> QED
    BY <2>1
<1>3. Hi = {lo[m] + len[m] : m \in S}
  OBVIOUS
<1>4. PICK a : a = Min(Lo)
  OBVIOUS
<1>5. PICK b : b = Max(Hi)
  OBVIOUS
<1>6. a \in Lo /\ \A x \in Lo : a <= x
  <2> HIDE DEF Lo
  <2> QED
    BY <1>1, <1>4, Extremes
<1>7. b \in Hi /\ \A x \in Hi : b >= x
  <2> HIDE DEF Hi
  <2> QED
    BY <1>2, <1>5, Extremes
<1>8. a \in Nat /\ b \in Nat /\ b <= size
  BY <1>6, <1>7
<1>9. b > a
  <2>1. PICK m \in S : TRUE
    OBVIOUS
  <2>2. a <= lo[m] /\ b >= lo[m] + len[m]
    BY <1>6, <1>7
  <2> QED
    BY <1>8, <2>2
<1>10. Span({lo[m] : m \in S}, {lo[m] + len[m] : m \in S}) = [at |-> a, size |-> b - a]
  <2> HIDE DEF Lo, Hi, end
  <2>1. Span(Lo, Hi) = [at |-> a, size |-> b - a]
    BY <1>4, <1>5 DEF Span
  <2> QED
    BY <1>3, <2>1 DEF Lo
<1> QED
  BY <1>8, <1>9, <1>10

LEMMA BoxOnPage ==
  ASSUME NEW S, IsFiniteSet(S), S # {}, \A m \in S : OnPage(m)
  PROVE  LET b == Box(S)
         IN  /\ b.x \in Nat /\ b.w \in Nat \ {0} /\ b.x + b.w <= PageWidth
             /\ b.y \in Nat /\ b.h \in Nat \ {0} /\ b.y + b.h <= PageHeight
<1> DEFINE xs == [m \in S |-> m.x]
           ws == [m \in S |-> m.w]
           ys == [m \in S |-> m.y]
           hs == [m \in S |-> m.h]
<1>1. \A m \in S : /\ m.x \in Nat /\ m.w \in Nat \ {0} /\ m.x + m.w <= PageWidth
                   /\ m.y \in Nat /\ m.h \in Nat \ {0} /\ m.y + m.h <= PageHeight
  BY DEF OnPage, MarkType
<1>2. PICK across : across = Span({m.x : m \in S}, {m.x + m.w : m \in S})
  OBVIOUS
<1>3. PICK down : down = Span({m.y : m \in S}, {m.y + m.h : m \in S})
  OBVIOUS
<1>4. PageWidth \in Int /\ PageHeight \in Int
  BY PageAssumption
<1>5. across.at \in Nat /\ across.size \in Nat \ {0} /\ across.at + across.size <= PageWidth
  <2>1. /\ xs = [m \in S |-> xs[m]] /\ ws = [m \in S |-> ws[m]]
        /\ \A m \in S : xs[m] \in Nat /\ ws[m] \in Nat \ {0} /\ xs[m] + ws[m] <= PageWidth
    BY <1>1
  <2>2. across = Span({xs[m] : m \in S}, {xs[m] + ws[m] : m \in S})
    BY <1>2
  <2> HIDE DEF xs, ws
  <2> QED
    BY <1>4, <2>1, <2>2, Spanned
<1>6. down.at \in Nat /\ down.size \in Nat \ {0} /\ down.at + down.size <= PageHeight
  <2>1. /\ ys = [m \in S |-> ys[m]] /\ hs = [m \in S |-> hs[m]]
        /\ \A m \in S : ys[m] \in Nat /\ hs[m] \in Nat \ {0} /\ ys[m] + hs[m] <= PageHeight
    BY <1>1
  <2>2. down = Span({ys[m] : m \in S}, {ys[m] + hs[m] : m \in S})
    BY <1>3
  <2> HIDE DEF ys, hs
  <2> QED
    BY <1>4, <2>1, <2>2, Spanned
<1> QED
  BY <1>2, <1>3, <1>5, <1>6 DEF Box

LEMMA CutProper ==
  ASSUME NEW marks, IsFiniteSet(marks), \A m \in marks : OnPage(m),
         NEW S \in SUBSET marks, S # {}
  PROVE  Proper(Cut(Page(marks, "even"), Box(S)))
<1> DEFINE img == Page(marks, "even")
           grown == [x |-> Box(S).x - 15, y |-> Box(S).y - 15, w |-> Box(S).w + 30, h |-> Box(S).h + 30]
           Part(m, frame) ==
             LET p == Within(m, frame)
             IN  [m EXCEPT !.x = p.x, !.y = p.y, !.w = p.w, !.h = p.h,
                           !.ink = (@ * p.w * p.h) \div (m.w * m.h)]
<1>1. PICK b : b = Box(S)
  OBVIOUS
<1>2. /\ b.x \in Nat /\ b.w \in Nat \ {0} /\ b.x + b.w <= PageWidth
      /\ b.y \in Nat /\ b.h \in Nat \ {0} /\ b.y + b.h <= PageHeight
  <2>1. IsFiniteSet(S)
    BY FS_Subset
  <2> QED
    BY <1>1, <2>1, BoxOnPage
<1>3. PageWidth \in Nat /\ PageHeight \in Nat
  BY PageAssumption
<1>4. PICK fx \in Int : fx = Larger(b.x - 15, 0)
  BY <1>2 DEF Larger
<1>5. PICK tx \in Int : tx = Least(b.x - 15 + (b.w + 30), 0 + PageWidth)
  BY <1>2, <1>3 DEF Least
<1>6. PICK fy \in Int : fy = Larger(b.y - 15, 0)
  BY <1>2 DEF Larger
<1>7. PICK ty \in Int : ty = Least(b.y - 15 + (b.h + 30), 0 + PageHeight)
  BY <1>2, <1>3 DEF Least
<1>8. PICK frame : frame = Within(grown, img)
  OBVIOUS
<1>9. frame = [x |-> fx, y |-> fy, w |-> tx - fx, h |-> ty - fy]
  BY <1>1, <1>4, <1>5, <1>6, <1>7, <1>8 DEF Within, Page
<1>10. ASSUME NEW m \in marks, Joins(m, frame, 0, 0) PROVE Part(m, frame) \in MarkType
  <2>1. /\ m \in MarkType /\ m.x \in Nat /\ m.y \in Nat /\ m.ink \in Nat
        /\ m.w \in Nat \ {0} /\ m.h \in Nat \ {0}
    BY DEF OnPage, MarkType
  <2>2. /\ m.x < fx + (tx - fx) /\ fx < m.x + m.w
        /\ m.y < fy + (ty - fy) /\ fy < m.y + m.h
    BY <1>9, <1>10, <2>1 DEF Joins, GapX, GapY, Larger
  <2>3. PICK p : p = Within(m, frame)
    OBVIOUS
  <2>4. p.x \in Nat /\ p.w \in Nat \ {0}
    <3>1. /\ Larger(m.x, fx) \in Nat
          /\ Least(m.x + m.w, fx + (tx - fx)) - Larger(m.x, fx) \in Nat \ {0}
      <4>1. ASSUME NEW at \in Nat, NEW len \in Nat \ {0}, NEW lo \in Nat, NEW ext \in Nat \ {0},
                   at + len <= PageWidth, fx = Larger(at - 15, 0),
                   tx = Least(at - 15 + (len + 30), 0 + PageWidth),
                   lo < fx + (tx - fx), fx < lo + ext
            PROVE  /\ Larger(lo, fx) \in Nat
                   /\ Least(lo + ext, fx + (tx - fx)) - Larger(lo, fx) \in Nat \ {0}
        BY <1>3, <4>1 DEF Larger, Least
      <4> QED
        BY <1>2, <1>4, <1>5, <2>1, <2>2, <4>1
    <3> QED
      BY <1>9, <2>3, <3>1 DEF Within
  <2>5. p.y \in Nat /\ p.h \in Nat \ {0}
    <3>1. /\ Larger(m.y, fy) \in Nat
          /\ Least(m.y + m.h, fy + (ty - fy)) - Larger(m.y, fy) \in Nat \ {0}
      <4>1. ASSUME NEW at \in Nat, NEW len \in Nat \ {0}, NEW lo \in Nat, NEW ext \in Nat \ {0},
                   at + len <= PageHeight, fy = Larger(at - 15, 0),
                   ty = Least(at - 15 + (len + 30), 0 + PageHeight),
                   lo < fy + (ty - fy), fy < lo + ext
            PROVE  /\ Larger(lo, fy) \in Nat
                   /\ Least(lo + ext, fy + (ty - fy)) - Larger(lo, fy) \in Nat \ {0}
        BY <1>3, <4>1 DEF Larger, Least
      <4> QED
        BY <1>2, <1>6, <1>7, <2>1, <2>2, <4>1
    <3> QED
      BY <1>9, <2>3, <3>1 DEF Within
  <2>6. (m.ink * p.w * p.h) \div (m.w * m.h) \in Nat
    <3>1. m.ink * p.w * p.h \in Nat
      BY <2>1, <2>4, <2>5
    <3>2. m.w * m.h \in Nat \ {0}
      BY <2>1
    <3> QED
      BY <3>1, <3>2, Quotient
  <2>7. Part(m, frame) = [m EXCEPT !.x = p.x, !.y = p.y, !.w = p.w, !.h = p.h,
                                   !.ink = (m.ink * p.w * p.h) \div (m.w * m.h)]
    BY <2>1, <2>3 DEF MarkType
  <2>8. PICK ink \in Nat : ink = (m.ink * p.w * p.h) \div (m.w * m.h)
    BY <2>6
  <2>9. Part(m, frame) = [x |-> p.x, y |-> p.y, w |-> p.w, h |-> p.h, ink |-> ink, line |-> m.line]
    <3>1. m = [x |-> m.x, y |-> m.y, w |-> m.w, h |-> m.h, ink |-> m.ink, line |-> m.line]
      BY <2>1 DEF MarkType
    <3>2. Part(m, frame) = [m EXCEPT !.x = p.x, !.y = p.y, !.w = p.w, !.h = p.h, !.ink = ink]
      BY <2>7, <2>8, Zenon
    <3> HIDE DEF Part
    <3> QED
      BY <3>1, <3>2
  <2>10. m.line \in BOOLEAN
    BY <2>1 DEF MarkType
  <2> HIDE DEF Part
  <2> QED
    BY <2>4, <2>5, <2>8, <2>9, <2>10 DEF MarkType
<1> DEFINE within == {n \in marks : Joins(n, frame, 0, 0)}
           part == [m \in within |-> Part(m, frame)]
<1>11. IsFiniteSet({part[m] : m \in within})
  <2>1. IsFiniteSet(within)
    BY FS_Subset
  <2>2. part = [m \in within |-> part[m]]
    OBVIOUS
  <2> HIDE DEF part, within
  <2> QED
    BY <2>1, <2>2, ImageFinite
<1>12. {part[m] : m \in within} \subseteq MarkType
  BY <1>10
<1>13. {part[m] : m \in within} = {Part(m, frame) : m \in within}
  OBVIOUS
<1>14. Cut(img, Box(S)) =
         [img EXCEPT !.x = frame.x, !.y = frame.y, !.w = frame.w, !.h = frame.h,
                     !.marks = {Part(m, frame) : m \in within}]
  <2>1. img.marks = marks
    BY DEF Page
  <2> HIDE DEF img
  <2> QED
    BY <1>8, <2>1 DEF Cut
<1>15. img = [x |-> 0, y |-> 0, w |-> PageWidth, h |-> PageHeight, light |-> "even", marks |-> marks]
  BY DEF Page
<1>16. frame.x \in Int /\ frame.y \in Int /\ frame.w \in Int /\ frame.h \in Int
  BY <1>9
<1> HIDE DEF img, part, within, Part
<1>17. Cut(img, Box(S)) =
         [x |-> frame.x, y |-> frame.y, w |-> frame.w, h |-> frame.h, light |-> "even",
          marks |-> {part[m] : m \in within}]
  BY <1>13, <1>14, <1>15
<1>18. Proper([x |-> frame.x, y |-> frame.y, w |-> frame.w, h |-> frame.h, light |-> "even",
               marks |-> {part[m] : m \in within}])
  BY <1>11, <1>12, <1>16 DEF Proper
<1> QED
  BY <1>17, <1>18 DEF img

-----------------------------------------------------------------------------
(* From the photograph to the verdict *)

(* Cleaned, and left as it is by another cleaning.                         *)
Clean(img) == Proper(img) /\ img.light = "even" /\ IsolateSignatureInk(img) = img

(* Enough ink and not too much.                                            *)
Fit(img) == Ink(img.marks) >= 1500 /\ Sparse(img)

Photographed ==
  photo.file = "image" =>
    \E marks \in SUBSET Mark, light \in {"even", "shadow", "dark"} : photo.image = Page(marks, light)

PickInv ==
  /\ Photographed
  /\ \A r \in offer.regions : Clean(r) /\ (offer.found => Fit(r))
  /\ offer # NoOffer => /\ photo.file = "image"
                       /\ offer.whole = Normalised(IsolateSignatureInk(photo.image))
  /\ pick # NoPick => photo.file = "image" /\ pick.kind # "none"
  /\ pick.kind \in {"region", "frame"} => Clean(pick.image) /\ pick.seen = Normalised(pick.image)
  /\ pick.kind = "region" => Fit(pick.image)
  /\ pick.kind = "whole" => pick.seen = Normalised(IsolateSignatureInk(pick.image))
  /\ pick.kind \in {"none", "region", "frame", "whole", "unseen"}
  /\ pick = NoPick /\ offer # NoOffer => result = NoResult
  /\ pick = NoPick => result.outcome # "verdict"
  /\ PickStands

LEMMA PageProper ==
  ASSUME NEW marks \in SUBSET Mark, NEW light \in {"even", "shadow", "dark"}
  PROVE  /\ IsFiniteSet(marks) /\ \A m \in marks : OnPage(m)
         /\ Proper(Page(marks, light))
<1>1. IsFiniteSet(marks)
  BY PageAssumption, FS_Subset
<1>2. \A m \in marks : OnPage(m)
  BY PageAssumption DEF OnPage, MarkType
<1>3. marks \subseteq MarkType
  BY <1>2 DEF OnPage
<1> QED
  BY <1>1, <1>2, <1>3, PageAssumption DEF Proper, Page

LEMMA IsolatedClean ==
  ASSUME NEW img, Proper(img)
  PROVE  Clean(IsolateSignatureInk(img))
BY CleanedOnce DEF Clean

LEMMA AnchorsProper ==
  ASSUME NEW marks \in SUBSET Mark
  PROVE  \A r \in VerticalAnchors(Page(marks, "even")) : Proper(r)
<1>1. SUFFICES ASSUME NEW r \in VerticalAnchors(Page(marks, "even")) PROVE Proper(r)
  OBVIOUS
<1>2. Page(marks, "even").marks = marks
  BY DEF Page
<1>3. PICK S \in Groups({m \in marks : m.w >= 3 /\ m.h >= 3}, 100, 15) :
        r = Cut(Page(marks, "even"), Box(S))
  BY <1>1, <1>2 DEF VerticalAnchors
<1>4. S \subseteq marks /\ S # {}
  BY <1>3, InGroups
<1> QED
  BY <1>3, <1>4, PageProper, CutProper

(* Whatever is found in a photograph is clean and would be accepted.       *)
LEMMA CropsFit ==
  ASSUME NEW marks \in SUBSET Mark, NEW light \in {"even", "shadow", "dark"},
         NEW c \in CandidateCrops(Page(marks, light))
  PROVE  Clean(c) /\ Fit(c)
<1> DEFINE even == Flatten(Page(marks, light))
<1>1. even = Page(marks, "even")
  BY DEF Flatten, Page
<1>2. \/ \E r \in VerticalAnchors(even) : c = IsolateSignatureInk(r) /\ LooksLikeSignature(c)
      \/ c = IsolateSignatureInk(even) /\ Ink(c.marks) >= 1500 /\ Sparse(c)
  <2>1. PICK whole : whole = IsolateSignatureInk(even)
    OBVIOUS
  <2>2. PICK crops : crops = {d \in {IsolateSignatureInk(r) : r \in VerticalAnchors(even)} : LooksLikeSignature(d)}
    OBVIOUS
  <2>3. \/ c \in crops
        \/ c = whole /\ Ink(whole.marks) >= 1500 /\ Sparse(whole)
    <3>1. CandidateCrops(Page(marks, light)) =
            IF /\ Cardinality(crops) <= 3
               /\ Cardinality(crops) # 1 \/ Cardinality(crops) < Cardinality(VerticalAnchors(even))
               /\ Ink(whole.marks) >= 1500 /\ Sparse(whole)
            THEN crops \cup {whole} ELSE crops
      BY <2>1, <2>2 DEF CandidateCrops
    <3> QED
      BY <3>1
  <2> QED
    BY <2>1, <2>2, <2>3
<1> HIDE DEF even
<1>3. CASE \E r \in VerticalAnchors(even) : c = IsolateSignatureInk(r) /\ LooksLikeSignature(c)
  BY <1>1, <1>3, AnchorsProper, IsolatedClean DEF LooksLikeSignature, Fit
<1>4. CASE c = IsolateSignatureInk(even) /\ Ink(c.marks) >= 1500 /\ Sparse(c)
  BY <1>1, <1>4, PageProper, IsolatedClean DEF Fit
<1> QED
  BY <1>2, <1>3, <1>4

(* What is clean and fit passes the check on the photograph's quality.     *)
LEMMA FitIsGood ==
  ASSUME NEW img, Clean(img), Fit(img)
  PROVE  GoodQuality(img)
<1>1. img.w \in Int /\ img.h \in Int /\ img.light = "even"
  BY DEF Clean, Proper
<1>2. Ink(img.marks) \in Nat
  BY InkTyped DEF Clean, Proper
<1>3. PICK ink \in Nat, area \in Int : ink = Ink(img.marks) /\ area = img.w * img.h
  BY <1>1, <1>2
<1>4. 10 * ink <= 6 * img.w * img.h /\ ink >= 1500
  BY <1>3 DEF Fit, Sparse
<1>5. 6 * img.w * img.h = 6 * area /\ 80 * img.w * img.h = 80 * area
  BY <1>1, <1>3
<1>6. 255 * (area - ink) >= 80 * area
  BY <1>4, <1>5
<1> QED
  BY <1>1, <1>3, <1>4, <1>5, <1>6 DEF GoodQuality

LEMMA FindKeeps ==
  PickInv /\ FindRegions => PickInv'
<1> SUFFICES ASSUME PickInv, FindRegions PROVE PickInv'
  OBVIOUS
<1>1. /\ result = NoResult /\ offer = NoOffer /\ pick = NoPick /\ photo.file = "image"
      /\ photo' = photo /\ pick' = pick /\ card' = card
  BY DEF FindRegions
<1>2. PICK marks \in SUBSET Mark, light \in {"even", "shadow", "dark"} : photo.image = Page(marks, light)
  BY <1>1 DEF PickInv, Photographed
<1>3. CASE result' = result /\ offer' # offer
  <2> DEFINE crops == CandidateCrops(photo.image)
             bare == IsolateSignatureInk(Flatten(photo.image))
  <2>1. PICK regions \in Foremost(IF crops = {} THEN {bare} ELSE crops) :
          offer' = [regions |-> regions, found |-> crops # {},
                    whole |-> Normalised(IsolateSignatureInk(photo.image))]
    BY <1>3 DEF FindRegions
  <2>2. regions \subseteq (IF crops = {} THEN {bare} ELSE crops)
    BY DEF Foremost
  <2>3. \A r \in crops : Clean(r) /\ Fit(r)
    BY <1>2, CropsFit
  <2>4. Clean(bare)
    <3>1. Flatten(photo.image) = Page(marks, "even")
      BY <1>2 DEF Flatten, Page
    <3> QED
      BY <3>1, PageProper, IsolatedClean
  <2> HIDE DEF crops, bare
  <2>5. \A r \in offer'.regions : Clean(r) /\ (offer'.found => Fit(r))
    BY <2>1, <2>2, <2>3, <2>4
  <2>6. offer'.whole = Normalised(IsolateSignatureInk(photo.image))
    BY <2>1
  <2> QED
    BY <1>1, <1>3, <2>5, <2>6 DEF PickInv, Photographed, PickStands
<1>4. CASE offer' = offer
  <2>1. result' = result \/ \E outcome : outcome = "INVALID_IMAGE" /\ Refuse(outcome)
    BY <1>4 DEF FindRegions
  <2>2. result'.outcome # "verdict" /\ NoPick.kind = "none"
    BY <1>1, <2>1 DEF Refuse, NoResult, NoPick
  <2> QED
    BY <1>1, <1>4, <2>2 DEF PickInv, Photographed, PickStands
<1> QED
  BY <1>3, <1>4 DEF FindRegions

LEMMA PickKeeps ==
  ASSUME PickInv, NEW kind, NEW image, NEW seen,
         pick = NoPick, pick' = [kind |-> kind, image |-> image, seen |-> seen],
         photo' = photo, offer' = offer, result' = result, photo.file = "image",
         result = NoResult,
         \/ /\ kind \in {"region", "frame"} /\ Clean(image) /\ seen = Normalised(image)
            /\ kind = "region" => Fit(image)
         \/ kind = "whole" /\ seen = Normalised(IsolateSignatureInk(image))
         \/ kind = "unseen"
  PROVE  PickInv'
<1>1. pick'.kind = kind /\ pick'.image = image /\ pick'.seen = seen /\ pick' # NoPick
  BY DEF NoPick
<1>2. result'.outcome = "none"
  BY DEF NoResult
<1> QED
  BY <1>1, <1>2 DEF PickInv, Photographed, PickStands

LEMMA VerifyKeeps ==
  PickInv /\ VerifyUpload => PickInv'
<1> SUFFICES ASSUME PickInv, VerifyUpload PROVE PickInv'
  OBVIOUS
<1>1. /\ pick # NoPick /\ result = NoResult
      /\ photo' = photo /\ offer' = offer /\ pick' = pick
  BY DEF VerifyUpload
<1>2. \/ result'.outcome \in {"CUSTOMER_NOT_FOUND", "REFERENCES_UNREADABLE"}
      \/ result'.outcome = "INVALID_IMAGE" /\ ~ GoodQuality(pick.image)
      \/ /\ result'.outcome = "verdict"
         /\ result'.compared = Normalised(IsolateSignatureInk(pick.image))
  <2>1. \/ Refuse("CUSTOMER_NOT_FOUND")
        \/ Refuse("INVALID_IMAGE") /\ ~ GoodQuality(pick.image)
        \/ Refuse("REFERENCES_UNREADABLE")
        \/ \E vector \in Point :
             result' = [outcome |-> "verdict",
                        query |-> IsolateSignatureInk(pick.image),
                        compared |-> Normalised(IsolateSignatureInk(pick.image)),
                        scores |-> Decide(vector, Usable(card'))]
    BY Zenon DEF VerifyUpload
  <2> QED
    BY <2>1 DEF Refuse, NoResult
<1>3. pick.kind = "region" => result'.outcome # "INVALID_IMAGE"
  BY <1>2, FitIsGood DEF PickInv
<1>4. result'.outcome = "verdict" /\ pick.kind # "unseen" => result'.compared = pick.seen
  <2> SUFFICES ASSUME result'.outcome = "verdict", pick.kind # "unseen"
               PROVE  Normalised(IsolateSignatureInk(pick.image)) = pick.seen
    BY <1>2
  <2>1. CASE pick.kind \in {"region", "frame"}
    BY <2>1 DEF PickInv, Clean
  <2>2. CASE pick.kind = "whole"
    BY <2>2 DEF PickInv
  <2> QED
    BY <1>1, <2>1, <2>2 DEF PickInv
<1> QED
  BY <1>1, <1>3, <1>4 DEF PickInv, Photographed, PickStands

LEMMA PickStart == PipelineInit => PickInv
<1> SUFFICES ASSUME PipelineInit PROVE PickInv
  OBVIOUS
<1>1. Photographed
  BY DEF PipelineInit, Photographed
<1>2. offer = NoOffer /\ pick = NoPick /\ result = NoResult
  BY DEF PipelineInit
<1>3. offer.regions = {} /\ pick.kind = "none" /\ result.outcome = "none"
  BY <1>2 DEF NoOffer, NoPick, NoResult
<1> QED
  BY <1>1, <1>2, <1>3 DEF PickInv, PickStands

LEMMA PickStep == PickInv /\ [PipelineNext]_pipelineVars => PickInv'
<1> SUFFICES ASSUME PickInv, [PipelineNext]_pipelineVars PROVE PickInv'
  OBVIOUS
<1>1. CASE UNCHANGED pipelineVars
  BY <1>1 DEF pipelineVars, PickInv, Photographed, PickStands
<1>2. CASE RefuseUpload
  <2>1. /\ offer = NoOffer /\ pick = NoPick /\ result'.outcome # "verdict"
        /\ photo' = photo /\ offer' = offer /\ pick' = pick
    BY <1>2 DEF RefuseUpload, Refuse, NoResult, PickInv
  <2>2. pick.kind = "none"
    BY <2>1 DEF NoPick
  <2> QED
    BY <2>1, <2>2 DEF PickInv, Photographed, PickStands
<1>3. CASE FindRegions
  BY <1>3, FindKeeps
<1>4. ASSUME NEW r \in offer.regions, PickRegion(r) PROVE PickInv'
  <2>1. offer # NoOffer
    BY DEF NoOffer
  <2>2. photo.file = "image" /\ Clean(r) /\ (offer.found => Fit(r))
    BY <2>1 DEF PickInv
  <2>3. pick = NoPick /\ photo' = photo /\ offer' = offer /\ result' = result
    BY <1>4 DEF PickRegion
  <2>4. result = NoResult
    BY <2>1, <2>3 DEF PickInv
  <2>5. PICK kind \in {"region", "frame"} :
          /\ pick' = [kind |-> kind, image |-> r, seen |-> Normalised(r)]
          /\ kind = "region" => offer.found
    BY <1>4 DEF PickRegion
  <2> QED
    BY <2>2, <2>3, <2>4, <2>5, PickKeeps
<1>5. CASE PickWhole
  <2>1. /\ pick = NoPick /\ offer # NoOffer
        /\ pick' = [kind |-> "whole", image |-> photo.image, seen |-> offer.whole]
        /\ photo' = photo /\ offer' = offer /\ result' = result
    BY <1>5 DEF PickWhole
  <2>2. /\ photo.file = "image" /\ result = NoResult
        /\ offer.whole = Normalised(IsolateSignatureInk(photo.image))
    BY <2>1 DEF PickInv
  <2> QED
    BY <2>1, <2>2, PickKeeps
<1>6. CASE SubmitUnseen
  <2>1. /\ pick = NoPick /\ result = NoResult /\ photo.file = "image"
        /\ pick' = [kind |-> "unseen", image |-> photo.image, seen |-> Nothing]
        /\ photo' = photo /\ offer' = offer /\ result' = result
    BY <1>6 DEF SubmitUnseen
  <2> QED
    BY <2>1, PickKeeps
<1>7. CASE VerifyUpload
  BY <1>7, VerifyKeeps
<1> QED
  BY <1>1, <1>2, <1>3, <1>4, <1>5, <1>6, <1>7 DEF PipelineNext

(* A region that was found, offered and picked is never refused for its    *)
(* quality, and a verdict rests on the image its preview showed, for every *)
(* page, light and number of regions (routers/verify.py:60-108,            *)
(* services/verification.py:217-247).                                      *)
THEOREM PickAlwaysStands == PipelineSpec => []PickStands
<1>1. PickInv => PickStands
  BY DEF PickInv
<1> QED
  BY <1>1, PickStart, PickStep, PTL DEF PipelineSpec
-----------------------------------------------------------------------------
(* Sums over part of a domain *)

Part(f, s) == Total(Restrict(f, s))

(* Any member may be taken off a sum first.                                *)
Peels(f, D, g) == \A r \in SUBSET D : \A x \in r : g[r] = f[x] + g[r \ {x}]

LEMMA Exchange ==
  ASSUME NEW D, IsFiniteSet(D), NEW f, \A x \in D : f[x] \in Nat,
         NEW g \in [SUBSET D -> Nat], Sums(f, D, g)
  PROVE  Peels(f, D, g)
<1> DEFINE B == {r \in SUBSET D : \E x \in r : g[r] # f[x] + g[r \ {x}]}
<1> SUFFICES ASSUME B # {} PROVE FALSE
  BY DEF Peels
<1>1. PICK r \in B : \A q \in B : q \subseteq r => q = r
  <2>1. B \subseteq SUBSET D
    OBVIOUS
  <2> HIDE DEF B
  <2> QED
    BY <2>1, Smallest
<1>2. PICK x \in r : g[r] # f[x] + g[r \ {x}]
  OBVIOUS
<1>3. PICK c \in r : c = CHOOSE y \in r : TRUE
  OBVIOUS
<1>4. g[r] = f[c] + g[r \ {c}]
  BY <1>3 DEF Sums, Rest
<1>5. c # x
  BY <1>2, <1>4
<1>6. g[r \ {c}] = f[x] + g[(r \ {c}) \ {x}]
  <2>1. r \ {c} \in SUBSET D /\ r \ {c} \subseteq r /\ r \ {c} # r /\ x \in r \ {c}
    BY <1>5
  <2>2. r \ {c} \notin B
    BY <1>1, <2>1
  <2> QED
    BY <2>1, <2>2
<1>7. g[r \ {x}] = f[c] + g[(r \ {x}) \ {c}]
  <2>1. r \ {x} \in SUBSET D /\ r \ {x} \subseteq r /\ r \ {x} # r /\ c \in r \ {x}
    BY <1>5
  <2>2. r \ {x} \notin B
    BY <1>1, <2>1
  <2> QED
    BY <2>1, <2>2
<1>8. (r \ {x}) \ {c} = (r \ {c}) \ {x}
  OBVIOUS
<1>9. f[x] \in Nat /\ f[c] \in Nat /\ g[(r \ {c}) \ {x}] \in Nat
  OBVIOUS
<1>10. ASSUME NEW a \in Nat, NEW b \in Nat, NEW k \in Nat PROVE a + (b + k) = b + (a + k)
  OBVIOUS
<1> HIDE DEF B
<1>11. g[r] = f[c] + (f[x] + g[(r \ {c}) \ {x}])
  BY <1>4, <1>6
<1>12. g[r] = f[x] + (f[c] + g[(r \ {c}) \ {x}])
  BY <1>9, <1>10, <1>11
<1> QED
  BY <1>2, <1>7, <1>8, <1>12

(* The sum over a part is that of its members, taken in any order.         *)
Adds(f, D) ==
  /\ Part(f, {}) = 0
  /\ \A s \in SUBSET D : Part(f, s) \in Nat
  /\ \A s \in SUBSET D : \A x \in D \ s : Part(f, s \cup {x}) = f[x] + Part(f, s)

LEMMA PartAdds ==
  ASSUME NEW D, IsFiniteSet(D), NEW f, \A x \in D : f[x] \in Nat
  PROVE  Adds(f, D)
<1>1. PICK g \in [SUBSET D -> Nat] : Sums(f, D, g)
  <2>1. 0 \in Nat /\ \A a, b \in Nat : a + b \in Nat
    OBVIOUS
  <2> QED
    BY <2>1, SumsExist
<1>2. ASSUME NEW s \in SUBSET D PROVE Part(f, s) = g[s]
  <2> DEFINE e == Restrict(f, s)
  <2>1. DOMAIN e = s /\ IsFiniteSet(s) /\ \A x \in s : e[x] = f[x]
    BY FS_Subset DEF Restrict
  <2>2. ASSUME NEW r \in SUBSET s, r # {}
        PROVE  e[CHOOSE x \in r : TRUE] = f[CHOOSE x \in r : TRUE]
    <3>1. (CHOOSE x \in r : TRUE) \in r
      BY <2>2
    <3> QED
      BY <2>1, <3>1
  <2> HIDE DEF e
  <2>3. Sums(e, s, g)
    BY <1>1, <2>2 DEF Sums
  <2>4. Total(e) = g[s]
    BY <2>1, <2>3, TotalSums
  <2> QED
    BY <2>4 DEF Part, e
<1>3. g[{}] = 0
  BY <1>1 DEF Sums
<1>4. ASSUME NEW s \in SUBSET D, NEW x \in D, x \notin s PROVE g[s \cup {x}] = f[x] + g[s]
  <2>1. s \cup {x} \in SUBSET D /\ x \in s \cup {x} /\ (s \cup {x}) \ {x} = s
    BY <1>4
  <2>2. Peels(f, D, g)
    BY <1>1, Exchange
  <2>3. g[s \cup {x}] = f[x] + g[(s \cup {x}) \ {x}]
    BY <2>1, <2>2 DEF Peels
  <2> QED
    BY <2>1, <2>3
<1>5. ASSUME NEW s \in SUBSET D, NEW x \in D \ s PROVE Part(f, s \cup {x}) = f[x] + Part(f, s)
  BY <1>2, <1>4
<1> QED
  BY <1>1, <1>2, <1>3, <1>5 DEF Adds

(* Of the parts of D that are not in G, one holds no other.                *)
LEMMA FirstMissed ==
  ASSUME NEW D, IsFiniteSet(D), NEW G, D \notin G
  PROVE  \E s \in SUBSET D : IsFiniteSet(s) /\ s \notin G /\ \A x \in s : s \ {x} \in G
<1> DEFINE B == {s \in SUBSET D : s \notin G}
<1>1. PICK s \in B : \A q \in B : q \subseteq s => q = s
  <2>1. B \subseteq SUBSET D /\ B # {}
    OBVIOUS
  <2> HIDE DEF B
  <2> QED
    BY <2>1, Smallest
<1>2. ASSUME NEW x \in s PROVE s \ {x} \in G
  BY <1>1
<1>3. IsFiniteSet(s)
  BY FS_Subset
<1> QED
  BY <1>2, <1>3

(* What can be built one member at a time, every finite set has.           *)
LEMMA Built ==
  ASSUME NEW D, IsFiniteSet(D), NEW G, {} \in G,
         \A s \in SUBSET D : s \in G => \A x \in D \ s : s \cup {x} \in G
  PROVE  D \in G
<1> SUFFICES ASSUME D \notin G PROVE FALSE
  OBVIOUS
<1>1. PICK s \in SUBSET D : IsFiniteSet(s) /\ s \notin G /\ \A x \in s : s \ {x} \in G
  BY FirstMissed, Zenon
<1>2. PICK x \in s : TRUE
  BY <1>1
<1>3. s \ {x} \in SUBSET D /\ x \in D \ (s \ {x}) /\ (s \ {x}) \cup {x} = s
  OBVIOUS
<1> QED
  BY <1>1, <1>3

(* For a finite set of numbers, one greater than the rest at a time.       *)
GrowsUp(G, D) ==
  \A s \in SUBSET D : s \in G => \A x \in D : (\A y \in s : y < x) => s \cup {x} \in G

LEMMA BuiltUp ==
  ASSUME NEW D, IsFiniteSet(D), NEW G, {} \in G, GrowsUp(G, D), D \subseteq Nat
  PROVE  D \in G
<1>1. ASSUME D \notin G PROVE FALSE
  <2>1. PICK s \in SUBSET D : IsFiniteSet(s) /\ s \notin G /\ \A x \in s : s \ {x} \in G
    BY <1>1, FirstMissed, Zenon
  <2>2. PICK x \in s : \A y \in s : y <= x
    <3>1. s # {} /\ s \subseteq Int
      BY <2>1
    <3>2. Max(s) \in s /\ \A y \in s : Max(s) >= y
      BY <2>1, <3>1, Extremes, Zenon
    <3> QED
      BY <3>1, <3>2
  <2>3. s \ {x} \in SUBSET D /\ x \in D /\ (s \ {x}) \cup {x} = s
    OBVIOUS
  <2>4. \A y \in s \ {x} : y < x
    BY <2>2, <2>3
  <2> QED
    BY <2>1, <2>3, <2>4 DEF GrowsUp
<1> QED
  BY <1>1

LEMMA PartPlus ==
  ASSUME NEW D, IsFiniteSet(D), NEW f, NEW g, NEW h,
         \A x \in D : f[x] \in Nat /\ g[x] \in Nat /\ h[x] = f[x] + g[x]
  PROVE  Part(h, D) = Part(f, D) + Part(g, D)
<1> DEFINE G == {s \in SUBSET D : Part(h, s) = Part(f, s) + Part(g, s)}
<1>1. Adds(f, D) /\ Adds(g, D) /\ Adds(h, D)
  <2>1. \A x \in D : f[x] \in Nat /\ g[x] \in Nat /\ h[x] \in Nat
    OBVIOUS
  <2> QED
    BY <2>1, PartAdds
<1>2. {} \in G
  BY <1>1 DEF Adds
<1>3. ASSUME NEW s \in SUBSET D, s \in G, NEW x \in D \ s PROVE s \cup {x} \in G
  <2>1. /\ Part(f, s \cup {x}) = f[x] + Part(f, s)
        /\ Part(g, s \cup {x}) = g[x] + Part(g, s)
        /\ Part(h, s \cup {x}) = h[x] + Part(h, s)
        /\ Part(f, s) \in Nat /\ Part(g, s) \in Nat
    BY <1>1 DEF Adds
  <2>2. Part(h, s) = Part(f, s) + Part(g, s)
    BY <1>3
  <2>3. PICK a, b, c, d : a = f[x] /\ b = g[x] /\ c = Part(f, s) /\ d = Part(g, s)
    OBVIOUS
  <2>4. Part(h, s \cup {x}) = (a + b) + (c + d)
    BY <2>1, <2>2, <2>3
  <2>5. a \in Nat /\ b \in Nat /\ c \in Nat /\ d \in Nat
    BY <2>1, <2>3
  <2>6. (a + b) + (c + d) = (a + c) + (b + d)
    BY <2>5
  <2> QED
    BY <2>1, <2>3, <2>4, <2>6
<1> HIDE DEF G
<1>4. D \in G
  BY <1>2, <1>3, Built
<1> QED
  BY <1>4 DEF G

(* A sum is at least as many times the least of its terms.                 *)
LEMMA LeastSum ==
  ASSUME NEW D, IsFiniteSet(D), NEW k \in Nat, NEW f, \A x \in D : f[x] \in Nat /\ f[x] >= k
  PROVE  Part(f, D) >= Cardinality(D) * k
<1> DEFINE G == {s \in SUBSET D : Part(f, s) >= Cardinality(s) * k}
<1>1. Adds(f, D)
  BY PartAdds
<1>2. {} \in G
  BY <1>1, FS_EmptySet DEF Adds
<1>3. ASSUME NEW s \in SUBSET D, s \in G, NEW x \in D \ s PROVE s \cup {x} \in G
  <2>1. Part(f, s \cup {x}) = f[x] + Part(f, s) /\ Part(f, s) \in Nat
    BY <1>1 DEF Adds
  <2>2. IsFiniteSet(s)
    BY FS_Subset
  <2>3. Cardinality(s \cup {x}) = Cardinality(s) + 1 /\ Cardinality(s) \in Nat
    BY <2>2, FS_AddElement, FS_CardinalityType
  <2>4. PICK a, b, n : a = f[x] /\ b = Part(f, s) /\ n = Cardinality(s)
    OBVIOUS
  <2>5. a \in Nat /\ b \in Nat /\ n \in Nat /\ a >= k /\ b >= n * k
    BY <1>3, <2>1, <2>3, <2>4
  <2>6. (n + 1) * k = n * k + k
    BY <2>5
  <2>7. a + b >= (n + 1) * k
    <3>1. n * k \in Nat
      BY <2>5
    <3> QED
      BY <2>5, <2>6, <3>1
  <2> QED
    BY <2>1, <2>3, <2>4, <2>7
<1> HIDE DEF G
<1>4. D \in G
  BY <1>2, <1>3, Built
<1> QED
  BY <1>4 DEF G

Table(f, D) == \A i, j \in D : f[<<i, j>>] \in Nat

(* Adding a column of a table to a part of it.                             *)
LEMMA PartColumn ==
  ASSUME NEW D, IsFiniteSet(D), NEW f, Table(f, D),
         NEW Q \in SUBSET (D \X D), NEW s \in SUBSET D, NEW x \in D,
         \A i \in s : <<i, x>> \notin Q
  PROVE  Part(f, Q \cup (s \X {x})) = Part(f, Q) + Part([i \in D |-> f[<<i, x>>]], s)
<1> DEFINE W == D \X D
           c == [i \in D |-> f[<<i, x>>]]
           G == {t \in SUBSET s : Part(f, Q \cup (t \X {x})) = Part(f, Q) + Part(c, t)}
<1>1. Adds(f, W)
  <2>1. IsFiniteSet(W)
    BY FS_Product
  <2>2. \A q \in W : f[q] \in Nat
    BY DEF Table
  <2> HIDE DEF W
  <2> QED
    BY <2>1, <2>2, PartAdds
<1>2. Adds(c, D)
  <2>1. \A i \in D : c[i] \in Nat
    BY DEF Table
  <2> HIDE DEF c
  <2> QED
    BY <2>1, PartAdds
<1>3. {} \in G
  <2>1. Q \cup ({} \X {x}) = Q
    OBVIOUS
  <2>2. Part(f, Q) \in Nat /\ Part(c, {}) = 0
    BY <1>1, <1>2 DEF Adds
  <2>3. Part(f, Q) = Part(f, Q) + Part(c, {})
    <3> HIDE DEF c
    <3> QED
      BY <2>2
  <2>4. Part(f, Q \cup ({} \X {x})) = Part(f, Q) + Part(c, {})
    <3> HIDE DEF c
    <3> QED
      BY <2>1, <2>3
  <2> QED
    BY <2>4
<1>4. ASSUME NEW t \in SUBSET s, t \in G, NEW y \in s \ t PROVE t \cup {y} \in G
  <2> DEFINE P == Q \cup (t \X {x})
  <2>1. Q \cup ((t \cup {y}) \X {x}) = P \cup {<<y, x>>}
    OBVIOUS
  <2>2. P \in SUBSET W /\ <<y, x>> \in W \ P
    OBVIOUS
  <2>3. c[y] = f[<<y, x>>] /\ t \in SUBSET D /\ y \in D \ t /\ t \cup {y} \in SUBSET s
    OBVIOUS
  <2>4. Part(f, P) = Part(f, Q) + Part(c, t)
    BY <1>4
  <2> HIDE DEF P, W, c
  <2>5. Part(f, P \cup {<<y, x>>}) = f[<<y, x>>] + Part(f, P)
    BY <1>1, <2>2 DEF Adds
  <2>6. Part(c, t \cup {y}) = c[y] + Part(c, t) /\ Part(c, t) \in Nat
    BY <1>2, <2>3 DEF Adds
  <2>7. PICK a, b, d : a = f[<<y, x>>] /\ b = Part(f, Q) /\ d = Part(c, t)
    OBVIOUS
  <2>8. a \in Nat /\ b \in Nat /\ d \in Nat
    <3>1. Q \in SUBSET W
      BY DEF W
    <3>2. Part(f, Q) \in Nat
      BY <1>1, <3>1 DEF Adds
    <3>3. f[<<y, x>>] \in Nat
      BY <2>3 DEF Table
    <3> QED
      BY <2>6, <2>7, <3>2, <3>3
  <2>9. a + (b + d) = b + (a + d)
    BY <2>8
  <2>10. Part(f, Q \cup ((t \cup {y}) \X {x})) = Part(f, Q) + Part(c, t \cup {y})
    BY <2>1, <2>3, <2>4, <2>5, <2>6, <2>7, <2>9
  <2> QED
    BY <2>3, <2>10 DEF c
<1>5. s \in G
  <2>1. IsFiniteSet(s)
    BY FS_Subset
  <2> HIDE DEF G
  <2> QED
    BY <1>3, <1>4, <2>1, Built
<1> QED
  BY <1>5

-----------------------------------------------------------------------------
(* Self test *)

Pairs(s) == {q \in s \X s : q[1] < q[2]}

Row(f, D, i) == [j \in D |-> f[<<i, j>>]]

Rows(f, D, s) == [i \in D |-> Part(Row(f, D, i), s)]

LEMMA PairsGrow ==
  ASSUME NEW s, s \subseteq Nat, NEW x \in Nat, \A y \in s : y < x
  PROVE  /\ Pairs(s \cup {x}) = Pairs(s) \cup (s \X {x})
         /\ Pairs(s) \cap (s \X {x}) = {}
         /\ x \notin s
<1>1. x \notin s
  OBVIOUS
<1>2. ASSUME NEW q \in Pairs(s \cup {x}) PROVE q \in Pairs(s) \cup (s \X {x})
  <2>1. PICK a \in s \cup {x}, b \in s \cup {x} : q = <<a, b>> /\ a < b
    <3>1. q \in (s \cup {x}) \X (s \cup {x}) /\ q[1] < q[2]
      BY DEF Pairs
    <3>2. q = <<q[1], q[2]>> /\ q[1] \in s \cup {x} /\ q[2] \in s \cup {x}
      BY <3>1
    <3> QED
      BY <3>1, <3>2, Zenon
  <2>2. a # x
    BY <2>1
  <2> QED
    BY <2>1, <2>2 DEF Pairs
<1>3. ASSUME NEW q \in Pairs(s) \cup (s \X {x}) PROVE q \in Pairs(s \cup {x})
  BY DEF Pairs
<1>4. Pairs(s) \cap (s \X {x}) = {}
  BY <1>1 DEF Pairs
<1> QED
  BY <1>1, <1>2, <1>3, <1>4

(* How many pairs there are.                                               *)
LEMMA PairsCount ==
  ASSUME NEW D, IsFiniteSet(D), D \subseteq Nat
  PROVE  /\ IsFiniteSet(Pairs(D))
         /\ 2 * Cardinality(Pairs(D)) = Cardinality(D) * (Cardinality(D) - 1)
<1> DEFINE Counted(s) == /\ IsFiniteSet(Pairs(s))
                         /\ 2 * Cardinality(Pairs(s)) = Cardinality(s) * (Cardinality(s) - 1)
           G == {s \in SUBSET D : Counted(s)}
<1>1. {} \in G
  <2>1. Pairs({}) = {}
    BY DEF Pairs
  <2> QED
    BY <2>1, FS_EmptySet
<1>2. ASSUME NEW s \in SUBSET D, s \in G, NEW x \in D, \A y \in s : y < x
      PROVE  s \cup {x} \in G
  <2>1. /\ Pairs(s \cup {x}) = Pairs(s) \cup (s \X {x})
        /\ Pairs(s) \cap (s \X {x}) = {} /\ x \notin s
    BY <1>2, PairsGrow
  <2>2. IsFiniteSet(s) /\ IsFiniteSet(Pairs(s))
    BY <1>2, FS_Subset
  <2>3. IsFiniteSet(s \X {x}) /\ Cardinality(s \X {x}) = Cardinality(s)
    <3>1. IsFiniteSet({x}) /\ Cardinality({x}) = 1 /\ Cardinality(s) \in Nat
      BY <2>2, FS_Singleton, FS_CardinalityType
    <3>2. IsFiniteSet(s \X {x}) /\ Cardinality(s \X {x}) = Cardinality(s) * Cardinality({x})
      BY <2>2, <3>1, FS_Product
    <3> QED
      BY <3>1, <3>2
  <2>4. /\ IsFiniteSet(Pairs(s \cup {x}))
        /\ Cardinality(Pairs(s \cup {x})) =
             Cardinality(Pairs(s)) + Cardinality(s \X {x}) - Cardinality(Pairs(s) \cap (s \X {x}))
    BY <2>1, <2>2, <2>3, FS_Union
  <2>5. Cardinality(Pairs(s) \cap (s \X {x})) = 0
    BY <2>1, FS_EmptySet
  <2>6. Cardinality(s \cup {x}) = Cardinality(s) + 1
    BY <2>1, <2>2, FS_AddElement
  <2>7. PICK n \in Nat, p \in Nat : n = Cardinality(s) /\ p = Cardinality(Pairs(s))
    BY <2>2, FS_CardinalityType
  <2>8. 2 * p = n * (n - 1)
    BY <1>2, <2>7
  <2>9. Cardinality(Pairs(s \cup {x})) = p + n
    BY <2>3, <2>4, <2>5, <2>7
  <2>10. 2 * (p + n) = (n + 1) * ((n + 1) - 1)
    BY <2>8
  <2> QED
    BY <2>4, <2>6, <2>7, <2>9, <2>10
<1> HIDE DEF G
<1>3. GrowsUp(G, D)
  BY <1>2 DEF GrowsUp
<1>4. D \in G
  BY <1>1, <1>3, BuiltUp, Zenon
<1> QED
  BY <1>4 DEF G

Mirrored(f, D) == \A i, j \in D : f[<<i, i>>] = 0 /\ f[<<i, j>>] = f[<<j, i>>]

(* What is apart counts for both: over the rows of a symmetric table, each *)
(* pair is summed twice.                                                   *)
LEMMA PairsTwice ==
  ASSUME NEW D, IsFiniteSet(D), D \subseteq Nat, NEW f, Table(f, D), Mirrored(f, D)
  PROVE  Part(Rows(f, D, D), D) = 2 * Part(f, Pairs(D))
<1> DEFINE G == {s \in SUBSET D : Part(Rows(f, D, s), s) = 2 * Part(f, Pairs(s))}
<1>1. Adds(f, D \X D)
  <2>1. IsFiniteSet(D \X D)
    BY FS_Product
  <2>2. ASSUME NEW q \in D \X D PROVE f[q] \in Nat
    <3>1. q = <<q[1], q[2]>> /\ q[1] \in D /\ q[2] \in D
      OBVIOUS
    <3>2. f[<<q[1], q[2]>>] \in Nat
      BY <3>1 DEF Table
    <3> QED
      BY <3>1, <3>2
  <2> QED
    BY <2>1, <2>2, PartAdds
<1>2. ASSUME NEW i \in D PROVE Adds(Row(f, D, i), D)
  <2>1. \A j \in D : Row(f, D, i)[j] \in Nat
    BY DEF Row, Table
  <2> QED
    BY <2>1, PartAdds
<1>3. ASSUME NEW s \in SUBSET D
      PROVE  Adds(Rows(f, D, s), D) /\ \A i \in D : Rows(f, D, s)[i] \in Nat
  <2>1. \A i \in D : Rows(f, D, s)[i] \in Nat
    BY <1>2 DEF Adds, Rows
  <2> QED
    BY <2>1, PartAdds
<1>4. {} \in G
  <2>1. Pairs({}) = {}
    BY DEF Pairs
  <2>2. Part(f, {}) = 0 /\ Part(Rows(f, D, {}), {}) = 0
    BY <1>1, <1>3 DEF Adds
  <2> QED
    BY <2>1, <2>2
<1>5. ASSUME NEW s \in SUBSET D, s \in G, NEW x \in D, \A y \in s : y < x
      PROVE  s \cup {x} \in G
  <2> DEFINE t == s \cup {x}
             c == [i \in D |-> f[<<i, x>>]]
  <2>1. /\ Pairs(t) = Pairs(s) \cup (s \X {x})
        /\ Pairs(s) \cap (s \X {x}) = {} /\ x \notin s
    BY <1>5, PairsGrow
  <2>2. t \in SUBSET D /\ x \in D \ s /\ IsFiniteSet(s)
    BY <2>1, FS_Subset
  <2>3. Part(f, Pairs(t)) = Part(f, Pairs(s)) + Part(c, s)
    <3>1. Pairs(s) \in SUBSET (D \X D)
      BY DEF Pairs
    <3>2. \A i \in s : <<i, x>> \notin Pairs(s)
      BY <2>1
    <3>3. Part(f, Pairs(s) \cup (s \X {x})) = Part(f, Pairs(s)) + Part([i \in D |-> f[<<i, x>>]], s)
      BY <3>1, <3>2, PartColumn
    <3> QED
      BY <2>1, <3>3
  <2>4. ASSUME NEW i \in D
        PROVE  Rows(f, D, t)[i] = f[<<i, x>>] + Rows(f, D, s)[i]
    <3>1. Part(Row(f, D, i), t) = Row(f, D, i)[x] + Part(Row(f, D, i), s)
      BY <1>2, <2>2 DEF Adds
    <3> QED
      BY <3>1 DEF Row, Rows
  <2>5. Part(Rows(f, D, t), s) = Part(c, s) + Part(Rows(f, D, s), s)
    <3>1. \A i \in s : /\ c[i] \in Nat /\ Rows(f, D, s)[i] \in Nat
                       /\ Rows(f, D, t)[i] = c[i] + Rows(f, D, s)[i]
      BY <1>3, <2>4 DEF Table
    <3> HIDE DEF c
    <3> QED
      BY <2>2, <3>1, PartPlus
  <2>6. Part(Rows(f, D, t), t) = Rows(f, D, t)[x] + Part(Rows(f, D, t), s)
    BY <1>3, <2>2 DEF Adds
  <2>7. Rows(f, D, t)[x] = Part(c, s)
    <3>1. Row(f, D, x) = c
      BY DEF Row, Mirrored
    <3>2. Rows(f, D, s)[x] = Part(c, s)
      BY <3>1 DEF Rows
    <3>3. Rows(f, D, s)[x] \in Nat /\ f[<<x, x>>] = 0
      BY <1>3 DEF Mirrored
    <3>4. Rows(f, D, t)[x] = f[<<x, x>>] + Rows(f, D, s)[x]
      BY <2>4
    <3> HIDE DEF t, c
    <3> QED
      BY <3>2, <3>3, <3>4
  <2>8. PICK a \in Nat, b \in Nat : a = Part(f, Pairs(s)) /\ b = Part(c, s)
    <3>1. Part(f, Pairs(s)) \in Nat
      <4>1. Pairs(s) \in SUBSET (D \X D)
        BY DEF Pairs
      <4> QED
        BY <1>1, <4>1 DEF Adds
    <3>2. Part(c, s) \in Nat
      <4>1. Rows(f, D, t)[x] \in Nat
        BY <1>3, <2>2
      <4> QED
        BY <2>7, <4>1
    <3> QED
      BY <3>1, <3>2
  <2>9. Part(Rows(f, D, s), s) = 2 * a
    BY <1>5, <2>8
  <2> HIDE DEF t, c
  <2>10. Part(Rows(f, D, t), t) = b + (b + 2 * a)
    BY <2>5, <2>6, <2>7, <2>8, <2>9
  <2>11. Part(f, Pairs(t)) = a + b
    BY <2>3, <2>8
  <2>12. Part(Rows(f, D, t), t) = 2 * Part(f, Pairs(t))
    BY <2>10, <2>11
  <2> QED
    BY <2>2, <2>12 DEF t
<1> HIDE DEF G
<1>6. GrowsUp(G, D)
  BY <1>5 DEF GrowsUp
<1>7. D \in G
  BY <1>4, <1>6, BuiltUp, Zenon
<1> QED
  BY <1>7 DEF G

(* Twice the sum over n numbers is no less than n times the least.         *)
LEMMA LeastTerm ==
  ASSUME NEW D, IsFiniteSet(D), D # {}, NEW f, \A x \in D : f[x] \in Nat
  PROVE  \E i \in D : Cardinality(D) * f[i] <= Part(f, D)
<1> DEFINE S == {f[x] : x \in D}
<1>1. IsFiniteSet(S) /\ S # {} /\ S \subseteq Int
  <2>1. [x \in D |-> f[x]] \in Surjection(D, S)
    BY DEF Surjection
  <2>2. IsFiniteSet(S)
    <3> HIDE DEF S
    <3> QED
      BY <2>1, FS_Surjection
  <2>3. S # {} /\ S \subseteq Int
    OBVIOUS
  <2> QED
    BY <2>2, <2>3
<1>2. Min(S) \in S /\ \A k \in S : Min(S) <= k
  <2> HIDE DEF S
  <2> QED
    BY <1>1, Extremes
<1>3. PICK i \in D : f[i] = Min(S)
  BY <1>2
<1>4. \A x \in D : f[x] >= f[i]
  BY <1>2, <1>3
<1>5. Part(f, D) >= Cardinality(D) * f[i]
  BY <1>4, LeastSum
<1>6. Part(f, D) \in Nat
  <2>1. Adds(f, D)
    BY PartAdds
  <2> QED
    BY <2>1 DEF Adds
<1>7. Cardinality(D) * f[i] \in Nat
  BY FS_CardinalityType
<1> QED
  BY <1>5, <1>6, <1>7

(* Where a sum of numbers is zero each of them is.                         *)
LEMMA ZeroSum ==
  ASSUME NEW D, IsFiniteSet(D), NEW f, \A x \in D : f[x] \in Nat, Part(f, D) = 0
  PROVE  \A x \in D : f[x] = 0
<1> SUFFICES ASSUME NEW x \in D PROVE f[x] = 0
  OBVIOUS
<1>1. Adds(f, D)
  BY PartAdds
<1>2. D \ {x} \in SUBSET D /\ x \in D \ (D \ {x}) /\ (D \ {x}) \cup {x} = D
  OBVIOUS
<1>3. Part(f, (D \ {x}) \cup {x}) = f[x] + Part(f, D \ {x}) /\ Part(f, D \ {x}) \in Nat
  BY <1>1, <1>2 DEF Adds
<1>4. 0 = f[x] + Part(f, D \ {x})
  BY <1>2, <1>3
<1> QED
  BY <1>3, <1>4

(* Where nothing is apart there is no spread.                              *)
LEMMA NoSpread ==
  ASSUME NEW D, IsFiniteSet(D), NEW f, f = [x \in D |-> f[x]], \A x \in D : f[x] \in Nat,
         Total(f) = 0
  PROVE  Spread(f) = 0
<1> DEFINE g == [x \in DOMAIN f |-> f[x] * f[x]]
<1>1. DOMAIN f = D
  OBVIOUS
<1>2. Part(f, D) = 0
  BY <1>1 DEF Part, Restrict
<1>3. \A x \in D : f[x] = 0
  BY <1>2, ZeroSum
<1>4. \A x \in D : g[x] = f[x]
  BY <1>1, <1>3
<1>5. g = f
  BY <1>1, <1>4
<1>6. Spread(f) = Count(f) * Total(g) - Total(f) * Total(f)
  BY DEF Spread
<1>7. Count(f) \in Nat
  BY <1>1, FS_CardinalityType DEF Count
<1> HIDE DEF g
<1> QED
  BY <1>5, <1>6, <1>7

(* The average of the reference nearest to the others lies below that of   *)
(* the pairs.                                                              *)
LEMMA Nearest ==
  ASSUME NEW n \in Nat \ {0}, NEW pairs \in Nat, 2 * pairs = n * (n - 1),
         NEW total \in Nat, NEW mean \in Nat, total < pairs * (mean + 1), mean >= n - 1,
         NEW row \in Nat, n * row <= 2 * total
  PROVE  row \div n < mean
<1>1. n * row < n * ((n - 1) * (mean + 1))
  <2>1. 2 * total < 2 * (pairs * (mean + 1))
    <3>1. pairs * (mean + 1) \in Nat
      OBVIOUS
    <3> QED
      BY <3>1
  <2>2. 2 * (pairs * (mean + 1)) = (2 * pairs) * (mean + 1)
    OBVIOUS
  <2>3. (2 * pairs) * (mean + 1) = (n * (n - 1)) * (mean + 1)
    OBVIOUS
  <2>4. (n * (n - 1)) * (mean + 1) = n * ((n - 1) * (mean + 1))
    OBVIOUS
  <2> QED
    BY <2>1, <2>2, <2>3, <2>4
<1>2. row < (n - 1) * (mean + 1)
  <2>1. PICK k \in Int : k = (n - 1) * (mean + 1)
    OBVIOUS
  <2>2. n * row < n * k
    BY <1>1, <2>1
  <2>3. row < k
    BY <2>2
  <2> QED
    BY <2>1, <2>3
<1>3. (n - 1) * (mean + 1) = n * mean + (n - 1 - mean)
  OBVIOUS
<1>4. row < n * mean
  BY <1>2, <1>3
<1>5. row \div n \in Nat /\ n * (row \div n) <= row
  BY Quotient
<1>6. PICK q \in Nat : q = row \div n
  BY <1>5
<1>7. n * q < n * mean
  BY <1>4, <1>5, <1>6
<1>8. q < mean
  BY <1>7
<1> QED
  BY <1>6, <1>8

LEMMA SelfTested ==
  ASSUME NEW points, NEW D, D = DOMAIN points, IsFiniteSet(D), D # {}, D \subseteq Nat,
         \A i \in D : points[i] \in Nat,
         \/ Total(Intra(points)) = 0
         \/ MeanDistance(Intra(points)) \in (Count(points) - 1)..(Ceiling - 1)
  PROVE  \E i \in D : Decide(points[i], points)[0].verdict = "VALID"
<1> DEFINE f == [q \in D \X D |-> Apart(points[q[1]], points[q[2]])]
           n == Cardinality(D)
           pairs == Cardinality(Pairs(D))
           total == Total(Intra(points))
           mean == MeanDistance(Intra(points))
           t == WriterThreshold(Intra(points))
           rows == Rows(f, D, D)
<1>1. Ceiling \in Nat /\ Ceiling >= 1
  BY DecisionAssumption DEF Far
<1>2. \A i, j \in D : f[<<i, j>>] = Apart(points[i], points[j])
  OBVIOUS
<1>3. \A i, j \in D : Apart(points[i], points[j]) \in Nat
  BY DEF Apart, Larger
<1>4. Table(f, D)
  BY <1>2, <1>3 DEF Table
<1>5. Mirrored(f, D)
  <2>1. \A i, j \in D : /\ Apart(points[i], points[i]) = 0
                        /\ Apart(points[i], points[j]) = Apart(points[j], points[i])
    BY DEF Apart, Larger
  <2> HIDE DEF f
  <2> SUFFICES ASSUME NEW i \in D, NEW j \in D
               PROVE  f[<<i, i>>] = 0 /\ f[<<i, j>>] = f[<<j, i>>]
    BY DEF Mirrored
  <2>2. f[<<i, i>>] = Apart(points[i], points[i])
    BY <1>2
  <2>3. f[<<i, j>>] = Apart(points[i], points[j]) /\ f[<<j, i>>] = Apart(points[j], points[i])
    BY <1>2
  <2> QED
    BY <2>1, <2>2, <2>3
<1>6. Intra(points) = [q \in Pairs(D) |-> Apart(points[q[1]], points[q[2]])]
  BY DEF Intra, Pairs
<1>7. DOMAIN Intra(points) = Pairs(D) /\ Count(Intra(points)) = pairs
  BY <1>6 DEF Count
<1>8. total = Part(f, Pairs(D))
  <2>1. Pairs(D) \subseteq D \X D
    BY DEF Pairs
  <2>2. Intra(points) = Restrict(f, Pairs(D))
    BY <1>6, <2>1 DEF Restrict
  <2> QED
    BY <2>2 DEF Part
<1>9. n \in Nat \ {0}
  BY FS_CardinalityType, FS_EmptySet
<1>10. IsFiniteSet(Pairs(D)) /\ pairs \in Nat /\ 2 * pairs = n * (n - 1)
  BY PairsCount, FS_CardinalityType
<1>11. IsFiniteSet(DOMAIN Intra(points)) /\ \A p \in DOMAIN Intra(points) : Intra(points)[p] \in Nat
  BY IntraTyped
<1>12. total \in Nat
  BY <1>11, TotalNat
<1>13. /\ t \in 0..Ceiling
       /\ \/ t = Ceiling
          \/ Spread(Intra(points)) # 0 /\ pairs >= 2 /\ t >= Least(mean, Ceiling)
  <2>1. PICK g : g = Intra(points)
    OBVIOUS
  <2>2. /\ WriterThreshold(g) \in 0..Ceiling
        /\ \/ WriterThreshold(g) = Ceiling
           \/ Spread(g) # 0 /\ Count(g) >= 2 /\ WriterThreshold(g) >= Least(MeanDistance(g), Ceiling)
    <3>1. IsFiniteSet(DOMAIN g) /\ \A p \in DOMAIN g : g[p] \in Nat
      BY <1>11, <2>1
    <3> QED
      BY <3>1, ThresholdTyped
  <2>3. /\ t = WriterThreshold(g) /\ mean = MeanDistance(g) /\ pairs = Count(g)
        /\ Spread(Intra(points)) = Spread(g)
    BY <1>7, <2>1
  <2> HIDE DEF f, n, t, mean, pairs, total, rows
  <2> QED
    BY <2>2, <2>3
<1>14. \A i \in D : rows[i] \in Nat
  <2>1. ASSUME NEW i \in D PROVE Part(Row(f, D, i), D) \in Nat
    <3>1. \A j \in D : Row(f, D, i)[j] \in Nat
      BY <1>4 DEF Row, Table
    <3>2. Adds(Row(f, D, i), D)
      BY <3>1, PartAdds
    <3> QED
      BY <3>2 DEF Adds
  <2> QED
    BY <2>1 DEF Rows
<1>15. PICK i \in D : n * rows[i] <= 2 * total
  <2>1. Part(rows, D) = 2 * total
    BY <1>4, <1>5, <1>8, PairsTwice
  <2>2. \E i \in D : n * rows[i] <= Part(rows, D)
    <3> HIDE DEF rows
    <3> QED
      BY <1>14, LeastTerm
  <2> QED
    BY <2>1, <2>2
<1>16. PICK row \in Nat : row = rows[i]
  BY <1>14
<1>17. Decide(points[i], points)[0].verdict = Verdict(row \div n, t)
  <2> DEFINE distances == [j \in D |-> Apart(points[i], points[j])]
  <2>1. Row(f, D, i) = distances
    BY DEF Row
  <2>2. Part(distances, D) = row
    BY <1>16, <2>1 DEF Rows
  <2>3. Total(distances) = row
    BY <2>2 DEF Part, Restrict
  <2>4. MeanDistance(distances) = row \div n
    BY <2>3 DEF MeanDistance, Count
  <2>5. Decide(points[i], points)[0] = Judged(MeanDistance(distances), t)
    BY DEF Decide
  <2> HIDE DEF distances, t
  <2> QED
    BY <2>4, <2>5 DEF Judged
<1> HIDE DEF f, n, pairs, rows, t, total, mean
<1>18. CASE total = 0
  <2>1. Spread(Intra(points)) = 0
    <3>1. PICK g : g = Intra(points)
      OBVIOUS
    <3>2. g = [q \in Pairs(D) |-> g[q]]
      BY <1>6, <3>1
    <3>3. Total(g) = 0 /\ \A q \in Pairs(D) : g[q] \in Nat
      BY <1>7, <1>11, <1>18, <3>1 DEF total
    <3>4. Spread(g) = 0
      BY <1>10, <3>2, <3>3, NoSpread
    <3> QED
      BY <3>1, <3>4
  <2>2. t = Ceiling
    BY <1>13, <2>1
  <2>3. n * row <= 0
    BY <1>15, <1>16, <1>18
  <2>4. row <= 0 * n
    <3>1. row <= n * row
      <4>1. row * 1 <= row * n
        BY <1>9
      <4> QED
        BY <1>9, <4>1
    <3> QED
      BY <1>9, <2>3, <3>1
  <2>5. row \div n <= 0 /\ row \div n \in Nat
    BY <1>9, <2>4, Quotient
  <2> QED
    BY <1>1, <1>17, <2>2, <2>5 DEF Verdict
<1>19. CASE total # 0
  <2>1. mean \in (n - 1)..(Ceiling - 1)
    BY <1>19 DEF mean, total, n, Count
  <2>2. mean \in Nat /\ mean >= n - 1 /\ mean < Ceiling
    BY <1>1, <1>9, <2>1
  <2>3. pairs # 0
    <3>1. CASE pairs = 0
      <4>1. Pairs(D) = {}
        BY <1>10, <3>1, FS_EmptySet DEF pairs
      <4>2. Adds(f, {})
        BY FS_EmptySet, PartAdds
      <4>3. total = 0
        BY <1>8, <4>1, <4>2 DEF Adds
      <4> QED
        BY <1>19, <4>3
    <3> QED
      BY <3>1
  <2>4. mean = total \div pairs
    BY <1>7 DEF mean, total, MeanDistance
  <2>5. total < pairs * (mean + 1)
    <3>1. total < pairs * mean + pairs
      BY <1>10, <1>12, <2>2, <2>3, <2>4
    <3>2. pairs * (mean + 1) = pairs * mean + pairs
      BY <1>10, <2>2
    <3> QED
      BY <3>1, <3>2
  <2>6. n * row <= 2 * total
    BY <1>15, <1>16
  <2>7. row \div n < mean
    BY <1>9, <1>10, <1>12, <2>2, <2>5, <2>6, Nearest
  <2>8. t >= mean
    BY <1>1, <1>13, <2>2 DEF Least
  <2>9. row \div n \in Nat
    BY <1>9, Quotient
  <2> QED
    BY <1>13, <1>17, <2>2, <2>7, <2>8, <2>9 DEF Verdict
<1> QED
  BY <1>18, <1>19

(* However the references of a card lie, the writer's own spread leaves    *)
(* one of them that passes as the writer's.                                *)
THEOREM OneSelfTestAlwaysPasses == PipelineSpec => []OneSelfTestPasses
<1>1. PipelineInit => card \in Cards
  <2>1. <<>> \in [1..0 -> Point \cup {Damaged}]
    OBVIOUS
  <2>2. 0 \in 0..MaxReferences
    BY PageAssumption
  <2> QED
    BY <2>1, <2>2 DEF PipelineInit, Cards
<1>2. card \in Cards /\ [PipelineNext]_pipelineVars => (card \in Cards)'
  BY DEF PipelineNext, pipelineVars, RefuseUpload, FindRegions, PickRegion, PickWhole,
         SubmitUnseen, VerifyUpload, Cards
<1>3. card \in Cards => OneSelfTestPasses
  <2> SUFFICES ASSUME card \in Cards PROVE OneSelfTestPasses
    OBVIOUS
  <2>1. PICK n \in 0..MaxReferences : card \in [1..n -> Point \cup {Damaged}]
    BY DEF Cards
  <2>2. PICK points : points = Usable(card)
    OBVIOUS
  <2>3. DOMAIN points \subseteq 1..n /\ \A i \in DOMAIN points : points[i] \in Nat
    BY <2>1, <2>2, PageAssumption DEF Usable
  <2>4. IsFiniteSet(DOMAIN points) /\ DOMAIN points \subseteq Nat
    BY <2>3, FS_Interval, FS_Subset
  <2>5. ASSUME DOMAIN points # {},
               \/ Total(Intra(points)) = 0
               \/ MeanDistance(Intra(points)) \in (Count(points) - 1)..(Ceiling - 1)
        PROVE  \E i \in DOMAIN points : Decide(points[i], points)[0].verdict = "VALID"
    BY <2>3, <2>4, <2>5, SelfTested
  <2> QED
    BY <2>2, <2>5, Zenon DEF OneSelfTestPasses
<1> QED
  BY <1>1, <1>2, <1>3, PTL DEF PipelineSpec

=============================================================================
