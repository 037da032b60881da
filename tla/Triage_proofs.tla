---------------------------- MODULE Triage_proofs ----------------------------
(***************************************************************************)
(* Triage for any reports the contracts admit: what the rules found        *)
(* survives, distress is heard, graver evidence never lowers a priority    *)
(* and one more report never calms a zone.                                 *)
(***************************************************************************)
EXTENDS Triage, FiniteSetTheorems, WellFoundedInduction, TLAPS

-----------------------------------------------------------------------------
(* Arithmetic.                                                             *)

LEMMA TimesMonotone ==
  ASSUME NEW d \in Nat, NEW a \in Int, NEW b \in Int, a <= b
  PROVE  d * a <= d * b
<1>1. b - a \in Nat
  OBVIOUS
<1>2. d * (b - a) >= 0 /\ d * (b - a) = d * b - d * a
  BY <1>1
<1> QED BY <1>2

LEMMA Quotient ==
  ASSUME NEW a \in Int, NEW d \in Nat \ {0}
  PROVE  /\ a \div d \in Int
         /\ d * (a \div d) <= a
         /\ a < d * (a \div d) + d
OBVIOUS

LEMMA QuotientMonotone ==
  ASSUME NEW a \in Int, NEW b \in Int, NEW d \in Nat \ {0}, a <= b
  PROVE  a \div d <= b \div d
<1> DEFINE q == a \div d
           s == b \div d
<1>1. q \in Int /\ s \in Int /\ d * q <= a /\ b < d * s + d
  BY Quotient
<1> HIDE DEF q, s
<1>2. SUFFICES ASSUME q > s PROVE FALSE
  BY <1>1 DEF q, s
<1>3. d * (s + 1) <= d * q
  BY <1>1, <1>2, TimesMonotone
<1>4. d * (s + 1) = d * s + d
  BY <1>1
<1> QED BY <1>1, <1>3, <1>4

LEMMA QuotientAtLeast ==
  ASSUME NEW a \in Int, NEW d \in Nat \ {0}, NEW k \in Int, d * k <= a
  PROVE  a \div d >= k
<1> DEFINE q == a \div d
<1>1. q \in Int /\ a < d * q + d
  BY Quotient
<1> HIDE DEF q
<1>2. SUFFICES ASSUME q < k PROVE FALSE
  BY <1>1 DEF q
<1>3. d * (q + 1) <= d * k
  BY <1>1, <1>2, TimesMonotone
<1>4. d * (q + 1) = d * q + d
  BY <1>1
<1> QED BY <1>1, <1>3, <1>4

LEMMA RoundedInt ==
  ASSUME NEW n \in Int, NEW d \in Nat \ {0}
  PROVE  Rounded(n, d) \in Int
<1> DEFINE m == 2 * n + d
           e == 2 * d
<1>1. m \in Int /\ e \in Nat \ {0}
  OBVIOUS
<1> HIDE DEF m, e
<1>2. m \div e \in Int
  BY <1>1, Quotient
<1> QED BY <1>2 DEF Rounded, m, e

LEMMA RoundedMonotone ==
  ASSUME NEW m \in Int, NEW n \in Int, NEW d \in Nat \ {0}, m <= n
  PROVE  Rounded(m, d) <= Rounded(n, d)
<1> DEFINE a == 2 * m + d
           b == 2 * n + d
           e == 2 * d
<1>1. a \in Int /\ b \in Int /\ e \in Nat \ {0} /\ a <= b
  OBVIOUS
<1> HIDE DEF a, b, e
<1>2. a \div e <= b \div e
  BY <1>1, QuotientMonotone
<1> QED BY <1>2 DEF Rounded, a, b, e

LEMMA RoundedAtLeast ==
  ASSUME NEW n \in Int, NEW d \in Nat \ {0}, NEW k \in Int, d * k <= n
  PROVE  Rounded(n, d) >= k
<1> DEFINE a == 2 * n + d
           e == 2 * d
<1>1. a \in Int /\ e \in Nat \ {0}
  OBVIOUS
<1>2. e * k <= a
  <2>1. e * k = 2 * (d * k)
    OBVIOUS
  <2>2. d * k \in Int
    OBVIOUS
  <2> QED BY <2>1, <2>2
<1> HIDE DEF a, e
<1>3. a \div e >= k
  BY <1>1, <1>2, QuotientAtLeast
<1> QED BY <1>3 DEF Rounded, a, e

LEMMA LeastOfTwo ==
  ASSUME NEW a \in Int, NEW b \in Int
  PROVE  Min({a, b}) = AtMost(a, b)
BY DEF Min, AtMost

LEMMA GreatestOfTwo ==
  ASSUME NEW a \in Int, NEW b \in Int
  PROVE  Max({a, b}) = AtLeast(a, b)
BY DEF Max, AtLeast

-----------------------------------------------------------------------------
(* The priority of evidence of the right types.                            *)

Evidences ==
  [header : [severity : Severity, regex : Points, local : Points, confidence : Points,
             category : Category],
   regex : [score : Points, matched : BOOLEAN, category : Category],
   groq : GroqVerdicts,
   payload : [trapped : BOOLEAN, medical : BOOLEAN, victims : Nat],
   corroborating : Nat, location : Int, escalation : 0 .. 1000, halfLives : Nat]

LEMMA ConfidencesTyped ==
  ASSUME NEW r \in Evidences
  PROVE  /\ HeaderConfidence(r) \in 10 .. 100
         /\ RegexConfidence(r) \in {70, 95}
         /\ GroqConfidence(r) \in 10 .. 100
BY DEF Evidences, GroqVerdicts, Points, HeaderConfidence, RegexConfidence, GroqConfidence,
       AtLeast, min_source_confidence

LEMMA WeightsTyped ==
  ASSUME NEW r \in Evidences
  PROVE  LET w == SourceWeight(r)
         IN /\ w.severity = 25 * HeaderConfidence(r)
            /\ w.regex = 20 * RegexConfidence(r)
            /\ w.local_model = 20 * HeaderConfidence(r)
            /\ w.groq = IF r.groq.active THEN 35 * GroqConfidence(r) ELSE 0
            /\ w.severity \in Nat \ {0} /\ w.regex \in Nat /\ w.local_model \in Nat /\ w.groq \in Nat
            /\ TotalWeight(w) \in Nat \ {0}
<1> DEFINE w == SourceWeight(r)
<1>1. /\ w.severity = 25 * HeaderConfidence(r)
      /\ w.regex = 20 * RegexConfidence(r)
      /\ w.local_model = 20 * HeaderConfidence(r)
      /\ w.groq = IF r.groq.active THEN 35 * GroqConfidence(r) ELSE 0
  BY DEF SourceWeight, w_severity, w_regex, w_local_model, w_groq
<1> HIDE DEF w
<1>2. w.severity \in Nat \ {0} /\ w.regex \in Nat /\ w.local_model \in Nat /\ w.groq \in Nat
  BY <1>1, ConfidencesTyped
<1>3. TotalWeight(w) \in Nat \ {0}
  <2>1. w.severity + w.regex \in Nat \ {0}
    BY <1>2
  <2>2. w.local_model + w.groq \in Nat
    BY <1>2
  <2>3. TotalWeight(w) = (w.severity + w.regex) + (w.local_model + w.groq)
    BY <1>2 DEF TotalWeight
  <2> QED BY <2>1, <2>2, <2>3
<1> QED BY <1>1, <1>2, <1>3 DEF w

LEMMA ScoresTyped ==
  ASSUME NEW r \in Evidences
  PROVE  LET x == SourceScore(r)
         IN /\ x.severity = IF r.header.severity = INFO THEN 20
                            ELSE IF r.header.severity = WARN THEN 55 ELSE 90
            /\ x.regex = r.regex.score /\ x.local_model = r.header.local /\ x.groq = r.groq.score
            /\ x.severity \in Points /\ x.regex \in Points
            /\ x.local_model \in Points /\ x.groq \in Points
<1>1. SeverityAnchor[r.header.severity] = IF r.header.severity = INFO THEN 20
        ELSE IF r.header.severity = WARN THEN 55 ELSE 90
  BY DEF Evidences, Severity, SeverityAnchor, INFO, WARN, CRITICAL
<1> QED BY <1>1 DEF Evidences, GroqVerdicts, Points, SourceScore

(* Nothing but the scores that evidence s gives for the same report is     *)
(* changed, and none is lower.                                             *)
Graver(s, r) ==
  /\ s.header.severity = r.header.severity /\ s.header.confidence = r.header.confidence
  /\ s.regex.matched = r.regex.matched
  /\ s.groq.active = r.groq.active /\ s.groq.confidence = r.groq.confidence
  /\ s.groq.vulnerable = r.groq.vulnerable /\ s.groq.trapped = r.groq.trapped
  /\ s.groq.medical = r.groq.medical
  /\ s.payload = r.payload /\ s.corroborating = r.corroborating /\ s.location = r.location
  /\ s.escalation = r.escalation /\ s.halfLives = r.halfLives
  /\ s.regex.score >= r.regex.score /\ s.header.local >= r.header.local
  /\ s.groq.score >= r.groq.score

LEMMA WeighedMonotone ==
  ASSUME NEW a1 \in Nat, NEW a2 \in Nat, NEW a3 \in Nat, NEW a4 \in Nat,
         NEW x1 \in Int, NEW x2 \in Int, NEW x3 \in Int, NEW x4 \in Int,
         NEW y1 \in Int, NEW y2 \in Int, NEW y3 \in Int, NEW y4 \in Int,
         x1 <= y1, x2 <= y2, x3 <= y3, x4 <= y4
  PROVE  a1 * x1 + a2 * x2 + a3 * x3 + a4 * x4 <= a1 * y1 + a2 * y2 + a3 * y3 + a4 * y4
<1>1. a1 * x1 <= a1 * y1 /\ a2 * x2 <= a2 * y2 /\ a3 * x3 <= a3 * y3 /\ a4 * x4 <= a4 * y4
  BY TimesMonotone
<1>2. /\ a1 * x1 \in Int /\ a2 * x2 \in Int /\ a3 * x3 \in Int /\ a4 * x4 \in Int
      /\ a1 * y1 \in Int /\ a2 * y2 \in Int /\ a3 * y3 \in Int /\ a4 * y4 \in Int
  OBVIOUS
<1> QED BY ONLY <1>1, <1>2

LEMMA WeighedInt ==
  ASSUME NEW r \in Evidences
  PROVE  Weighed(SourceWeight(r), SourceScore(r)) \in Int
<1> DEFINE w == SourceWeight(r)
           x == SourceScore(r)
<1>1. /\ w.severity \in Int /\ w.regex \in Int /\ w.local_model \in Int /\ w.groq \in Int
      /\ x.severity \in Int /\ x.regex \in Int /\ x.local_model \in Int /\ x.groq \in Int
  BY WeightsTyped, ScoresTyped DEF Points
<1> HIDE DEF w, x
<1>2. Weighed(w, x) \in Int
  BY <1>1 DEF Weighed
<1> QED BY <1>2 DEF w, x

LEMMA BaseInt ==
  ASSUME NEW r \in Evidences
  PROVE  Base(r) \in Int
<1>1. 100 * Weighed(SourceWeight(r), SourceScore(r)) \in Int
  BY WeighedInt
<1>2. TotalWeight(SourceWeight(r)) \in Nat \ {0}
  BY WeightsTyped
<1> QED BY <1>1, <1>2, RoundedInt DEF Base, WeightedMean

(* The mean of graver scores is no lower.                                  *)
LEMMA BaseMonotone ==
  ASSUME NEW r \in Evidences, NEW s \in Evidences, Graver(s, r)
  PROVE  Base(r) <= Base(s)
<1> DEFINE w == SourceWeight(r)
           x == SourceScore(r)
           y == SourceScore(s)
<1>1. SourceWeight(s) = w
  BY DEF Graver, SourceWeight, HeaderConfidence, RegexConfidence, GroqConfidence
<1>2. x.severity <= y.severity /\ x.regex <= y.regex /\ x.local_model <= y.local_model
      /\ x.groq <= y.groq
  <2>1. x.severity = y.severity
    BY DEF Graver, SourceScore
  <2> QED BY <2>1, ScoresTyped DEF Graver, Points
<1>3. /\ w.severity \in Nat /\ w.regex \in Nat /\ w.local_model \in Nat /\ w.groq \in Nat
      /\ TotalWeight(w) \in Nat \ {0}
  BY WeightsTyped
<1>4. /\ x.severity \in Int /\ x.regex \in Int /\ x.local_model \in Int /\ x.groq \in Int
      /\ y.severity \in Int /\ y.regex \in Int /\ y.local_model \in Int /\ y.groq \in Int
  <2>1. \A z \in Points : z \in Int
    BY DEF Points
  <2>2. x.severity \in Int /\ x.regex \in Int /\ x.local_model \in Int /\ x.groq \in Int
    BY <2>1, ScoresTyped
  <2>3. y.severity \in Int /\ y.regex \in Int /\ y.local_model \in Int /\ y.groq \in Int
    BY <2>1, ScoresTyped
  <2> HIDE DEF x, y
  <2> QED BY <2>2, <2>3
<1>5. Weighed(w, x) \in Int /\ Weighed(w, y) \in Int
  BY <1>1, WeighedInt
<1> HIDE DEF w, x, y
<1>6. Weighed(w, x) <= Weighed(w, y)
  BY <1>2, <1>3, <1>4, WeighedMonotone DEF Weighed
<1>7. Rounded(100 * Weighed(w, x), TotalWeight(w)) <= Rounded(100 * Weighed(w, y), TotalWeight(w))
  BY <1>3, <1>5, <1>6, RoundedMonotone
<1> QED BY <1>1, <1>7 DEF Base, WeightedMean, w, x, y

LEMMA SaferSideMonotone ==
  ASSUME NEW r \in Evidences, NEW s \in Evidences, Graver(s, r),
         Disagreement(r) => Disagreement(s)
  PROVE  SaferSide(r) \in Int /\ SaferSide(s) \in Int /\ SaferSide(r) <= SaferSide(s)
<1>1. Base(r) \in Int /\ Base(s) \in Int /\ Base(r) <= Base(s)
  BY BaseInt, BaseMonotone
<1>2. InDistress(r) => InDistress(s)
  BY DEF InDistress, Graver, Evidences, GroqVerdicts, Points
<1>3. (\E x \in ActiveScores(r) : x >= 35) => \E x \in ActiveScores(s) : x >= 35
  BY DEF ActiveScores, Graver, Evidences, GroqVerdicts, Points
<1> QED BY <1>1, <1>2, <1>3
       DEF SaferSide, AtLeast, critical_elevation_anchor, warn_elevation_anchor

LEMMA ModifiersInt ==
  ASSUME NEW r \in Evidences
  PROVE  Modifiers(r) \in Int
<1>1. /\ AtMost(1500, 400 * r.corroborating) \in Int
      /\ Clamp(100 * r.location, -1000, 1000) \in Int
      /\ Clamp(r.escalation \div 10, -1000, 1000) \in Int
  BY DEF Evidences, AtMost, AtLeast, Clamp
<1> QED BY <1>1 DEF Modifiers

LEMMA FusedMonotone ==
  ASSUME NEW r \in Evidences, NEW s \in Evidences, Graver(s, r),
         Disagreement(r) => Disagreement(s)
  PROVE  Fused(s) >= Fused(r)
<1>1. SaferSide(r) \in Int /\ SaferSide(s) \in Int /\ SaferSide(r) <= SaferSide(s)
  BY SaferSideMonotone
<1>2. Modifiers(s) = Modifiers(r) /\ Modifiers(r) \in Int
  BY ModifiersInt DEF Modifiers, Graver
<1>3. DecayPercent(s) = DecayPercent(r) /\ DecayPercent(r) \in {50, 100}
  BY DEF DecayPercent, Graver
<1> DEFINE m == (SaferSide(r) + Modifiers(r)) * DecayPercent(r)
           n == (SaferSide(s) + Modifiers(s)) * DecayPercent(s)
<1>4. m \in Int /\ n \in Int /\ m <= n
  BY <1>1, <1>2, <1>3
<1> HIDE DEF m, n
<1>5. Rounded(m, 100) <= Rounded(n, 100) /\ Rounded(m, 100) \in Int /\ Rounded(n, 100) \in Int
  BY <1>4, RoundedMonotone, RoundedInt
<1> QED BY <1>5 DEF Fused, Clamp, AtLeast, AtMost, m, n

(* A source in distress.                                                   *)
Alarmed(r) ==
  \/ r.regex.score >= 75 \/ r.header.local >= 70
  \/ r.groq.active /\ r.groq.score >= 80

(* Sources that do not diverge are all close to the one in distress: the   *)
(* header's severity alone cannot draw their mean below 35.                *)
LEMMA MeanOfDistress ==
  ASSUME NEW r \in Evidences, ~Disagreement(r), Alarmed(r)
  PROVE  Base(r) >= 3500
<1> DEFINE w == SourceWeight(r)
           x == SourceScore(r)
           h == HeaderConfidence(r)
           g == RegexConfidence(r)
           a == w.groq
           x1 == x.severity
           x2 == x.regex
           x3 == x.local_model
           x4 == x.groq
<1>1. /\ h \in 10 .. 100 /\ g \in {70, 95} /\ a \in Nat
      /\ w.severity = 25 * h /\ w.regex = 20 * g /\ w.local_model = 20 * h
  BY ConfidencesTyped, WeightsTyped
<1>2. /\ x1 \in 20 .. 100 /\ x2 \in Points /\ x3 \in Points /\ x4 \in Points
      /\ x2 = r.regex.score /\ x3 = r.header.local /\ x4 = r.groq.score
  <2>1. x1 \in {20, 55, 90}
    BY ScoresTyped
  <2> QED BY <2>1, ScoresTyped
<1>3. ~r.groq.active => a = 0
  BY WeightsTyped
<1> HIDE DEF w, x, h, g
<1>4. ASSUME NEW u \in ActiveScores(r), NEW v \in ActiveScores(r) PROVE ~(u - v >= 30)
  BY <1>4 DEF Disagreement
<1>5. x2 \in ActiveScores(r) /\ x3 \in ActiveScores(r) /\ (r.groq.active => x4 \in ActiveScores(r))
  BY <1>2 DEF ActiveScores
<1>6. \/ x2 >= 75 /\ x3 >= 46 /\ (x4 >= 46 \/ a = 0)
      \/ x3 >= 70 /\ x2 >= 41 /\ (x4 >= 41 \/ a = 0)
      \/ x4 >= 80 /\ x2 >= 51 /\ x3 >= 51
  <2>1. x2 \in Int /\ x3 \in Int /\ x4 \in Int
    BY <1>2 DEF Points
  <2>2. /\ ~(x2 - x3 >= 30) /\ ~(x3 - x2 >= 30)
        /\ r.groq.active => /\ ~(x2 - x4 >= 30) /\ ~(x3 - x4 >= 30)
                            /\ ~(x4 - x2 >= 30) /\ ~(x4 - x3 >= 30)
    BY <1>4, <1>5
  <2>3. x2 >= 75 \/ x3 >= 70 \/ (r.groq.active /\ x4 >= 80)
    BY <1>2 DEF Alarmed
  <2> HIDE DEF x2, x3, x4
  <2> QED BY ONLY <1>3, <2>1, <2>2, <2>3
<1> HIDE DEF a, x1, x2, x3, x4
<1> DEFINE total == 25 * h + 20 * g + 20 * h + a
           weighed == (25 * h) * x1 + (20 * g) * x2 + (20 * h) * x3 + a * x4
<1>7. total = TotalWeight(w) /\ weighed = Weighed(w, x)
  BY <1>1 DEF TotalWeight, Weighed, a, x1, x2, x3, x4
<1>8. total \in Nat \ {0} /\ weighed \in Int /\ total * 35 <= weighed
  <2>1. /\ x2 \in Nat /\ x3 \in Nat /\ x4 \in Nat /\ x1 \in Nat /\ x1 >= 20
        /\ h \in Nat /\ h >= 10 /\ h <= 100 /\ g \in Nat /\ g >= 70 /\ a \in Nat
    BY <1>1, <1>2 DEF Points
  <2>2. (25 * h) * x1 >= 500 * h
    BY <2>1, TimesMonotone
  <2>3. ASSUME NEW l2 \in Nat, NEW l3 \in Nat, NEW l4 \in Nat,
               x2 >= l2, x3 >= l3, x4 >= l4 \/ a = 0
        PROVE  /\ (20 * g) * x2 >= (20 * g) * l2
               /\ (20 * h) * x3 >= (20 * h) * l3
               /\ a * x4 >= a * l4
    <3>1. 20 * g \in Nat /\ 20 * h \in Nat
      BY <2>1
    <3>2. a * x4 >= a * l4
      BY <2>1, <2>3, TimesMonotone
    <3> QED BY <2>1, <2>3, <3>1, <3>2, TimesMonotone
  <2>4. /\ (25 * h) * x1 \in Int /\ (20 * g) * x2 \in Int /\ (20 * h) * x3 \in Int /\ a * x4 \in Int
    BY <2>1
  <2>5. CASE x2 >= 75 /\ x3 >= 46 /\ (x4 >= 46 \/ a = 0)
    <3>1. (20 * g) * x2 >= (20 * g) * 75 /\ (20 * h) * x3 >= (20 * h) * 46 /\ a * x4 >= a * 46
      BY <2>3, <2>5
    <3> QED BY ONLY <2>1, <2>2, <2>4, <3>1
  <2>6. CASE x3 >= 70 /\ x2 >= 41 /\ (x4 >= 41 \/ a = 0)
    <3>1. (20 * g) * x2 >= (20 * g) * 41 /\ (20 * h) * x3 >= (20 * h) * 70 /\ a * x4 >= a * 41
      BY <2>3, <2>6
    <3> QED BY ONLY <2>1, <2>2, <2>4, <3>1
  <2>7. CASE x4 >= 80 /\ x2 >= 51 /\ x3 >= 51
    <3>1. (20 * g) * x2 >= (20 * g) * 51 /\ (20 * h) * x3 >= (20 * h) * 51 /\ a * x4 >= a * 80
      BY <2>3, <2>7
    <3> QED BY ONLY <2>1, <2>2, <2>4, <3>1
  <2> QED BY <1>6, <2>5, <2>6, <2>7
<1> HIDE DEF total, weighed
<1>9. total * 3500 <= 100 * weighed
  BY <1>8
<1>10. Rounded(100 * weighed, total) >= 3500
  BY <1>8, <1>9, RoundedAtLeast
<1> QED BY <1>7, <1>10 DEF Base, WeightedMean, w, x

(* Distress is heard: what speaks against it is only age and place.        *)
LEMMA DistressFused ==
  ASSUME NEW r \in Evidences, Alarmed(r), r.halfLives = 0, r.location >= 0
  PROVE  Fused(r) >= 3500
<1>1. SaferSide(r) \in Int /\ SaferSide(r) >= 3500
  <2>1. Base(r) \in Int
    BY BaseInt
  <2>2. InDistress(r)
    BY DEF InDistress, Alarmed
  <2>3. Disagreement(r) \/ Base(r) >= 3500
    BY MeanOfDistress
  <2> QED BY <2>1, <2>2, <2>3
          DEF SaferSide, AtLeast, critical_elevation_anchor, warn_elevation_anchor
<1>2. Modifiers(r) \in Nat
  <2>1. /\ AtMost(1500, 400 * r.corroborating) \in Nat
        /\ Clamp(100 * r.location, -1000, 1000) \in Nat
        /\ Clamp(r.escalation \div 10, -1000, 1000) \in Nat
    BY DEF Evidences, AtMost, AtLeast, Clamp
  <2> QED BY <2>1 DEF Modifiers
<1> DEFINE m == (SaferSide(r) + Modifiers(r)) * DecayPercent(r)
<1>3. m \in Int /\ 100 * 3500 <= m
  BY <1>1, <1>2 DEF DecayPercent
<1> HIDE DEF m
<1>4. Rounded(m, 100) >= 3500 /\ Rounded(m, 100) \in Int
  BY <1>3, RoundedAtLeast, RoundedInt
<1> QED BY <1>4 DEF Fused, Clamp, AtLeast, AtMost, m

-----------------------------------------------------------------------------
(* Escalation of a zone in which one more report arrives.                  *)

LEMMA Correspond ==
  ASSUME NEW S, NEW T, IsFiniteSet(S), NEW f \in [S -> T],
         \A x, y \in S : f[x] = f[y] => x = y,
         \A z \in T : \E x \in S : f[x] = z
  PROVE  IsFiniteSet(T) /\ Cardinality(T) = Cardinality(S)
<1>1. f \in Bijection(S, T)
  BY DEF Bijection, Injection, Surjection, IsInjective
<1>2. ExistsBijection(S, T)
  BY <1>1 DEF ExistsBijection
<1> QED BY <1>2, FS_Bijection

(* m is s with t put in at position p.                                     *)
Inserted(m, s, p, t) ==
  /\ m \in Seq(Int) /\ Len(m) = Len(s) + 1
  /\ \A i \in 1 .. Len(s) + 1 :
       m[i] = IF i < p THEN s[i] ELSE IF i = p THEN t ELSE s[i - 1]

LEMMA InsertShape ==
  ASSUME NEW s \in Seq(Int), NEW p \in 1 .. Len(s) + 1, NEW t \in Int
  PROVE  Inserted(InsertAt(s, p, t), s, p, t)
<1> DEFINE a == SubSeq(s, 1, p - 1)
           c == SubSeq(s, p, Len(s))
<1>1. /\ a \in Seq(Int) /\ Len(a) = p - 1
      /\ \A i \in 1 .. p - 1 : a[i] = s[i]
  OBVIOUS
<1>2. /\ c \in Seq(Int) /\ Len(c) = Len(s) + 1 - p
      /\ \A i \in 1 .. Len(s) + 1 - p : c[i] = s[p + i - 1]
  OBVIOUS
<1> HIDE DEF a, c
<1> DEFINE b == a \o <<t>>
<1>3. /\ b \in Seq(Int) /\ Len(b) = p
      /\ \A i \in 1 .. p : b[i] = IF i < p THEN s[i] ELSE t
  BY <1>1
<1>4. /\ b \o c \in Seq(Int) /\ Len(b \o c) = Len(s) + 1
      /\ \A i \in 1 .. Len(s) + 1 :
           (b \o c)[i] = IF i <= p THEN b[i] ELSE c[i - p]
  <2> HIDE DEF b
  <2>1. PICK n \in Nat : n = Len(s)
    OBVIOUS
  <2>2. /\ b \in Seq(Int) /\ Len(b) = p /\ p \in Nat
        /\ c \in Seq(Int) /\ Len(c) = n + 1 - p
    BY <1>2, <1>3, <2>1
  <2>3. b \o c \in Seq(Int) /\ Len(b \o c) = n + 1
    BY ONLY <2>1, <2>2
  <2>4. ASSUME NEW i \in 1 .. n + 1 PROVE (b \o c)[i] = IF i <= p THEN b[i] ELSE c[i - p]
    <3>1. i \in 1 .. Len(b) + Len(c)
      BY ONLY <2>2, i \in 1 .. n + 1, n \in Nat
    <3> QED BY ONLY <2>2, <3>1
  <2> QED BY <2>1, <2>3, <2>4
<1>5. \A i \in 1 .. Len(s) + 1 : (b \o c)[i] = IF i < p THEN s[i] ELSE IF i = p THEN t ELSE s[i - 1]
  <2> HIDE DEF b
  <2> TAKE i \in 1 .. Len(s) + 1
  <2>1. CASE i <= p
    <3>1. (b \o c)[i] = b[i] /\ i \in 1 .. p
      BY <2>1, <1>4
    <3> QED BY <2>1, <3>1, <1>3
  <2>2. CASE i > p
    <3> DEFINE k == i - p
    <3>1. k \in 1 .. Len(s) + 1 - p /\ p + k - 1 = i - 1
      BY <2>2
    <3>2. (b \o c)[i] = c[k]
      BY <2>2, <1>4
    <3> HIDE DEF k
    <3>3. c[k] = s[i - 1]
      BY <3>1, <1>2
    <3> QED BY <2>2, <3>2, <3>3
  <2>3. i <= p \/ i > p
    OBVIOUS
  <2> QED BY <2>1, <2>2, <2>3
<1>6. InsertAt(s, p, t) = b \o c
  BY DEF InsertAt, a, c
<1> HIDE DEF b
<1> QED BY <1>4, <1>5, <1>6 DEF Inserted

(* The positions of the reports before and after one more is inserted.     *)
Shifted(p, i) == IF i < p THEN i ELSE i + 1

Within(s, low, high) == {i \in DOMAIN s : low <= s[i] /\ s[i] <= high}

LEMMA ShiftedPositions ==
  ASSUME NEW s \in Seq(Int), NEW p \in 1 .. Len(s) + 1, NEW t \in Int,
         NEW m, Inserted(m, s, p, t), NEW low \in Int, NEW high \in Int
  PROVE  /\ IsFiniteSet(Within(s, low, high))
         /\ Cardinality(Within(m, low, high)) =
              Cardinality(Within(s, low, high)) + (IF low <= t /\ t <= high THEN 1 ELSE 0)
<1> DEFINE before == {i \in DOMAIN s : low <= s[i] /\ s[i] <= high}
           after == {i \in DOMAIN m : low <= m[i] /\ m[i] <= high}
           moved == after \ {p}
           f == [i \in before |-> Shifted(p, i)]
<1>1. /\ DOMAIN s = 1 .. Len(s) /\ DOMAIN m = 1 .. Len(s) + 1 /\ Len(s) \in Nat
      /\ \A i \in 1 .. Len(s) + 1 :
           m[i] = IF i < p THEN s[i] ELSE IF i = p THEN t ELSE s[i - 1]
  BY DEF Inserted
<1>2. IsFiniteSet(before) /\ IsFiniteSet(after)
  <2>1. IsFiniteSet(1 .. Len(s)) /\ IsFiniteSet(1 .. Len(s) + 1)
    BY <1>1, FS_Interval
  <2>2. before \in SUBSET (1 .. Len(s)) /\ after \in SUBSET (1 .. Len(s) + 1)
    BY <1>1
  <2> QED BY <2>1, <2>2, FS_Subset
<1>3. f \in [before -> moved]
  <2> SUFFICES ASSUME NEW i \in before PROVE Shifted(p, i) \in moved
    OBVIOUS
  <2>1. i \in 1 .. Len(s) /\ low <= s[i] /\ s[i] <= high
    BY <1>1
  <2>2. CASE i < p
    <3>1. i \in 1 .. Len(s) + 1 /\ m[i] = s[i]
      BY <1>1, <2>1, <2>2
    <3> QED BY <1>1, <2>1, <2>2, <3>1 DEF Shifted
  <2>3. CASE i >= p
    <3>1. i + 1 \in 1 .. Len(s) + 1 /\ i + 1 > p /\ (i + 1) - 1 = i
      BY <1>1, <2>1, <2>3
    <3>2. m[i + 1] = s[i]
      BY <1>1, <3>1
    <3> QED BY <1>1, <2>1, <2>3, <3>1, <3>2 DEF Shifted
  <2> QED BY <2>1, <2>2, <2>3
<1>4. \A x, y \in before : f[x] = f[y] => x = y
  BY <1>1 DEF Shifted
<1>5. \A z \in moved : \E x \in before : f[x] = z
  <2> TAKE z \in moved
  <2>1. CASE z < p
    <3>1. z \in before /\ f[z] = z
      BY <1>1, <2>1 DEF Shifted
    <3> QED BY <3>1
  <2>2. CASE z > p
    <3>1. z - 1 \in before /\ f[z - 1] = z
      BY <1>1, <2>2 DEF Shifted
    <3> QED BY <3>1
  <2>3. z < p \/ z > p
    BY <1>1
  <2> QED BY <2>1, <2>2, <2>3
<1> HIDE DEF f
<1>6. IsFiniteSet(moved) /\ Cardinality(moved) = Cardinality(before)
  <2> HIDE DEF before, moved
  <2> QED BY <1>2, <1>3, <1>4, <1>5, Correspond
<1>7. p \in after <=> low <= t /\ t <= high
  BY <1>1
<1>8. Cardinality(after) = Cardinality(moved) + (IF p \in after THEN 1 ELSE 0)
  <2>1. CASE p \in after
    <3>1. after = moved \cup {p} /\ p \notin moved
      BY <2>1
    <3> HIDE DEF after, moved
    <3>2. Cardinality(after) = Cardinality(moved) + 1
      BY <3>1, <1>6, FS_AddElement
    <3> QED BY <2>1, <3>2
  <2>2. CASE p \notin after
    <3>1. after = moved
      BY <2>2
    <3>2. Cardinality(moved) \in Nat
      BY <1>6, FS_CardinalityType
    <3> HIDE DEF after, moved
    <3> QED BY <2>2, <3>1, <3>2
  <2> QED BY <2>1, <2>2
<1> HIDE DEF before, after, moved
<1> QED BY <1>2, <1>6, <1>7, <1>8 DEF Within, before, after

LEMMA CountsOfWindows ==
  ASSUME NEW s \in Seq(Int), NEW p \in 1 .. Len(s) + 1, NEW t \in Int,
         NEW m, Inserted(m, s, p, t), NEW now \in Int,
         now - recent_window <= t, t <= now
  PROVE  /\ Cardinality(Recent(s, now)) \in Nat /\ Cardinality(Prior(s, now)) \in Nat
         /\ Cardinality(Recent(m, now)) = Cardinality(Recent(s, now)) + 1
         /\ Cardinality(Prior(m, now)) = Cardinality(Prior(s, now))
<1>1. now - 300 \in Int /\ now - 301 \in Int /\ now - 900 \in Int
  OBVIOUS
<1>2. now - 300 <= t
  BY DEF recent_window
<1>3. m \in Seq(Int)
  BY DEF Inserted
<1>4. ASSUME NEW x \in Seq(Int)
      PROVE  /\ Recent(x, now) = Within(x, now - 300, now)
             /\ Prior(x, now) = Within(x, now - 900, now - 301)
  <2>1. \A i \in DOMAIN x : x[i] \in Int
    OBVIOUS
  <2>2. \A i \in DOMAIN x : x[i] < now - 300 <=> x[i] <= now - 301
    BY <2>1
  <2> QED BY <2>2 DEF Recent, Prior, Within, recent_window, prior_window
<1>5. /\ IsFiniteSet(Recent(s, now))
      /\ Cardinality(Recent(m, now)) = Cardinality(Recent(s, now)) + 1
  BY <1>1, <1>2, <1>3, <1>4, ShiftedPositions
<1>6. /\ IsFiniteSet(Prior(s, now))
      /\ Cardinality(Prior(m, now)) = Cardinality(Prior(s, now)) + 0
  <2>1. ~(t <= now - 301)
    BY <1>2
  <2> QED BY <1>1, <1>3, <1>4, <2>1, ShiftedPositions
<1>7. Cardinality(Recent(s, now)) \in Nat /\ Cardinality(Prior(s, now)) \in Nat
  BY <1>5, <1>6, FS_CardinalityType
<1> QED BY <1>5, <1>6, <1>7

(* A chain of arrivals is still one, wherever the other report falls in.   *)
LEMMA BurstKept ==
  ASSUME NEW s \in Seq(Int), NEW p \in 1 .. Len(s) + 1, NEW t \in Int,
         NEW m, Inserted(m, s, p, t), InOrder(m), NEW now \in Int,
         now - recent_window <= t, t <= now, HasBurst(s, now)
  PROVE  HasBurst(m, now)
<1>1. PICK i \in DOMAIN s : Chain(s, now, i)
  BY DEF HasBurst
<1>2. PICK n \in Nat : n = Len(s) /\ DOMAIN s = 1 .. n /\ DOMAIN m = 1 .. n + 1 /\ p \in 1 .. n + 1
  BY DEF Inserted
<1>3. i \in Nat /\ i >= 3 /\ i <= n /\ n \in Nat /\ p \in Nat /\ p >= 1 /\ p <= n + 1
  <2>1. i - 2 \in DOMAIN s
    BY <1>1 DEF Chain, Recent
  <2> QED BY <1>2, <2>1
<1>4. PICK x \in Int, y \in Int, z \in Int : x = s[i - 2] /\ y = s[i - 1] /\ z = s[i]
  <2>1. i \in DOMAIN s /\ i - 1 \in DOMAIN s /\ i - 2 \in DOMAIN s
    BY <1>2, <1>3
  <2>2. s[i] \in Int /\ s[i - 1] \in Int /\ s[i - 2] \in Int
    BY <2>1
  <2> QED BY <2>2
<1>5. /\ now - 300 <= x /\ x <= now /\ now - 300 <= y /\ y <= now /\ now - 300 <= z /\ z <= now
      /\ now - 300 <= t /\ t <= now /\ z - y <= 45 /\ y - x <= 45
  BY <1>1, <1>4 DEF Chain, Recent, recent_window, burst_interval
<1>6. ASSUME NEW k \in Nat, k <= n + 1
      PROVE  /\ k >= 1 /\ k < p => m[k] = s[k]
             /\ k = p => m[k] = t
             /\ k > p => m[k] = s[k - 1]
  <2>1. \A j \in 1 .. n + 1 : m[j] = IF j < p THEN s[j] ELSE IF j = p THEN t ELSE s[j - 1]
    BY <1>2 DEF Inserted
  <2> QED BY <1>3, <1>6, <2>1
<1>7. ASSUME NEW k \in Nat, k >= 3, k <= n + 1,
             NEW a \in Int, NEW b \in Int, NEW c \in Int,
             a = m[k - 2], b = m[k - 1], c = m[k],
             now - 300 <= a, a <= now, now - 300 <= b, b <= now, now - 300 <= c, c <= now,
             c - b <= 45, b - a <= 45
      PROVE  HasBurst(m, now)
  <2>1. k \in DOMAIN m /\ k - 1 \in DOMAIN m /\ k - 2 \in DOMAIN m
    BY <1>2, <1>7
  <2>2. {k - 2, k - 1, k} \subseteq Recent(m, now)
    BY <1>7, <2>1 DEF Recent, recent_window
  <2> QED BY <1>7, <2>1, <2>2 DEF HasBurst, Chain, burst_interval
<1>8. ASSUME NEW k \in Nat, NEW l \in Nat, 1 <= k, k < l, l <= n + 1 PROVE m[k] <= m[l]
  BY <1>2, <1>8 DEF InOrder
<1>9. CASE p <= i - 2
  <2>1. i + 1 \in Nat /\ i + 1 >= 3 /\ i + 1 <= n + 1 /\ i + 1 > p /\ i <= n + 1 /\ i > p
    BY ONLY <1>3, <1>9
  <2>2. i - 1 \in Nat /\ i - 1 <= n + 1
    BY ONLY <1>3, <1>9
  <2>3. i - 1 > p
    BY ONLY <1>3, <1>9
  <2>4. (i + 1) - 1 = i /\ (i + 1) - 2 = i - 1 /\ (i - 1) - 1 = i - 2
    BY ONLY <1>3
  <2>5. m[i + 1] = z /\ m[i] = y /\ m[i - 1] = x
    BY <1>3, <1>4, <1>6, <2>1, <2>2, <2>3, <2>4
  <2> QED BY <1>5, <1>7, <2>1, <2>4, <2>5
<1>10. CASE p = i - 1
  <2>1. i <= n + 1 /\ i - 1 \in Nat /\ i - 2 \in Nat /\ i - 1 = p /\ i > p /\ i - 2 >= 1 /\ i - 2 < p
        /\ i - 1 <= n + 1 /\ i - 2 <= n + 1 /\ i - 2 < i - 1 /\ i - 1 < i /\ 1 <= i - 1
    BY ONLY <1>3, <1>10
  <2>2. m[i] = y /\ m[i - 1] = t /\ m[i - 2] = x
    BY <1>3, <1>4, <1>6, <2>1
  <2>3. x <= t /\ t <= y
    BY <1>3, <1>8, <2>1, <2>2
  <2>4. y - t <= 45 /\ t - x <= 45
    BY ONLY <1>5, <2>3, x \in Int, y \in Int, t \in Int
  <2> QED BY <1>3, <1>5, <1>7, <2>1, <2>2, <2>4
<1>11. CASE p = i
  <2>0. /\ i - 1 \in Nat /\ i - 2 \in Nat /\ i - 1 >= 1 /\ i - 1 < p /\ i - 2 >= 1 /\ i - 2 < p
        /\ i - 1 <= n + 1 /\ i - 2 <= n + 1
    BY ONLY <1>3, <1>11
  <2>1. /\ i <= n + 1 /\ i + 1 <= n + 1 /\ i + 1 > p /\ (i + 1) - 1 = i
        /\ i < i + 1 /\ 1 <= i /\ i + 1 \in Nat
    BY ONLY <1>3, <1>11
  <2>2. m[i + 1] = z /\ m[i] = t /\ m[i - 1] = y /\ m[i - 2] = x
    BY <1>3, <1>4, <1>6, <1>11, <2>0, <2>1
  <2>3. t <= z
    BY <1>3, <1>8, <2>0, <2>1, <2>2
  <2>4. t - y <= 45
    BY ONLY <1>5, <2>3, z \in Int, y \in Int, t \in Int
  <2> QED BY <1>3, <1>5, <1>7, <2>0, <2>1, <2>2, <2>4
<1>12. CASE p > i
  <2>1. i <= n + 1 /\ i - 1 \in Nat /\ i - 2 \in Nat /\ i - 2 >= 1 /\ i - 1 >= 1 /\ i >= 1
        /\ i - 1 <= n + 1 /\ i - 2 <= n + 1 /\ i - 2 < p /\ i - 1 < p /\ i < p
    BY ONLY <1>3, <1>12
  <2>2. m[i] = z /\ m[i - 1] = y /\ m[i - 2] = x
    BY <1>3, <1>4, <1>6, <2>1
  <2> QED BY <1>3, <1>5, <1>7, <2>1, <2>2
<1>13. p <= i - 2 \/ p = i - 1 \/ p = i \/ p > i
  BY ONLY <1>3
<1> QED BY <1>9, <1>10, <1>11, <1>12, <1>13

LEMMA RateTyped ==
  ASSUME NEW s, NEW now, Cardinality(Recent(s, now)) \in Nat, Cardinality(Prior(s, now)) \in Nat
  PROVE  LET n == Cardinality(Recent(s, now))
             a == Acceleration(s, now)
         IN /\ RateSignal(s, now) = AtMost(1000, 50 * n)
            /\ a = IF n + Cardinality(Prior(s, now)) < 2 THEN 0
                   ELSE 2 * n - Cardinality(Prior(s, now))
            /\ a \in Int
            /\ AccelerationSignal(s, now) = IF a > 0 THEN AtMost(1000, 40 * a)
                                            ELSE AtLeast(-250, 20 * a)
            /\ RateSignal(s, now) \in Int /\ AccelerationSignal(s, now) \in Int
<1> DEFINE n == Cardinality(Recent(s, now))
           k == Cardinality(Prior(s, now))
           a == Acceleration(s, now)
<1>1. n \in Nat /\ k \in Nat
  OBVIOUS
<1>2. RateSignal(s, now) = Min({1000, 25 * (2 * n)})
  BY DEF RateSignal, Rate
<1>3. a = IF n + k < 2 THEN 0 ELSE 2 * n - k
  BY DEF Acceleration
<1>4. AccelerationSignal(s, now) = IF a > 0 THEN Min({1000, 40 * a}) ELSE Max({-250, 20 * a})
  BY DEF AccelerationSignal
<1> HIDE DEF n, k, a
<1>5. a \in Int
  BY <1>1, <1>3
<1>6. 25 * (2 * n) = 50 * n /\ 25 * (2 * n) \in Int
  BY <1>1
<1>7. RateSignal(s, now) = AtMost(1000, 50 * n)
  BY <1>2, <1>6, LeastOfTwo
<1>8. AccelerationSignal(s, now) = IF a > 0 THEN AtMost(1000, 40 * a) ELSE AtLeast(-250, 20 * a)
  BY <1>4, <1>5, LeastOfTwo, GreatestOfTwo
<1>9. RateSignal(s, now) \in Int /\ AccelerationSignal(s, now) \in Int
  BY <1>1, <1>5, <1>7, <1>8 DEF AtMost, AtLeast
<1> QED BY <1>3, <1>5, <1>7, <1>8, <1>9 DEF n, k, a

(* escalation_signal, with a sum in place of the signals.                  *)
Clipped(raw) == AtLeast(0, AtMost(1000, raw))
Raw(s, now) ==
  (55 * RateSignal(s, now) + 45 * AccelerationSignal(s, now)) \div 100
    + (IF HasBurst(s, now) THEN 150 ELSE 0)

LEMMA EscalationClipped ==
  ASSUME NEW s, NEW now, Cardinality(Recent(s, now)) \in Nat, Cardinality(Prior(s, now)) \in Nat
  PROVE  /\ Raw(s, now) \in Int
         /\ s # <<>> => Escalation(s, now) = Clipped(Raw(s, now))
<1>1. RateSignal(s, now) \in Int /\ AccelerationSignal(s, now) \in Int
  BY RateTyped
<1>2. Raw(s, now) \in Int
  <2>1. (55 * RateSignal(s, now) + 45 * AccelerationSignal(s, now)) \div 100 \in Int
    BY <1>1
  <2> QED BY <2>1 DEF Raw
<1>3. s # <<>> => Escalation(s, now) = Max({0, Min({1000, Raw(s, now)})})
  BY DEF Escalation, Raw
<1> DEFINE raw == Raw(s, now)
           low == Min({1000, raw})
<1>4. raw \in Int
  BY <1>2
<1>5. s # <<>> => Escalation(s, now) = Max({0, low})
  BY <1>3
<1>6. low = AtMost(1000, raw) /\ low \in Int
  <2> HIDE DEF raw
  <2> QED BY <1>4, LeastOfTwo DEF AtMost
<1> HIDE DEF raw, low
<1>7. Max({0, low}) = AtLeast(0, low)
  BY <1>6, GreatestOfTwo
<1>8. s # <<>> => Escalation(s, now) = Clipped(raw)
  BY <1>5, <1>6, <1>7 DEF Clipped
<1> QED BY <1>2, <1>8 DEF raw

LEMMA EscalationRange ==
  ASSUME NEW s \in Seq(Int), NEW now \in Int
  PROVE  Escalation(s, now) \in 0 .. 1000
<1>1. /\ Recent(s, now) \in SUBSET (1 .. Len(s)) /\ Prior(s, now) \in SUBSET (1 .. Len(s))
      /\ Len(s) \in Nat
  BY DEF Recent, Prior
<1>2. IsFiniteSet(Recent(s, now)) /\ IsFiniteSet(Prior(s, now))
  <2>1. IsFiniteSet(1 .. Len(s))
    BY <1>1, FS_Interval
  <2> QED BY <1>1, <2>1, FS_Subset
<1>3. Cardinality(Recent(s, now)) \in Nat /\ Cardinality(Prior(s, now)) \in Nat
  BY <1>2, FS_CardinalityType
<1>4. Raw(s, now) \in Int /\ (s # <<>> => Escalation(s, now) = Clipped(Raw(s, now)))
  BY <1>3, EscalationClipped
<1>5. CASE s = <<>>
  BY <1>5 DEF Escalation
<1>6. CASE s # <<>>
  <2> DEFINE raw == Raw(s, now)
  <2>1. raw \in Int /\ Escalation(s, now) = Clipped(raw)
    BY <1>4, <1>6
  <2> HIDE DEF raw
  <2>2. Clipped(raw) \in 0 .. 1000
    BY <2>1 DEF Clipped, AtLeast, AtMost
  <2> QED BY <2>1, <2>2
<1> QED BY <1>5, <1>6

(* One more recent report never calms a zone.                              *)
LEMMA EscalationGrows ==
  ASSUME NEW s \in Seq(Int), s # <<>>, NEW p \in 1 .. Len(s) + 1, NEW t \in Int,
         NEW m, Inserted(m, s, p, t), InOrder(m), NEW now \in Int,
         now - recent_window <= t, t <= now
  PROVE  Escalation(m, now) >= Escalation(s, now)
<1> DEFINE n == Cardinality(Recent(s, now))
           k == Cardinality(Prior(s, now))
           a == Acceleration(s, now)
           b == Acceleration(m, now)
<1>1. /\ n \in Nat /\ k \in Nat
      /\ Cardinality(Recent(m, now)) = n + 1 /\ Cardinality(Prior(m, now)) = k
  BY CountsOfWindows
<1>2. /\ RateSignal(s, now) = AtMost(1000, 50 * n)
      /\ a = IF n + k < 2 THEN 0 ELSE 2 * n - k
      /\ AccelerationSignal(s, now) = IF a > 0 THEN AtMost(1000, 40 * a) ELSE AtLeast(-250, 20 * a)
  <2>1. Cardinality(Recent(s, now)) \in Nat /\ Cardinality(Prior(s, now)) \in Nat
    BY <1>1
  <2> QED BY <2>1, RateTyped
<1>3. /\ RateSignal(m, now) = AtMost(1000, 50 * (n + 1))
      /\ b = IF (n + 1) + k < 2 THEN 0 ELSE 2 * (n + 1) - k
      /\ AccelerationSignal(m, now) = IF b > 0 THEN AtMost(1000, 40 * b) ELSE AtLeast(-250, 20 * b)
  <2>1. Cardinality(Recent(m, now)) \in Nat /\ Cardinality(Prior(m, now)) \in Nat
    BY <1>1
  <2> QED BY <1>1, <2>1, RateTyped
<1> HIDE DEF n, k, a, b
<1>4. a \in Int /\ b \in Int /\ a <= b
  BY ONLY <1>1, <1>2, <1>3
<1>5. /\ RateSignal(s, now) \in Int /\ RateSignal(m, now) \in Int
      /\ RateSignal(s, now) <= RateSignal(m, now)
  BY <1>1, <1>2, <1>3 DEF AtMost
<1>6. /\ AccelerationSignal(s, now) \in Int /\ AccelerationSignal(m, now) \in Int
      /\ AccelerationSignal(s, now) <= AccelerationSignal(m, now)
  <2> DEFINE x == AccelerationSignal(s, now)
             y == AccelerationSignal(m, now)
  <2>1. /\ x = IF a > 0 THEN AtMost(1000, 40 * a) ELSE AtLeast(-250, 20 * a)
        /\ y = IF b > 0 THEN AtMost(1000, 40 * b) ELSE AtLeast(-250, 20 * b)
    BY <1>2, <1>3
  <2> HIDE DEF x, y
  <2>2. x \in Int /\ y \in Int /\ x <= y
    BY ONLY <1>4, <2>1 DEF AtMost, AtLeast
  <2> QED BY <2>2 DEF x, y
<1>7. HasBurst(s, now) => HasBurst(m, now)
  BY BurstKept
<1>8. /\ Raw(s, now) \in Int /\ Raw(m, now) \in Int
      /\ Escalation(s, now) = Clipped(Raw(s, now)) /\ Escalation(m, now) = Clipped(Raw(m, now))
  <2>1. m # <<>>
    BY DEF Inserted
  <2>2. Cardinality(Recent(m, now)) \in Nat /\ Cardinality(Prior(m, now)) \in Nat
    BY <1>1
  <2> QED BY <1>1, <2>1, <2>2, EscalationClipped DEF n, k
<1>9. Raw(s, now) <= Raw(m, now)
  <2> DEFINE u == 55 * RateSignal(s, now) + 45 * AccelerationSignal(s, now)
             v == 55 * RateSignal(m, now) + 45 * AccelerationSignal(m, now)
  <2>1. u \in Int /\ v \in Int /\ u <= v
    BY ONLY <1>5, <1>6
  <2> HIDE DEF u, v
  <2>2. u \div 100 <= v \div 100 /\ u \div 100 \in Int /\ v \div 100 \in Int
    BY <2>1
  <2> QED BY <1>7, <2>2 DEF Raw, u, v
<1> QED BY <1>8, <1>9 DEF Clipped, AtLeast, AtMost

-----------------------------------------------------------------------------
(* The stages of a report.                                                 *)

LEMMA GravestRule ==
  ASSUME NEW S \in SUBSET Rules, S # {}
  PROVE  \E x \in S : \A y \in S : y.score <= x.score
<1> DEFINE T == {100 - x.score : x \in S}
           R == OpToRel(<, Nat)
<1>1. \A x \in S : x.score \in Points
  BY DEF Rules
<1>2. T \subseteq Nat /\ T # {}
  BY <1>1 DEF Points
<1>3. IsWellFoundedOn(R, Nat)
  BY NatLessThanWellFounded
<1>4. PICK k \in T : \A l \in T : ~(<<l, k>> \in R)
  <2> HIDE DEF T, R
  <2> QED BY <1>2, <1>3, WFMin
<1>5. PICK x \in S : k = 100 - x.score
  OBVIOUS
<1>6. \A y \in S : y.score <= x.score
  <2> SUFFICES ASSUME NEW y \in S, ~(y.score <= x.score) PROVE FALSE
    OBVIOUS
  <2> DEFINE g == x.score
             h == y.score
  <2>0. g \in 0 .. 100 /\ h \in 0 .. 100 /\ k = 100 - g /\ ~(h <= g)
    BY <1>1, <1>5 DEF Points
  <2> HIDE DEF g, h
  <2>1. 100 - h < k /\ 100 - h \in Nat /\ k \in Nat
    BY ONLY <2>0
  <2>2. 100 - h \in T
    BY DEF h
  <2>3. <<100 - h, k>> \in R
    BY <2>1 DEF OpToRel
  <2> QED BY <1>4, <2>2, <2>3
<1> QED BY <1>6

RuleVerdicts == [score : Points, matched : BOOLEAN, category : Category]

LEMMA EvaluateTyped ==
  ASSUME NEW text, text.rules \in SUBSET Rules
  PROVE  evaluate(text) \in RuleVerdicts
<1>1. CASE text.empty \/ text.rules = {}
  <2>1. "other" \in Category
    BY DEF Category
  <2>2. 15 \in Points /\ 0 \in Points
    BY DEF Points
  <2> QED BY <1>1, <2>1, <2>2 DEF evaluate, RuleVerdicts
<1>2. CASE ~text.empty /\ text.rules # {}
  <2> DEFINE g == CHOOSE m \in text.rules : \A n \in text.rules : n.score <= m.score
  <2>1. g \in text.rules
    BY <1>2, GravestRule
  <2>2. g.score \in Points /\ g.category \in Category
    <3> HIDE DEF g
    <3> QED BY <2>1 DEF Rules
  <2>3. evaluate(text) = [score |-> g.score, matched |-> TRUE, category |-> g.category]
    BY <1>2 DEF evaluate
  <2> HIDE DEF g
  <2> QED BY <2>2, <2>3 DEF RuleVerdicts
<1> QED BY <1>1, <1>2

Teams == {"ambulance", "rescue_team", "fire_truck", "evacuation", "medical_supplies"}

LEMMA ResourcesTyped ==
  ASSUME NEW e, NEW critical, NEW warn, NEW priority
  PROVE  derive_recommended_resources(e, critical, warn, priority) \in SUBSET Teams
<1>1. DOMAIN Needed(e) = Teams
  BY DEF Needed, Teams
<1>2. DefaultTeam(critical, warn, priority) \in SUBSET Teams
  BY DEF DefaultTeam, Teams
<1> QED BY <1>1, <1>2 DEF derive_recommended_resources

(* What the rules and Groq found, or the rules alone.                      *)
Gathered ==
  /\ gathered.regex = evaluate(report.text)
  /\ gathered.entities \in {report.found, MergedEntities(report.found, report.answer)}
  /\ gathered.groq \in {report.groq, RulesOnly}

Fusion ==
  /\ Gathered
  /\ assessed.escalation \in 0 .. 1000
  /\ verdict.severity = Tier(Fused(Evidence))

ScoreResult ==
  [by : {"none", "fusion", "scorer", "adapter"}, severity : Severity, priority : Points,
   needs_human_review : BOOLEAN, category : Category, resources : SUBSET Teams]

TriageInv ==
  /\ report \in Reports
  /\ stage \in {"gather", "assess", "fuse", "brief", "done"}
  /\ verdict \in ScoreResult
  /\ gathered # NothingGathered => Gathered
  /\ stage \in {"assess", "fuse", "brief"} => Gathered
  /\ stage \in {"fuse", "brief"} => assessed.escalation \in 0 .. 1000
  /\ verdict.by = "fusion" => Fusion
  /\ stage \in {"gather", "assess", "fuse"} => verdict.by = "none"

LEMMA ReportTyped ==
  ASSUME report \in Reports
  PROVE  report \in Report
BY TriageAssumption

LEMMA GroqTyped ==
  ASSUME report \in Reports, Gathered
  PROVE  gathered.groq \in GroqVerdicts /\ gathered.regex \in RuleVerdicts
<1>1. report.groq \in GroqVerdicts /\ report.text.rules \in SUBSET Rules
  BY ReportTyped DEF Report
<1>2. RulesOnly \in GroqVerdicts
  <2>1. "other" \in Category
    BY DEF Category
  <2>2. 50 \in Points /\ 0 \in Points
    BY DEF Points
  <2> QED BY <2>1, <2>2 DEF RulesOnly, GroqVerdicts
<1> QED BY <1>1, <1>2, EvaluateTyped DEF Gathered

LEMMA EvidenceTyped ==
  ASSUME report \in Reports, Gathered, assessed.escalation \in 0 .. 1000
  PROVE  Evidence \in Evidences
<1>1. gathered.groq \in GroqVerdicts /\ gathered.regex \in RuleVerdicts
  BY GroqTyped
<1>2. /\ report.header \in [severity : Severity, regex : Points, local : Points,
                           confidence : Points, category : Category]
      /\ report.payload \in [trapped : BOOLEAN, medical : BOOLEAN, victims : Nat]
      /\ report.corroborating \in Nat /\ report.location \in Int /\ report.halfLives \in Nat
  BY ReportTyped DEF Report
<1> QED BY <1>1, <1>2 DEF Evidence, Evidences, RuleVerdicts

LEMMA FusedRange ==
  ASSUME NEW r \in Evidences
  PROVE  Fused(r) \in 0 .. 10000
<1>1. SaferSide(r) \in Int
  BY BaseInt DEF SaferSide, AtLeast, critical_elevation_anchor, warn_elevation_anchor
<1>2. (SaferSide(r) + Modifiers(r)) * DecayPercent(r) \in Int
  BY <1>1, ModifiersInt DEF DecayPercent
<1> DEFINE m == (SaferSide(r) + Modifiers(r)) * DecayPercent(r)
<1>3. m \in Int
  BY <1>2
<1> HIDE DEF m
<1>4. Rounded(m, 100) \in Int
  BY <1>3, RoundedInt
<1> DEFINE q == Rounded(m, 100)
<1>5. Fused(r) = Clamp(q, 0, 10000)
  BY DEF Fused, m
<1>6. q \in Int
  BY <1>4
<1> HIDE DEF q
<1>7. Clamp(q, 0, 10000) \in 0 .. 10000
  BY <1>6 DEF Clamp, AtLeast, AtMost
<1> QED BY <1>5, <1>7

LEMMA PriorityTyped ==
  ASSUME NEW r \in Evidences
  PROVE  LET c == calculate_priority(r)
         IN /\ c.severity = Tier(Fused(r)) /\ c.severity \in Severity
            /\ c.priority \in Points /\ c.needs_human_review \in BOOLEAN /\ c.category \in Category
<1>1. RoundedEven(Fused(r), 100) \in Points
  <2> DEFINE n == Fused(r)
  <2>1. n \in 0 .. 10000
    BY FusedRange
  <2> HIDE DEF n
  <2>2. RoundedEven(n, 100) \in Points
    BY <2>1 DEF RoundedEven, Rounded, Points
  <2> QED BY <2>2 DEF n
<1>2. Tier(Fused(r)) \in Severity
  BY DEF Tier, Severity
<1>3. NeedsReview(r) \in BOOLEAN
  BY DEF NeedsReview
<1>4. r.groq.category \in Category /\ r.regex.category \in Category /\ r.header.category \in Category
  BY DEF Evidences, GroqVerdicts
<1> QED BY <1>1, <1>2, <1>3, <1>4 DEF calculate_priority

LEMMA TriageInit == Init => TriageInv
<1> SUFFICES ASSUME Init PROVE TriageInv
  OBVIOUS
<1>1. NoVerdict \in ScoreResult /\ NoVerdict.by = "none"
  BY DEF NoVerdict, ScoreResult, Severity, Points, Category
<1> QED BY <1>1 DEF Init, TriageInv

(* Nothing of a report and of what was gathered changes later.             *)
LEMMA RestsOn ==
  ASSUME UNCHANGED <<report, gathered>>
  PROVE  /\ Gathered' <=> Gathered
         /\ assessed' = assessed => Evidence' = Evidence
BY DEF Gathered, Evidence

LEMMA StepGathers ==
  ASSUME TriageInv, Gather \/ GatherByRules
  PROVE  TriageInv'
<1>1. /\ report' = report /\ stage' = "assess" /\ verdict' = verdict /\ verdict.by = "none"
  BY DEF TriageInv, Gather, GatherByRules
<1>2. Gathered'
  BY DEF Gather, GatherByRules, Gathered
<1> QED BY <1>1, <1>2 DEF TriageInv

LEMMA StepAssesses ==
  ASSUME TriageInv, Assess
  PROVE  TriageInv'
<1>1. /\ UNCHANGED <<report, gathered, verdict>> /\ stage' = "fuse" /\ verdict.by = "none" /\ Gathered
  BY DEF TriageInv, Assess
<1>2. assessed'.escalation = IF report.times # <<>>
                             THEN Escalation(report.times, report.times[Len(report.times)])
                             ELSE Clamp(report.trend, 0, 1000)
  BY DEF Assess
<1>3. report.times \in Seq(Int) /\ report.trend \in Int
  BY ReportTyped DEF TriageInv, Report
<1>4. assessed'.escalation \in 0 .. 1000
  <2> DEFINE times == report.times
             now == times[Len(times)]
             trend == report.trend
  <2>1. CASE times # <<>>
    <3>1. times \in Seq(Int) /\ now \in Int
      BY <1>3, <2>1
    <3>2. assessed'.escalation = Escalation(times, now)
      BY <1>2, <2>1
    <3> HIDE DEF now, times
    <3>3. \A x \in Seq(Int), y \in Int : Escalation(x, y) \in 0 .. 1000
      BY ONLY EscalationRange, Zenon
    <3>4. Escalation(times, now) \in 0 .. 1000
      BY ONLY <3>1, <3>3, Zenon
    <3> QED BY ONLY <3>2, <3>4, Zenon
  <2>2. CASE times = <<>>
    <3>1. trend \in Int /\ assessed'.escalation = Clamp(trend, 0, 1000)
      BY <1>2, <1>3, <2>2
    <3> HIDE DEF trend
    <3>2. Clamp(trend, 0, 1000) \in 0 .. 1000
      BY <3>1 DEF Clamp, AtLeast, AtMost
    <3> QED BY <3>1, <3>2
  <2> QED BY <2>1, <2>2
<1>5. Gathered'
  BY <1>1, RestsOn
<1> QED BY <1>1, <1>4, <1>5 DEF TriageInv

LEMMA StepFuses ==
  ASSUME TriageInv, Fuse
  PROVE  TriageInv'
<1>1. /\ UNCHANGED <<report, gathered, assessed>> /\ stage' = "brief" /\ report \in Reports
      /\ Gathered /\ assessed.escalation \in 0 .. 1000
  BY DEF TriageInv, Fuse
<1>2. Gathered' /\ Evidence' = Evidence /\ Evidence \in Evidences
  BY <1>1, RestsOn, EvidenceTyped
<1> DEFINE c == calculate_priority(Evidence)
<1>3. verdict' = [by |-> "fusion", severity |-> c.severity, priority |-> c.priority,
                  needs_human_review |-> c.needs_human_review, category |-> c.category,
                  resources |-> {}]
  BY DEF Fuse
<1>4. /\ c.severity = Tier(Fused(Evidence)) /\ c.severity \in Severity
      /\ c.priority \in Points /\ c.needs_human_review \in BOOLEAN /\ c.category \in Category
  BY <1>2, PriorityTyped
<1> HIDE DEF c
<1>5. verdict' \in ScoreResult /\ verdict'.severity = Tier(Fused(Evidence))
  BY <1>3, <1>4 DEF ScoreResult
<1>6. Fusion'
  BY <1>1, <1>2, <1>5 DEF Fusion
<1> QED BY <1>1, <1>2, <1>5, <1>6 DEF TriageInv

LEMMA StepBriefs ==
  ASSUME TriageInv, Brief
  PROVE  TriageInv'
<1>1. /\ UNCHANGED <<report, gathered, assessed>> /\ stage' = "done" /\ report \in Reports
      /\ Gathered /\ verdict \in ScoreResult
  BY DEF TriageInv, Brief
<1>2. Gathered' /\ Evidence' = Evidence
  BY <1>1, RestsOn
<1>3. PICK teams \in SUBSET Teams : verdict' = [verdict EXCEPT !.resources = teams]
  BY ResourcesTyped DEF Brief
<1>4. verdict' \in ScoreResult /\ verdict'.severity = verdict.severity /\ verdict'.by = verdict.by
  BY <1>1, <1>3 DEF ScoreResult
<1>5. verdict.by = "fusion" => Fusion'
  BY <1>1, <1>2, <1>4 DEF TriageInv, Fusion
<1> QED BY <1>1, <1>2, <1>4, <1>5 DEF TriageInv

LEMMA StepGivesUp ==
  ASSUME TriageInv, FallBack \/ TimeOut
  PROVE  TriageInv'
<1>1. /\ UNCHANGED <<report, gathered, assessed>> /\ stage' = "done" /\ report \in Reports
      /\ gathered # NothingGathered => Gathered
  BY DEF TriageInv, FallBack, TimeOut
<1>2. Gathered' <=> Gathered
  BY <1>1, RestsOn
<1>3. report.text.rules \in SUBSET Rules /\ report.header.category \in Category
  BY <1>1, ReportTyped DEF Report
<1>4. verdict' \in ScoreResult /\ verdict'.by \in {"scorer", "adapter"}
  <2>1. CASE FallBack
    <3> DEFINE v == evaluate(report.text)
    <3>1. v.score \in Points /\ v.category \in Category
      BY <1>3, EvaluateTyped DEF RuleVerdicts
    <3>2. Tier(100 * v.score) \in Severity
      BY DEF Tier, Severity
    <3>3. PICK teams \in SUBSET Teams :
            verdict' = [by |-> "scorer", severity |-> Tier(100 * v.score), priority |-> v.score,
                        needs_human_review |-> TRUE, category |-> v.category,
                        resources |-> teams]
      BY <2>1, ResourcesTyped DEF FallBack
    <3> HIDE DEF v
    <3> QED BY <3>1, <3>2, <3>3 DEF ScoreResult
  <2>2. CASE TimeOut
    <3>1. 85 \in Points /\ 55 \in Points /\ 25 \in Points
      BY DEF Points
    <3>2. CRITICAL \in Severity /\ WARN \in Severity /\ INFO \in Severity
      BY DEF Severity
    <3>3. \E g \in Severity, n \in Points :
            verdict' = [by |-> "adapter", severity |-> g, priority |-> n,
                        needs_human_review |-> FALSE, category |-> report.header.category,
                        resources |-> {}]
      BY <2>2, <3>1, <3>2 DEF TimeOut, _make_fallback
    <3> QED BY <1>3, <3>3 DEF ScoreResult
  <2> QED BY <2>1, <2>2
<1> QED BY <1>1, <1>2, <1>4 DEF TriageInv

LEMMA TriageStep == TriageInv /\ [Next]_vars => TriageInv'
<1> SUFFICES ASSUME TriageInv, [Next]_vars PROVE TriageInv'
  OBVIOUS
<1>1. CASE UNCHANGED vars
  <2>1. UNCHANGED <<report, stage, gathered, assessed, verdict>>
    BY <1>1 DEF vars
  <2>2. (Gathered' <=> Gathered) /\ Evidence' = Evidence
    BY <2>1, RestsOn
  <2> QED BY <2>1, <2>2 DEF TriageInv, Fusion
<1> QED BY <1>1, StepGathers, StepAssesses, StepFuses, StepBriefs, StepGivesUp DEF Next

(* A report, a stage, a verdict within the contracts, and a severity that  *)
(* is the tier of the evidence gathered.                                   *)
THEOREM TriageInvariant == Spec => []TriageInv
BY TriageInit, TriageStep, PTL DEF Spec

(* What the rules found is never erased by Groq's answer.                  *)
THEOREM FindingsCorrect == Spec => []RulesFindingsSurvive
<1>1. TriageInv => RulesFindingsSurvive
  <2> SUFFICES ASSUME TriageInv, gathered # NothingGathered
               PROVE  /\ \A f \in {"injuries", "hazards", "needs", "landmarks", "vulnerable"} :
                           report.found[f] # {} => gathered.entities[f] # {}
                      /\ report.found.mobility # Unknown => gathered.entities.mobility # Unknown
                      /\ report.found.count # NoCount => gathered.entities.count # NoCount
    BY DEF RulesFindingsSurvive
  <2>1. gathered.entities \in {report.found, MergedEntities(report.found, report.answer)}
    BY DEF TriageInv, Gathered
  <2>2. CASE gathered.entities = report.found
    BY <2>2
  <2>3. CASE gathered.entities = MergedEntities(report.found, report.answer)
    BY <2>3 DEF MergedEntities
  <2> QED BY <2>1, <2>2, <2>3
<1> QED BY <1>1, TriageInvariant, PTL

LEMMA DistressTier ==
  ASSUME NEW r \in Evidences, Alarmed(r), r.halfLives = 0, r.location >= 0
  PROVE  Tier(Fused(r)) >= WARN
<1> DEFINE n == Fused(r)
<1>1. n \in 0 .. 10000
  BY FusedRange
<1>2. n >= 3500
  BY DistressFused
<1> HIDE DEF n
<1>3. Tier(n) >= WARN
  BY <1>1, <1>2 DEF Tier, WARN, CRITICAL
<1> QED BY <1>3 DEF n

(* A report that a source finds in distress is at least a WARN.            *)
THEOREM DistressCorrect == Spec => []DistressIsHeard
<1>1. TriageInv => DistressIsHeard
  <2> SUFFICES ASSUME TriageInv, verdict.by = "fusion", report.halfLives = 0, report.location >= 0,
                      \/ gathered.regex.score >= 75 \/ report.header.local >= 70
                      \/ gathered.groq.active /\ gathered.groq.score >= 80
               PROVE  verdict.severity >= WARN
    BY DEF DistressIsHeard
  <2>1. Fusion
    BY DEF TriageInv
  <2>2. Evidence \in Evidences
    BY <2>1, EvidenceTyped DEF Fusion, TriageInv
  <2>3. Alarmed(Evidence) /\ Evidence.halfLives = 0 /\ Evidence.location >= 0
    BY DEF Alarmed, Evidence
  <2>4. \A e \in Evidences : Alarmed(e) /\ e.halfLives = 0 /\ e.location >= 0
                             => Tier(Fused(e)) >= WARN
    BY DistressTier
  <2>5. verdict.severity = Tier(Fused(Evidence))
    BY <2>1 DEF Fusion
  <2> QED BY <2>2, <2>3, <2>4, <2>5
<1> QED BY <1>1, TriageInvariant, PTL

LEMMA GraverIsGraver ==
  ASSUME NEW e \in Evidences, NEW more \in Nat, NEW r \in GraverSource(e, more)
  PROVE  r \in Evidences /\ Graver(r, e)
<1>1. ASSUME NEW k \in Points
      PROVE  Min({100, k + more}) \in Points /\ Min({100, k + more}) >= k
  <2>1. k + more \in Int /\ k \in Int
    BY DEF Points
  <2>2. Min({100, k + more}) = AtMost(100, k + more)
    BY <2>1, LeastOfTwo
  <2> QED BY <2>1, <2>2 DEF AtMost, Points
<1>2. e.regex.score \in Points /\ e.header.local \in Points /\ e.groq.score \in Points
  BY DEF Evidences, GroqVerdicts
<1>3. PICK k \in Points :
        \/ r = [e EXCEPT !.regex.score = k] /\ k >= e.regex.score
        \/ r = [e EXCEPT !.header.local = k] /\ k >= e.header.local
        \/ r = [e EXCEPT !.groq.score = k] /\ k >= e.groq.score
  <2>1. CASE r = [e EXCEPT !.regex.score = Min({100, @ + more})]
    BY <1>1, <1>2, <2>1
  <2>2. CASE r = [e EXCEPT !.header.local = Min({100, @ + more})]
    BY <1>1, <1>2, <2>2
  <2>3. CASE r = [e EXCEPT !.groq.score = Min({100, @ + more})]
    BY <1>1, <1>2, <2>3
  <2> QED BY <2>1, <2>2, <2>3 DEF GraverSource
<1>4. CASE r = [e EXCEPT !.regex.score = k] /\ k >= e.regex.score
  BY <1>4 DEF Evidences, GroqVerdicts, Graver, Points
<1>5. CASE r = [e EXCEPT !.header.local = k] /\ k >= e.header.local
  BY <1>5 DEF Evidences, GroqVerdicts, Graver, Points
<1>6. CASE r = [e EXCEPT !.groq.score = k] /\ k >= e.groq.score
  BY <1>6 DEF Evidences, GroqVerdicts, Graver, Points
<1> QED BY <1>3, <1>4, <1>5, <1>6

(* Graver evidence never lowers the priority of a report.                  *)
THEOREM GraverCorrect == Spec => []GraverNeverLowers
<1>1. TriageInv => GraverNeverLowers
  <2> SUFFICES ASSUME TriageInv, Fusing, NEW more \in {1, 10, 40},
                      NEW r \in GraverSource(Evidence, more),
                      Disagreement(Evidence) => Disagreement(r)
               PROVE  Fused(r) >= Fused(Evidence)
    BY DEF GraverNeverLowers
  <2>1. Evidence \in Evidences
    BY EvidenceTyped DEF TriageInv, Fusing
  <2>2. r \in Evidences /\ Graver(r, Evidence)
    BY <2>1, GraverIsGraver
  <2> QED BY <2>1, <2>2, FusedMonotone
<1> QED BY <1>1, TriageInvariant, PTL

(* One more recent report never calms a zone.                              *)
THEOREM EscalationCorrect == Spec => []ReportsOnlyEscalate
<1>1. TriageInv => ReportsOnlyEscalate
  <2> DEFINE times == report.times
             now == times[Len(times)]
  <2> SUFFICES ASSUME TriageInv, times # <<>>,
                      NEW ago \in {0, 20, 45, 100, 299, 300},
                      NEW p \in 1 .. Len(times) + 1, InOrder(InsertAt(times, p, now - ago))
               PROVE  Escalation(InsertAt(times, p, now - ago), now) >= Escalation(times, now)
    BY DEF ReportsOnlyEscalate, With
  <2>1. times \in Seq(Int) /\ now \in Int
    <3>1. times \in Seq(Int)
      BY ReportTyped DEF TriageInv, Report
    <3> QED BY <3>1
  <2> HIDE DEF now, times
  <2>2. now - ago \in Int /\ now - recent_window <= now - ago /\ now - ago <= now
    BY <2>1 DEF recent_window
  <2>3. Inserted(InsertAt(times, p, now - ago), times, p, now - ago)
    BY <2>1, <2>2, InsertShape
  <2> QED BY <2>1, <2>2, <2>3, EscalationGrows
<1> QED BY <1>1, TriageInvariant, PTL
=============================================================================
