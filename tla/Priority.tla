------------------------------ MODULE Priority ------------------------------
(***************************************************************************)
(* PriorityEngine.calculate_priority: the signals of a report, each        *)
(* weighted by its confidence, become one priority.  Scores are points,    *)
(* confidences hundredths, priorities hundredths of a point; the weights   *)
(* and thresholds are those of priority.yaml.                              *)
(***************************************************************************)
EXTENDS Integers

INFO == 1
WARN == 2
CRITICAL == 3
Severity == {INFO, WARN, CRITICAL}

SeverityAnchor == <<20, 55, 90>>
w_severity == 25
w_regex == 20
w_local_model == 20
w_groq == 35
min_source_confidence == 10
critical_elevation_anchor == 7800
warn_elevation_anchor == 4500

AtLeast(a, b) == IF a >= b THEN a ELSE b
AtMost(a, b) == IF a <= b THEN a ELSE b
Clamp(x, low, high) == AtLeast(low, AtMost(high, x))
Rounded(n, d) == (2 * n + d) \div (2 * d)
(* Python's round(): a half goes to the even neighbour.                    *)
RoundedEven(n, d) ==
  IF (2 * n + d) % (2 * d) = 0 /\ Rounded(n, d) % 2 = 1 THEN Rounded(n, d) - 1 ELSE Rounded(n, d)

(* The sources of a report r: what each says, how sure it is, and what it  *)
(* weighs, a silent Groq nothing.                                          *)
HeaderConfidence(r) == AtLeast(min_source_confidence, r.header.confidence)
RegexConfidence(r) == IF r.regex.matched THEN 95 ELSE 70
GroqConfidence(r) == AtLeast(min_source_confidence, r.groq.confidence)
SourceScore(r) ==
  [severity |-> SeverityAnchor[r.header.severity], regex |-> r.regex.score,
   local_model |-> r.header.local, groq |-> r.groq.score]
SourceConfidence(r) ==
  [severity |-> HeaderConfidence(r), regex |-> RegexConfidence(r),
   local_model |-> HeaderConfidence(r), groq |-> GroqConfidence(r)]
SourceWeight(r) ==
  [severity |-> w_severity * HeaderConfidence(r), regex |-> w_regex * RegexConfidence(r),
   local_model |-> w_local_model * HeaderConfidence(r),
   groq |-> IF r.groq.active THEN w_groq * GroqConfidence(r) ELSE 0]

(* The sources that can disagree: the header's severity is not one.        *)
ActiveScores(r) ==
  {r.regex.score, r.header.local} \cup (IF r.groq.active THEN {r.groq.score} ELSE {})
Disagreement(r) == \E s, t \in ActiveScores(r) : s - t >= 30

(* The mean of a value of each source by their weights, in hundredths.     *)
TotalWeight(w) == w.severity + w.regex + w.local_model + w.groq
Weighed(w, x) ==
  w.severity * x.severity + w.regex * x.regex + w.local_model * x.local_model + w.groq * x.groq
WeightedMean(w, x) == Rounded(100 * Weighed(w, x), TotalWeight(w))

Base(r) == WeightedMean(SourceWeight(r), SourceScore(r))

(* aggregate_confidence, in ten-thousandths.                               *)
Confidence(r) == WeightedMean(SourceWeight(r), SourceConfidence(r))

(* A source that assesses critical distress.                               *)
InDistress(r) ==
  \/ r.regex.score >= 75 \/ r.header.local >= 70
  \/ r.groq.active /\ r.groq.score >= 80
  \/ r.header.severity = CRITICAL

(* Mutant: sources that diverge are averaged like any others.              *)
AveragedSide(r) == Base(r)
(* Mutant: the critical anchor replaces the base instead of lifting it.    *)
AnchoredSide(r) ==
  IF Disagreement(r) /\ InDistress(r) THEN critical_elevation_anchor ELSE Base(r)

(* Sources that diverge are resolved toward the safer side.                *)
SaferSide(r) ==
  IF ~Disagreement(r) THEN Base(r)
  ELSE IF InDistress(r) THEN AtLeast(Base(r), critical_elevation_anchor)
  ELSE IF \E s \in ActiveScores(r) : s >= 35 THEN AtLeast(Base(r), warn_elevation_anchor)
  ELSE Base(r)

NeedsReview(r) ==
  \/ Confidence(r) < 6500
  \/ Disagreement(r) /\ Confidence(r) < 7800

(* Corroboration, vulnerability, place and trend, in hundredths of points. *)
Modifiers(r) ==
  AtMost(1500, 400 * r.corroborating)
  + (IF (r.groq.active /\ r.groq.vulnerable) \/ r.payload.victims > 3 THEN 800 ELSE 0)
  + (IF r.payload.trapped \/ (r.groq.active /\ r.groq.trapped) THEN 1000 ELSE 0)
  + (IF r.payload.medical \/ (r.groq.active /\ r.groq.medical) THEN 500 ELSE 0)
  + Clamp(100 * r.location, -1000, 1000)
  + Clamp(r.escalation \div 10, -1000, 1000)

(* The decay of half lives passed, never below one half.                   *)
DecayPercent(r) == IF r.halfLives = 0 THEN 100 ELSE 50

Fused(r) == Clamp(Rounded((SaferSide(r) + Modifiers(r)) * DecayPercent(r), 100), 0, 10000)

(* The severity comes from the exact priority, the number that is stored   *)
(* and that grades the incident from the rounded one.                      *)
Tier(priority) ==
  IF priority >= 7500 THEN CRITICAL ELSE IF priority >= 3500 THEN WARN ELSE INFO

calculate_priority(r) ==
  [severity |-> Tier(Fused(r)), priority |-> RoundedEven(Fused(r), 100),
   needs_human_review |-> NeedsReview(r),
   category |-> IF r.groq.active /\ r.groq.category # "other" THEN r.groq.category
                ELSE IF r.regex.category # "other" THEN r.regex.category
                ELSE r.header.category]
=============================================================================
