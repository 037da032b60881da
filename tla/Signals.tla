------------------------------ MODULE Signals -------------------------------
(***************************************************************************)
(* What the words of a report say: the rules that match it (RegexEngine),  *)
(* the entities found in it (extract), whether it looks like a drill       *)
(* (false_alarm) and the teams it calls for (briefing); and what the other *)
(* reports say: the escalation of its zone (trend) and the incident it     *)
(* resembles (correlate).  A text is the set of rules and of tell-tale     *)
(* phrases that occur in it; an entity is a label.                         *)
(***************************************************************************)
EXTENDS Integers, Sequences, FiniteSetsExt

Unknown == "unknown"
NoCount == -1

(* RegexEngine.evaluate: the score of the gravest rule that matches, 15    *)
(* when none does, and 0 for an empty text.                                *)
evaluate(text) ==
  IF text.empty THEN [score |-> 0, matched |-> FALSE, category |-> "other"]
  ELSE IF text.rules = {} THEN [score |-> 15, matched |-> FALSE, category |-> "other"]
  ELSE LET gravest == CHOOSE m \in text.rules : \A n \in text.rules : n.score <= m.score
       IN [score |-> gravest.score, matched |-> TRUE, category |-> gravest.category]

-----------------------------------------------------------------------------
(* Entities.                                                               *)

NoEntities ==
  [count |-> NoCount, injuries |-> {}, hazards |-> {}, needs |-> {}, landmarks |-> {},
   mobility |-> Unknown, vulnerable |-> {}]

(* Mutant: an empty list in Groq's answer is taken for an answer.          *)
GroqReplaces(found, answer) == answer

(* extract: what Groq names replaces what the rules found, field by field; *)
(* where it is silent the rules' finding stands.                           *)
MergedEntities(found, answer) ==
  LET named(theirs, ours) == IF theirs # {} THEN theirs ELSE ours
  IN [count |-> IF answer.count # NoCount THEN answer.count ELSE found.count,
      injuries |-> named(answer.injuries, found.injuries),
      hazards |-> named(answer.hazards, found.hazards),
      needs |-> named(answer.needs, found.needs),
      landmarks |-> named(answer.landmarks, found.landmarks),
      mobility |-> IF answer.mobility # Unknown THEN answer.mobility ELSE found.mobility,
      vulnerable |-> named(answer.vulnerable, found.vulnerable)]

(* has_real_distress_entities: a count of nought is no distress.           *)
RealDistress(e) ==
  e.count > 0 \/ e.injuries # {} \/ e.hazards # {} \/ e.needs # {} \/ e.mobility = "trapped"

-----------------------------------------------------------------------------
(* False alarms.  Weights in hundredths, likelihoods in thousandths.       *)

Weight ==
  [garbage |-> 75, test |-> 90, drill |-> 85, ignore |-> 80, trigger |-> 70,
   contradiction |-> 50, groq |-> 70]
drill_threshold == 650

DrillWords(text) == text.phrases \cap {"test", "drill", "ignore"}

(* The marks of a false alarm that the text, its trigger, its entities and *)
(* last of all Groq's rationale bear.                                      *)
Marks(text, e) ==
  LET own == text.phrases
             \cup (IF text.testTrigger THEN {"trigger"} ELSE {})
             \cup (IF DrillWords(text) # {} /\ RealDistress(e) THEN {"contradiction"} ELSE {})
  IN IF own # {} THEN own ELSE IF text.groqSaysDrill THEN {"groq"} ELSE {}

(* The chance that every mark is wrong, times 20^|marks|.                  *)
AllWrong(marks) == FoldSet(LAMBDA m, p : p * ((100 - Weight[m]) \div 5), 1, marks)
NoisyOr(marks) ==
  LET whole == 20 ^ Cardinality(marks)
  IN 1000 - ((2000 * AllWrong(marks) + whole) \div (2 * whole))

(* Entities of distress without a drill word damp the likelihood.          *)
FalseAlarmLikelihood(text, e) ==
  LET p == NoisyOr(Marks(text, e))
  IN IF RealDistress(e) /\ DrillWords(text) = {} THEN Min({200, (6 * p + 10) \div 20}) ELSE p

(* A text of at most two characters is a drill whatever else is known.     *)
false_alarm(text, e) ==
  IF text.empty \/ text.short THEN [likelihood |-> 750, drill |-> TRUE]
  ELSE [likelihood |-> FalseAlarmLikelihood(text, e),
        drill |-> FalseAlarmLikelihood(text, e) >= drill_threshold]

-----------------------------------------------------------------------------
(* derive_recommended_resources.                                           *)

Needed(e) ==
  [ambulance |-> "medical" \in e.needs \/ e.injuries # {} \/ "medical" \in e.hazards,
   rescue_team |-> \/ "rescue" \in e.needs \/ e.mobility = "trapped"
                   \/ e.hazards \cap {"structural_collapse", "flood", "landslide"} # {},
   fire_truck |-> "fire" \in e.needs \/ e.hazards \cap {"fire", "gas_leak", "electrocution"} # {},
   evacuation |-> \/ "evacuation" \in e.needs \/ e.count >= 5
                  \/ "flood" \in e.hazards /\ "roof" \in e.landmarks,
   medical_supplies |-> \/ "shelter" \in e.needs \/ Cardinality(e.injuries) >= 2
                        \/ e.vulnerable \cap {"child", "elderly"} # {}]

DefaultTeam(critical, warn, priority) ==
  IF critical \/ priority >= 75 THEN {"rescue_team", "ambulance"}
  ELSE IF warn \/ priority >= 40 THEN {"rescue_team"}
  ELSE {}

(* The default team goes only where no entity calls for one.               *)
derive_recommended_resources(e, critical, warn, priority) ==
  LET called == {team \in DOMAIN Needed(e) : Needed(e)[team]}
  IN IF called # {} THEN called ELSE DefaultTeam(critical, warn, priority)

-----------------------------------------------------------------------------
(* Escalation of a zone from the times its reports arrived, in seconds and *)
(* in order; Recent and Prior are positions of times.  Rates are tenths of *)
(* a report per minute, signals thousandths.                               *)

recent_window == 300
prior_window == 900
burst_interval == 45

InOrder(times) == \A i, j \in DOMAIN times : i < j => times[i] <= times[j]

Recent(times, now) ==
  {i \in DOMAIN times : now - recent_window <= times[i] /\ times[i] <= now}
Prior(times, now) ==
  {i \in DOMAIN times : now - prior_window <= times[i] /\ times[i] < now - recent_window}

(* Reports per minute: five minutes of recent reports, ten of prior ones.  *)
Rate(times, now) == 2 * Cardinality(Recent(times, now))
Acceleration(times, now) ==
  LET recent == Cardinality(Recent(times, now))
      prior == Cardinality(Prior(times, now))
  IN IF recent + prior < 2 THEN 0 ELSE 2 * recent - prior

(* Three recent arrivals in a row, each close behind the one before.       *)
Chain(times, now, i) ==
  /\ {i - 2, i - 1, i} \subseteq Recent(times, now)
  /\ times[i] - times[i - 1] <= burst_interval
  /\ times[i - 1] - times[i - 2] <= burst_interval
(* Mutant: a chain that starts late is not looked for.                     *)
EarlyBurst(times, now) ==
  \E i \in DOMAIN times : Chain(times, now, i) /\ i - 3 \notin Recent(times, now)
HasBurst(times, now) == \E i \in DOMAIN times : Chain(times, now, i)

RateSignal(times, now) == Min({1000, 25 * Rate(times, now)})

(* A slowing zone counts against itself by half, and by a quarter at most. *)
AccelerationSignal(times, now) ==
  LET a == Acceleration(times, now)
  IN IF a > 0 THEN Min({1000, 40 * a}) ELSE Max({-250, 20 * a})

(* escalation_signal, half a thousandth dropped.                           *)
Escalation(times, now) ==
  IF times = <<>> THEN 0
  ELSE LET raw == (55 * RateSignal(times, now) + 45 * AccelerationSignal(times, now)) \div 100
                  + (IF HasBurst(times, now) THEN 150 ELSE 0)
       IN Max({0, Min({1000, raw})})

-----------------------------------------------------------------------------
(* correlate: the first of the most similar candidates, if any is similar  *)
(* enough.  Similarities are hundredths.                                   *)
similarity_threshold == 72

correlate(candidates, nobody) ==
  LET best == {i \in DOMAIN candidates :
                 /\ candidates[i].similarity > 0
                 /\ \A j \in DOMAIN candidates :
                      candidates[j].similarity <= candidates[i].similarity}
  IN IF best # {} /\ candidates[Min(best)].similarity >= similarity_threshold
     THEN candidates[Min(best)].id ELSE nobody
=============================================================================
