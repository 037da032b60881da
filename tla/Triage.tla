------------------------------- MODULE Triage -------------------------------
(***************************************************************************)
(* Scorer.score_async for one report: its signals are gathered with Groq   *)
(* or, when the time budget ends first, by rules alone; then they are      *)
(* assessed, fused into a priority and turned into a briefing.  Anything   *)
(* that raises leads to the scorer's own fallback, and the adapter's time  *)
(* limit to the packet's.                                                  *)
(***************************************************************************)
EXTENDS Priority, Signals, SequencesExt

CONSTANTS
  Reports,   \* the reports that may be scored
  Nobody     \* no matching incident

(* What the contracts admit (contracts.py): scores are points, confidences *)
(* hundredths; the times of the zone's reports are sorted (trend.py:152).  *)
Points == 0 .. 100
Category == {"rescue", "medical", "fire", "shelter", "other"}
Rules == [score : Points, category : Category]
Entities ==
  [count : Nat \cup {NoCount}, injuries : SUBSET STRING, hazards : SUBSET STRING,
   needs : SUBSET STRING, landmarks : SUBSET STRING, mobility : {"trapped", "mobile", Unknown},
   vulnerable : SUBSET STRING]
GroqVerdicts ==
  [active : BOOLEAN, score : Points, confidence : Points, vulnerable : BOOLEAN,
   trapped : BOOLEAN, medical : BOOLEAN, category : Category]
Report ==
  [header : [severity : Severity, regex : Points, local : Points, confidence : Points,
             category : Category],
   text : [empty : BOOLEAN, short : BOOLEAN, rules : SUBSET Rules, phrases : SUBSET DOMAIN Weight,
           testTrigger : BOOLEAN, groqSaysDrill : BOOLEAN],
   found : Entities, answer : Entities, groq : GroqVerdicts,
   payload : [trapped : BOOLEAN, medical : BOOLEAN, victims : Nat],
   corroborating : Nat, location : Int, trend : Int, halfLives : Nat,
   times : {times \in Seq(Int) : InOrder(times)},
   candidates : Seq([id : STRING, similarity : 0 .. 100])]

ASSUME TriageAssumption == Reports \subseteq Report

VARIABLES
  report,    \* what the packet, its text, Groq and the zone say
  stage,     \* the next stage of score_async
  gathered,  \* phase 1: the rules' verdict, the entities and Groq's verdict
  assessed,  \* phase 2: the match, the escalation and the false alarm
  verdict    \* the ScoreResult

vars == <<report, stage, gathered, assessed, verdict>>

RulesOnly ==
  [active |-> FALSE, score |-> 50, confidence |-> 0, vulnerable |-> FALSE,
   trapped |-> FALSE, medical |-> FALSE, category |-> "other"]
NothingGathered ==
  [regex |-> [score |-> 0, matched |-> FALSE, category |-> "other"],
   entities |-> NoEntities, groq |-> RulesOnly]
NothingAssessed ==
  [match |-> Nobody, escalation |-> 0, alarm |-> [likelihood |-> 0, drill |-> FALSE]]
NoVerdict ==
  [by |-> "none", severity |-> INFO, priority |-> 0, needs_human_review |-> FALSE,
   category |-> "other", resources |-> {}]

Init ==
  /\ report \in Reports
  /\ stage = "gather"
  /\ gathered = NothingGathered /\ assessed = NothingAssessed /\ verdict = NoVerdict

-----------------------------------------------------------------------------
(* Phase 1.  Groq answers extract and analyze_message by itself; either    *)
(* call may fail, which the report's answers say.                          *)
Gather ==
  /\ stage = "gather"
  /\ stage' = "assess"
  /\ gathered' = [regex |-> evaluate(report.text),
                  entities |-> MergedEntities(report.found, report.answer),
                  groq |-> report.groq]
  /\ UNCHANGED <<report, assessed, verdict>>

(* The budget ends first: everything is gathered again by rules.           *)
GatherByRules ==
  /\ stage = "gather"
  /\ stage' = "assess"
  /\ gathered' = [regex |-> evaluate(report.text), entities |-> report.found, groq |-> RulesOnly]
  /\ UNCHANGED <<report, assessed, verdict>>

(* Phase 2.  Without times of the zone's reports the caller's trend counts.*)
Assess ==
  /\ stage = "assess"
  /\ stage' = "fuse"
  /\ assessed' =
       [match |-> correlate(report.candidates, Nobody),
        escalation |-> IF report.times # <<>>
                       THEN Escalation(report.times, report.times[Len(report.times)])
                       ELSE Clamp(report.trend, 0, 1000),
        alarm |-> false_alarm([report.text EXCEPT
                    !.groqSaysDrill = @ /\ gathered.groq.active], gathered.entities)]
  /\ UNCHANGED <<report, gathered, verdict>>

(* What calculate_priority is given.                                       *)
Evidence ==
  [header |-> report.header, regex |-> gathered.regex, groq |-> gathered.groq,
   payload |-> report.payload, corroborating |-> report.corroborating,
   location |-> report.location, escalation |-> assessed.escalation,
   halfLives |-> report.halfLives]

(* Phase 3.                                                                *)
Fuse ==
  /\ stage = "fuse"
  /\ stage' = "brief"
  /\ LET fused == calculate_priority(Evidence)
     IN verdict' = [by |-> "fusion", severity |-> fused.severity, priority |-> fused.priority,
                    needs_human_review |-> fused.needs_human_review,
                    category |-> fused.category, resources |-> {}]
  /\ UNCHANGED <<report, gathered, assessed>>

(* Phase 4, in time or not: only the headline depends on Groq.             *)
Brief ==
  /\ stage = "brief"
  /\ stage' = "done"
  /\ verdict' = [verdict EXCEPT !.resources =
                   derive_recommended_resources(gathered.entities, verdict.severity = CRITICAL,
                                                verdict.severity = WARN, verdict.priority)]
  /\ UNCHANGED <<report, gathered, assessed>>

(* Anything in score_async raises: the rules alone judge the text, and the *)
(* report is flagged for review.                                           *)
FallBack ==
  /\ stage \notin {"done"}
  /\ stage' = "done"
  /\ LET score == evaluate(report.text).score
         severity == Tier(100 * score)
     IN verdict' = [by |-> "scorer", severity |-> severity, priority |-> score,
                    needs_human_review |-> TRUE, category |-> evaluate(report.text).category,
                    resources |-> derive_recommended_resources(report.found,
                                    severity = CRITICAL, severity = WARN, score)]
  /\ UNCHANGED <<report, gathered, assessed>>

(* interface.score: the time limit of the whole call ends, and the scores  *)
(* the packet brought decide.                                              *)
_make_fallback ==
  LET base == AtLeast(report.header.regex, report.header.local)
      grave(points, severity) == base > points \/ report.header.severity = severity
      of(severity, priority) ==
        [by |-> "adapter", severity |-> severity, priority |-> priority,
         needs_human_review |-> FALSE, category |-> report.header.category, resources |-> {}]
  IN IF grave(80, CRITICAL) THEN of(CRITICAL, 85)
     ELSE IF grave(50, WARN) THEN of(WARN, 55)
     ELSE of(INFO, 25)
TimeOut ==
  /\ stage # "done"
  /\ stage' = "done"
  /\ verdict' = _make_fallback
  /\ UNCHANGED <<report, gathered, assessed>>

Next == Gather \/ GatherByRules \/ Assess \/ Fuse \/ Brief \/ FallBack \/ TimeOut
Spec == Init /\ [][Next]_vars

-----------------------------------------------------------------------------
Fusing == stage = "fuse"

(* Whatever the other sources say, a report that one of them finds in      *)
(* distress is at least a WARN, unless age or place count against it: the  *)
(* weights, the thresholds and the rule for diverging sources together     *)
(* leave no gap between them.                                              *)
DistressIsHeard ==
  stage \in {"brief", "done"} /\ verdict.by = "fusion"
    /\ report.halfLives = 0 /\ report.location >= 0
    /\ (\/ gathered.regex.score >= 75 \/ report.header.local >= 70
        \/ gathered.groq.active /\ gathered.groq.score >= 80)
  => verdict.severity >= WARN

(* A source that judges the same report graver never lowers its priority,  *)
(* unless it thereby ends a disagreement that was resolved upward.         *)
GraverSource(r, more) ==
  {[r EXCEPT !.regex.score = Min({100, @ + more})],
   [r EXCEPT !.header.local = Min({100, @ + more})],
   [r EXCEPT !.groq.score = Min({100, @ + more})]}
GraverNeverLowers ==
  Fusing => \A more \in {1, 10, 40} : \A r \in GraverSource(Evidence, more) :
              (Disagreement(Evidence) => Disagreement(r)) => Fused(r) >= Fused(Evidence)

(* Groq's answer never erases what the rules found: where they named       *)
(* something, the merged entities name something too.                      *)
RulesFindingsSurvive ==
  stage # "gather" /\ gathered # NothingGathered =>
    /\ \A f \in {"injuries", "hazards", "needs", "landmarks", "vulnerable"} :
         report.found[f] # {} => gathered.entities[f] # {}
    /\ report.found.mobility # Unknown => gathered.entities.mobility # Unknown
    /\ report.found.count # NoCount => gathered.entities.count # NoCount

(* One more recent report, at the same moment, never calms a zone, however *)
(* its arrival groups the others.                                          *)
With(times, t) ==
  {more \in {InsertAt(times, i, t) : i \in 1 .. Len(times) + 1} : InOrder(more)}
ReportsOnlyEscalate ==
  stage = "assess" /\ report.times # <<>> =>
    LET now == report.times[Len(report.times)]
    IN \A t \in {now - ago : ago \in {0, 20, 45, 100, 299, 300}} :
         \A more \in With(report.times, t) :
           Escalation(more, now) >= Escalation(report.times, now)
=============================================================================
