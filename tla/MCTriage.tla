------------------------------ MODULE MCTriage ------------------------------
(***************************************************************************)
(* Reports for Triage: one plain report, and the families that vary the    *)
(* scores and confidences, the words, the entities, and the zone of it.    *)
(***************************************************************************)
EXTENDS Triage, TLC

Plain ==
  [header |-> [severity |-> WARN, regex |-> 40, local |-> 40, confidence |-> 60,
               category |-> "other"],
   text |-> [empty |-> FALSE, short |-> FALSE, rules |-> {}, phrases |-> {},
             testTrigger |-> FALSE, groqSaysDrill |-> FALSE],
   found |-> NoEntities, answer |-> NoEntities, groq |-> RulesOnly,
   payload |-> [trapped |-> FALSE, medical |-> FALSE, victims |-> 1],
   corroborating |-> 0, location |-> 0, trend |-> 0, halfLives |-> 0,
   times |-> <<>>, candidates |-> <<>>]

Rule(points) == [score |-> points, category |-> "rescue"]
GroqSays(points, sure) ==
  [active |-> TRUE, score |-> points, confidence |-> sure, vulnerable |-> FALSE,
   trapped |-> FALSE, medical |-> FALSE, category |-> "medical"]

(* Scores on both sides of every threshold, sources sure and unsure.       *)
ScoreReports ==
  {[Plain EXCEPT !.header = [severity |-> s, regex |-> 40, local |-> l, confidence |-> c,
                             category |-> "other"],
                 !.text.rules = rules, !.groq = g] :
     s \in Severity, l \in {0, 34, 46, 69, 70, 100}, c \in {0, 30, 100},
     rules \in {{}, {Rule(35)}, {Rule(45)}, {Rule(74)}, {Rule(75)}, {Rule(55), Rule(95)}},
     g \in {RulesOnly} \cup {GroqSays(p, q) : p \in {0, 34, 46, 79, 80, 100}, q \in {10, 100}}}

(* What adds to a priority, and what takes from it.                        *)
ModifiedReports ==
  {[Plain EXCEPT !.header.local = l, !.payload = p, !.corroborating = n, !.location = x,
                 !.trend = t, !.halfLives = h,
                 !.groq = [GroqSays(g, 85) EXCEPT !.vulnerable = v, !.trapped = v, !.medical = v]] :
     l \in {40, 75}, g \in {20, 80}, v \in BOOLEAN,
     p \in {[trapped |-> FALSE, medical |-> FALSE, victims |-> 1],
            [trapped |-> TRUE, medical |-> TRUE, victims |-> 4]},
     n \in {0, 3, 4}, x \in {-20, 0, 10}, t \in {0, 2000}, h \in {0, 2}}

(* Entities the rules may find and Groq may name.                          *)
EntitySet ==
  {NoEntities,
   [NoEntities EXCEPT !.count = 0],
   [NoEntities EXCEPT !.count = 6, !.vulnerable = {"child"}],
   [NoEntities EXCEPT !.injuries = {"bleeding", "burns"}],
   [NoEntities EXCEPT !.hazards = {"flood"}, !.landmarks = {"roof"}, !.mobility = "trapped"],
   [NoEntities EXCEPT !.hazards = {"fire"}, !.mobility = "mobile"],
   [NoEntities EXCEPT !.needs = {"shelter"}],
   [NoEntities EXCEPT !.needs = {"medical", "rescue"}]}
RuleEntities == {e \in EntitySet : e.count # 0}

(* Words of drills beside entities of distress.                            *)
WordReports ==
  {[Plain EXCEPT !.text = [empty |-> FALSE, short |-> FALSE, rules |-> {Rule(80)}, phrases |-> w,
                           testTrigger |-> t, groqSaysDrill |-> d],
                 !.found = f, !.answer = a, !.groq = g] :
     w \in SUBSET {"garbage", "test", "drill", "ignore"}, t \in BOOLEAN, d \in BOOLEAN,
     f \in RuleEntities, a \in EntitySet, g \in {RulesOnly, GroqSays(20, 85)}}
EmptyReports ==
  {[Plain EXCEPT !.text = [empty |-> b, short |-> TRUE, rules |-> {}, phrases |-> {},
                           testTrigger |-> FALSE, groqSaysDrill |-> FALSE],
                 !.header.severity = s] : b \in BOOLEAN, s \in Severity}

(* A zone of up to n reports, the gaps between them around the windows.    *)
Arrivals(n) ==
  {[i \in 1 .. k |-> g[1] * (i - 1) + (IF i > k \div 2 THEN g[2] ELSE 0)] :
     k \in 1 .. n, g \in {0, 5, 44, 46, 150} \X {0, 100, 301, 901}}
ZoneReports ==
  {[Plain EXCEPT !.times = t, !.candidates = c] :
     t \in Arrivals(24),
     c \in {<<>>, <<[id |-> "i1", similarity |-> 71]>>,
            <<[id |-> "i1", similarity |-> 72], [id |-> "i2", similarity |-> 90]>>}}

MCReports == ScoreReports \cup ModifiedReports \cup WordReports \cup EmptyReports \cup ZoneReports
=============================================================================
