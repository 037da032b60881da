----------------------------- MODULE Telemetry -----------------------------
(***************************************************************************)
(* What the scoring tells of itself: GroqUsageMeter counts the calls of    *)
(* Groq, ObservabilityManager keeps the traces of the last reports, and    *)
(* the response cache counts its hits.  Each is under a lock of its own,   *)
(* so that a scoring (on the event loop), its thread that asks Groq, and   *)
(* whoever reads a summary meet between any two of them.                   *)
(***************************************************************************)
EXTENDS Integers, Sequences, FiniteSets

CONSTANTS
  Scored,      (* the reports that are scored                                    *)
  Duration,    (* total_duration_ms of a report                                  *)
  WindowSize,  (* window_size                                                    *)
  CallLimit,   (* bound: requests to Groq between two resets                     *)
  ResetLimit   (* bound: resets of the meter                                     *)

ASSUME TelemetryAssumption ==
  /\ IsFiniteSet(Scored)
  /\ Duration \subseteq Nat
  /\ WindowSize \in Nat \ {0}
  /\ CallLimit \in Nat
  /\ ResetLimit \in Nat

VARIABLES
  usage,      (* the counters of the meter                                       *)
  resets,     (* how often the meter was reset                                   *)
  cacheHits,  (* hits of the response cache                                      *)
  traces,     (* _traces, of which the deque keeps the last WindowSize           *)
  scoring,    (* where each scoring is, and its thread                           *)
  metered,    (* history: when a cached score was metered, by resets             *)
  summary,    (* a summary of the meter that somebody keeps                      *)
  health      (* the locals of compute_health_summary                            *)

telemetryVars == <<usage, resets, cacheHits, traces, scoring, metered, summary, health>>

Operation == {"triage", "full_score"}
Outcome == {"successful_calls", "failed_calls", "cached_calls"}

NoCalls == [calls |-> 0, cached |-> 0, errors |-> 0]
NoUsage == [total_calls |-> 0, successful_calls |-> 0, failed_calls |-> 0, cached_calls |-> 0,
            by_operation |-> [o \in Operation |-> NoCalls]]

(* ReportTrace, without what the health does not depend on.                *)
Trace == [of: Scored, hit: BOOLEAN, ms: Duration]

NoHealth == [at |-> "idle", window |-> <<>>, usage |-> NoUsage, era |-> 0, hits |-> 0]

TelemetryInit ==
  /\ usage = NoUsage /\ resets = 0 /\ cacheHits = 0 /\ traces = <<>>
  /\ scoring = [r \in Scored |-> [at |-> "idle", thread |-> "none"]]
  /\ metered = [r \in Scored |-> 0]
  /\ summary = [shares |-> {}, usage |-> NoUsage]
  /\ health = NoHealth
-----------------------------------------------------------------------------
(* record_call: the counters, then those of the operation.                 *)
Counted(operations, o, outcome) ==
  [operations EXCEPT ![o] =
     [calls |-> @.calls + 1,
      cached |-> @.cached + (IF outcome = "cached_calls" THEN 1 ELSE 0),
      errors |-> @.errors + (IF outcome = "failed_calls" THEN 1 ELSE 0)]]

(* The summary shares the counters of the operations it lists.             *)
record_call(o, outcome) ==
  /\ usage' = [usage EXCEPT !.total_calls = @ + 1, ![outcome] = @ + 1,
                            !.by_operation = Counted(@, o, outcome)]
  /\ summary' = IF o \in summary.shares
                THEN [summary EXCEPT !.usage.by_operation = Counted(@, o, outcome)]
                ELSE summary

(* reset(): the operations' counters are left to those who share them.     *)
ResetInPlace ==  (* mutant: the shared counters are set to zero                  *)
  /\ resets < ResetLimit
  /\ usage' = NoUsage
  /\ resets' = resets + 1
  /\ summary' = [summary EXCEPT !.usage.by_operation =
                   [o \in Operation |-> IF o \in summary.shares THEN NoCalls ELSE @[o]]]
  /\ UNCHANGED <<cacheHits, traces, scoring, metered, health>>

ResetUsage ==
  /\ resets < ResetLimit
  /\ usage' = NoUsage
  /\ resets' = resets + 1
  /\ summary' = [summary EXCEPT !.shares = {}]
  /\ UNCHANGED <<cacheHits, traces, scoring, metered, health>>

(* get_summary(): dict(by_operation) copies the outer dictionary only.     *)
GetSummary ==
  /\ summary' = [shares |-> {o \in Operation : usage.by_operation[o].calls > 0}, usage |-> usage]
  /\ UNCHANGED <<usage, resets, cacheHits, traces, scoring, metered, health>>
-----------------------------------------------------------------------------
(* score_async: the cache has the score, or the thread is started.         *)
Hit(r) ==
  /\ scoring[r].at = "idle"
  /\ cacheHits' = cacheHits + 1
  /\ scoring' = [scoring EXCEPT ![r].at = "hit"]
  /\ UNCHANGED <<usage, resets, traces, metered, summary, health>>

Miss(r) ==
  /\ scoring[r].at = "idle"
  /\ scoring' = [scoring EXCEPT ![r] = [at |-> "gather", thread |-> "asking"]]
  /\ UNCHANGED <<usage, resets, cacheHits, traces, metered, summary, health>>

MeterHit(r) ==
  /\ scoring[r].at = "hit"
  /\ record_call("full_score", "cached_calls")
  /\ scoring' = [scoring EXCEPT ![r].at = "metered"]
  /\ metered' = [metered EXCEPT ![r] = resets]
  /\ UNCHANGED <<resets, cacheHits, traces, health>>

(* record_trace: the deque drops its oldest trace when it is full.         *)
Newest(q, n) == IF Len(q) > n THEN SubSeq(q, Len(q) - n + 1, Len(q)) ELSE q

record_trace(r, hit) ==
  \E ms \in Duration :
    traces' = Newest(Append(traces, [of |-> r, hit |-> hit, ms |-> ms]), WindowSize)

(* The end of a scoring: from the cache, or computed, when its time budget *)
(* may have left the thread behind, or after an exception.                 *)
Finish(r) ==
  /\ scoring[r].at \in {"metered", "gather"}
  /\ record_trace(r, scoring[r].at = "metered")
  /\ scoring' = [scoring EXCEPT ![r].at = "done"]
  /\ UNCHANGED <<usage, resets, cacheHits, metered, summary, health>>

(* analyze_message in the thread: the cache has the verdict, or Groq is    *)
(* asked, once or more often.                                              *)
ThreadHit(r) ==
  /\ scoring[r].thread = "asking"
  /\ cacheHits' = cacheHits + 1
  /\ scoring' = [scoring EXCEPT ![r].thread = "hit"]
  /\ UNCHANGED <<usage, resets, traces, metered, summary, health>>

MeterThreadHit(r) ==
  /\ scoring[r].thread = "hit"
  /\ record_call("triage", "cached_calls")
  /\ scoring' = [scoring EXCEPT ![r].thread = "done"]
  /\ UNCHANGED <<resets, cacheHits, traces, metered, health>>

AskGroq(r) ==
  /\ scoring[r].thread \in {"asking", "again"}
  /\ usage.successful_calls + usage.failed_calls < CallLimit
  /\ \E outcome \in {"successful_calls", "failed_calls"} : record_call("triage", outcome)
  /\ scoring' = [scoring EXCEPT ![r].thread = "again"]
  /\ UNCHANGED <<resets, cacheHits, traces, metered, health>>

(* reset_metrics.                                                          *)
ResetTraces ==
  /\ traces # <<>>
  /\ traces' = <<>>
  /\ UNCHANGED <<usage, resets, cacheHits, scoring, metered, summary, health>>
-----------------------------------------------------------------------------
(* compute_health_summary: the traces are copied, then the usage is read,  *)
(* then the hits of the cache.                                             *)
ReadTraces ==
  /\ health.at \in {"idle", "done"}
  /\ health' = [NoHealth EXCEPT !.at = "traces", !.window = traces]
  /\ UNCHANGED <<usage, resets, cacheHits, traces, scoring, metered, summary>>

ReadUsage ==
  /\ health.at = "traces"
  /\ health' = [health EXCEPT !.at = "usage", !.usage = usage, !.era = resets]
  /\ UNCHANGED <<usage, resets, cacheHits, traces, scoring, metered, summary>>

ReadTracesLast ==  (* mutant: the traces are copied at the end                  *)
  /\ health.at = "usage"
  /\ health' = [health EXCEPT !.at = "done", !.window = traces, !.hits = cacheHits]
  /\ UNCHANGED <<usage, resets, cacheHits, traces, scoring, metered, summary>>

ReadCache ==
  /\ health.at = "usage"
  /\ health' = [health EXCEPT !.at = "done", !.hits = cacheHits]
  /\ UNCHANGED <<usage, resets, cacheHits, traces, scoring, metered, summary>>

(* sorted(durations)[k].                                                   *)
Durations == {health.window[i].ms : i \in DOMAIN health.window}
UpTo(ms) == Cardinality({i \in DOMAIN health.window : health.window[i].ms <= ms})
Ranked(k) == CHOOSE ms \in Durations : UpTo(ms) > k /\ \A x \in Durations : x < ms => UpTo(x) <= k

(* _percentile, in hundredths of a millisecond.                            *)
Percentile(p) ==
  LET k == (Len(health.window) - 1) * p
      f == k \div 100
      part == k % 100
  IN IF part = 0 THEN 100 * Ranked(f)
     ELSE Ranked(f) * (100 - part) + Ranked(f + 1) * part

(* groq_availability below some percentage.                                *)
AvailableBelow(percent) ==
  LET answered == health.usage.successful_calls
      asked == answered + health.usage.failed_calls
  IN 100 * answered < percent * asked

(* Nothing is in the window: whatever the meter says, all is well.         *)
ColdStart == health.window = <<>>

HealthStatus ==
  IF ColdStart THEN "healthy"
  ELSE IF AvailableBelow(30) /\ Percentile(95) > 500000 THEN "down"
  ELSE IF AvailableBelow(70) \/ Percentile(95) > 200000 THEN "degraded"
  ELSE "healthy"
-----------------------------------------------------------------------------
TelemetryNext ==
  \/ \E r \in Scored : \/ Hit(r) \/ Miss(r) \/ MeterHit(r) \/ Finish(r)
                       \/ ThreadHit(r) \/ MeterThreadHit(r) \/ AskGroq(r)
  \/ ResetUsage \/ GetSummary \/ ResetTraces
  \/ ReadTraces \/ ReadUsage \/ ReadCache

TelemetrySpec == TelemetryInit /\ [][TelemetryNext]_telemetryVars
-----------------------------------------------------------------------------
(* The breakdown of a summary never falls short of its totals, although it *)
(* goes on counting with the meter until that is reset.                    *)
SummaryNeverUndercounts ==
  LET total(f) == summary.usage.by_operation["triage"][f] + summary.usage.by_operation["full_score"][f]
  IN /\ total("calls") >= summary.usage.total_calls
     /\ total("cached") >= summary.usage.cached_calls
     /\ total("errors") >= summary.usage.failed_calls

(* A health summary is read under three locks, one after the other, and    *)
(* yet its parts agree: every report of its window that came from the      *)
(* cache is among the cached calls (of the same counting), and these are   *)
(* among the hits of the cache.  A percentile is over a limit only if some *)
(* report of the window is.                                                *)
HealthAddsUp ==
  health.at = "done" =>
    /\ Cardinality({i \in DOMAIN health.window : health.window[i].hit /\
                       metered[health.window[i].of] = health.era}) <= health.usage.cached_calls
    /\ health.usage.cached_calls <= health.hits
    /\ HealthStatus # "healthy" => AvailableBelow(70) \/ \E ms \in Durations : ms > 2000
    /\ HealthStatus = "down" => AvailableBelow(30) /\ \E ms \in Durations : ms > 5000
=============================================================================
