------------------------------ MODULE Scoring ------------------------------
(***************************************************************************)
(* The scoring of a report: score() and score_async(), which run on the    *)
(* event loop, and analyze_message(), which runs in a thread for each      *)
(* report and asks Groq.  Both keep their results in one response cache.   *)
(* A report that runs out of its time budget goes on without the thread,   *)
(* but the thread goes on too.                                             *)
(* The cache, TextHashResponseCache, has a capacity and gives every entry  *)
(* the same time to live, so it is the sequence of its entries in the      *)
(* order in which they expire.  get and set hold its lock: each is a step. *)
(***************************************************************************)
EXTENDS Subsequence

CONSTANTS
  Report,       (* calls of score()                                              *)
  Text,         (* decrypted messages                                            *)
  MaxRetries,   (* max_retries                                                   *)
  SampleCount,  (* self_consistency.sample_count                                 *)
  MaxEntries,   (* max_entries of the cache                                      *)
  None

ASSUME ScoringAssumption ==
  /\ MaxRetries \in Nat
  /\ SampleCount \in Nat \ {0}
  /\ MaxEntries \in Nat \ {0}
  /\ None \notin Report
-----------------------------------------------------------------------------

(* An entry is a record of its key, its value and whether it has expired.  *)
Live(store) == AtPositions(store, {i \in DOMAIN store : ~store[i].expired})
Lacking(store, key) == AtPositions(store, {i \in DOMAIN store : store[i].key # key})

(* get(): a live entry is a hit; an expired one is deleted and missed.     *)
Hits(store, key) == {e.value : e \in {store[i] : i \in {j \in DOMAIN store :
                                        store[j].key = key /\ ~store[j].expired}}}
AfterGet(store, key) ==
  AtPositions(store, {i \in DOMAIN store : ~(store[i].key = key /\ store[i].expired)})

(* At the limit the expired entries go; if that is not enough, so does the *)
(* tenth that expires first, and at least one.                             *)
Dropped(n) == IF n \div 10 > 1 THEN n \div 10 ELSE 1
Full(store) == Len(store) >= MaxEntries

DropOldest(store) == SubSeq(store, Dropped(Len(store)) + 1, Len(store))

MakeRoom(store) ==
  IF ~Full(store) THEN store
  ELSE IF ~Full(Live(store)) THEN Live(store)
  ELSE DropOldest(Live(store))

(* set().                                                                  *)
AfterSet(store, key, value) ==
  Append(Lacking(MakeRoom(store), key), [key |-> key, value |-> value, expired |-> FALSE])

(* Time passes: the entry that is next to expire does.                     *)
Ageing(store) == {i \in DOMAIN store : ~store[i].expired /\ \A j \in 1 .. i - 1 : store[j].expired}
-----------------------------------------------------------------------------
VARIABLES
  text,    (* the message of each report                                         *)
  store,   (* the entries of the response cache                                  *)
  loop,    (* the report that blocks the event loop, or None                     *)
  call,    (* where score_async is for each report, and the locals of it         *)
  triage   (* where analyze_message is in the thread of each report              *)

scoreVars == <<text, store, loop, call, triage>>

INFO == 1
WARN == 2
CRITICAL == 3
Severity == INFO .. CRITICAL

(* A score says which report it was computed for, and time_budget_exceeded;*)
(* Fallback is the rule-based score that is made of the packet alone.      *)
Score == [of: Report, partial: BOOLEAN]
Fallback(r) == [of |-> r, partial |-> FALSE]

Key == {"full_score", "groq_triage"} \X Text
FullKey(r) == <<"full_score", text[r]>>
TriageKey(r) == <<"groq_triage", text[r]>>

(* tried: the samples asked for; votes: the verdicts they gave.            *)
NoVotes == [s \in Severity |-> 0]
NoTriage == [at |-> "none", attempt |-> 0, tried |-> 0, votes |-> NoVotes]

ScoringInit ==
  /\ text \in [Report -> Text]
  /\ store = <<>>
  /\ loop = None
  /\ call = [r \in Report |-> [at |-> "idle", exceeded |-> FALSE, answer |-> None]]
  /\ triage = [r \in Report |-> NoTriage]
-----------------------------------------------------------------------------
(* The cache is asked for the score of the text.                           *)
Receive(r) ==
  /\ loop = None
  /\ call[r].at = "idle"
  /\ store' = AfterGet(store, FullKey(r))
  /\ \/ \E s \in Hits(store, FullKey(r)) :
          /\ call' = [call EXCEPT ![r].at = "scored", ![r].answer = s]
          /\ UNCHANGED loop
     \/ /\ Hits(store, FullKey(r)) = {}
        /\ call' = [call EXCEPT ![r].at = "normalize"]
        /\ loop' = r
  /\ UNCHANGED <<text, triage>>

(* normalize() asks Groq without leaving the event loop.  Then the thread  *)
(* is submitted.                                                           *)
Normalized(r) ==
  /\ loop = r
  /\ loop' = None
  /\ call' = [call EXCEPT ![r].at = "gather"]
  /\ triage' = [triage EXCEPT ![r].at = "queued"]
  /\ UNCHANGED <<text, store>>

(* gather() has all results.                                               *)
Gathered(r) ==
  /\ loop = None
  /\ call[r].at = "gather"
  /\ triage[r].at = "done"
  /\ call' = [call EXCEPT ![r].at = "brief"]
  /\ UNCHANGED <<text, store, loop, triage>>

(* A thread that has not started is cancelled.                             *)
Cancelled(r) == IF triage[r].at = "queued" THEN [triage EXCEPT ![r] = NoTriage] ELSE triage

(* wait_for() gives up.                                                    *)
AwaitsThread(r) ==  (* mutant: the budget ends only when the thread does        *)
  /\ loop = None
  /\ call[r].at = "gather"
  /\ triage[r].at = "done"
  /\ call' = [call EXCEPT ![r].at = "brief", ![r].exceeded = TRUE]
  /\ UNCHANGED <<text, store, loop, triage>>

BudgetExceeded(r) ==
  /\ loop = None
  /\ call[r].at = "gather"
  /\ call' = [call EXCEPT ![r].at = "brief", ![r].exceeded = TRUE]
  /\ triage' = Cancelled(r)
  /\ UNCHANGED <<text, store, loop>>

(* The briefing is there, or is made without Groq when its time is up.     *)
Answer(r) ==
  /\ loop = None
  /\ call[r].at = "brief"
  /\ \E late \in BOOLEAN :
       LET score == [of |-> r, partial |-> call[r].exceeded \/ late] IN
       /\ call' = [call EXCEPT ![r] = [at |-> "scored", exceeded |-> score.partial, answer |-> score]]
       /\ store' = AfterSet(store, FullKey(r), score)
  /\ UNCHANGED <<text, loop, triage>>

(* An exception in score_async, or the outer timeout of score(), which     *)
(* cancels the thread if that has not started: a fallback is answered.     *)
FailCached(r) ==  (* mutant: the fallback goes into the cache                   *)
  /\ call[r].at \in {"gather", "brief"}
  /\ loop = None
  /\ call' = [call EXCEPT ![r] = [at |-> "fallback", exceeded |-> FALSE, answer |-> Fallback(r)]]
  /\ store' = AfterSet(store, FullKey(r), Fallback(r))
  /\ UNCHANGED <<text, loop, triage>>

Fail(r) ==
  /\ call[r].at \in {"normalize", "gather", "brief"}
  /\ loop \in {None, r}
  /\ loop' = None
  /\ call' = [call EXCEPT ![r] = [at |-> "fallback", exceeded |-> FALSE, answer |-> Fallback(r)]]
  /\ triage' \in {triage, Cancelled(r)}
  /\ UNCHANGED <<text, store>>
-----------------------------------------------------------------------------
(* analyze_message: the cache is asked for the verdict on the text.        *)
LookUp(r) ==
  /\ triage[r].at = "queued"
  /\ store' = AfterGet(store, TriageKey(r))
  /\ \/ triage' = [triage EXCEPT ![r].at = "done"]      (* a hit, or Groq is unavailable *)
     \/ /\ Hits(store, TriageKey(r)) = {}
        /\ triage' = [triage EXCEPT ![r].at = "asking"]
  /\ UNCHANGED <<text, loop, call>>

(* A WARN lies on the decision boundary; others do if their confidence or  *)
(* urgency says so.                                                        *)
Borderline(s) == IF s = WARN THEN {TRUE} ELSE BOOLEAN

(* One more sample is needed, or they are all there.                       *)
Asked(r, votes, more) ==
  [at |-> IF more /\ triage[r].tried + 1 < SampleCount THEN "asking" ELSE "storing",
   attempt |-> 0, tried |-> triage[r].tried + 1, votes |-> votes]

Sampled(r, s) ==
  \E more \in (IF triage[r].tried = 0 THEN Borderline(s) ELSE {TRUE}) :
    triage' = [triage EXCEPT ![r] = Asked(r, [triage[r].votes EXCEPT ![s] = @ + 1], more)]

(* Groq answers with a verdict, or with text that is not JSON, for which   *)
(* it is asked to correct it once; what is still malformed counts as WARN. *)
GroqAnswers(r) ==
  /\ \/ triage[r].at \in {"asking", "correcting"} /\ \E s \in Severity : Sampled(r, s)
     \/ triage[r].at = "asking" /\ triage' = [triage EXCEPT ![r].at = "correcting", ![r].attempt = 0]
     \/ triage[r].at = "correcting" /\ Sampled(r, WARN)
  /\ UNCHANGED <<text, store, loop, call>>

(* The request fails: again after a pause, while the error is transient    *)
(* and attempts are left; or the correction is given up ...                *)
GroqFails(r) ==
  /\ \/ /\ triage[r].at \in {"asking", "correcting"}
        /\ triage[r].attempt < MaxRetries
        /\ triage' = [triage EXCEPT ![r].attempt = @ + 1]
     \/ triage[r].at = "correcting" /\ Sampled(r, WARN)
  /\ UNCHANGED <<text, store, loop, call>>

(* ... or the sample, as it also is when Groq answers with JSON that is no *)
(* verdict: the first one ends the triage, the others are left out.        *)
FailsAsEmpty(r) ==  (* mutant: a first request that fails is no exception       *)
  /\ triage[r].at \in {"asking", "correcting"}
  /\ triage' = [triage EXCEPT ![r] = Asked(r, triage[r].votes, TRUE)]
  /\ UNCHANGED <<text, store, loop, call>>

SampleFails(r) ==
  /\ triage[r].at \in {"asking", "correcting"}
  /\ triage' = [triage EXCEPT ![r] = IF triage[r].tried = 0
                                     THEN [NoTriage EXCEPT !.at = "done"]
                                     ELSE Asked(r, triage[r].votes, TRUE)]
  /\ UNCHANGED <<text, store, loop, call>>

(* Majority vote; between equals the graver severity.                      *)
Majority(votes) ==
  CHOOSE s \in Severity : \A x \in Severity :
    \/ votes[s] > votes[x]
    \/ votes[s] = votes[x] /\ s >= x

StoreVerdict(r) ==
  /\ triage[r].at = "storing"
  /\ store' = AfterSet(store, TriageKey(r), [severity |-> Majority(triage[r].votes)])
  /\ triage' = [triage EXCEPT ![r] = [NoTriage EXCEPT !.at = "done"]]
  /\ UNCHANGED <<text, loop, call>>

(* Five minutes pass.                                                      *)
Expire ==
  /\ \E i \in Ageing(store) : store' = [store EXCEPT ![i].expired = TRUE]
  /\ UNCHANGED <<text, loop, call, triage>>
-----------------------------------------------------------------------------
OnLoop(r) ==
  Receive(r) \/ Normalized(r) \/ Gathered(r) \/ BudgetExceeded(r) \/ Answer(r) \/ Fail(r)
InThread(r) == LookUp(r) \/ GroqAnswers(r) \/ GroqFails(r) \/ SampleFails(r) \/ StoreVerdict(r)

ScoringNext == (\E r \in Report : OnLoop(r) \/ InThread(r)) \/ Expire

ScoringSpec == ScoringInit /\ [][ScoringNext]_scoreVars

(* The loop runs what is ready and its timers; normalize() ends because    *)
(* its requests time out.  Nothing is assumed of the threads.              *)
ScoringFairness ==
  \A r \in Report :
    /\ WF_scoreVars(Normalized(r))
    /\ WF_scoreVars(BudgetExceeded(r))
    /\ WF_scoreVars(Answer(r))

ScoringFairSpec == ScoringSpec /\ ScoringFairness
-----------------------------------------------------------------------------

(* The rule-based fallback of one report is never served to another: who   *)
(* is answered from the cache gets the score of a report of the same text, *)
(* as that report itself was answered.                                     *)
FallbackNotShared ==
  \A r \in Report : call[r].answer # None =>
    LET o == call[r].answer.of IN
    /\ text[o] = text[r]
    /\ o # r => call[o].at = "scored" /\ call[o].answer = call[r].answer

(* A verdict goes into the cache only on the evidence of Groq: it rests on *)
(* a sample, and a lone WARN on as many requests as the vote asks for,     *)
(* however many of them fail or need a correction; and it is CRITICAL when *)
(* at least half of the samples are.                                       *)
StoredOnEvidence ==
  \A r \in Report : triage[r].at = "storing" =>
    /\ triage[r].votes # NoVotes
    /\ triage[r].votes = [NoVotes EXCEPT ![WARN] = 1] => triage[r].tried = SampleCount
    /\ triage[r].votes[CRITICAL] >= triage[r].votes[WARN] + triage[r].votes[INFO] =>
         Majority(triage[r].votes) = CRITICAL

(* Every report is answered, even if a thread that asks Groq never comes   *)
(* back (the time budget of score_async).                                  *)
EveryReportScored ==
  \A r \in Report : (call[r].at \in {"normalize", "gather", "brief"}) ~>
                     (call[r].at \in {"scored", "fallback"})
=============================================================================
