# CHAKRAVYOOH / PUKAAR: a formal model

PUKAAR is a disaster-rescue system. Phones send signed SOS packets over a
Bluetooth / Wi-Fi Aware mesh; a gateway phone posts them to a FastAPI backend,
which verifies, scores and stores each one, groups reports into incidents and
incidents into zones, and shows them to a command centre. A cyclone brain posts
risk frames that raise zones and issue public alerts; a laboratory of programs
trains its networks, and another the classifier the phones carry. This directory
holds TLA+ modules of the parts of that system in which concurrency, ordering,
failure or a boundary decide whether it is correct, the TLC configurations that
check them on small instances, and proofs checked by TLAPS for instances of any
size.

`PROJECT.json` maps every definition to the source lines it models, lists the
runs, the mutants that show each property has teeth, the hazards, the findings
and the theorems. Below, `B` stands for `src/services/backend/src`, `A` for
`src/android/app/src/main/java/com/pukaar/android` and `C` for `src/ml/cyclone`.

## 1. Inventory

| component | state it keeps | operations | talks to | what is hard |
|---|---|---|---|---|
| SOS ingestion, `B/sos/ingestion/pipeline.py` | tables `device_keys`, `sos_reports` | replay window, dedup, key lookup, signature, decryption, score, insert, correlate, link, notify | correlation (call), scoring (call in a thread), realtime hub (broadcast) | three separate transactions; a packet arrives several times and through several gateways at once; a crash between two commits |
| Incident correlation, `B/incidents/correlation/engine.py` | table `incidents` | select nearby open incidents FOR UPDATE, join or create, one commit | clustering (call inside the transaction) | concurrent first reports; concurrent raises of one priority; an operator resolving the incident meanwhile |
| Zone clustering and severity, `B/zones/` | table `zones` | nearest zone or a new one, count, flush, recount, cyclone risk, elevation | realtime hub | counters read without a lock; recount of rows others have not committed |
| Incident lifecycle and dispatch, `B/dispatch/service.py`, `B/incidents/lifecycle/manager.py` | `dispatches`, `audit_events`, `incidents.status` | dispatch, resolve | realtime hub | two operators on one incident |
| Cyclone pipeline, `B/cyclone/` | `cyclone_intelligence`, `cyclone_latest`, `cyclone_zone_risk`, `alerts`, outbox | one background task for each posted frame: save, rate zones, elevate, version the alert, commit, broadcast | zones, realtime hub | tasks overlap; frames are repeated, late or out of order; events only in memory between commit and broadcast |
| Realtime hub, `B/realtime/connection_manager.py`, `B/api/v1/ws.py` | list of sockets | connect, disconnect, broadcast | every component above | the list changes while a broadcast awaits |
| Scoring engine, `B/ml` | response cache, thread pool, meter | score a report under a time budget: look up, translate, ask Groq in a thread with retries, correction and votes; rules, entities, false alarm, trend; fuse to a priority, brief, store; fallback on any error | ingestion, Groq (external) | a thread outlives the report it works for; two reports of one text; the cache at its capacity; samples that fail; thresholds and switches between averages |
| Rate limiter, `B/security/rate_limiter.py` | time stamps for each gateway and IP | check, prune | SOS route, OTP route | table at its cap, prune interval, one pruning for two tables with windows of their own |
| Telemetry of the scoring, `B/ml/meter.py`, `B/ml/observability.py` | counters of Groq calls, the last traces, cache hits | record, summarise, reset | scoring engine | three locks in turn, a summary that shares its parts with the counters, a reset in between |
| Login, `B/auth`, `B/sessions`, `B/api/v1/auth.py` | OTPs, attempt counters, sessions, refresh tokens | request, verify, refresh, logout | rate limiter | counters and OTPs in separate maps, rotation of refresh tokens |
| Mesh receiver, `A/data/mesh`, `A/service` | seen packets, inbox (tables); flows, channel (memory) | receive, deduplicate, age, TTL, verify, store, relay, alarm | other phones | drop-oldest buffers, packets marked seen before they are handled, a process that dies in between |
| SOS sending, `A/ui/screens/sos/send` | status and path on the screen | send over the internet, fall back to Wi-Fi Aware and Bluetooth | backend, mesh | a request whose answer is lost; what the screen claims |
| Dashboard socket and screens, `A/data/websocket` | connection state, retry counter | connect, disconnect, callbacks | realtime hub | callbacks of an old socket |
| Cyclone brain, `C/fusion`, `C/models` | cached network, calibration | baselines, gate, cycle | producer | inputs missing, heads that diverge, values that are no number |
| Replay cache, service and producer, `C/replay`, `C/serving`, `C/export` | cache file, frames in memory, cursor, dropped files | precompute, next, reset, jump, post with retries, drop | cyclone pipeline | threads and a process write and read one file without a lock |
| Cyclone training and data, `C/train`, `C/preprocess`, `C/datasets`, `C/eval` | checkpoints, results, one report, splits | clean, resample, sample, split, train, resume, test, sweep, calibrate, report | brain (files) | crashes in the middle of a write, seven programs that edit one document, boundaries of time and of shares |
| SOS classifier, `src/ml` | corpora, splits, soft labels, student, temperature, network, bundle | generate, label, build, teach, train, calibrate, evaluate, export, bundle | phone (bundle) | fifteen files, each behind the others as soon as one program runs again |
| Command centre, `src/frontend` | page | - | realtime hub | rendering |

What makes them correct, in the order of importance this project gives them:

1. a stored SOS is counted once, in one incident, and linked to the incident
   that counted it; only an abort leaves it unlinked;
2. an incident is at least as grave as each report counted in it, and a zone is
   at least as severe as its open incidents justify;
3. a cyclone has one active alert, with the priority of the frame rated last,
   its alerts form a chain of versions, a frame counts once, and nothing is
   announced that may be rolled back;
4. the audit trail explains the status of every incident; no report joins a
   resolved incident;
5. no handler waits for ever on the rows another one locks;
6. a broadcast during which nobody leaves reaches every dashboard, nobody is sent
   to twice, and a lost dashboard does not hold it up;
7. a report is scored in time though Groq does not answer; what is cached rests
   on evidence and is never a fallback; distress is not averaged away, and graver
   evidence does not lower a priority;
8. the brain denies a storm that was observed only if it has an image, or the
   sample claims that it has, never publishes a diverged
   head, and says which tier a field came from;
9. a phone raises one alarm for a message, loses one only for a cause that can be
   named, and claims delivery falsely only on the mesh;
10. a requester is turned away exactly when it made too many requests within the
    window; a summary of the meter never counts less than its totals;
11. files tell the truth: the best checkpoint is the best, a report is about what
    is on disk, a storm that is held out is held out, the bundle is of one piece.

## 2. The modules, in the order they were built

| order | module | what it models | used by |
|---|---|---|---|
| 1 | `ZoneSeverity`, `RescueStore` | the severity arithmetic; the shared tables and their row locks | 2, 3, 4 |
| 2 | `SosIngestion`, refining `SosLedger` | ingestion, correlation, clustering, severity; the abstract ledger | 5 |
| 3 | `CyclonePipeline` | the cyclone tasks | 5 |
| 4 | `IncidentLifecycle` | the operators | 5 |
| 5 | `BackendSystem` | 2, 3 and 4 on one store | - |
| 6 | `Realtime`; `RateLimiter`; `Telemetry`; together `BackendMemory` | what the backend keeps in memory: connection manager and socket handlers; the rate limits; the meter and the health summary | - |
| 7 | `Subsequence`, `Scoring` | the part of a sequence at some positions; the scoring on the event loop and in its threads, with its cache | - |
| 8 | `Priority`, `Signals`, `Triage` | the fusion of the evidence on one report, and its stages | - |
| 9 | `Baselines`, `TierGate`, `FusionCycle` | one frame of the cyclone brain | - |
| 10 | `MeshRelay`, `MeshInbox`, `SosSend`, `Phone` | the two halves of a phone and their process | - |
| 11 | `Training`; `LabReport`; `TrackPrep`; `DatasetSplit`; `ReplayCache`, `ReplayFeed`; `SosLab`; together `CycloneLab` | the programs that meet only in files | - |

What would come next: the socket of the dashboard should the app ever connect
it, and several phones with a relay that sends.

## 3. The modules and the code

### The backend

The backend is one asyncio event loop: between two awaits a handler runs alone,
at an await any other handler may run. So an action is the code from one await
that reaches the database to the next. Each call of a handler has a database
session of its own (`B/database/session.py:31-40`, `autoflush=False`,
`expire_on_commit=False`), named by a member of `Session`.

**ZoneSeverity.** Statuses and priorities are the ranks of the dictionaries in
`state.py`, so comparisons are comparisons of numbers. The limits 5, 15 and 50
are constants.

**RescueStore.** `incidents`, `zones`, `risks` are what is committed; `locks`
are the rows each session has locked. The database is external: PostgreSQL at
READ COMMITTED. A statement sees what is committed when it starts; an UPDATE or
SELECT FOR UPDATE waits for the rows it needs (`Free`) and keeps them to the end
of the transaction (`Acquire`, `ReleaseAll`). Coordinates are points of a finite
set with a distance; the bounding-box filter of the code is folded into the
distance, which decides in the end. `risks[z]` is the row of greatest
`computed_at`, the only one the code reads.

**SosIngestion.** A delivery is a member of `Task`, its program counter `pc`, its
locals and uncommitted writes `tx`. The steps are those of
`process_sos_ingestion`:

| action | code |
|---|---|
| `Deliver`, `Deduplicate`, `Verify`, `Score` | pipeline.py:31-95; the freshness window and the score are nondeterministic, signature and decryption are constants of the packet |
| `InsertReport` | pipeline.py:128-168, the first commit; `msg_id` is unique |
| `SelectIncidents`, `Correlate` | engine.py:18-87; the rows are found when the statement starts, waited for, and checked again when locked |
| `FindZone`, `FlushZone` | cluster.py:18-59; the zone is read without a lock, its UPDATE locks it |
| `CountIncidents`, `RaiseToRisk` | state.py:14-87 |
| `CommitCorrelation` | engine.py:62-93, the second commit |
| `LinkReport`, `Notify` | pipeline.py:170-202, the third commit and the broadcast |
| `Abort` | session.py:31-40: an exception, a lost connection, a crash; rolls the open transaction back |
| `LeaveWindow` | engine.py:18-23: an incident becomes older than two hours |
| `RegisterKey` | keys/registry.py:20-45 |

`counted` is a history variable: the incident whose `report_count` includes a
packet. The `report_count` of an incident is incremented by the database (an SQL
expression), that of a zone from the value that was read, so a zone may count less
than it had.

**SosLedger** is the abstract specification: `Store`, `Count`, `Link`.
`SosIngestion` implements it under the mapping `stored` = the packets with a
report, `linked` = the incident the report names, `tally` = `report_count`.

**CyclonePipeline.** A task is a member of `CycTask`. `SaveFrame` waits for the
row of its cyclone in `cyclone_latest` (`RowFree`) and holds it to its commit;
`EvaluateRisk` reads the zones and takes `computed_at`; `DecideAlert` reads the
active alert; `FlushElevated` locks the zones to raise; `CommitFrame` publishes
everything; `Broadcast` empties the outbox; `AbortFrame` is a failure at any
step, and after the commit loses only the events. The risk of a zone is the
constant `RiskAt[f][p]`, because the arithmetic of `risk_engine.py` depends on the
frame and the zone alone. `now` counts the `computed_at` stamps in the order in
which they are taken.

**IncidentLifecycle.** A call of `dispatch_unit_to_incident` or
`resolve_incident` is a member of `Op`: it selects the row FOR UPDATE and checks
its status (`CheckDispatch`, `CheckResolve`), commits status and audit record,
broadcasts and answers. No route calls `resolve_incident` yet; it is modelled as
the function that exists.

**BackendSystem** composes the three on one store.

**Realtime.** `active` is `active_connections`, in its order, because
`broadcast` iterates over the list itself. A dashboard's handler
(`Arrive`, `Connect`, `Ends`: ws.py:13-42 with `connect` and `disconnect`) and a
broadcast (`Begin`, then one `SendJson` for each awaited send:
connection_manager.py:23-40) interleave at their awaits only. `Advance` is the
step of Python's list iterator: the element at its index, or the end of the loop
and the removal of the dead sockets. `Vanish`, a peer that closes or is lost, is
external. An event is only its identity, the name of its broadcast; it is written
to the socket when the send starts, and a send raises only if the peer is gone
(it may also succeed then). `present` and `left` are history: who was on the list
when a broadcast began, and who has left it since.

**RateLimiter.** `limits` are the two tables, a queue of times for each key
(`<<>>` where there is none); `check` refuses (`Refuse`) or admits and makes room
(`Admit`), and prunes first when it is due: there is no await in it, so it is one
step. `admitted` is history: the times of all requests that passed, which the
limit is about. **Telemetry.** A scoring on the event loop, its thread that asks
Groq, and readers meet between any two of the three locks: `usage` is the meter,
`traces` the deque of the last `WindowSize` reports, `cacheHits` the counter of the
cache, `health` the locals of `compute_health_summary`, which reads one after the
other. `summary` is what somebody keeps of `get_summary`: `shares` names the
dictionaries that are the meter's own. **BackendMemory** runs the hub, the limits
or the telemetry in each behaviour: none of them touches the state of another.

### The scoring of a report

**Scoring** holds the cache and the engine around it. All entries of the cache get
the same time to live, so it is the sequence of its entries in the order of
expiry; `get` and `set` run under a lock and are one step each. What a filter
keeps of it is taken from **Subsequence**, the part of a sequence at a set of
positions, because a recursive `SelectSeq` cannot be reasoned about. The engine:

| action | code |
|---|---|
| `Receive` | scorer.py:186-206: a cached score is the answer |
| `Normalized` | scorer.py:221-305: `normalize()` asks Groq while it blocks the event loop (`loop`), then five threads are submitted, of which only that of `analyze_message` touches shared state and is kept |
| `Gathered`, `BudgetExceeded` | scorer.py:292-318: `wait_for` returns or gives up; giving up cancels a thread only if it has not started |
| `Answer` | scorer.py:372-538: briefing, with a time limit of its own, and the store into the cache |
| `Fail` | interface.py:205-296 and scorer.py:540: an exception, or the outer time limit |
| `LookUp`, `GroqAnswers`, `GroqFails`, `SampleFails`, `StoreVerdict` | groq_client.py:272-540: cache, requests with retries, one correction of malformed JSON, samples, majority, store |
| `Expire` | cache.py:73: five minutes pass |

There a score is the report it was computed for and whether it is partial. Only the
number of votes for each severity is kept of the samples. An exception after the
score is stored (a trace that cannot be recorded) is not modelled.

**Triage** is what a score says: `Gather` or, when the budget ends first,
`GatherByRules`; `Assess`; `Fuse`; `Brief`; `FallBack` of the scorer and `TimeOut`
of the adapter. **Priority** is `calculate_priority` in whole numbers: scores are
points, confidences hundredths, priorities hundredths of a point, and Python's
rounding of halves is modelled. **Signals** is the rules, the entities and their
merge with Groq's answer, the false-alarm likelihood and the teams, where a text is
the set of the rules and phrases that occur in it; and the escalation of a zone from
the arrival times of its reports, and the incident a report resembles. `Report` is
what `contracts.py` admits of all this, and the assumption of the proofs.

### The cyclone brain

**Baselines** is the deterministic Tier-0: presence, stage, intensity. **TierGate**
chooses each field of a frame from Tier-1 or Tier-0 and rescues a frame it cannot
assemble. **FusionCycle** is `run_cycle`: `Assemble`, `RunBaselines`, `RunNetwork`,
`Gate`; each of the two engines may raise as a whole. NaN is -1 and fails every
threshold, as a float NaN does. A sample says of its image whether it is flagged
available, flagged missing or not flagged, and whether it is absent, named or named
and readable: the code trusts the flag first and the name next, and `DenialHasACause`
is stated on what the sample has. The outputs of the network are arbitrary, and so
its weights are not modelled at all.

### The phone

**MeshInbox**: two receivers with a `SharedFlow` of their own, `merge()`, one
collector coroutine that suspends at each call of a DAO; the seen-packet and inbox
tables survive the process. **SosSend**: one press of the button, the upload, the
two mesh paths, the answer that may be lost. **MeshRelay** is
`MeshRepositoryImpl.relayPacket`: a stub that sends nothing and answers success.
**Phone** composes them; `ProcessDies` takes both.

### The programs that meet in files

**Training** is `Trainer` with its two checkpoint files, opened and closed in
separate steps, early stopping, resuming (`Launch`), the test at the end, the
calibration and the process that loads both. **LabReport** is the seven programs
that keep their sections in `models_report.md`: results, checkpoints and the
configuration are files, the document is a sequence of sections, and each program
reads it, drops what it drops, and writes it back. **TrackPrep** makes samples of
a storm: `load_tracks` drops the rows without a position or a time (`Placed`),
`clean_tracks` keeps the first of each time (`Kept`, `Chronicle`) and fills short
gaps in the wind forward (`Filled`), the grid interpolates positions and winds
(`Between`), and what is still missing is zero to the network. A value is told by
the rows it was interpolated from; pressure goes the way of the wind and has no
column of its own. **DatasetSplit**
makes splits of whole storms, with the rounding of their shares. **ReplayCache**
and **ReplayFeed** are the frames of a storm, read or computed by threads and a
process over one file that is written through buffers, the playback cursor, and
the producer's posts and drops. `due` and `late` are history: the frame that is next
in sequence, and whether a request that was overtaken by another moved the cursor
last. What the producer sends (`flight`, `accepted`, `posted`, `latest`, `dropped`) is
there for its control, the retries and the deaths between its steps, and no property
reads it; the same holds of the calibration and the brain in `Training`.
**SosLab** is the making of the SOS classifier, from the corpora to the bundle for
the phone: a corpus is the set of its batches of texts, any other file the record of what it was made from; a job computes its
writes when it starts (`todo`) and does them one by one, except that training and
bundle go through stages. `writer`, `stale` and `touched` are history. A job that
cannot read an input raises before it writes and is left out, and so are the files
no program reads.

**CycloneLab** runs one of these six groups in each behaviour: no group touches a
file of another (`Training` is the fusion network's artifact directory, whose
losses and metrics `LabReport` takes as given), so nothing is lost by it, and one
run checks them all.

## 4. What is checked

| run | instance | what it shows |
|---|---|---|
| `ingest_safety` | 3 deliveries, 4 packets from two places a kilometre apart, one seeded zone; three packets of growing gravity, one of which may be scored as another kind of emergency | priorities cover reports, the zone's severity is justified, and the refinement of `SosLedger` |
| `cyclone_safety` | 3 tasks, three frames of one cyclone that escalate and weaken, and two of another, the last without a path | one active alert, chain of versions, each frame once, the active alert is current |
| `system_operators` | 2 deliveries, 2 operators, no zone at first | the audit trail explains the status; no report joins a resolved incident |
| `system_liveness` | 2 deliveries of one packet, 1 cyclone task, 1 operator, one zone | every session ends, under fairness |
| `backend_memory` | 2 dashboards, 2 broadcasts; 2 gateways or addresses, windows and caps of one and two, a clock to 7; 2 scorings with a window of 2 traces | a broadcast nobody leaves reaches everyone once, broadcasts end; the limits are exact; summaries do not undercount, the health adds up |
| `score_safety` | 2 reports, of one text or of two; a cache of 2 entries, 1 retry, 3 samples | who is served whose score, verdicts stored on evidence of the samples and never against their majority, every report scored |
| `triage_safety` | 13,000 reports in five families: scores on both sides of every threshold; modifiers; words and entities; empty texts; zones of up to 24 arrivals around every window | distress is heard, graver evidence lowers nothing, the rules' findings survive, reports only escalate |
| `cycle_gate` | storms with and without environment, with every image flag over an image that is absent, named or readable, confident, doubtful and diverged heads | what an observed storm is denied for, the network's "no storm" decides only at the rounding edge, no diverged head is published, where levels go wrong |
| `phone_safety` | one SOS and one notice received up to three times, one sent, buffers of one packet, one crash | one alarm for a message, a missing SOS has a cause, only the mesh overstates |
| `cyclone_lab` | 2 training runs of 3 epochs with 2 crashes; 3 runs of the reporting programs, one killed; files of up to 4 rows and one family of 11; up to 15 storms; 2 service threads and a producer with 3 frames, one death; 3 runs of the classifier's programs, one killed | eleven properties of the programs that meet in files |
| `system_downgrade`, `cycle_level` | as above, one property each | what a comment says and the code does not do, see section 6 |

*The properties of `cyclone_lab`.* `BestFileIsMinimum`, `StopsOnlyAfterPatience`,
`OneCrashLeavesACheckpoint`, `TestedIsReported` (training); `LostSectionHasACause`,
`ReportIsTrue` (the shared report); `SampleDrawsOnItsBracket` (samples);
`HeldOutIsHeldOut` (splits); `ShortReplayHasACause`, `PlaybackInSequence` (replay);
`UpToDateIsOfOnePiece` (classifier). Several name causes instead of promising more
than the code does: sections do get lost, replays do come up short, and files do
fall behind; the property says when, and so that there is no other way. So they do
not judge the race that they excuse: `ShortReplayHasACause` ends with a load that read
an unfinished file or lost its writer (`disturbed`), `LostSectionHasACause` and
`ReportIsTrue` with an overlap or a write that was cut off (`spoiled`),
`UpToDateIsOfOnePiece` speaks of files that are up to date. `PlaybackInSequence` admits
that a request which was overtaken breaks the sequence for one step (frame 1, a reset
to 0, then 2), and that two requests are served the same frame; nothing else repeats
or skips one.
`UpToDateIsOfOnePiece` says that whoever compares times of writing, as `make`
would, gets a report and a bundle that belong together; no program does compare
them.

*Bounds.* Three deliveries are the least that show a lost update (two) while a
third arrives late; of the four packets three come from one place and one from
another a kilometre away, which covers "same incident" and "other incident, same
zone". Two operators are needed for a double dispatch. Three cyclone tasks are
needed for a chain of two versions with a competing task. The limits 5, 15, 50 are
2, 3, 4, so that two or three incidents cross them; radius and distances are in
metres as in the code. Two broadcasts can overlap and two dashboards can leave in
front of or behind each other. Two reports have up to four keys, twice the capacity
of their cache; three samples, one retry and one correction reach every branch of
`analyze_message`, where the configuration has three, two and one. Buffers of one
packet overflow where the code has 64. Two training runs are one and its
resumption; two crashes tear both checkpoints. Three runs of the reporting programs
are two that overlap and one after, and likewise for the classifier, whose tree
starts as committed, with a rebuilt dataset and everything behind it, or empty; at
most two of its jobs overlap. Three frames are the least of which a late write can
skip one. The files of a storm have up to three rows of every kind (in any order,
doubled, on and off the grid, without a position or a wind), or four with positions;
those of eleven rows have an eighth without a position and any winds missing at the
ends and in the middle, so that gaps longer than two occur. Fifteen
storms are enough for every way the shares are rounded. Once the
producer has its frames it shares nothing with the service, and
`ServiceRestsWhilePosting` keeps TLC from interleaving the two any further; the
loads, where they meet, are interleaved in full. Symmetry is used over deliveries,
tasks and threads in safety runs only.

Deliveries, tasks, calls, runs and reports are finitely many, so every system stops
when all are answered, and deadlock is not checked by TLC; waiting for ever is what
`EverySessionEnds`, `EveryBroadcastEnds` and `EveryReportScored` exclude.

*Fairness.* `BackendSystem`: weak fairness of the steps of every session, because
the event loop runs every ready coroutine, `score()` gives up after twenty seconds
and falls back, and a PostgreSQL statement proceeds when the rows it waits for are
free. Weak, not strong, fairness suffices because a row is released at a commit or
an abort and only finitely many sessions compete. Aborts, arrivals, time and
requests are not fair. A statement that locks several rows waits for all of them at
once here, whereas PostgreSQL locks them one by one and breaks a cycle by aborting
one of the transactions, which is `Abort`. `Realtime`: only `SendJson` is fair,
because the server closes a socket whose pings are not answered and the await
returns or raises; dashboards owe nothing. `Scoring`: the timers of the event loop
fire, and `normalize()` returns because its requests have a time limit; nothing is
assumed of the threads. No other module states fairness, nor claims liveness.

## 5. What is proved

All proofs assume only the named ASSUMEs of the modules: types of the constants,
sessions that are distinct from `None`, ordered limits, finite sets of scored
reports and requesters, and of the laboratory that a storm's samples have times
(`SplitAssumption`) and that a track file is a sequence of rows
(`PrepAssumption`). Sets may be of any size, except where `IsFiniteSet(Msg)` is
stated. A theorem is about the specification its run checks, or about the part of
it that the theorem names.

`SosIngestion_proofs`: `IngestTypeCorrect`, `PriorityCorrect`,
`UnlinkedCorrect`, `LedgerImplemented`, `ZoneStatusCorrect`. The invariants are
not inductive: that a raise of the priority is never overwritten depends on what a
delivery knows while it waits. `IngestInv` therefore says, for every step, what a
delivery relies on (`TaskInv`): after the insert its report is stored and unlinked,
before the second commit it is not counted, an incident it joins exists, is locked
by it (`RowLocksExclusive`: by no one else) and either covers its level or will be
raised to it, an incident it creates does not exist yet. `DistinctPackets` (two
deliveries past the insert have different packets) is what the unique constraint
gives, and is the reason that nothing is counted twice.

The severity of a zone needs more. `ZoneInv` says of the step between the flush and
the commit what the delivery has counted: the open incidents of the zone are those
it saw, because whoever would change one of them needs the row of the zone, which
it has locked; so the status it will commit is `Foreseen`. From it follows
`ZoneStatusExact`: the committed status is not only at least but exactly what the
open incidents justify, after every commit. Its hypothesis, which the property states, is `SeedsCover`: each place
has one seeded zone that is nearest to it and within reach. Without it the property
is false: a zone created by one report may be nearer to a later report of an incident
than the zone it was counted in, takes the incident over and leaves the other zone
rated for it. Cyclones rate no zone in this specification (`NoRiskYet`). `JustifiedStatus` is the number and the greatest priority of
a set of incidents, so no induction over them is needed: a commit adds one
incident or raises one.

`SosLedger` promises what `LedgerExact` says: for any finite set of packets the
tally of an incident is exactly the number of packets counted in it, and a report
links to the incident that counted it. With `LedgerImplemented` this holds of
`report_count` in the ingestion (`TalliesCorrect`). Counting is again one step: a
packet that was not counted adds one element to the set of one incident.

`CyclonePipeline_proofs`: `CycloneTypeCorrect`, `OneActiveAlertCorrect`,
`ChainCorrect`, `FrameOnceCorrect`, `OutboxCorrect`, `ActiveAlertCorrect`. The
inductive invariant `CycloneInv` adds `Serialised` (two tasks that hold a
`cyclone_latest` row hold different ones) and, for each task, `DecisionHolds`:
what it read of the active alert is still true when it commits. `Recency`, proved
from it, orders the stamps: a task that holds the row has a later stamp than every
committed task of its cyclone; it gives `ActiveAlertCorrect`.

`BackendSystem_proofs`: `SystemInvariant`, `AuditCorrect`, `JoinsOpenCorrect`,
`SystemPriorityCorrect`, `SystemAlertsCorrect`, `SystemLedgerImplemented`. What 2
and 3 keep alone they keep beside each other and the operators, given that every
call has a session of its own (`SystemAssumption`). `SystemInv` adds what each
relies on across components: between check and commit a call's incident is locked
and has the status that was checked (`CheckHolds`), the incident a delivery joins
is not resolved before it commits (`JoinsOpen`, from the same row lock), a zone
that a delivery is to create is its own, so that no zone a cyclone task has rated
moves (`ZoneToCreate`, `ZonesKept`). `StatusOnRecord`, `OnRecord` and
`OncePerIncident` tie the audit trail to the status. The lemmas of the two modules
are reused: a step of one component either is one of its own steps or leaves alone
what the other's invariant speaks of (`OperatorsUndisturbed`,
`DeliveriesUndisturbed`, `CycloneUndisturbed`).

`BackendMemory_proofs`, in three parts and their composition (`MemoryCorrect`,
`MemoryLimitsCorrect`: each part beside the other two), and the scoring:

- `QuietBroadcastCorrect`, for any dashboards and broadcasts. `HubInv`: while
  nobody who was present has left, everyone present is served, gone, or still ahead of
  the index of the list iterator; nobody on a list connects once more (`OnceConnected`).
- `LimitsCorrect`, for any requesters, limits, windows and caps, and for ever, while
  TLC stops the clock at 7. `LimitInv`: a queue, however often it is cut and pruned,
  is the end of the history of admissions, and what is missing from it lies outside of
  the window; a key that is in the table outlived the last pruning.
- `TelemetryCorrect`, for any number of scorings, requests and resets. `CountersInv`:
  the parts of the counters add up to the totals, and a summary that still shares a
  dictionary with the meter can only be behind it. `HealthInv` relates what a health
  summary has read to what has been written since (`MeterInv`: a hit in the cache is
  counted there before it is metered, and metered before it is traced), and what a
  percentile is needs the rank of a multiset (`RankHeld`).
- `FallbackCorrect` and `EvidenceCorrect` of `Scoring`, for any reports, texts,
  retries, samples and capacity. `CacheInv`: an entry of the cache is earned
  (`EarnedEntry`: by a report of its text, and what `StoredOnEvidence` asks of it).
  `EvidenceInv` says of each thread how many samples it has asked, how many failed and
  how many voted, and why that is enough when it stores. `LoopInv` is what the two need
  of the event loop: who blocks it has no thread yet.

`Triage_proofs`: `TriageInvariant`, `FindingsCorrect`, `DistressCorrect`,
`GraverCorrect`, `EscalationCorrect`, for any reports the contracts admit, that is
under `TriageAssumption`: the scores are points, the confidences hundredths, the
categories those of the enumerations, the arrival times of a zone sorted.
`TriageInv` says that what was gathered is what the rules and Groq said of the report
(`Gathered`), and that a fused verdict is the tier of the evidence it was fused from
(`Fusion`). The rest is arithmetic.

- A priority is a rounded mean by weights that the scores do not change, so it grows
  with each score (`BaseMonotone`, from `TimesMonotone` and `RoundedMonotone`), and so
  do the lift of diverging sources and the modifiers (`FusedMonotone`).
- `MeanOfDistress` is the reason that distress is heard. Where sources diverge, the
  lift sets the floor. Where they do not, all are within 30 points of the one that is
  alarmed, and their mean is further above 35 than the severity of the header can draw
  it down: that one does not count as a source that can disagree, but it says 20 at
  least, with a weight of a quarter of the header's confidence.
- One more arrival moves the later ones one position on. `ShiftedPositions` says by a
  bijection that a window holds one more or as many as before, so the rate and the
  acceleration do not fall; `BurstKept` that three arrivals in a row are still three,
  wherever the new one comes between them.

`FusionCycle_proofs`: `TypeCorrect`, `DenialExplained`, `NonDetectionOnTheEdge`,
`DivergedStopped`, `RescuedForThePath`, `LevelWrongFromBaseline`, `TierZeroPure`,
for every set of samples and of outputs of the network. Each follows from what a
step knows of the two payloads it is given: lemmas say what each field of an
assembled frame is, and the frame is made in one step from them.

`CycloneLab_proofs`: of each of the six groups its properties, and `LabsCorrect`,
all eleven of the specification that `cyclone_lab` checks, for any number of
epochs, runs, threads, frames, storms, rows and deaths. `LabsInv` is the invariant of
the group that runs; the others rest.

- Training: `TrainingInvariant`, `BestFileCorrect`, `StopsCorrect`, `CheckpointCorrect`,
  `TestedCorrect`, for any patience and any metrics, NaN among them. The properties
  look at moments when a file is whole; `TrainingInv` bridges those when one is open.
  `BestSoFar` locates the best of the judged epochs by the patience alone, `Saved` says
  that it is in the best file or about to be written there, and `Files` which of the
  two files can be torn after how many crashes.
- The shared report: `ReportTrueCorrect`, `LostSectionCorrect`. `LabInv` carries what
  the document says through the moments when a file is open: `Good`, each topic has at
  most one section, which tells of what is on disk; `Ordered`, a program of the `log`
  has its section unless a later one is excused for dropping it, and what stands in
  front of a section was written before it; `OneWrites`. A write that was
  cut off, or two that overlapped (`spoiled`), end the claim, as in the property.
- Samples: `SamplesCorrect`, for any file of rows in any order, doubled, without
  positions or winds. There is nothing concurrent in it; `PrepInv` says what each stage
  has made of the file. `Cleaned`: the rows are in order, and each of the two columns
  rests on its rows of the file (`RestsOn`): positions on the fixes, each on itself alone
  (`AFixAlone`), winds on the measured ones around them (`FilledFromBracket`).
  `Gridded`: the points are twelve half hours apart and both columns do the same
  (`BetweenFromBracket`, for any column, by `BracketsJoin`: the rows around a time
  between two that have a value are those around these two). That points of a grid are
  evenly spaced is an induction over the natural numbers, stated for a set of them
  (`InductionOnNat`), and what is sorted is described by `InOrderSorts`.
- Splits: `HeldOutCorrect`. The storms are ranked by their first sample (`Ranking`);
  `SplitInv` says that the shares are consecutive in that rank and that the test share
  is not empty when there are two storms.
- Replay: `ReplayCorrect`, `PlaybackCorrect`. `DiskInv` is about the half lines
  of the cache file: until a load reads it or gives up while it is half written
  (`disturbed`), it is whole, or the writer that opened it last is at work and has all
  its own half lines in it.
  `ServiceInv`: a request that is still to move the cursor and was not overtaken will
  move it to the frame that is due; so at most one step is out of sequence, and the
  next answer sets it right.
- Classifier: `OnePieceCorrect`. `SosInv`: a file which no other run disturbed fits the
  files it names as its sources (`FilesFit`), and what a job has still to write
  (`ListsFit`, `FittingFits`) will; files are written in the order of their dependence
  (`WrittenInOrder`), which is what a comparison of times relies on.

`Phone_proofs`: `PhoneInvariant`, `AlarmCorrect`, `InboxCorrect`,
`SendScreenCorrect`, for any messages, buffers of any size and any number of
deaths. `AlarmedOnce` is not inductive: a second copy of an SOS could be on its way
to the alarm. `PassedOnce` and `NotifiedIsBehind` say that it cannot, because the
table of seen packets is written before the copy goes on and outlives the process;
`RowFirst` that the row is there before the alarm and before a manual relay.

Proved only, and in no run: the types, `UnlinkedOnlyByAbort`,
`AnnouncedIsCommitted`, `RescuedOnlyForThePath`, `TierZeroIsPure`, `StatusExact`.

*Only model-checked.* Liveness (`EverySessionEnds`, `EveryBroadcastEnds`,
`EveryReportScored`): the prover knows neither fairness nor ENABLED. Every safety
property of a passing run is proved.

## 6. Findings

- `system_downgrade`: state.py:93-94 states the no-downgrade invariant. A cyclone
  task reads a zone without a lock and may write its lower status over the one an
  SOS transaction committed meanwhile.
- `cycle_level`: run_cycle.py:380 and `src/PRD.md:254` map a wind to its IMD level.
  The baseline's level is a (str, Enum) whose `str()` is `IntensityLevelEnum.X`;
  the gate (tier_gate.py:415-419) finds no such level and publishes CYCLONIC_STORM
  for every Tier-0 wind, as the committed replay of Amphan shows at 140 kt.

Seen while modelling, without a run of its own:

*Backend.*
- `src/docs/Beacon_v4_Master_PRD.md:144` promises "Duplicate `msg_id` -> 200
  duplicate". Check and insert are separate transactions; the later of two
  concurrent deliveries fails on the unique constraint. No report is lost by it.
- engine.py:13-14 creates an incident "If none found". FOR UPDATE does not lock
  rows that are not there, so two concurrent first reports make two incidents.
- models.py:278 calls `cyclone_latest` the latest state; the upsert compares no
  time stamps (store.py:58), so a late frame replaces a newer one.
- connection_manager.py:25 says "to all connected clients": when a client leaves
  during a send, the one behind it on the list is skipped.
- A zone has one risk row that counts, of whichever cyclone was computed last
  (state.py:51). Alerts are not renewed past `valid_until` (alerts.py:104), and no
  all-clear follows frames that warn no zone (alerts.py:78); models.py:338 says an
  alert is EXPIRED past that time, and no code sets it. `ZONE_UPDATED` is broadcast
  before the commit (state.py:87). A resolved incident leaves the severity of its
  zone as it was (manager.py:39). A zone's `report_count` loses concurrent
  increments (cluster.py:45).

*Scoring.*
- `src/docs/handoff/ML_TO_HARSHIT.md:402`: a partial result is for a report whose
  time limit is threatened; it is stored under the text (scorer.py:484), and for
  five minutes every report of that text gets it. The line also says that pending
  calls are aborted, and a thread that has started cannot be.
- The regex floor is called unbreakable (regex_engine.py); a CRITICAL match of 80
  to 85 points with a WARN header and a local score of 60 fuses to about 64, a WARN.
  A CRITICAL header can end as INFO without review. Raising the lowest of diverging
  sources can lower the priority, which is the exception in `GraverNeverLowers`.
- Severity of 75 to 80 is "critical" but makes an incident of level HIGH (more than
  80 is asked). A failed translation is cached for good. The trend is clamped to 1,
  so its bonus never nears `max_trend_bonus` 10. The two fallbacks differ: the
  adapter's needs no human review, the scorer's does. Groq's `people_count` 0
  overrides the count of the rules.

- `get_summary` copies the outer dictionary of the breakdown only (meter.py:171), so a
  summary somebody keeps goes on counting. observability.py:453-456 says that usage
  metrics are reset too; only the traces are. A backend that has scored nothing is
  "healthy" with an availability of 100 %. The latency of failed calls is in the totals
  of the meter and not in its breakdown.

*Brain and laboratory.*
- A sample that says `image_available`, or names an image and says nothing, counts as
  one with an image though nobody could read it (run_cycle.py:438-442); a network on
  the edge of 0.5 may then deny a storm observed at 17 kt or more, which is the last
  cause that `DenialHasACause` lists.
- Winds that are missing before the first measured one stay NaN through
  `clean_tracks`, which fills forward only, and the network sees them as zero.
- Two requests for the next frame around a reset play 1, 0, 2: the older writes the
  cursor it computed before the reset (service.py:83-87).
- splits.py:75, `MODEL_CARD.md:66` and `tests/test_splits.py` say that test storms
  are strictly later than training storms; storms are ordered by their first sample
  and may overlap. The detection's validation and test splits hold background only.
- No training program sees an image: build_samples never gets an image index. The
  forward speed of the present point is that to the next one (align.py:93-100), so
  the input holds the answer for six hours. The grid point after the last fix is
  filled forward although align.py:76 says such points are dropped.
- "Appends model benchmark" (train_detection.py:221) erases all other sections, and
  "Append or replace section" drops what follows the section.
- A resumed run may overwrite a better best file (trainer.py:255, 388). A
  validation that measured nothing counts as metric 0.0, the best there is
  (trainer.py:238). An untrained network is cached for good (run_cycle.py:126).
  Calibration fits a network into which no checkpoint is loaded
  (reliability.py:317-320; `MODEL_CARD.md:24`).
- evaluate.py:466 says "Using all available non-train samples" and takes all, while
  its report claims "0% storm leakage" (evaluate.py:344).
- A load that ends later leaves the playback cursor past the end (service.py:84).

*SOS classifier.*
- Soft labels are made only if missing (train.py:297-300): after a rebuild the
  student is fitted to the split of before and may be tested on texts it has seen.
  The bundle exports only if missing (bundle.py:513-515), and its card names the
  temperature of the moment (bundle.py:541), not that of the network.
- The size gate raises after the network is written (to_tflite.py:406-417). The
  manifest says `temperature_calibrated` also for the default of 1.
- `convert_tflite.py` writes an uncalibrated float16 network under the name of the
  mirror copy, over the manifest and the vocabulary.
- Texts sent to the review queue still reach the training data through their corpus.

*Phone.*
- `relayPacket` (MeshRepositoryImpl.kt:25-27) answers success without sending, and
  the screen shows "SOS DELIVERED" (SosSendScreen.kt:549). The app posts to
  `/sos/ingest` (PukaarApi.kt:28) without the gateway header the backend requires
  (rate_limiter.py:51) at `/api/v1/sos/ingest` (main.py:64).
- Packets that arrive before the collector subscribes are lost
  (MeshReceiverService.kt:85), and a full buffer drops its oldest
  (BluetoothMeshReceiver.kt:36). Such a packet is not marked seen, a later copy is
  taken: `MissingSosHasACause` speaks of the SOS that were.

## 7. What is not modelled, and why

- PostgreSQL itself, signatures, encryption and JSON: external; used through what
  the code sees of them.
- The broadcasts of the ingestion (`NEW_SOS`, `ZONE_UPDATED` before the commit)
  are no state of `SosIngestion`; `Realtime` models a broadcast of any event.
- Login: who may call the routes. The models take any call at any time, which is more
  than it lets through; the same holds of the rate limits, which `RateLimiter` models
  by themselves.
- The dashboard's socket on the phone: no code of the app connects it; the screens
  show demonstration data.
- Of the scoring engine: tokens, costs and latencies of the meter, which decide
  nothing; the cache of translations; the wording of briefings and traces. That a text matches a
  rule is a flag, not a regular expression.
- Of the brain: the network and the geometry of its tracks and cones (a path is on
  the globe or off it), the JSONL export at the end of a run, the read-only routes.
- Of the laboratories: optimisation, losses and metrics (a metric per epoch, one per
  trial), error analysis, plots and wording, embeddings, the benchmark, the float16
  converter, the ablations that report from another directory.
- Heuristics over text or tensors, rendering: no state worth a model checker.
- The status of a zone rated by several cyclones: the code keeps only the row of
  greatest `computed_at`; no document says what should happen, so nothing is
  claimed.
