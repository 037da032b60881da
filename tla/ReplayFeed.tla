----------------------------- MODULE ReplayFeed -----------------------------
(***************************************************************************)
(* The two consumers of the replay cache.  The replay service keeps the    *)
(* frames in memory and a playback cursor, and handles requests in threads *)
(* of one process.  The producer, a process of its own, posts each frame   *)
(* to the backend with retries and drops it into a watched directory.      *)
(***************************************************************************)
EXTENDS ReplayCache

CONSTANTS
  Worker,      (* the threads that handle HTTP requests                      *)
  Producer,    (* the producer process                                       *)
  MaxRetries,  (* max_retries: attempts for one frame                        *)
  ProducerRuns,    (* bound: producer runs                                       *)
  DeathLimit   (* bound: processes that die                                  *)

ASSUME FeedAssumption ==
  /\ Loader = Worker \cup {Producer} /\ Producer \notin Worker
  /\ MaxRetries \in Nat \ {0} /\ ProducerRuns \in Nat /\ DeathLimit \in Nat

VARIABLES
  memory,   (* _PRECOMPUTED_STORM_CACHE: frames kept for the storm, 0 if none *)
  cursor,   (* _SESSION_CURSORS: the next frame, from 0                       *)
  request,  (* request[w]: the request w handles                              *)
  due,      (* history: the frame that comes next, after the one served last  *)
            (* or by the last reset                                           *)
  late,     (* history: an overtaken request has moved the cursor since       *)
  sending,  (* the state of the producer                                      *)
  flight,   (* requests that may still reach the backend                      *)
  accepted, (* frames the backend has taken in                                *)
  posted,   (* frames the producer counts as posted                           *)
  latest,   (* the frame in latest.json, 0 if there is no such file           *)
  dropped,  (* frames in the watched directory                                *)
  runs,     (* producer runs                                                  *)
  deaths   (* processes that died                                            *)

serviceVars == <<memory, cursor, request, due, late>>
producerVars == <<sending, flight, accepted, posted, latest, dropped, runs>>
feedVars == <<cacheVars, serviceVars, producerVars, deaths>>

Frame == 1 .. FrameCount

(* A request is overtaken (history) when another one reads or resets the   *)
(* cursor after it has read it and before it writes it.                    *)
Idle == [pc |-> "idle", jump |-> 0, frames |-> 0, cur |-> 0, overtaken |-> FALSE]
Overtaking(w, now) ==
  [v \in Worker |-> IF v = w THEN now
                    ELSE [request[v] EXCEPT !.overtaken = (request[v].pc = "advance")]]
Off == [pc |-> "off", first |-> 1, frame |-> 1, attempt |-> 1, frames |-> 0]

FeedInit ==
  /\ CacheInit
  /\ memory = 0 /\ cursor = 0
  /\ request = [w \in Worker |-> Idle]
  /\ due = 0 /\ late = FALSE
  /\ sending = Off /\ flight = {} /\ accepted = {} /\ posted = {}
  /\ latest = 0 /\ dropped = {}
  /\ runs = 0 /\ deaths = 0

-----------------------------------------------------------------------------
(* The replay service.  A request for the next frame or for a reset first  *)
(* needs the frames: from memory, or else by a load.                       *)

get_cached_frames(w) ==
  IF memory # 0
  THEN request' = [request EXCEPT ![w].frames = memory] /\ UNCHANGED cacheVars
  ELSE StartLoad(w) /\ UNCHANGED request

Request(w) ==
  /\ request[w].pc = "idle"
  /\ \/ request' = [request EXCEPT ![w] = [Idle EXCEPT !.pc = "next"]]
     \/ \E jump \in 0 .. FrameCount - 1 :
          request' = [request EXCEPT ![w] = [Idle EXCEPT !.pc = "reset", !.jump = jump]]
  /\ UNCHANGED <<cacheVars, memory, cursor, due, late, producerVars, deaths>>

Waiting(w) == request[w].pc \in {"next", "reset"} /\ request[w].frames = 0

Lookup(w) ==
  /\ Waiting(w) /\ load[w] = "idle"
  /\ get_cached_frames(w)
  /\ UNCHANGED <<memory, cursor, due, late, producerVars, deaths>>

(* The frames replace those another thread has loaded meanwhile.           *)
Store(w) ==
  /\ Waiting(w) /\ load[w] = "loaded"
  /\ memory' = got[w]
  /\ Return(w)
  /\ UNCHANGED <<cursor, request, due, late, producerVars, deaths>>

ServesFollowing(w) ==  (* mutant: the cursor names the frame served last          *)
  /\ request[w].pc = "next" /\ request[w].frames # 0
  /\ request' = Overtaking(w, [request[w] EXCEPT !.pc = "advance", !.cur = cursor])
  /\ due' = (cursor + 2) % request[w].frames /\ late' = FALSE
  /\ UNCHANGED <<cacheVars, memory, cursor, producerVars, deaths>>

(* A cursor past the end of the frames is an IndexError: the request fails *)
(* and the cursor stays.                                                   *)
get_next_frame(w) ==
  /\ request[w].pc = "next" /\ request[w].frames # 0
  /\ IF cursor < request[w].frames
     THEN /\ request' = Overtaking(w, [request[w] EXCEPT !.pc = "advance", !.cur = cursor])
          /\ due' = (cursor + 1) % request[w].frames /\ late' = FALSE
     ELSE /\ request' = [request EXCEPT ![w] = Idle]
          /\ UNCHANGED <<due, late>>
  /\ UNCHANGED <<cacheVars, memory, cursor, producerVars, deaths>>

Advance(w) ==
  /\ request[w].pc = "advance"
  /\ cursor' = (request[w].cur + 1) % request[w].frames
  /\ late' = request[w].overtaken
  /\ request' = [request EXCEPT ![w] = Idle]
  /\ UNCHANGED <<cacheVars, memory, due, producerVars, deaths>>

(* A jump past the end is clamped to the last frame.                       *)
resolve_preset_frame_index(jump, frames) == IF jump < frames THEN jump ELSE frames - 1

reset_replay(w) ==
  /\ request[w].pc = "reset" /\ request[w].frames # 0
  /\ cursor' = resolve_preset_frame_index(request[w].jump, request[w].frames)
  /\ due' = cursor' /\ late' = FALSE
  /\ request' = Overtaking(w, Idle)
  /\ UNCHANGED <<cacheVars, memory, producerVars, deaths>>

ServiceDies ==
  /\ deaths < DeathLimit
  /\ deaths' = deaths + 1
  /\ LoadersDie(Worker)
  /\ memory' = 0 /\ cursor' = 0
  /\ request' = [w \in Worker |-> Idle]
  /\ due' = 0 /\ late' = FALSE
  /\ UNCHANGED producerVars

-----------------------------------------------------------------------------
(* The producer.                                                           *)

StartProducer ==
  /\ sending.pc = "off" /\ load[Producer] = "idle"
  /\ runs < ProducerRuns
  /\ runs' = runs + 1
  /\ posted' = {}
  /\ sending' = [Off EXCEPT !.pc = "load"]
  /\ StartLoad(Producer)
  /\ UNCHANGED <<serviceVars, flight, accepted, latest, dropped, deaths>>

StartReplay ==
  /\ sending.pc = "load" /\ load[Producer] = "loaded"
  /\ \E jump \in 0 .. FrameCount - 1 :
       LET first == resolve_preset_frame_index(jump, got[Producer]) + 1
       IN sending' = [Off EXCEPT !.pc = "post", !.first = first, !.frame = first,
                                 !.frames = got[Producer]]
  /\ Return(Producer)
  /\ UNCHANGED <<serviceVars, flight, accepted, posted, latest, dropped, runs, deaths>>

Post ==
  /\ sending.pc = "post"
  /\ flight' = flight \cup {sending.frame}
  /\ sending' = [sending EXCEPT !.pc = "wait"]
  /\ UNCHANGED <<cacheVars, serviceVars, accepted, posted, latest, dropped, runs, deaths>>

(* After a network or a server error: another attempt, or the next step.   *)
Again ==
  IF sending.attempt < MaxRetries
  THEN sending' = [sending EXCEPT !.pc = "post", !.attempt = @ + 1]
  ELSE sending' = [sending EXCEPT !.pc = "drop"]

(* A timeout says nothing of the request: it may still arrive.  A server   *)
(* error may have come after the frame was taken in.                       *)
post_frame ==
  /\ sending.pc = "wait"
  /\ \/ /\ sending.frame \in accepted                                  \* 2xx
        /\ posted' = posted \cup {sending.frame}
        /\ sending' = [sending EXCEPT !.pc = "drop"]
     \/ /\ Again                                          \* 5xx, error, timeout
        /\ UNCHANGED posted
     \/ /\ sending' = [sending EXCEPT !.pc = "drop"]                   \* 4xx
        /\ UNCHANGED posted
  /\ UNCHANGED <<cacheVars, serviceVars, flight, accepted, latest, dropped, runs, deaths>>

(* The backend takes in a request, or the network loses it.                *)
Arrive(f) ==
  /\ f \in flight
  /\ flight' = flight \ {f}
  /\ accepted' \in {accepted, accepted \cup {f}}
  /\ UNCHANGED <<cacheVars, serviceVars, sending, posted, latest, dropped, runs, deaths>>

(* The frame's own file appears first, by a rename; then latest.json.      *)
file_drop ==
  /\ sending.pc = "drop"
  /\ dropped' = dropped \cup {sending.frame}
  /\ sending' = [sending EXCEPT !.pc = "latest"]
  /\ UNCHANGED <<cacheVars, serviceVars, flight, accepted, posted, latest, runs, deaths>>

RenameLatest ==
  /\ sending.pc = "latest"
  /\ latest' = sending.frame
  /\ sending' = IF sending.frame < sending.frames
                THEN [sending EXCEPT !.pc = "post", !.frame = @ + 1, !.attempt = 1]
                ELSE Off
  /\ UNCHANGED <<cacheVars, serviceVars, flight, accepted, posted, dropped, runs, deaths>>

ProducerDies ==
  /\ sending.pc # "off"
  /\ deaths < DeathLimit
  /\ deaths' = deaths + 1
  /\ LoadersDie({Producer})
  /\ sending' = Off
  /\ UNCHANGED <<serviceVars, flight, accepted, posted, latest, dropped, runs>>

-----------------------------------------------------------------------------

ServiceStep(w) ==
  Lookup(w) \/ Store(w) \/ get_next_frame(w) \/ Advance(w) \/ reset_replay(w)
ProducerStep == StartReplay \/ Post \/ post_frame \/ file_drop \/ RenameLatest

Precompute(l) ==
  precompute_replay(l) /\ UNCHANGED <<serviceVars, producerVars, deaths>>

FeedNext ==
  \/ \E w \in Worker : Request(w) \/ ServiceStep(w)
  \/ \E l \in Loader : Precompute(l)
  \/ StartProducer \/ ProducerStep
  \/ \E f \in Frame : Arrive(f)
  \/ ServiceDies \/ ProducerDies

-----------------------------------------------------------------------------

(* The playback is in sequence: the next frame is the one after the frame  *)
(* served last, or the target of the last reset, with two exceptions.  The *)
(* latest request has been served but has yet to move the cursor: then its *)
(* frame is served again.  Or a request that was overtaken has moved the   *)
(* cursor since: its late write loses a reset or leads to any other frame, *)
(* skipped or repeated, as 1, 0, 2 around a reset to 0.  One late write    *)
(* spoils one step: from the frame served next it goes on in sequence, and *)
(* the write of the latest request mends it.  (service.py:83-87, 116)      *)
PlaybackInSequence ==
  cursor # due => late \/ \E w \in Worker : request[w].pc = "advance" /\ ~request[w].overtaken
=============================================================================
