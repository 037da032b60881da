---------------------------- MODULE RateLimiter ----------------------------
(***************************************************************************)
(* rate_limiter: the table of gateways, which limits deliveries, and the   *)
(* table of addresses, which limits requests of a one-time password.  Both *)
(* keep a queue of the times of the requests they let pass; one pruning    *)
(* serves both.  A check has no await in it, so it is one step of the      *)
(* event loop.                                                             *)
(***************************************************************************)
EXTENDS Integers, Sequences, FiniteSets

CONSTANTS
  Table,          (* the gateways' and the addresses'                            *)
  Requester,      (* gateway ids and addresses                                   *)
  MaxRequests,    (* GATEWAY_MAX, IP_MAX                                         *)
  Window,         (* GATEWAY_WINDOW, IP_WINDOW                                   *)
  MaxKeys,        (* _GATEWAY_MAX_KEYS, _IP_MAX_KEYS                             *)
  PruneInterval,  (* _PRUNE_INTERVAL                                             *)
  ClockLimit      (* bound: time ends here                                       *)

ASSUME LimiterAssumption ==
  /\ MaxRequests \in [Table -> Nat \ {0}]
  /\ Window \in [Table -> Nat]
  /\ MaxKeys \in [Table -> Nat]
  /\ PruneInterval \in Nat
  /\ ClockLimit \in Nat
  /\ IsFiniteSet(Requester)

VARIABLES
  clock,      (* time.time()                                                     *)
  lastPrune,  (* _last_prune                                                     *)
  limits,     (* the queues of both tables; <<>> where there is no key           *)
  admitted,   (* history: the times of all requests that passed                  *)
  answer      (* what the last check said                                        *)

limitVars == <<clock, lastPrune, limits, admitted, answer>>

Nothing == [t \in Table |-> [k \in Requester |-> <<>>]]

(* The process has run for longer than the interval: time.time() is far    *)
(* from 0.                                                                 *)
LimitInit ==
  /\ clock = PruneInterval
  /\ lastPrune = 0
  /\ limits = Nothing
  /\ admitted = Nothing
  /\ answer = <<>>
-----------------------------------------------------------------------------
(* The head is taken off the queue while it is outside of the window.      *)
Outside(t, time) == clock - time > Window[t]

Stale(t, q) ==
  CHOOSE n \in 0 .. Len(q) :
    /\ \A i \in 1 .. n : Outside(t, q[i])
    /\ n < Len(q) => ~Outside(t, q[n + 1])
InWindow(t, q) == SubSeq(q, Stale(t, q) + 1, Len(q))

(* _prune_old_entries: a key whose queue is empty goes.                    *)
PruneIsDue == clock - lastPrune >= PruneInterval

DropsAll(t, k) ==  (* mutant: the key goes with its queue                        *)
  IF PruneIsDue THEN <<>> ELSE limits[t][k]

Pruned(t, k) == IF PruneIsDue THEN InWindow(t, limits[t][k]) ELSE limits[t][k]

Tracked(t) == {k \in Requester : Pruned(t, k) # <<>>}
TableFull(t, k) == k \notin Tracked(t) /\ Cardinality(Tracked(t)) >= MaxKeys[t]

Put(t, k, q) ==
  limits' = [[u \in Table |-> [j \in Requester |-> Pruned(u, j)]] EXCEPT ![t][k] = q]

PruneStep == lastPrune' = IF PruneIsDue THEN clock ELSE lastPrune

(* check_rate_limit and check_otp_rate_limit.                              *)
Refuse(t, k) ==
  /\ PruneStep
  /\ \/ TableFull(t, k) /\ Put(t, k, Pruned(t, k))
     \/ /\ ~TableFull(t, k)
        /\ Len(InWindow(t, Pruned(t, k))) >= MaxRequests[t]
        /\ Put(t, k, InWindow(t, Pruned(t, k)))
  /\ answer' = <<t, k, "refused">>
  /\ UNCHANGED <<clock, admitted>>

Admit(t, k) ==
  /\ PruneStep
  /\ ~TableFull(t, k)
  /\ Len(InWindow(t, Pruned(t, k))) < MaxRequests[t]
  /\ Put(t, k, Append(InWindow(t, Pruned(t, k)), clock))
  /\ admitted' = [admitted EXCEPT ![t][k] = Append(@, clock)]
  /\ answer' = <<t, k, "admitted">>
  /\ UNCHANGED clock

TimePasses ==
  /\ clock < ClockLimit
  /\ clock' = clock + 1
  /\ answer' = <<>>
  /\ UNCHANGED <<lastPrune, limits, admitted>>

LimitNext ==
  \/ \E t \in Table, k \in Requester : Refuse(t, k) \/ Admit(t, k)
  \/ TimePasses

LimitSpec == LimitInit /\ [][LimitNext]_limitVars
-----------------------------------------------------------------------------
(* The requests of k in the window are as many as the table lets pass.     *)
AtLimit(t, k) ==
  LET times == admitted[t][k]
      first == Len(times) - MaxRequests[t] + 1
  IN first >= 1 /\ ~Outside(t, times[first])

(* k had a request admitted since the last pruning, or in a window before. *)
Recent(t, k) ==
  LET times == admitted[t][k]
  IN times # <<>> /\ clock - times[Len(times)] <= PruneInterval + Window[t]

(* The queues, which are cut and pruned again and again, decide as the     *)
(* whole history of the requests would: none is admitted over the limit,   *)
(* and none is refused below it but in a table that is full of others, who *)
(* all were admitted not long ago.                                         *)
LimitsAreExact ==
  [][\A t \in Table, k \in Requester :
       /\ Admit(t, k) => ~AtLimit(t, k)
       /\ Refuse(t, k) =>
            \/ AtLimit(t, k)
            \/ Cardinality({j \in Requester \ {k} : Recent(t, j)}) >= MaxKeys[t]]_limitVars
=============================================================================
