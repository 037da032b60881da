---------------------------- MODULE BackendMemory ----------------------------
(***************************************************************************)
(* What the backend keeps in memory only, beside the database and the      *)
(* scoring: the hub of the dashboards (Realtime), the tables of the rate   *)
(* limits (RateLimiter), and what the scoring tells of itself (Telemetry). *)
(* None of the three touches the state of another, so that a behaviour     *)
(* runs one of them.                                                       *)
(***************************************************************************)
EXTENDS Realtime, RateLimiter, Telemetry

VARIABLE part (* which of the three runs                                     *)

memoryVars == <<part, rtVars, limitVars, telemetryVars>>

Init ==
  /\ part \in {"hub", "limits", "telemetry"}
  /\ RealtimeInit /\ LimitInit /\ TelemetryInit

Next ==
  \/ part = "hub" /\ RealtimeNext /\ UNCHANGED <<part, limitVars, telemetryVars>>
  \/ part = "limits" /\ LimitNext /\ UNCHANGED <<part, rtVars, telemetryVars>>
  \/ part = "telemetry" /\ TelemetryNext /\ UNCHANGED <<part, rtVars, limitVars>>

Spec == Init /\ [][Next]_memoryVars /\ HubFairness
=============================================================================
