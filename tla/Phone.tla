-------------------------------- MODULE Phone --------------------------------
(* One phone: the mesh service, the inbox and the sending screen run in    *)
(* one process and die together.                                           *)
EXTENDS MeshInbox, SosSend

CONSTANT CrashLimit   (* bound: times the process is killed                  *)

ASSUME PhoneAssumption == CrashLimit \in Nat

VARIABLE crashes      (* times the process was killed                        *)

phoneVars == <<meshVars, sendVars, crashes>>

Init == MeshInit /\ SendInit /\ crashes = 0

ProcessDies ==
  /\ crashes < CrashLimit
  /\ crashes' = crashes + 1
  /\ MeshDies
  /\ onCleared

LeaveScreen ==
  /\ sendStatus # "IDLE"
  /\ onCleared
  /\ UNCHANGED <<meshVars, crashes>>

Next ==
  \/ MeshStep /\ UNCHANGED <<sendVars, crashes>>
  \/ SendStep /\ UNCHANGED <<meshVars, crashes>>
  \/ LeaveScreen
  \/ ProcessDies

Spec == Init /\ [][Next]_phoneVars
=============================================================================
