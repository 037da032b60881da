------------------------------- MODULE SosSend -------------------------------
(***************************************************************************)
(* The sending side of a phone: SosSendViewModel tries the internet, then  *)
(* the two mesh transports.  Each press of the button is a new SOS.        *)
(***************************************************************************)
EXTENDS Integers, MeshRelay

CONSTANTS
  NoPath,     (* no active delivery path                                     *)
  SendLimit   (* bound: presses of the button                                *)

ASSUME SendAssumption == SendLimit \in Nat

VARIABLES
  sendStatus,         (* what the screen shows                               *)
  activeDeliveryPath, (* and the path it names                               *)
  sos,                (* the number of the current SOS                       *)
  uplink,             (* requests on their way to the backend                *)
  backend,            (* SOS the backend has taken in                        *)
  air                 (* SOS that left the phone by radio                    *)

sendVars == <<sendStatus, activeDeliveryPath, sos, uplink, backend, air>>

Resting == {"IDLE", "DELIVERED", "FAILED"}

SendInit ==
  /\ sendStatus = "IDLE" /\ activeDeliveryPath = NoPath /\ sos = 0
  /\ uplink = {} /\ backend = {} /\ air = {}

Show(status, path) == sendStatus' = status /\ activeDeliveryPath' = path

sendSos ==
  /\ sendStatus \in Resting
  /\ sos < SendLimit
  /\ sos' = sos + 1
  /\ Show("SIGNING", NoPath)
  /\ UNCHANGED <<uplink, backend, air>>

Signed ==
  /\ sendStatus = "SIGNING"
  /\ Show("SENDING_INTERNET", "INTERNET")
  /\ UNCHANGED <<sos, uplink, backend, air>>

(* sosRepository.sendSos; the screen still shows SENDING_INTERNET.         *)
RequestSent ==
  /\ sendStatus = "SENDING_INTERNET"
  /\ uplink' = uplink \cup {sos}
  /\ Show("AWAITING", "INTERNET")
  /\ UNCHANGED <<sos, backend, air>>

(* The backend takes a request in, or refuses it, or it is lost.           *)
RequestArrives(s) ==
  /\ s \in uplink
  /\ uplink' = uplink \ {s}
  /\ backend' \in {backend, backend \cup {s}}
  /\ UNCHANGED <<sendStatus, activeDeliveryPath, sos, air>>

TimeoutDelivers ==  (* mutant: no answer is no failure                            *)
  /\ sendStatus = "AWAITING"
  /\ \/ Show("DELIVERED", "INTERNET")
     \/ Show("SENDING_WIFI", "WIFI_AWARE")
  /\ UNCHANGED <<sos, uplink, backend, air>>

(* Any error counts as a failure, a timeout after the backend took the SOS *)
(* in as well.                                                             *)
InternetResult ==
  /\ sendStatus = "AWAITING"
  /\ \/ sos \in backend /\ Show("DELIVERED", "INTERNET")
     \/ Show("SENDING_WIFI", "WIFI_AWARE")
  /\ UNCHANGED <<sos, uplink, backend, air>>

(* With the stub the Bluetooth branch behind is never reached.             *)
MeshResult ==
  /\ sendStatus = "SENDING_WIFI"
  /\ air' = air \cup relayPacket.sent
  /\ IF relayPacket.success THEN Show("DELIVERED", "WIFI_AWARE")
     ELSE Show("SENDING_BT", "BLUETOOTH")
  /\ UNCHANGED <<sos, uplink, backend>>

(* The view model is cleared with its screen, or dies with the process:    *)
(* the coroutine ends where it stands, and the next screen starts afresh.  *)
onCleared ==
  /\ Show("IDLE", NoPath)
  /\ UNCHANGED <<sos, uplink, backend, air>>

SendProgress == Signed \/ RequestSent \/ InternetResult \/ MeshResult

SendStep ==
  sendSos \/ SendProgress \/ \E s \in 1 .. SendLimit : RequestArrives(s)

(* The screen says DELIVERED of an SOS that neither the backend nor any    *)
(* peer has only over the mesh, whose relayPacket is a stub: the internet  *)
(* path, late answers and cleared screens included, never overstates.      *)
(* (SosSendViewModel.kt:112-148)                                           *)
OnlyMeshOverstates ==
  (sendStatus = "DELIVERED" /\ sos \notin backend \cup air) => activeDeliveryPath = "WIFI_AWARE"

=============================================================================
