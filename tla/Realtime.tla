------------------------------ MODULE Realtime ------------------------------
(***************************************************************************)
(* The realtime hub: ConnectionManager, which keeps the list of dashboard  *)
(* sockets, and websocket_dashboard, the handler of each of them.  A       *)
(* broadcast walks over the list and awaits a send to every socket; while  *)
(* it awaits, sockets join and leave the same list, and other broadcasts   *)
(* walk over it.                                                           *)
(***************************************************************************)
EXTENDS Subsequence

CONSTANTS
  Client,  (* dashboards that open a socket                                      *)
  Cast,    (* broadcasts: one call of broadcast() each                           *)
  Nobody   (* no client                                                          *)

ASSUME RealtimeAssumption == Nobody \notin Client

VARIABLES
  active,   (* active_connections                                                *)
  open,     (* the sockets whose peer is still there                             *)
  handler,  (* where websocket_dashboard is for each client                      *)
  cast,     (* the locals of each broadcast                                      *)
  got,      (* the events written to each client                                 *)
  present,  (* history: the clients in the list when a broadcast began           *)
  left      (* history: the clients that left the list while it was sending      *)

rtVars == <<active, open, handler, cast, got, present, left>>

(* next: the index the list iterator looks at next; to: the socket the     *)
(* broadcast awaits; dead: dead_connections.                               *)
Broadcast == [at: {"idle", "sending", "done"}, next: Nat \ {0}, to: Client \cup {Nobody}, dead: SUBSET Client]

Listed == {active[i] : i \in DOMAIN active}

RealtimeInit ==
  /\ active = <<>>
  /\ open = {}
  /\ handler = [c \in Client |-> "none"]
  /\ cast = [b \in Cast |-> [at |-> "idle", next |-> 1, to |-> Nobody, dead |-> {}]]
  /\ got = [c \in Client |-> {}]
  /\ present = [b \in Cast |-> {}]
  /\ left = [b \in Cast |-> {}]
-----------------------------------------------------------------------------

(* disconnect(): list.remove closes the gap, and every iterator that is    *)
(* past it now looks one place too far.                                    *)
Without(list, gone) == AtPositions(list, {i \in DOMAIN list : list[i] \notin gone})

Disconnect(gone) ==
  /\ active' = Without(active, gone)
  /\ left' = [b \in Cast |-> IF cast'[b].at = "sending" THEN left[b] \cup (gone \cap Listed) ELSE left[b]]

(* A dashboard connects; without a valid token it is closed at once.       *)
Arrive(c) ==
  /\ handler[c] = "none"
  /\ \/ /\ handler' = [handler EXCEPT ![c] = "accepting"]
        /\ open' = open \cup {c}
     \/ /\ handler' = [handler EXCEPT ![c] = "ended"]
        /\ UNCHANGED open
  /\ UNCHANGED <<active, cast, got, present, left>>

(* connect(): accept() succeeds and the socket joins the list, or the peer *)
(* has left and it raises.                                                 *)
Connect(c) ==
  /\ handler[c] = "accepting"
  /\ \/ /\ handler' = [handler EXCEPT ![c] = "receiving"]
        /\ active' = Append(active, c)
     \/ /\ c \notin open
        /\ handler' = [handler EXCEPT ![c] = "ended"]
        /\ UNCHANGED active
  /\ UNCHANGED <<open, cast, got, present, left>>

(* The peer closes, or is lost.                                            *)
Vanish(c) ==
  /\ c \in open
  /\ open' = open \ {c}
  /\ UNCHANGED <<active, handler, cast, got, present, left>>

(* receive_text or the pong raises: the peer is gone, or sent what is no   *)
(* text.  The handler takes the socket off the list and returns, which     *)
(* closes it.                                                              *)
Ends(c) ==
  /\ handler[c] = "receiving"
  /\ handler' = [handler EXCEPT ![c] = "ended"]
  /\ open' = open \ {c}
  /\ UNCHANGED <<cast, got, present>>
  /\ Disconnect({c})

-----------------------------------------------------------------------------
(* The iterator yields the socket at its index, and the send to it starts; *)
(* behind the end of the list, the dead sockets are taken off it.          *)
Advance(b, next, dead) ==
  \/ /\ next <= Len(active)
     /\ cast' = [cast EXCEPT ![b] = [at |-> "sending", next |-> next + 1, to |-> active[next], dead |-> dead]]
     /\ got' = IF active[next] \in open THEN [got EXCEPT ![active[next]] = @ \cup {b}] ELSE got
     /\ UNCHANGED <<active, left>>
  \/ /\ next > Len(active)
     /\ cast' = [cast EXCEPT ![b] = [at |-> "done", next |-> next, to |-> Nobody, dead |-> dead]]
     /\ Disconnect(dead)
     /\ UNCHANGED got

Begin(b) ==
  /\ cast[b].at = "idle"
  /\ present' = [present EXCEPT ![b] = Listed]
  /\ Advance(b, 1, {})
  /\ UNCHANGED <<open, handler>>

(* Mutant: an exception ends the broadcast.                                *)
FailsWhole(b) == Advance(b, Len(active) + 1, {cast[b].to})

(* The awaited send has failed.                                            *)
Fails(b) == Advance(b, cast[b].next, cast[b].dead \cup {cast[b].to})

SendBlocks(b) ==  (* mutant: a send to a lost peer neither returns nor raises   *)
  /\ cast[b].at = "sending"
  /\ cast[b].to \in open
  /\ Advance(b, cast[b].next, cast[b].dead)
  /\ UNCHANGED <<open, handler, present>>

(* The awaited send ends.  It may raise only if the peer is gone, and even *)
(* then the event may just be lost.                                        *)
SendJson(b) ==
  /\ cast[b].at = "sending"
  /\ \/ Advance(b, cast[b].next, cast[b].dead)
     \/ cast[b].to \notin open /\ Fails(b)
  /\ UNCHANGED <<open, handler, present>>
-----------------------------------------------------------------------------
RealtimeNext ==
  \/ \E c \in Client : Arrive(c) \/ Connect(c) \/ Vanish(c) \/ Ends(c)
  \/ \E b \in Cast : Begin(b) \/ SendJson(b)

RealtimeSpec == RealtimeInit /\ [][RealtimeNext]_rtVars

(* The event loop runs every ready coroutine, and a send ends because the  *)
(* server closes a socket whose pings are not answered.                    *)
HubFairness == \A b \in Cast : WF_rtVars(SendJson(b))
-----------------------------------------------------------------------------

(* When nobody leaves the list during a broadcast, everyone who was on it  *)
(* has the event, unless the peer was gone: a failing client costs the     *)
(* others nothing.                                                         *)
QuietBroadcastReachesAll ==
  \A b \in Cast : (cast[b].at = "done" /\ left[b] = {}) =>
    \A c \in present[b] : b \in got[c] \/ c \notin open

(* Every broadcast comes to an end, although clients fail and keep coming. *)
EveryBroadcastEnds == \A b \in Cast : (cast[b].at = "sending") ~> (cast[b].at = "done")

=============================================================================
