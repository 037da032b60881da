------------------------ MODULE BackendMemory_proofs ------------------------
(***************************************************************************)
(* Proofs about what the backend keeps in memory, for any numbers of       *)
(* dashboards, broadcasts, keys and scorings: a broadcast whose list stays *)
(* as it is reaches all who listen, the rate limits decide as the whole    *)
(* history of requests would, and the summaries of the scoring add up; and *)
(* about the scoring with its response cache: who is answered from the     *)
(* cache, and on which evidence a verdict gets into it.                    *)
(***************************************************************************)
EXTENDS BackendMemory, Scoring, FiniteSetTheorems, FunctionTheorems, WellFoundedInduction, TLAPS

(* Induction over the natural numbers, for a set of them.                  *)
LEMMA InductionOnNat ==
  ASSUME NEW S, 0 \in S, \A n \in Nat : n \in S => n + 1 \in S
  PROVE  Nat \subseteq S
<1> DEFINE T == Nat \ S
<1> DEFINE R == OpToRel(<, Nat)
<1>1. SUFFICES ASSUME T # {} PROVE FALSE
  OBVIOUS
<1>2. IsWellFoundedOn(R, Nat)
  BY NatLessThanWellFounded
<1>3. PICK x \in T : \A y \in T : <<y, x>> \notin R
  <2> HIDE DEF R
  <2>1. T \subseteq Nat /\ T # {}
    BY <1>1
  <2> HIDE DEF T
  <2> QED
    BY <1>2, <2>1, WFMin
<1>4. x # 0 /\ x \in Nat
  OBVIOUS
<1>5. x - 1 \in T
  OBVIOUS
<1>6. <<x - 1, x>> \in R
  BY <1>4, <1>5 DEF OpToRel
<1> QED
  BY <1>3, <1>5, <1>6

LEMMA Positions ==
  ASSUME NEW N \in Nat
  PROVE  /\ IsFiniteSet(1 .. N) /\ Cardinality(1 .. N) = N
         /\ \A P \in SUBSET (1 .. N) :
              IsFiniteSet(P) /\ Cardinality(P) \in Nat /\ Cardinality(P) <= N
<1>1. IsFiniteSet(1 .. N) /\ Cardinality(1 .. N) = N
  BY FS_Interval, 1 \in Int, N \in Int
<1>2. ASSUME NEW P \in SUBSET (1 .. N)
      PROVE  IsFiniteSet(P) /\ Cardinality(P) \in Nat /\ Cardinality(P) <= N
  <2>1. IsFiniteSet(P) /\ Cardinality(P) <= N
    BY <1>1, FS_Subset
  <2> QED
    BY <2>1, FS_CardinalityType
<1> QED
  BY <1>1, <1>2

(* A set of n positions or more has an n-th one.                           *)
LEMMA PositionExists ==
  ASSUME NEW N \in Nat, NEW P \in SUBSET (1 .. N), NEW n \in 1 .. Cardinality(P)
  PROVE  \E i \in P : Cardinality({j \in P : j <= i}) = n
<1> DEFINE Ranked1(Q) == \A m \in 1 .. Cardinality(Q) :
                        \E i \in Q : Cardinality({j \in Q : j <= i}) = m
           S == {l \in Nat : \A Q \in SUBSET (1 .. l) : Ranked1(Q)}
<1>1. 0 \in S
  <2>1. \A Q \in SUBSET (1 .. 0) : Q = {}
    BY 1 .. 0 = {}
  <2>2. \A Q \in SUBSET (1 .. 0) : Cardinality(Q) = 0
    BY <2>1, FS_EmptySet
  <2> QED
    BY <2>2
<1>2. ASSUME NEW l \in Nat, l \in S PROVE l + 1 \in S
  <2> SUFFICES ASSUME NEW Q \in SUBSET (1 .. l + 1), NEW m \in 1 .. Cardinality(Q)
               PROVE  \E i \in Q : Cardinality({j \in Q : j <= i}) = m
    OBVIOUS
  <2> DEFINE Before == Q \ {l + 1}
  <2>1. Before \in SUBSET (1 .. l)
    OBVIOUS
  <2>2. Ranked1(Before)
    BY <1>2, <2>1
  <2>3. IsFiniteSet(Before) /\ Cardinality(Before) \in Nat
    BY <2>1, Positions
  <2>4. CASE l + 1 \notin Q
    <3>1. Q = Before
      BY <2>4
    <3> QED
      BY <2>2, <3>1
  <2>5. CASE l + 1 \in Q
    <3>1. Q = Before \cup {l + 1} /\ l + 1 \notin Before
      BY <2>5
    <3>2. Cardinality(Q) = Cardinality(Before) + 1
      BY <2>3, <3>1, FS_AddElement
    <3>3. CASE m = Cardinality(Q)
      <4>1. \A j \in Q : j <= l + 1
        OBVIOUS
      <4>2. {j \in Q : j <= l + 1} = Q
        BY <4>1
      <4> QED
        BY <2>5, <3>3, <4>2
    <3>4. CASE m # Cardinality(Q)
      <4>1. m \in 1 .. Cardinality(Before)
        BY <2>3, <3>2, <3>4
      <4>2. PICK i \in Before : Cardinality({j \in Before : j <= i}) = m
        BY <2>2, <4>1
      <4>3. {j \in Before : j <= i} = {j \in Q : j <= i}
        BY <2>1, <4>2
      <4> QED
        BY <4>2, <4>3
    <3> QED
      BY <3>3, <3>4
  <2> QED
    BY <2>4, <2>5
<1>3. Nat \subseteq S
  <2> HIDE DEF S
  <2> QED
    BY <1>1, <1>2, InductionOnNat
<1> QED
  BY <1>3

LEMMA PositionType ==
  ASSUME NEW N \in Nat, NEW P \in SUBSET (1 .. N), NEW n \in 1 .. Cardinality(P)
  PROVE  Position(P, n) \in P
BY PositionExists DEF Position

(* Positions of a sequence give a sequence of its elements.                *)
LEMMA AtPositionsType ==
  ASSUME NEW E, NEW s \in Seq(E), NEW P \in SUBSET DOMAIN s
  PROVE  /\ AtPositions(s, P) \in Seq(E)
         /\ Len(AtPositions(s, P)) = Cardinality(P)
         /\ \A n \in 1 .. Cardinality(P) : \E i \in P : AtPositions(s, P)[n] = s[i]
<1>1. DOMAIN s = 1 .. Len(s) /\ Len(s) \in Nat
  OBVIOUS
<1>2. IsFiniteSet(P) /\ Cardinality(P) \in Nat
  BY <1>1, Positions
<1>3. \A n \in 1 .. Cardinality(P) : Position(P, n) \in P
  BY <1>1, PositionType
<1>4. \A n \in 1 .. Cardinality(P) : s[Position(P, n)] \in E
  BY <1>1, <1>3
<1> QED
  BY <1>2, <1>3, <1>4 DEF AtPositions

(* All positions give the sequence itself.                                 *)
LEMMA AllPositions ==
  ASSUME NEW E, NEW s \in Seq(E)
  PROVE  AtPositions(s, DOMAIN s) = s
<1>1. DOMAIN s = 1 .. Len(s) /\ Len(s) \in Nat
  OBVIOUS
<1>2. Cardinality(1 .. Len(s)) = Len(s)
  BY <1>1, Positions
<1>3. ASSUME NEW n \in 1 .. Len(s) PROVE Position(1 .. Len(s), n) = n
  <2>1. ASSUME NEW i \in 1 .. Len(s) PROVE Cardinality({j \in 1 .. Len(s) : j <= i}) = i
    <3>1. {j \in 1 .. Len(s) : j <= i} = 1 .. i
      BY <1>1
    <3> QED
      BY <3>1, <1>1, Positions, i \in Nat
  <2> QED
    BY <2>1 DEF Position
<1> QED
  BY <1>1, <1>2, <1>3 DEF AtPositions

-----------------------------------------------------------------------------
HubType ==
  /\ active \in Seq(Client)
  /\ open \in SUBSET Client
  /\ handler \in [Client -> {"none", "accepting", "receiving", "ended"}]
  /\ cast \in [Cast -> Broadcast]
  /\ \A b \in Cast : cast[b].at = "sending" => cast[b].to \in Client
  /\ got \in [Client -> SUBSET Cast]
  /\ present \in [Cast -> SUBSET Client]
  /\ left \in [Cast -> SUBSET Client]

(* Who is on the list, or was, has connected, and does not come back.      *)
OnceConnected ==
  /\ \A i \in DOMAIN active : handler[active[i]] # "none"
  /\ \A b \in Cast : \A c \in present[b] : handler[c] # "none"

(* c has the event of b, or its peer is gone, or ...                       *)
Served(b, c) == b \in got[c] \/ c \notin open

(* ... it is still in front of the iterator.                               *)
Ahead(b, c) == \E i \in DOMAIN active : i >= cast[b].next /\ active[i] = c

QuietSoFar ==
  \A b \in Cast :
    /\ cast[b].at = "idle" => left[b] = {}
    /\ cast[b].at = "sending" /\ left[b] = {} =>
         \A c \in present[b] : Served(b, c) \/ Ahead(b, c)
    /\ cast[b].at = "done" /\ left[b] = {} => \A c \in present[b] : Served(b, c)

HubInv == HubType /\ OnceConnected /\ QuietSoFar

LEMMA HubInit == RealtimeInit => HubInv
<1> SUFFICES ASSUME RealtimeInit PROVE HubInv
  OBVIOUS
<1>1. [at |-> "idle", next |-> 1, to |-> Nobody, dead |-> {}] \in Broadcast
  BY DEF Broadcast
<1>2. HubType
  BY <1>1 DEF HubType, RealtimeInit
<1>3. OnceConnected
  BY DEF OnceConnected, RealtimeInit
<1>4. QuietSoFar
  BY DEF QuietSoFar, RealtimeInit
<1> QED
  BY <1>2, <1>3, <1>4 DEF HubInv

(* Taking clients off the list leaves a list of clients that were on it,   *)
(* and the list itself if none of them is on it.                           *)
LEMMA WithoutList ==
  ASSUME HubType, NEW gone
  PROVE  /\ Without(active, gone) \in Seq(Client)
         /\ \A n \in DOMAIN Without(active, gone) :
              \E i \in DOMAIN active : Without(active, gone)[n] = active[i]
         /\ gone \cap Listed = {} => Without(active, gone) = active
<1> DEFINE P == {i \in DOMAIN active : active[i] \notin gone}
<1>1. active \in Seq(Client) /\ P \in SUBSET DOMAIN active
  BY DEF HubType
<1>2. Without(active, gone) = AtPositions(active, P)
  BY DEF Without
<1>3. /\ AtPositions(active, P) \in Seq(Client)
      /\ Len(AtPositions(active, P)) = Cardinality(P)
      /\ \A n \in 1 .. Cardinality(P) : \E i \in P : AtPositions(active, P)[n] = active[i]
  <2> HIDE DEF P
  <2> QED
    BY <1>1, AtPositionsType
<1>4. DOMAIN AtPositions(active, P) = 1 .. Cardinality(P)
  BY <1>3
<1>5. ASSUME gone \cap Listed = {} PROVE Without(active, gone) = active
  <2>1. P = DOMAIN active
    BY <1>5 DEF Listed
  <2> QED
    BY <1>1, <1>2, <2>1, AllPositions
<1> QED
  BY <1>1, <1>2, <1>3, <1>4, <1>5

(* An action that keeps the list and the broadcasts, and opens no socket   *)
(* of a client that has connected.                                         *)
LEMMA HubHandler ==
  ASSUME HubInv, HubType', NEW c \in Client,
         handler' = [handler EXCEPT ![c] = handler'[c]], handler'[c] # "none",
         UNCHANGED <<cast, got, present, left>>,
         open' \subseteq open \cup (IF handler[c] = "none" THEN {c} ELSE {}),
         active' = active \/ active' = Append(active, c)
  PROVE  HubInv'
<1> USE DEF HubInv
<1>0. /\ \A i \in DOMAIN active' : active'[i] = c \/ (i \in DOMAIN active /\ active'[i] = active[i])
      /\ \A i \in DOMAIN active : i \in DOMAIN active' /\ active'[i] = active[i]
  <2>1. active \in Seq(Client)
    BY DEF HubType
  <2>2. CASE active' = active
    BY <2>1, <2>2
  <2>3. CASE active' = Append(active, c)
    <3>1. Len(active) \in Nat /\ DOMAIN active = 1 .. Len(active)
      BY <2>1
    <3>2. DOMAIN active' = 1 .. Len(active) + 1
      BY <2>1, <2>3
    <3>3. active'[Len(active) + 1] = c /\ \A i \in 1 .. Len(active) : active'[i] = active[i]
      BY <2>1, <2>3
    <3>4. \A i \in DOMAIN active' : i = Len(active) + 1 \/ i \in 1 .. Len(active)
      BY <3>1, <3>2
    <3>5. \A i \in 1 .. Len(active) : i \in DOMAIN active'
      BY <3>1, <3>2
    <3>6. \A i \in DOMAIN active' : active'[i] = c \/ (i \in DOMAIN active /\ active'[i] = active[i])
      BY <3>1, <3>3, <3>4
    <3> QED
      BY <3>1, <3>3, <3>5, <3>6
  <2> QED
    BY <2>2, <2>3
<1>1. OnceConnected'
  <2>2. \A d \in Client : handler[d] # "none" => handler'[d] # "none"
    BY DEF HubType
  <2>3. \A i \in DOMAIN active : active[i] \in Client
    BY DEF HubType
  <2> QED
    BY <1>0, <2>2, <2>3 DEF OnceConnected, HubType
<1>2. QuietSoFar'
  <2> SUFFICES ASSUME NEW b \in Cast
               PROVE  /\ cast[b].at = "idle" => left[b] = {}
                      /\ cast[b].at = "sending" /\ left[b] = {} =>
                           \A d \in present[b] : Served(b, d)' \/ Ahead(b, d)'
                      /\ cast[b].at = "done" /\ left[b] = {} => \A d \in present[b] : Served(b, d)'
    BY DEF QuietSoFar
  <2>1. \A d \in present[b] : Served(b, d) => Served(b, d)'
    BY DEF Served, OnceConnected
  <2>2. \A d \in present[b] : Ahead(b, d) => Ahead(b, d)'
    BY <1>0 DEF Ahead
  <2> QED
    BY <2>1, <2>2 DEF QuietSoFar
<1> QED
  BY <1>1, <1>2

(* Taking clients off the list.                                            *)
LEMMA HubDisconnect ==
  ASSUME HubInv, HubType', NEW gone, Disconnect(gone),
         UNCHANGED present,
         \A d \in Client : handler[d] # "none" => handler'[d] # "none",
         open' \subseteq open,
         \A d \in Client : got[d] \subseteq got'[d],
         NEW b \in Cast, cast'[b] = cast[b]
  PROVE  /\ cast'[b].at = "idle" => left'[b] = {}
         /\ cast'[b].at = "sending" /\ left'[b] = {} =>
              \A d \in present'[b] : Served(b, d)' \/ Ahead(b, d)'
         /\ cast'[b].at = "done" /\ left'[b] = {} => \A d \in present'[b] : Served(b, d)'
<1> USE DEF HubInv
<1>1. \A d \in present[b] : Served(b, d) => Served(b, d)'
  BY DEF Served, HubType
<1>2. left'[b] = IF cast[b].at = "sending" THEN left[b] \cup (gone \cap Listed) ELSE left[b]
  BY DEF Disconnect
<1>3. CASE cast[b].at = "sending"
  <2> SUFFICES ASSUME left'[b] = {} PROVE \A d \in present[b] : Served(b, d)' \/ Ahead(b, d)'
    BY <1>3
  <2>1. left[b] = {} /\ gone \cap Listed = {}
    BY <1>2, <1>3
  <2>2. active' = active
    BY <2>1, WithoutList DEF Disconnect
  <2>3. \A d \in present[b] : Ahead(b, d) => Ahead(b, d)'
    BY <2>2 DEF Ahead
  <2> QED
    BY <1>1, <1>3, <2>1, <2>3 DEF QuietSoFar
<1>4. CASE cast[b].at # "sending"
  BY <1>1, <1>2, <1>4 DEF QuietSoFar
<1> QED
  BY <1>3, <1>4

LEMMA OnceConnectedStep ==
  ASSUME HubInv, HubType',
         \A d \in Client : handler[d] # "none" => handler'[d] # "none",
         \A n \in DOMAIN active' : \E i \in DOMAIN active : active'[n] = active[i],
         \A b \in Cast : present'[b] \subseteq present[b] \cup Listed
  PROVE  OnceConnected'
<1> USE DEF HubInv
<1>1. \A i \in DOMAIN active : active[i] \in Client /\ handler[active[i]] # "none"
  BY DEF HubType, OnceConnected
<1>2. \A b \in Cast : \A c \in present[b] : c \in Client /\ handler[c] # "none"
  BY DEF HubType, OnceConnected
<1>3. \A c \in Listed : c \in Client /\ handler[c] # "none"
  BY <1>1 DEF Listed
<1> QED
  BY <1>1, <1>2, <1>3 DEF OnceConnected

LEMMA ClosingStep ==
  ASSUME HubInv, HubType', NEW c \in Client, Ends(c)
  PROVE  HubInv'
<1> USE DEF Ends, HubInv
<1>1. \A d \in Client : handler[d] # "none" => handler'[d] # "none"
  BY DEF HubType
<1>2. OnceConnected'
  <2>1. active' = Without(active, {c})
    BY DEF Disconnect
  <2>2. \A n \in DOMAIN active' : \E i \in DOMAIN active : active'[n] = active[i]
    BY <2>1, WithoutList
  <2> QED
    BY <1>1, <2>2, OnceConnectedStep
<1>3. QuietSoFar'
  <2> SUFFICES ASSUME NEW b \in Cast
               PROVE  /\ cast'[b].at = "idle" => left'[b] = {}
                      /\ cast'[b].at = "sending" /\ left'[b] = {} =>
                           \A d \in present'[b] : Served(b, d)' \/ Ahead(b, d)'
                      /\ cast'[b].at = "done" /\ left'[b] = {} => \A d \in present'[b] : Served(b, d)'
    BY DEF QuietSoFar
  <2> QED
    BY <1>1, HubDisconnect
<1> QED
  BY <1>2, <1>3

(* One step of the iterator of b.                                          *)
LEMMA AdvanceStep ==
  ASSUME HubInv, HubType', NEW b \in Cast, NEW next \in Nat \ {0}, NEW dead \in SUBSET Client,
         Advance(b, next, dead), UNCHANGED <<open, handler>>,
         present' = [present EXCEPT ![b] = present'[b]], present'[b] \subseteq present[b] \cup Listed,
         left[b] = {} => \A c \in present'[b] : Served(b, c) \/ \E i \in DOMAIN active : i >= next /\ active[i] = c
  PROVE  HubInv'
<1> USE DEF HubInv
<1>1. CASE /\ next <= Len(active)
           /\ cast' = [cast EXCEPT ![b] = [at |-> "sending", next |-> next + 1, to |-> active[next], dead |-> dead]]
           /\ got' = IF active[next] \in open THEN [got EXCEPT ![active[next]] = @ \cup {b}] ELSE got
           /\ UNCHANGED <<active, left>>
  <2>1. OnceConnected'
    <3>1. \A d \in Cast : present'[d] \subseteq present[d] \cup Listed
      BY DEF HubType
    <3> QED
      BY <1>1, <3>1, OnceConnectedStep
  <2>2. next \in DOMAIN active /\ active[next] \in Client
    BY <1>1 DEF HubType
  <2>3. \A d \in Client, x \in Cast : Served(x, d) => Served(x, d)'
    BY <1>1, <2>2 DEF Served, HubType
  <2>4. \A c \in Client : c = active[next] => Served(b, c)'
    BY <1>1, <2>2 DEF Served, HubType
  <2>5. /\ cast'[b].at = "sending" /\ cast'[b].next = next + 1
        /\ \A x \in Cast \ {b} : cast'[x] = cast[x] /\ present'[x] = present[x]
    BY <1>1 DEF HubType
  <2>6. \A x \in Cast : present[x] \subseteq Client /\ present'[x] \subseteq Client
    BY DEF HubType
  <2>7. left[b] = {} => \A c \in present'[b] : Served(b, c)' \/ Ahead(b, c)'
    <3> SUFFICES ASSUME left[b] = {}, NEW c \in present'[b], ~Served(b, c)' PROVE Ahead(b, c)'
      OBVIOUS
    <3>1. ~Served(b, c)
      BY <2>3, <2>6
    <3>2. PICK i \in DOMAIN active : i >= next /\ active[i] = c
      BY <3>1
    <3>3. i # next
      BY <2>4, <2>6, <3>2
    <3>4. i \in Nat
      BY DEF HubType
    <3>5. i >= next + 1
      BY <3>2, <3>3, <3>4
    <3>6. i \in DOMAIN active' /\ i >= cast'[b].next /\ active'[i] = c
      BY <1>1, <2>5, <3>2, <3>5
    <3> QED
      BY <3>6 DEF Ahead
  <2>8. QuietSoFar'
    <3>3. /\ cast'[b].at = "idle" => left'[b] = {}
          /\ cast'[b].at = "sending" /\ left'[b] = {} =>
               \A c \in present'[b] : Served(b, c)' \/ Ahead(b, c)'
          /\ cast'[b].at = "done" /\ left'[b] = {} => \A c \in present'[b] : Served(b, c)'
      BY <1>1, <2>5, <2>7
    <3> SUFFICES ASSUME NEW x \in Cast
                 PROVE  /\ cast'[x].at = "idle" => left'[x] = {}
                        /\ cast'[x].at = "sending" /\ left'[x] = {} =>
                             \A c \in present'[x] : Served(x, c)' \/ Ahead(x, c)'
                        /\ cast'[x].at = "done" /\ left'[x] = {} =>
                             \A c \in present'[x] : Served(x, c)'
      BY DEF QuietSoFar
    <3>4. CASE x = b
      BY <3>3, <3>4
    <3>5. CASE x # b
      <4>1. \A c \in present[x] : Served(x, c) => Served(x, c)'
        BY <2>3, <2>6
      <4>2. \A c \in present[x] : Ahead(x, c) => Ahead(x, c)'
        BY <1>1, <2>5, <3>5 DEF Ahead
      <4> QED
        BY <1>1, <2>5, <3>5, <4>1, <4>2 DEF QuietSoFar
    <3> QED
      BY <3>4, <3>5
  <2> QED
    BY <2>1, <2>8
<1>2. CASE /\ next > Len(active)
           /\ cast' = [cast EXCEPT ![b] = [at |-> "done", next |-> next, to |-> Nobody, dead |-> dead]]
           /\ Disconnect(dead)
           /\ UNCHANGED got
  <2>1. OnceConnected'
    <3>1. \A d \in Cast : present'[d] \subseteq present[d] \cup Listed
      BY DEF HubType
    <3>2. \A n \in DOMAIN active' : \E i \in DOMAIN active : active'[n] = active[i]
      BY <1>2, WithoutList DEF Disconnect
    <3> QED
      BY <3>1, <3>2, OnceConnectedStep
  <2>2. /\ cast'[b].at = "done"
        /\ \A x \in Cast \ {b} : cast'[x] = cast[x] /\ present'[x] = present[x]
    BY <1>2 DEF HubType
  <2>3. left'[b] = left[b]
    BY <1>2, <2>2 DEF Disconnect
  <2>4. left[b] = {} => \A c \in present'[b] : Served(b, c)'
    <3>1. \A i \in DOMAIN active : ~(i >= next)
      BY <1>2 DEF HubType
    <3>2. \A c \in present'[b] : Served(b, c)' <=> Served(b, c)
      BY <1>2 DEF Served
    <3> QED
      BY <3>1, <3>2
  <2>5. ASSUME NEW x \in Cast \ {b}
        PROVE  /\ cast'[x].at = "idle" => left'[x] = {}
               /\ cast'[x].at = "sending" /\ left'[x] = {} =>
                    \A c \in present[x] : Served(x, c)' \/ Ahead(x, c)'
               /\ cast'[x].at = "done" /\ left'[x] = {} => \A c \in present[x] : Served(x, c)'
    <3>1. \A c \in present[x] : Served(x, c) => Served(x, c)'
      BY <1>2 DEF Served
    <3>2. left'[x] = IF cast[x].at = "sending" THEN left[x] \cup (dead \cap Listed) ELSE left[x]
      BY <1>2, <2>2 DEF Disconnect
    <3>3. CASE cast[x].at = "sending" /\ left'[x] = {}
      <4>1. left[x] = {} /\ dead \cap Listed = {}
        BY <3>2, <3>3
      <4>2. active' = active
        BY <1>2, <4>1, WithoutList DEF Disconnect
      <4>3. \A c \in present[x] : Ahead(x, c) => Ahead(x, c)'
        BY <2>2, <4>2 DEF Ahead
      <4> QED
        BY <2>2, <3>1, <3>3, <4>1, <4>3 DEF QuietSoFar
    <3>4. CASE cast[x].at # "sending"
      BY <2>2, <3>1, <3>2, <3>4 DEF QuietSoFar
    <3> QED
      BY <2>2, <3>3, <3>4
  <2>6. QuietSoFar'
    BY <2>2, <2>3, <2>4, <2>5 DEF QuietSoFar
  <2> QED
    BY <2>1, <2>6
<1> QED
  BY <1>1, <1>2 DEF Advance

LEMMA HubTypeStep == HubType /\ [RealtimeNext]_rtVars => HubType'
<1> SUFFICES ASSUME HubType, [RealtimeNext]_rtVars PROVE HubType'
  OBVIOUS
<1>0. \A gone : Without(active, gone) \in Seq(Client)
  BY WithoutList
<1>1. ASSUME NEW b \in Cast, NEW next \in Nat \ {0}, NEW dead \in SUBSET Client,
             Advance(b, next, dead), UNCHANGED <<open, handler>>,
             present' \in [Cast -> SUBSET Client]
      PROVE  HubType'
  <2>1. CASE /\ next <= Len(active)
             /\ cast' = [cast EXCEPT ![b] = [at |-> "sending", next |-> next + 1, to |-> active[next], dead |-> dead]]
             /\ got' = IF active[next] \in open THEN [got EXCEPT ![active[next]] = @ \cup {b}] ELSE got
             /\ UNCHANGED <<active, left>>
    <3>1. active[next] \in Client
      BY <2>1 DEF HubType
    <3>2. [at |-> "sending", next |-> next + 1, to |-> active[next], dead |-> dead] \in Broadcast
      BY <3>1 DEF Broadcast
    <3>3. got' \in [Client -> SUBSET Cast]
      BY <2>1, <3>1 DEF HubType
    <3> QED
      BY <1>1, <2>1, <3>2, <3>3 DEF HubType
  <2>2. CASE /\ next > Len(active)
             /\ cast' = [cast EXCEPT ![b] = [at |-> "done", next |-> next, to |-> Nobody, dead |-> dead]]
             /\ Disconnect(dead)
             /\ UNCHANGED got
    <3>1. [at |-> "done", next |-> next, to |-> Nobody, dead |-> dead] \in Broadcast
      BY DEF Broadcast
    <3>2. active' \in Seq(Client)
      BY <1>0, <2>2 DEF Disconnect
    <3>3. left' \in [Cast -> SUBSET Client]
      <4>1. Listed \subseteq Client
        BY DEF Listed, HubType
      <4> QED
        BY <2>2, <4>1 DEF Disconnect, HubType
    <3> QED
      BY <1>1, <2>2, <3>1, <3>2, <3>3 DEF HubType
  <2> QED
    BY <1>1, <2>1, <2>2 DEF Advance
<1>2. \A b \in Cast : cast[b] \in Broadcast
  BY DEF HubType
<1>3. ASSUME NEW c \in Client, Arrive(c) \/ Connect(c) \/ Vanish(c) PROVE HubType'
  <2>1. CASE Arrive(c)
    BY <2>1 DEF Arrive, HubType
  <2>2. CASE Connect(c)
    <3>1. active' \in Seq(Client)
      BY <2>2 DEF Connect, HubType
    <3> QED
      BY <2>2, <3>1 DEF Connect, HubType
  <2>3. CASE Vanish(c)
    BY <2>3 DEF Vanish, HubType
  <2> QED
    BY <1>3, <2>1, <2>2, <2>3
<1>4. ASSUME NEW c \in Client, Ends(c) PROVE HubType'
  <2>1. active' \in Seq(Client)
    BY <1>0, <1>4 DEF Ends, Disconnect
  <2>2. left' \in [Cast -> SUBSET Client]
    BY <1>4 DEF Ends, Disconnect, HubType
  <2> QED
    BY <1>4, <2>1, <2>2 DEF Ends, HubType
<1>5. ASSUME NEW b \in Cast, Begin(b) PROVE HubType'
  <2>1. Listed \subseteq Client
    BY DEF Listed, HubType
  <2>2. present' \in [Cast -> SUBSET Client]
    BY <1>5, <2>1 DEF Begin, HubType
  <2> QED
    BY <1>1, <1>5, <2>2 DEF Begin
<1>6. ASSUME NEW b \in Cast, SendJson(b) PROVE HubType'
  <2>1. cast[b].next \in Nat \ {0} /\ cast[b].dead \in SUBSET Client
    BY <1>2, <1>6 DEF Broadcast
  <2>2. present' \in [Cast -> SUBSET Client]
    BY <1>6 DEF SendJson, HubType
  <2>3. CASE Advance(b, cast[b].next, cast[b].dead)
    BY <1>1, <1>6, <2>1, <2>2, <2>3 DEF SendJson
  <2>4. CASE cast[b].to \notin open /\ Fails(b)
    <3>1. cast[b].dead \cup {cast[b].to} \in SUBSET Client
      BY <1>6, <2>1 DEF SendJson, HubType
    <3> QED
      BY <1>1, <1>6, <2>1, <2>2, <2>4, <3>1 DEF SendJson, Fails
  <2> QED
    BY <1>6, <2>3, <2>4 DEF SendJson
<1>7. CASE UNCHANGED rtVars
  BY <1>7 DEF rtVars, HubType
<1> QED
  BY <1>3, <1>4, <1>5, <1>6, <1>7 DEF RealtimeNext

LEMMA HubStep == HubInv /\ [RealtimeNext]_rtVars => HubInv'
<1> SUFFICES ASSUME HubInv, [RealtimeNext]_rtVars PROVE HubInv'
  OBVIOUS
<1>1. HubType' /\ HubType
  BY HubTypeStep DEF HubInv
<1>2. ASSUME NEW c \in Client, Arrive(c) PROVE HubInv'
  BY <1>1, <1>2, HubHandler DEF Arrive, HubType
<1>3. ASSUME NEW c \in Client, Connect(c) PROVE HubInv'
  BY <1>1, <1>3, HubHandler DEF Connect, HubType
<1>4. ASSUME NEW c \in Client, Vanish(c) PROVE HubInv'
  <2>1. OnceConnected'
    BY <1>4 DEF Vanish, HubInv, OnceConnected
  <2>2. QuietSoFar'
    <3> SUFFICES ASSUME NEW b \in Cast
                 PROVE  /\ cast[b].at = "idle" => left[b] = {}
                        /\ cast[b].at = "sending" /\ left[b] = {} =>
                             \A d \in present[b] : Served(b, d)' \/ Ahead(b, d)'
                        /\ cast[b].at = "done" /\ left[b] = {} => \A d \in present[b] : Served(b, d)'
      BY <1>4 DEF Vanish, QuietSoFar
    <3>1. \A d \in present[b] : Served(b, d) => Served(b, d)'
      BY <1>4 DEF Vanish, Served
    <3>2. \A d \in present[b] : Ahead(b, d) => Ahead(b, d)'
      BY <1>4 DEF Vanish, Ahead
    <3> QED
      BY <3>1, <3>2 DEF HubInv, QuietSoFar
  <2> QED
    BY <1>1, <2>1, <2>2 DEF HubInv
<1>5. ASSUME NEW c \in Client, Ends(c) PROVE HubInv'
  BY <1>1, <1>5, ClosingStep
<1>6. ASSUME NEW b \in Cast, Begin(b) PROVE HubInv'
  <2>1. present' = [present EXCEPT ![b] = present'[b]] /\ present'[b] = Listed
    BY <1>1, <1>6 DEF Begin, HubType
  <2>2. \A c \in present'[b] : \E i \in DOMAIN active : i >= 1 /\ active[i] = c
    BY <1>1, <2>1 DEF Listed, HubType
  <2>3. Advance(b, 1, {}) /\ UNCHANGED <<open, handler>>
    BY <1>6 DEF Begin
  <2> QED
    BY <1>1, <2>1, <2>2, <2>3, AdvanceStep
<1>7. ASSUME NEW b \in Cast, SendJson(b) PROVE HubInv'
  <2>1. /\ cast[b].next \in Nat \ {0} /\ cast[b].dead \in SUBSET Client
        /\ cast[b].to \in Client /\ cast[b].at = "sending"
    BY <1>1, <1>7 DEF SendJson, HubType, Broadcast
  <2>2. present' = [present EXCEPT ![b] = present'[b]] /\ present'[b] = present[b]
    BY <1>1, <1>7 DEF SendJson, HubType
  <2>3. left[b] = {} => \A c \in present'[b] : Served(b, c) \/
                              \E i \in DOMAIN active : i >= cast[b].next /\ active[i] = c
    BY <2>1, <2>2 DEF HubInv, QuietSoFar, Ahead
  <2>4. UNCHANGED <<open, handler>>
    BY <1>7 DEF SendJson
  <2>5. cast[b].dead \cup {cast[b].to} \in SUBSET Client
    BY <2>1
  <2>6. Advance(b, cast[b].next, cast[b].dead) \/ Advance(b, cast[b].next, cast[b].dead \cup {cast[b].to})
    BY <1>7 DEF SendJson, Fails
  <2> QED
    BY <1>1, <2>1, <2>2, <2>3, <2>4, <2>5, <2>6, AdvanceStep
<1>8. CASE UNCHANGED rtVars
  BY <1>8 DEF rtVars, HubInv, HubType, OnceConnected, QuietSoFar, Served, Ahead
<1> QED
  BY <1>2, <1>3, <1>4, <1>5, <1>6, <1>7, <1>8 DEF RealtimeNext

(* Nobody is connected twice, and every broadcast knows where it is in the *)
(* list, whoever came or went while it sent.                               *)
THEOREM HubInvariant == RealtimeSpec => []HubInv
<1> QED
  BY HubInit, HubStep, PTL DEF RealtimeSpec

(* A broadcast during which nobody leaves the list has sent to each client *)
(* that was on it when the broadcast began.                                *)
THEOREM QuietBroadcastCorrect == RealtimeSpec => []QuietBroadcastReachesAll
<1>1. HubInv => QuietBroadcastReachesAll
  BY DEF HubInv, QuietSoFar, Served, QuietBroadcastReachesAll
<1> QED
  BY <1>1, HubInvariant, PTL

-----------------------------------------------------------------------------
(* The rate limits.                                                        *)

(* The loops end: at the first time in the window, or with the queue.      *)
LEMMA StaleExists ==
  ASSUME NEW t \in Table, NEW q \in Seq(Nat)
  PROVE  /\ Stale(t, q) \in 0 .. Len(q)
         /\ \A i \in 1 .. Stale(t, q) : Outside(t, q[i])
         /\ Stale(t, q) < Len(q) => ~Outside(t, q[Stale(t, q) + 1])
<1> DEFINE EndsAt(n) == /\ \A i \in 1 .. n : Outside(t, q[i])
                        /\ n < Len(q) => ~Outside(t, q[n + 1])
           S == {l \in Nat : l <= Len(q) => \/ \E n \in 0 .. Len(q) : EndsAt(n)
                                           \/ \A i \in 1 .. l : Outside(t, q[i])}
<1>1. 0 \in S
  OBVIOUS
<1>2. ASSUME NEW l \in Nat, l \in S PROVE l + 1 \in S
  <2> SUFFICES ASSUME l + 1 <= Len(q), ~ \E n \in 0 .. Len(q) : EndsAt(n)
               PROVE  \A i \in 1 .. l + 1 : Outside(t, q[i])
    OBVIOUS
  <2>1. \A i \in 1 .. l : Outside(t, q[i])
    BY <1>2
  <2>2. l \in 0 .. Len(q) /\ l < Len(q)
    OBVIOUS
  <2>3. Outside(t, q[l + 1])
    BY <2>1, <2>2
  <2> QED
    BY <2>1, <2>3
<1>3. Nat \subseteq S
  <2> HIDE DEF S
  <2> QED
    BY <1>1, <1>2, InductionOnNat
<1>4. \E n \in 0 .. Len(q) : EndsAt(n)
  <2>1. Len(q) \in S
    BY <1>3
  <2>2. CASE \A i \in 1 .. Len(q) : Outside(t, q[i])
    BY <2>2
  <2> QED
    BY <2>1, <2>2
<1> QED
  BY <1>4 DEF Stale

LEMMA InWindowType ==
  ASSUME NEW t \in Table, NEW q \in Seq(Nat)
  PROVE  /\ InWindow(t, q) \in Seq(Nat)
         /\ Len(InWindow(t, q)) = Len(q) - Stale(t, q)
         /\ \A i \in 1 .. Len(InWindow(t, q)) : InWindow(t, q)[i] = q[Stale(t, q) + i]
         /\ InWindow(t, q) # <<>> => ~Outside(t, InWindow(t, q)[1])
<1>1. Stale(t, q) \in 0 .. Len(q)
  BY StaleExists
<1> DEFINE n == Stale(t, q)
           r == InWindow(t, q)
<1>2. r = SubSeq(q, n + 1, Len(q))
  BY DEF InWindow
<1>3. r \in Seq(Nat) /\ Len(r) = Len(q) - n /\ \A i \in 1 .. Len(r) : r[i] = q[n + i]
  <2> HIDE DEF n
  <2>1. n \in 0 .. Len(q) /\ Len(q) \in Nat
    BY <1>1 DEF n
  <2> HIDE DEF r
  <2>2. \A i \in n + 1 .. Len(q) : q[i] \in Nat
    BY <2>1
  <2> QED
    BY <1>2, <2>1, <2>2
<1>4. ASSUME r # <<>> PROVE ~Outside(t, r[1])
  <2>1. Len(r) \in Nat /\ Len(r) # 0
    BY <1>3, <1>4
  <2>2. n < Len(q) /\ r[1] = q[n + 1]
    BY <1>1, <1>3, <2>1
  <2> QED
    BY <2>2, StaleExists
<1> QED
  BY <1>3, <1>4

-----------------------------------------------------------------------------
LimitType ==
  /\ clock \in Nat /\ lastPrune \in Nat /\ lastPrune <= clock
  /\ limits \in [Table -> [Requester -> Seq(Nat)]]
  /\ admitted \in [Table -> [Requester -> Seq(Nat)]]

InOrder(times) ==
  /\ \A i \in DOMAIN times : times[i] <= clock
  /\ \A i, j \in DOMAIN times : i <= j => times[i] <= times[j]

(* The queue q holds the last of the times, and only what is outside of    *)
(* the window is missing from it.                                          *)
Remembers(t, q, times) ==
  /\ Len(q) <= Len(times)
  /\ \A i \in 1 .. Len(q) : q[i] = times[Len(times) - Len(q) + i]
  /\ \A i \in 1 .. Len(times) - Len(q) : Outside(t, times[i])

(* A key that is in the table outlived the last pruning, or is younger.    *)
Outlived(t, q) == q # <<>> => lastPrune - q[Len(q)] <= Window[t]

LimitInv ==
  /\ LimitType
  /\ \A t \in Table, k \in Requester :
       /\ InOrder(admitted[t][k])
       /\ Remembers(t, limits[t][k], admitted[t][k])
       /\ Outlived(t, limits[t][k])

LEMMA LimitInitial == LimitInit => LimitInv
<1> SUFFICES ASSUME LimitInit PROVE LimitInv
  OBVIOUS
<1>1. LimitType
  BY LimiterAssumption DEF LimitInit, LimitType, Nothing
<1>2. ASSUME NEW t \in Table, NEW k \in Requester
      PROVE  limits[t][k] = <<>> /\ admitted[t][k] = <<>>
  BY DEF LimitInit, Nothing
<1>3. ASSUME NEW t \in Table, NEW k \in Requester
      PROVE  InOrder(<<>>) /\ Remembers(t, <<>>, <<>>) /\ Outlived(t, <<>>)
  BY DEF InOrder, Remembers, Outlived
<1> QED
  BY <1>1, <1>2, <1>3 DEF LimitInv

(* Taking off what is outside of the window is forgetting nothing else.    *)
LEMMA CutRemembers ==
  ASSUME LimitType, NEW t \in Table, NEW q \in Seq(Nat), NEW times \in Seq(Nat), InOrder(times),
         Remembers(t, q, times)
  PROVE  LET r == InWindow(t, q) IN
         /\ Remembers(t, r, times)
         /\ r # <<>> => clock - r[Len(r)] <= Window[t]
         /\ r # <<>> => q # <<>> /\ r[Len(r)] = q[Len(q)]
<1> DEFINE r == InWindow(t, q)
           n == Stale(t, q)
<1>1. /\ r \in Seq(Nat) /\ Len(r) = Len(q) - n
      /\ \A i \in 1 .. Len(r) : r[i] = q[n + i]
      /\ r # <<>> => ~Outside(t, r[1])
  BY InWindowType
<1>2. n \in 0 .. Len(q) /\ \A i \in 1 .. n : Outside(t, q[i])
  BY StaleExists
<1>3. Len(q) \in Nat /\ Len(times) \in Nat /\ Len(r) \in Nat
  BY <1>1
<1> HIDE DEF r, n
<1>4. Len(r) <= Len(times)
  BY <1>1, <1>2, <1>3 DEF Remembers
<1>5. ASSUME NEW i \in 1 .. Len(r) PROVE r[i] = times[Len(times) - Len(r) + i]
  <2>1. n + i \in 1 .. Len(q)
    BY <1>1, <1>2, <1>3
  <2>2. q[n + i] = times[Len(times) - Len(q) + (n + i)]
    BY <2>1 DEF Remembers
  <2>3. Len(times) - Len(q) + (n + i) = Len(times) - Len(r) + i
    BY <1>1, <1>2, <1>3
  <2> QED
    BY <1>1, <2>2, <2>3
<1>6. ASSUME NEW i \in 1 .. Len(times) - Len(r) PROVE Outside(t, times[i])
  <2>1. CASE i <= Len(times) - Len(q)
    BY <1>3, <2>1 DEF Remembers
  <2>2. CASE i > Len(times) - Len(q)
    <3> DEFINE m == i - (Len(times) - Len(q))
    <3>1. m \in 1 .. n /\ m \in 1 .. Len(q) /\ i = Len(times) - Len(q) + m
      <4>1. PICK a, b, c : a = Len(times) /\ b = Len(q) /\ c = Len(r)
        OBVIOUS
      <4>2. /\ a \in Nat /\ b \in Nat /\ c \in Nat /\ c = b - n /\ n \in 0 .. b
            /\ i \in 1 .. a - c /\ i > a - b /\ m = i - (a - b)
        BY <1>1, <1>2, <1>3, <2>2, <4>1
      <4> HIDE DEF m
      <4>3. m \in 1 .. n /\ m \in 1 .. b /\ i = a - b + m
        BY ONLY <4>2
      <4> QED BY ONLY <4>1, <4>3
    <3>2. q[m] = times[i]
      <4> HIDE DEF m
      <4> QED
        BY <3>1 DEF Remembers
    <3> QED
      BY <1>2, <3>1, <3>2
  <2> QED
    BY <1>3, <2>1, <2>2
<1>7. ASSUME r # <<>>
      PROVE  clock - r[Len(r)] <= Window[t] /\ q # <<>> /\ r[Len(r)] = q[Len(q)]
  <2>1. Len(r) # 0 /\ Len(q) # 0
    BY <1>1, <1>2, <1>3, <1>7
  <2>2. r[Len(r)] = q[Len(q)]
    BY <1>1, <1>2, <1>3, <2>1
  <2>3. clock - r[1] <= Window[t]
    <3>1. r[1] \in Nat /\ clock \in Nat /\ Window[t] \in Nat
      BY <1>1, <1>3, <2>1, LimiterAssumption DEF LimitType
    <3> QED
      BY <1>1, <1>7, <3>1 DEF Outside
  <2>4. r[1] <= r[Len(r)]
    <3> DEFINE i == Len(times) - Len(r) + 1
               j == Len(times) - Len(r) + Len(r)
    <3>1. i \in DOMAIN times /\ j \in DOMAIN times /\ i <= j
      BY <1>3, <1>4, <2>1
    <3>2. r[1] = times[i] /\ r[Len(r)] = times[j]
      BY <1>3, <1>5, <2>1
    <3> QED
      BY <3>1, <3>2 DEF InOrder
  <2>5. r[1] \in Nat /\ r[Len(r)] \in Nat /\ clock \in Nat /\ Window[t] \in Nat
    BY <1>1, <1>3, <2>1, LimiterAssumption DEF LimitType
  <2>6. q # <<>>
    BY <2>1
  <2> QED
    BY <2>2, <2>3, <2>4, <2>5, <2>6
<1>8. Remembers(t, r, times)
  BY <1>4, <1>5, <1>6 DEF Remembers
<1> QED
  BY <1>7, <1>8 DEF r

-----------------------------------------------------------------------------
(* Time only takes more out of the window.                                 *)
LEMMA OutsideLater ==
  ASSUME LimitType, TimePasses, NEW t \in Table, NEW time \in Nat, Outside(t, time)
  PROVE  Outside(t, time)'
<1>1. clock \in Nat /\ Window[t] \in Nat
  BY LimiterAssumption DEF LimitType
<1> QED
  BY <1>1 DEF TimePasses, Outside

LEMMA TimeStep == LimitInv /\ TimePasses => LimitInv'
<1> SUFFICES ASSUME LimitInv, TimePasses PROVE LimitInv'
  OBVIOUS
<1>1. LimitType /\ LimitType'
  BY DEF LimitInv, LimitType, TimePasses
<1>2. ASSUME NEW t \in Table, NEW k \in Requester
      PROVE  InOrder(admitted[t][k])' /\ Remembers(t, limits[t][k], admitted[t][k])'
             /\ Outlived(t, limits[t][k])'
  <2> DEFINE times == admitted[t][k]
             q == limits[t][k]
  <2>1. InOrder(times) /\ Remembers(t, q, times) /\ Outlived(t, q)
    BY DEF LimitInv
  <2>2. times \in Seq(Nat) /\ q \in Seq(Nat) /\ times' = times /\ q' = q
    BY <1>1 DEF LimitType, TimePasses
  <2>3. InOrder(times)'
    <3>1. clock' = clock + 1 /\ clock \in Nat
      BY <1>1 DEF TimePasses, LimitType
    <3>2. \A i \in DOMAIN times : times[i] \in Nat /\ times[i] <= clock
      BY <2>1, <2>2 DEF InOrder
    <3>3. \A i \in DOMAIN times : times[i] <= clock'
      <4> HIDE DEF times
      <4> QED
        BY <3>1, <3>2
    <3> HIDE DEF times
    <3> QED
      BY <2>1, <2>2, <3>3 DEF InOrder
  <2>4. Remembers(t, q, times)'
    <3>1. ASSUME NEW i \in 1 .. Len(times) - Len(q) PROVE Outside(t, times[i])'
      <4>1. i \in DOMAIN times /\ times[i] \in Nat
        <5> HIDE DEF times, q
        <5> QED
          BY <2>2
      <4>2. Outside(t, times[i])
        BY <2>1 DEF Remembers
      <4>3. \A time \in Nat : Outside(t, time) => Outside(t, time)'
        BY <1>1, OutsideLater
      <4>4. times'[i] = times[i]
        BY <2>2
      <4> HIDE DEF times
      <4> QED
        BY <4>1, <4>2, <4>3, <2>2 DEF Outside
    <3> HIDE DEF times, q
    <3> QED
      BY <2>1, <2>2, <3>1 DEF Remembers
  <2>5. Outlived(t, q)'
    BY <2>1, <2>2 DEF Outlived, TimePasses
  <2> QED
    BY <2>3, <2>4, <2>5
<1> QED
  BY <1>1, <1>2 DEF LimitInv

-----------------------------------------------------------------------------
(* What a check starts from: every queue pruned, if that is due.           *)
LEMMA PrunedRemembers ==
  ASSUME LimitInv, PruneStep, NEW t \in Table, NEW k \in Requester
  PROVE  /\ Pruned(t, k) \in Seq(Nat)
         /\ Remembers(t, Pruned(t, k), admitted[t][k])
         /\ Pruned(t, k) # <<>> => lastPrune' - Pruned(t, k)[Len(Pruned(t, k))] <= Window[t]
<1>1. /\ limits[t][k] \in Seq(Nat) /\ admitted[t][k] \in Seq(Nat)
      /\ InOrder(admitted[t][k]) /\ Remembers(t, limits[t][k], admitted[t][k])
      /\ Outlived(t, limits[t][k]) /\ LimitType
  BY DEF LimitInv, LimitType
<1>2. CASE PruneIsDue
  <2>1. Pruned(t, k) = InWindow(t, limits[t][k]) /\ lastPrune' = clock
    BY <1>2 DEF Pruned, PruneStep
  <2>2. InWindow(t, limits[t][k]) \in Seq(Nat)
    BY <1>1, InWindowType
  <2> QED
    BY <1>1, <2>1, <2>2, CutRemembers
<1>3. CASE ~PruneIsDue
  BY <1>1, <1>3 DEF Pruned, PruneStep, Outlived
<1> QED
  BY <1>2, <1>3

(* And it cuts the queue of the one who asks.                              *)
LEMMA CutPrunedRemembers ==
  ASSUME LimitInv, PruneStep, NEW t \in Table, NEW k \in Requester
  PROVE  LET r == InWindow(t, Pruned(t, k)) IN
         /\ r \in Seq(Nat)
         /\ Remembers(t, r, admitted[t][k])
         /\ r # <<>> => lastPrune' - r[Len(r)] <= Window[t]
         /\ r # <<>> => ~Outside(t, r[1])
<1>1. LimitType /\ admitted[t][k] \in Seq(Nat) /\ InOrder(admitted[t][k])
  BY DEF LimitInv, LimitType
<1>2. /\ Pruned(t, k) \in Seq(Nat) /\ Remembers(t, Pruned(t, k), admitted[t][k])
      /\ Pruned(t, k) # <<>> => lastPrune' - Pruned(t, k)[Len(Pruned(t, k))] <= Window[t]
  BY PrunedRemembers
<1> DEFINE p == Pruned(t, k)
           r == InWindow(t, p)
<1>3. r \in Seq(Nat) /\ (r # <<>> => ~Outside(t, r[1]))
  BY <1>2, InWindowType
<1>4. Remembers(t, r, admitted[t][k]) /\ (r # <<>> => p # <<>> /\ r[Len(r)] = p[Len(p)])
  <2> HIDE DEF p
  <2> QED
    BY <1>1, <1>2, CutRemembers DEF p
<1> HIDE DEF p, r
<1>5. r # <<>> => lastPrune' - r[Len(r)] <= Window[t]
  BY <1>2, <1>4 DEF p
<1> QED
  BY <1>3, <1>4, <1>5 DEF p, r

(* Every queue but that of the one who asks is as pruned.                  *)
LEMMA PutStep ==
  ASSUME LimitInv, PruneStep, clock' = clock, NEW t \in Table, NEW k \in Requester,
         NEW q \in Seq(Nat), Put(t, k, q),
         admitted' \in [Table -> [Requester -> Seq(Nat)]],
         \A u \in Table, j \in Requester :
           u # t \/ j # k => admitted'[u][j] = admitted[u][j],
         InOrder(admitted'[t][k]),
         Remembers(t, q, admitted'[t][k]),
         q # <<>> => lastPrune' - q[Len(q)] <= Window[t]
  PROVE  LimitInv'
<1>1. LimitType
  BY DEF LimitInv
<1>2. lastPrune' \in Nat /\ lastPrune' <= clock'
  BY <1>1 DEF LimitType, PruneStep
<1> DEFINE P == [u \in Table |-> [j \in Requester |-> Pruned(u, j)]]
<1>3. P \in [Table -> [Requester -> Seq(Nat)]]
  BY PrunedRemembers
<1>4. limits' = [P EXCEPT ![t][k] = q]
  BY DEF Put
<1>5. limits' \in [Table -> [Requester -> Seq(Nat)]]
  <2> HIDE DEF P
  <2> QED
    BY <1>3, <1>4
<1>6. LimitType'
  BY <1>1, <1>2, <1>5 DEF LimitType
<1>7. limits'[t][k] = q
  <2> HIDE DEF P
  <2> QED
    BY <1>3, <1>4
<1>8. ASSUME NEW u \in Table, NEW j \in Requester, u # t \/ j # k
      PROVE  limits'[u][j] = Pruned(u, j)
  <2>1. P[u][j] = Pruned(u, j)
    OBVIOUS
  <2> HIDE DEF P
  <2> QED
    BY <1>3, <1>4, <1>8, <2>1
<1>9. ASSUME NEW u \in Table, NEW j \in Requester
      PROVE  InOrder(admitted[u][j])' /\ Remembers(u, limits[u][j], admitted[u][j])'
             /\ Outlived(u, limits[u][j])'
  <2>1. CASE u = t /\ j = k
    BY <1>7, <2>1 DEF InOrder, Remembers, Outlived, Outside
  <2>2. CASE u # t \/ j # k
    <3>1. limits'[u][j] = Pruned(u, j) /\ admitted'[u][j] = admitted[u][j]
      BY <1>8, <2>2
    <3>2. InOrder(admitted[u][j])
      BY DEF LimitInv
    <3>3. /\ Remembers(u, Pruned(u, j), admitted[u][j])
          /\ Pruned(u, j) # <<>> => lastPrune' - Pruned(u, j)[Len(Pruned(u, j))] <= Window[u]
      BY PrunedRemembers
    <3> QED
      BY <3>1, <3>2, <3>3 DEF InOrder, Remembers, Outlived, Outside
  <2> QED
    BY <2>1, <2>2
<1> QED
  BY <1>6, <1>9 DEF LimitInv

LEMMA RefuseStep ==
  ASSUME LimitInv, NEW t \in Table, NEW k \in Requester, Refuse(t, k)
  PROVE  LimitInv'
<1>1. PruneStep /\ clock' = clock /\ admitted' = admitted
  BY DEF Refuse
<1>2. InOrder(admitted[t][k]) /\ admitted \in [Table -> [Requester -> Seq(Nat)]]
  BY DEF LimitInv, LimitType
<1>3. PICK q \in {Pruned(t, k), InWindow(t, Pruned(t, k))} : Put(t, k, q)
  BY DEF Refuse
<1>4. /\ q \in Seq(Nat) /\ Remembers(t, q, admitted[t][k])
      /\ q # <<>> => lastPrune' - q[Len(q)] <= Window[t]
  BY <1>1, <1>3, PrunedRemembers, CutPrunedRemembers
<1>5. InOrder(admitted'[t][k]) /\ Remembers(t, q, admitted'[t][k])
  BY <1>1, <1>2, <1>4
<1> QED
  BY <1>1, <1>2, <1>3, <1>4, <1>5, PutStep

LEMMA AdmitStep ==
  ASSUME LimitInv, NEW t \in Table, NEW k \in Requester, Admit(t, k)
  PROVE  LimitInv'
<1> DEFINE times == admitted[t][k]
           r == InWindow(t, Pruned(t, k))
           q == Append(r, clock)
<1>1. /\ PruneStep /\ clock' = clock /\ Put(t, k, q)
      /\ admitted' = [admitted EXCEPT ![t][k] = Append(@, clock)]
  BY DEF Admit
<1>2. /\ LimitType /\ InOrder(times) /\ times \in Seq(Nat)
      /\ admitted \in [Table -> [Requester -> Seq(Nat)]] /\ clock \in Nat
  BY DEF LimitInv, LimitType
<1>3. /\ r \in Seq(Nat) /\ Remembers(t, r, times)
      /\ r # <<>> => lastPrune' - r[Len(r)] <= Window[t]
  BY <1>1, CutPrunedRemembers
<1>4. /\ admitted' \in [Table -> [Requester -> Seq(Nat)]]
      /\ admitted'[t][k] = Append(times, clock)
      /\ \A u \in Table, j \in Requester :
           u # t \/ j # k => admitted'[u][j] = admitted[u][j]
  BY <1>1, <1>2
<1>5. q \in Seq(Nat)
  BY <1>2, <1>3
<1> HIDE DEF r
<1>6. Len(q) = Len(r) + 1 /\ q[Len(q)] = clock /\ \A i \in 1 .. Len(r) : q[i] = r[i]
  BY <1>2, <1>3
<1> DEFINE new == Append(times, clock)
<1> HIDE DEF times, q
<1>7. /\ Len(new) = Len(times) + 1 /\ new[Len(new)] = clock /\ DOMAIN new = 1 .. Len(times) + 1
      /\ \A i \in 1 .. Len(times) : new[i] = times[i]
  BY <1>2
<1> HIDE DEF new
<1>8. InOrder(new)
  <2>1. \A i \in 1 .. Len(times) : new[i] <= clock /\ new[i] \in Nat
    BY <1>2, <1>7 DEF InOrder
  <2>2. \A i \in DOMAIN new : new[i] <= clock
    BY <1>2, <1>7, <2>1
  <2>3. ASSUME NEW i \in DOMAIN new, NEW j \in DOMAIN new, i <= j PROVE new[i] <= new[j]
    <3>1. CASE j = Len(times) + 1
      BY <1>7, <2>2, <3>1
    <3>2. CASE j # Len(times) + 1
      <4>1. Len(times) \in Nat /\ DOMAIN times = 1 .. Len(times)
        BY <1>2
      <4>2. i \in 1 .. Len(times) /\ j \in 1 .. Len(times)
        BY <1>7, <2>3, <3>2, <4>1
      <4>3. times[i] <= times[j]
        BY <1>2, <2>3, <4>1, <4>2 DEF InOrder
      <4> QED
        BY <1>7, <4>2, <4>3
    <3> QED
      BY <3>1, <3>2
  <2> QED
    BY <2>2, <2>3 DEF InOrder
<1>9. Remembers(t, q, new)
  <2>1. Len(r) \in Nat /\ Len(times) \in Nat /\ Len(r) <= Len(times)
    BY <1>2, <1>3 DEF Remembers
  <2>2. Len(new) - Len(q) = Len(times) - Len(r) /\ Len(q) <= Len(new)
    BY <1>6, <1>7, <2>1
  <2>3. ASSUME NEW i \in 1 .. Len(q) PROVE q[i] = new[Len(new) - Len(q) + i]
    <3>1. CASE i = Len(q)
      BY <1>6, <1>7, <2>1, <2>2, <3>1
    <3>2. CASE i # Len(q)
      <4>1. i \in 1 .. Len(r) /\ Len(times) - Len(r) + i \in 1 .. Len(times)
        BY <1>6, <2>1, <3>2
      <4>2. r[i] = times[Len(times) - Len(r) + i]
        BY <1>3, <4>1 DEF Remembers
      <4> QED
        BY <1>6, <1>7, <2>2, <4>1, <4>2
    <3> QED
      BY <3>1, <3>2
  <2>4. ASSUME NEW i \in 1 .. Len(new) - Len(q) PROVE Outside(t, new[i])
    <3>1. i \in 1 .. Len(times) - Len(r) /\ i \in 1 .. Len(times)
      BY <2>1, <2>2
    <3>2. Outside(t, times[i])
      BY <1>3, <3>1 DEF Remembers
    <3> QED
      BY <1>7, <3>1, <3>2
  <2> QED
    BY <2>2, <2>3, <2>4 DEF Remembers
<1>10. lastPrune' - q[Len(q)] <= Window[t]
  <2>1. lastPrune' \in Nat /\ lastPrune' <= clock /\ Window[t] \in Nat
    BY <1>1, <1>2, LimiterAssumption DEF LimitType, PruneStep
  <2> QED
    BY <1>2, <1>6, <2>1
<1>11. admitted'[t][k] = new
  BY <1>4 DEF new, times
<1>12. InOrder(admitted'[t][k]) /\ Remembers(t, q, admitted'[t][k])
  BY <1>8, <1>9, <1>11
<1>13. Put(t, k, q)
  BY <1>1 DEF q
<1>14. PruneStep /\ clock' = clock
  BY <1>1
<1> HIDE DEF new
<1> QED
  BY <1>4, <1>5, <1>10, <1>12, <1>13, <1>14, PutStep

LEMMA LimitStep == LimitInv /\ [LimitNext]_limitVars => LimitInv'
<1> SUFFICES ASSUME LimitInv, [LimitNext]_limitVars PROVE LimitInv'
  OBVIOUS
<1>1. CASE UNCHANGED limitVars
  <2>1. clock' = clock /\ lastPrune' = lastPrune /\ limits' = limits /\ admitted' = admitted
    BY <1>1 DEF limitVars
  <2>2. LimitType'
    BY <2>1 DEF LimitInv, LimitType
  <2>3. ASSUME NEW t \in Table, NEW k \in Requester
        PROVE  /\ InOrder(admitted[t][k])' /\ Outlived(t, limits[t][k])'
               /\ Remembers(t, limits[t][k], admitted[t][k])'
    <3>1. /\ InOrder(admitted[t][k]) /\ Outlived(t, limits[t][k])
          /\ Remembers(t, limits[t][k], admitted[t][k])
      BY DEF LimitInv
    <3>2. InOrder(admitted[t][k])'
      BY <2>1, <3>1 DEF InOrder
    <3>3. Outlived(t, limits[t][k])'
      BY <2>1, <3>1 DEF Outlived
    <3>4. Remembers(t, limits[t][k], admitted[t][k])'
      BY <2>1, <3>1 DEF Remembers, Outside
    <3> QED BY <3>2, <3>3, <3>4
  <2> QED BY <2>2, <2>3 DEF LimitInv
<1>2. CASE TimePasses
  BY <1>2, TimeStep
<1>3. ASSUME NEW t \in Table, NEW k \in Requester, Refuse(t, k) \/ Admit(t, k)
      PROVE  LimitInv'
  BY <1>3, RefuseStep, AdmitStep
<1> QED
  BY <1>1, <1>2, <1>3 DEF LimitNext

(* A queue is the end of the history of its key, and what is missing from it*)
(* is outside of the window.                                               *)
THEOREM LimitInvariant == LimitSpec => []LimitInv
<1> QED
  BY LimitInitial, LimitStep, PTL DEF LimitSpec

-----------------------------------------------------------------------------
(* The queue is at the limit exactly if the whole history is.              *)
LEMMA QueueDecides ==
  ASSUME LimitType, NEW t \in Table, NEW k \in Requester, NEW r \in Seq(Nat),
         InOrder(admitted[t][k]), Remembers(t, r, admitted[t][k]),
         r # <<>> => ~Outside(t, r[1])
  PROVE  Len(r) >= MaxRequests[t] <=> AtLimit(t, k)
<1> DEFINE times == admitted[t][k]
           m == MaxRequests[t]
           first == Len(times) - m + 1
<1>1. times \in Seq(Nat) /\ m \in Nat \ {0} /\ clock \in Nat /\ Window[t] \in Nat
  BY LimiterAssumption DEF LimitType
<1>2. AtLimit(t, k) <=> first >= 1 /\ ~Outside(t, times[first])
  BY DEF AtLimit
<1>3. InOrder(times) /\ Remembers(t, r, times)
  OBVIOUS
<1> HIDE DEF times, m
<1>4. Len(times) \in Nat /\ Len(r) \in Nat /\ Len(r) <= Len(times)
  BY <1>1, <1>3 DEF Remembers
<1>5. ASSUME Len(r) >= m PROVE first >= 1 /\ ~Outside(t, times[first])
  <2> DEFINE i == Len(times) - Len(r) + 1
  <2>1. i \in DOMAIN times /\ first \in DOMAIN times /\ i <= first /\ first >= 1
    BY <1>1, <1>4, <1>5
  <2>2. r # <<>> /\ 1 \in 1 .. Len(r)
    BY <1>1, <1>4, <1>5
  <2>3. r[1] = times[i]
    BY <1>3, <2>2 DEF Remembers
  <2>4. clock - times[i] <= Window[t]
    <3>1. times[i] \in Nat
      BY <1>1, <2>1
    <3>2. ~(clock - times[i] > Window[t])
      BY <2>2, <2>3 DEF Outside
    <3> QED
      BY <1>1, <3>1, <3>2
  <2>5. times[i] <= times[first]
    BY <1>3, <2>1 DEF InOrder
  <2>6. times[i] \in Nat /\ times[first] \in Nat
    <3>1. \A j \in DOMAIN times : times[j] \in Nat
      BY ONLY <1>1
    <3> HIDE DEF i, first
    <3> QED BY ONLY <2>1, <3>1
  <2> HIDE DEF i, first
  <2> QED
    BY <1>1, <2>1, <2>4, <2>5, <2>6 DEF Outside
<1>6. ASSUME Len(r) < m, first >= 1 PROVE Outside(t, times[first])
  <2>1. first \in 1 .. Len(times) - Len(r)
    BY <1>1, <1>4, <1>6
  <2> QED
    BY <1>3, <2>1 DEF Remembers
<1>7. Len(r) >= m <=> ~(Len(r) < m)
  BY <1>1, <1>4
<1> QED
  BY <1>2, <1>5, <1>6, <1>7 DEF m

(* Who is in the table is there since not long ago.                        *)
LEMMA TrackedIsRecent ==
  ASSUME LimitInv, NEW t \in Table, NEW j \in Requester, j \in Tracked(t)
  PROVE  Recent(t, j)
<1> DEFINE times == admitted[t][j]
           p == Pruned(t, j)
           last == p[Len(p)]
<1>1. /\ LimitType /\ times \in Seq(Nat) /\ InOrder(times) /\ limits[t][j] \in Seq(Nat)
      /\ Remembers(t, limits[t][j], times) /\ Outlived(t, limits[t][j])
      /\ clock \in Nat /\ lastPrune \in Nat /\ Window[t] \in Nat /\ PruneInterval \in Nat
  BY LimiterAssumption DEF LimitInv, LimitType
<1>2. p # <<>>
  BY DEF Tracked
<1>3. /\ p \in Seq(Nat) /\ Remembers(t, p, times)
      /\ clock - last <= PruneInterval + Window[t]
  <2>1. CASE PruneIsDue
    <3>1. p = InWindow(t, limits[t][j])
      BY <2>1 DEF Pruned
    <3>2. p \in Seq(Nat) /\ Remembers(t, p, times) /\ clock - last <= Window[t]
      BY <1>1, <1>2, <3>1, InWindowType, CutRemembers
    <3>3. Len(p) \in DOMAIN p
      <4> HIDE DEF p
      <4> QED
        BY <1>2, <3>2
    <3>4. last \in Nat
      <4> HIDE DEF p
      <4> QED
        BY <3>2, <3>3
    <3> HIDE DEF last
    <3> QED
      BY <1>1, <3>2, <3>4
  <2>2. CASE ~PruneIsDue
    <3>1. p = limits[t][j]
      BY <2>2 DEF Pruned
    <3>2. Len(p) \in DOMAIN p /\ p \in Seq(Nat)
      BY <1>1, <1>2, <3>1
    <3>3. last \in Nat
      <4> HIDE DEF p
      <4> QED
        BY <3>2
    <3>4. lastPrune - last <= Window[t]
      BY <1>1, <1>2, <3>1 DEF Outlived
    <3>5. clock - lastPrune < PruneInterval
      BY <1>1, <2>2 DEF PruneIsDue
    <3>6. clock - last <= PruneInterval + Window[t]
      <4> HIDE DEF last
      <4> QED
        BY <1>1, <3>3, <3>4, <3>5
    <3> QED
      BY <1>1, <3>1, <3>6
  <2> QED
    BY <2>1, <2>2
<1>4. Recent(t, j) <=> times # <<>> /\ clock - times[Len(times)] <= PruneInterval + Window[t]
  BY DEF Recent
<1> HIDE DEF p, times
<1>5. Len(p) \in Nat /\ Len(times) \in Nat /\ Len(p) # 0 /\ Len(p) <= Len(times)
  BY <1>1, <1>2, <1>3 DEF Remembers
<1>6. last = times[Len(times)]
  <2>1. Len(p) \in 1 .. Len(p) /\ Len(times) - Len(p) + Len(p) = Len(times)
    BY <1>5
  <2> QED
    BY <1>3, <2>1 DEF Remembers
<1>7. times # <<>>
  BY <1>5
<1> QED
  BY <1>3, <1>4, <1>6, <1>7

(* An answer of a check is what the whole history of requests says.        *)
THEOREM LimitsCorrect == LimitSpec => LimitsAreExact
<1> DEFINE Exact(t, k) ==
      /\ Admit(t, k) => ~AtLimit(t, k)
      /\ Refuse(t, k) =>
           \/ AtLimit(t, k)
           \/ Cardinality({j \in Requester \ {k} : Recent(t, j)}) >= MaxKeys[t]
<1>1. ASSUME LimitInv, NEW t \in Table, NEW k \in Requester PROVE Exact(t, k)
  <2> DEFINE r == InWindow(t, Pruned(t, k))
  <2>1. ASSUME PruneStep PROVE Len(r) >= MaxRequests[t] <=> AtLimit(t, k)
    <3>1. LimitType /\ InOrder(admitted[t][k])
      BY <1>1 DEF LimitInv
    <3>2. r \in Seq(Nat) /\ Remembers(t, r, admitted[t][k]) /\ (r # <<>> => ~Outside(t, r[1]))
      BY <1>1, <2>1, CutPrunedRemembers
    <3> HIDE DEF r
    <3> QED
      BY <3>1, <3>2, QueueDecides
  <2>2. ASSUME Admit(t, k) PROVE ~AtLimit(t, k)
    <3>1. PruneStep /\ Len(r) < MaxRequests[t]
      BY <2>2 DEF Admit
    <3>2. MaxRequests[t] \in Nat /\ r \in Seq(Nat)
      BY <1>1, <3>1, CutPrunedRemembers, LimiterAssumption
    <3> HIDE DEF r
    <3>3. Len(r) \in Nat
      BY <3>2
    <3> QED
      BY <2>1, <3>1, <3>2, <3>3
  <2>3. ASSUME TableFull(t, k)
        PROVE  Cardinality({j \in Requester \ {k} : Recent(t, j)}) >= MaxKeys[t]
    <3> DEFINE T == Tracked(t)
               U == {j \in Requester \ {k} : Recent(t, j)}
    <3>1. T \subseteq U
      BY <1>1, <2>3, TrackedIsRecent DEF TableFull, Tracked
    <3>2. IsFiniteSet(U)
      BY FS_Subset, LimiterAssumption
    <3>3. Cardinality(T) >= MaxKeys[t]
      BY <2>3 DEF TableFull
    <3> HIDE DEF T, U
    <3>4. IsFiniteSet(T) /\ Cardinality(T) <= Cardinality(U)
      BY <3>1, <3>2, FS_Subset
    <3>5. Cardinality(T) \in Nat /\ Cardinality(U) \in Nat /\ MaxKeys[t] \in Nat
      BY <3>2, <3>4, FS_CardinalityType, LimiterAssumption
    <3>6. Cardinality(U) >= MaxKeys[t]
      BY <3>3, <3>4, <3>5
    <3> QED
      BY <3>6 DEF U
  <2>4. ASSUME Refuse(t, k), ~TableFull(t, k) PROVE AtLimit(t, k)
    BY <2>1, <2>4 DEF Refuse
  <2> QED
    BY <2>2, <2>3, <2>4
<1>2. LimitInv /\ [LimitNext]_limitVars =>
        [\A t \in Table, k \in Requester : Exact(t, k)]_limitVars
  BY <1>1
<1> QED
  BY <1>2, LimitInvariant, PTL DEF LimitSpec, LimitsAreExact

-----------------------------------------------------------------------------
(* What the scoring tells of itself.                                       *)

CallsRecord == [calls: Nat, cached: Nat, errors: Nat]
UsageRecord == [total_calls: Nat, successful_calls: Nat, failed_calls: Nat, cached_calls: Nat,
                by_operation: [Operation -> CallsRecord]]

(* The counters of the operations add up to those of the meter.            *)
Adds(u) ==
  /\ u.by_operation["triage"].calls + u.by_operation["full_score"].calls = u.total_calls
  /\ u.by_operation["triage"].cached + u.by_operation["full_score"].cached = u.cached_calls
  /\ u.by_operation["triage"].errors + u.by_operation["full_score"].errors = u.failed_calls

CountersInv == usage \in UsageRecord /\ summary \in [shares: SUBSET Operation, usage: UsageRecord]
               /\ Adds(usage) /\ SummaryNeverUndercounts

(* The outcome and the operation of a call raise the sums by what is told. *)
LEMMA SumCounted ==
  ASSUME NEW b \in [Operation -> CallsRecord], NEW o \in Operation, NEW outcome \in Outcome
  PROVE  LET d == Counted(b, o, outcome) IN
         /\ d \in [Operation -> CallsRecord]
         /\ d["triage"].calls + d["full_score"].calls = b["triage"].calls + b["full_score"].calls + 1
         /\ d["triage"].cached + d["full_score"].cached =
              b["triage"].cached + b["full_score"].cached + (IF outcome = "cached_calls" THEN 1 ELSE 0)
         /\ d["triage"].errors + d["full_score"].errors =
              b["triage"].errors + b["full_score"].errors + (IF outcome = "failed_calls" THEN 1 ELSE 0)
<1>1. b["triage"] \in CallsRecord /\ b["full_score"] \in CallsRecord /\ b[o] \in CallsRecord
  BY DEF Operation
<1>2. /\ b["triage"].calls \in Nat /\ b["triage"].cached \in Nat /\ b["triage"].errors \in Nat
      /\ b["full_score"].calls \in Nat /\ b["full_score"].cached \in Nat /\ b["full_score"].errors \in Nat
  BY <1>1 DEF CallsRecord
<1> DEFINE c == [calls |-> b[o].calls + 1,
                 cached |-> b[o].cached + (IF outcome = "cached_calls" THEN 1 ELSE 0),
                 errors |-> b[o].errors + (IF outcome = "failed_calls" THEN 1 ELSE 0)]
           d == Counted(b, o, outcome)
<1>3. /\ c \in CallsRecord
      /\ c.calls = b[o].calls + 1
      /\ c.cached = b[o].cached + (IF outcome = "cached_calls" THEN 1 ELSE 0)
      /\ c.errors = b[o].errors + (IF outcome = "failed_calls" THEN 1 ELSE 0)
  BY <1>1 DEF CallsRecord
<1>4. d = [b EXCEPT ![o] = c]
  BY DEF Counted
<1> HIDE DEF c, d
<1>5. d \in [Operation -> CallsRecord] /\ d[o] = c /\ \A x \in Operation : x # o => d[x] = b[x]
  BY <1>3, <1>4
<1>6. ASSUME o = "triage" PROVE
      /\ d["triage"].calls + d["full_score"].calls = b["triage"].calls + b["full_score"].calls + 1
      /\ d["triage"].cached + d["full_score"].cached =
           b["triage"].cached + b["full_score"].cached + (IF outcome = "cached_calls" THEN 1 ELSE 0)
      /\ d["triage"].errors + d["full_score"].errors =
           b["triage"].errors + b["full_score"].errors + (IF outcome = "failed_calls" THEN 1 ELSE 0)
  <2>1. d["triage"] = c /\ d["full_score"] = b["full_score"]
    BY <1>5, <1>6 DEF Operation
  <2> QED
    BY <1>2, <1>3, <1>6, <2>1
<1>7. ASSUME o = "full_score" PROVE
      /\ d["triage"].calls + d["full_score"].calls = b["triage"].calls + b["full_score"].calls + 1
      /\ d["triage"].cached + d["full_score"].cached =
           b["triage"].cached + b["full_score"].cached + (IF outcome = "cached_calls" THEN 1 ELSE 0)
      /\ d["triage"].errors + d["full_score"].errors =
           b["triage"].errors + b["full_score"].errors + (IF outcome = "failed_calls" THEN 1 ELSE 0)
  <2>1. d["full_score"] = c /\ d["triage"] = b["triage"]
    BY <1>5, <1>7 DEF Operation
  <2> QED
    BY <1>2, <1>3, <1>7, <2>1
<1> QED
  BY <1>5, <1>6, <1>7 DEF Operation, d

(* The same call in the meter.                                             *)
Metering(u, outcome, b) == [u EXCEPT !.total_calls = @ + 1, ![outcome] = @ + 1, !.by_operation = b]

LEMMA UsageCounted ==
  ASSUME NEW u \in UsageRecord, NEW b \in [Operation -> CallsRecord], NEW outcome \in Outcome,
         NEW v, v = Metering(u, outcome, b)
  PROVE  /\ v \in UsageRecord
         /\ v.total_calls = u.total_calls + 1
         /\ v.cached_calls = u.cached_calls + (IF outcome = "cached_calls" THEN 1 ELSE 0)
         /\ v.failed_calls = u.failed_calls + (IF outcome = "failed_calls" THEN 1 ELSE 0)
         /\ v.by_operation = b
<1> DEFINE n == u.total_calls + 1
           m == u[outcome] + 1
<1> v = [u EXCEPT !.total_calls = n, ![outcome] = m, !.by_operation = b]
  BY DEF Metering
<1>1. n \in Nat /\ m \in Nat
  BY DEF UsageRecord, Outcome
<1>2. v \in UsageRecord
  <2> HIDE DEF n, m
  <2>1. CASE outcome = "successful_calls"
    BY <1>1, <2>1, Zenon DEF UsageRecord
  <2>2. CASE outcome = "failed_calls"
    BY <1>1, <2>2, Zenon DEF UsageRecord
  <2>3. CASE outcome = "cached_calls"
    BY <1>1, <2>3, Zenon DEF UsageRecord
  <2> QED
    BY <2>1, <2>2, <2>3 DEF Outcome
<1>3. /\ v.total_calls = n /\ v.by_operation = b
      /\ v.cached_calls = IF outcome = "cached_calls" THEN m ELSE u.cached_calls
      /\ v.failed_calls = IF outcome = "failed_calls" THEN m ELSE u.failed_calls
  <2> HIDE DEF n, m
  <2> QED
    BY DEF UsageRecord, Outcome
<1>4. u.cached_calls \in Nat /\ u.failed_calls \in Nat
  BY DEF UsageRecord
<1>5. /\ v.cached_calls = u.cached_calls + (IF outcome = "cached_calls" THEN 1 ELSE 0)
      /\ v.failed_calls = u.failed_calls + (IF outcome = "failed_calls" THEN 1 ELSE 0)
  BY <1>3, <1>4
<1> QED
  BY <1>2, <1>3, <1>5

(* A call is counted in the meter, and in a summary at least as much.      *)
LEMMA CallStep ==
  ASSUME CountersInv, NEW o \in Operation, NEW outcome \in Outcome, record_call(o, outcome)
  PROVE  /\ CountersInv'
         /\ usage'.cached_calls = usage.cached_calls + (IF outcome = "cached_calls" THEN 1 ELSE 0)
<1>1. usage \in UsageRecord /\ summary.usage \in UsageRecord /\ summary.shares \in SUBSET Operation
  BY DEF CountersInv
<1>2. /\ usage' \in UsageRecord
      /\ usage'.total_calls = usage.total_calls + 1
      /\ usage'.cached_calls = usage.cached_calls + (IF outcome = "cached_calls" THEN 1 ELSE 0)
      /\ usage'.failed_calls = usage.failed_calls + (IF outcome = "failed_calls" THEN 1 ELSE 0)
      /\ usage'.by_operation = Counted(usage.by_operation, o, outcome)
  <2>1. usage.by_operation \in [Operation -> CallsRecord]
    BY <1>1 DEF UsageRecord
  <2> DEFINE b == Counted(usage.by_operation, o, outcome)
  <2>2. b \in [Operation -> CallsRecord]
    BY <2>1, SumCounted
  <2>3. usage' = Metering(usage, outcome, b)
    BY DEF record_call, Metering
  <2> HIDE DEF b
  <2> QED
    BY <1>1, <2>2, <2>3, UsageCounted DEF b
<1>3. Adds(usage')
  <2>1. usage.by_operation \in [Operation -> CallsRecord]
    BY <1>1 DEF UsageRecord
  <2> DEFINE b == usage.by_operation
             d == usage'.by_operation
  <2>2. /\ d["triage"].calls + d["full_score"].calls = b["triage"].calls + b["full_score"].calls + 1
        /\ d["triage"].cached + d["full_score"].cached =
             b["triage"].cached + b["full_score"].cached + (IF outcome = "cached_calls" THEN 1 ELSE 0)
        /\ d["triage"].errors + d["full_score"].errors =
             b["triage"].errors + b["full_score"].errors + (IF outcome = "failed_calls" THEN 1 ELSE 0)
    BY <1>2, <2>1, SumCounted
  <2>3. Adds(usage)
    BY DEF CountersInv
  <2> QED
    BY <1>2, <2>2, <2>3 DEF Adds
<1>4. CASE o \notin summary.shares
  <2>1. summary' = summary
    BY <1>4 DEF record_call
  <2> QED
    BY <1>2, <1>3, <2>1 DEF CountersInv, SummaryNeverUndercounts
<1>5. CASE o \in summary.shares
  <2> DEFINE u == summary.usage
             b == u.by_operation
             d == Counted(b, o, outcome)
  <2>1. b \in [Operation -> CallsRecord]
    BY <1>1 DEF UsageRecord
  <2>2. /\ d \in [Operation -> CallsRecord]
        /\ d["triage"].calls + d["full_score"].calls = b["triage"].calls + b["full_score"].calls + 1
        /\ d["triage"].cached + d["full_score"].cached =
             b["triage"].cached + b["full_score"].cached + (IF outcome = "cached_calls" THEN 1 ELSE 0)
        /\ d["triage"].errors + d["full_score"].errors =
             b["triage"].errors + b["full_score"].errors + (IF outcome = "failed_calls" THEN 1 ELSE 0)
    BY <2>1, SumCounted
  <2>3. summary' = [summary EXCEPT !.usage.by_operation = Counted(@, o, outcome)]
    BY <1>5 DEF record_call
  <2>4. summary' = [summary EXCEPT !.usage = [u EXCEPT !.by_operation = d]]
    BY <2>3
  <2> HIDE DEF d
  <2>5. [u EXCEPT !.by_operation = d] \in UsageRecord
    BY <1>1, <2>2 DEF UsageRecord
  <2>6. /\ summary' \in [shares: SUBSET Operation, usage: UsageRecord]
        /\ summary'.usage = [u EXCEPT !.by_operation = d]
    <3> DEFINE v == [u EXCEPT !.by_operation = d]
    <3> HIDE DEF v
    <3> QED
      BY <1>1, <2>4, <2>5 DEF v, CountersInv
  <2>7. /\ summary'.usage.by_operation = d /\ summary'.usage.total_calls = u.total_calls
        /\ summary'.usage.cached_calls = u.cached_calls /\ summary'.usage.failed_calls = u.failed_calls
    BY <1>1, <2>6 DEF UsageRecord
  <2>8. /\ b["triage"].calls + b["full_score"].calls >= u.total_calls
        /\ b["triage"].cached + b["full_score"].cached >= u.cached_calls
        /\ b["triage"].errors + b["full_score"].errors >= u.failed_calls
    BY DEF CountersInv, SummaryNeverUndercounts
  <2>9. /\ b["triage"] \in CallsRecord /\ b["full_score"] \in CallsRecord
        /\ u.total_calls \in Nat /\ u.cached_calls \in Nat /\ u.failed_calls \in Nat
    BY <1>1, <2>1 DEF Operation, UsageRecord
  <2>10. SummaryNeverUndercounts'
    <3>1. /\ b["triage"].calls \in Nat /\ b["triage"].cached \in Nat /\ b["triage"].errors \in Nat
          /\ b["full_score"].calls \in Nat /\ b["full_score"].cached \in Nat
          /\ b["full_score"].errors \in Nat
      BY <2>9 DEF CallsRecord
    <3>2. /\ d["triage"].calls + d["full_score"].calls >= u.total_calls
          /\ d["triage"].cached + d["full_score"].cached >= u.cached_calls
          /\ d["triage"].errors + d["full_score"].errors >= u.failed_calls
      <4> HIDE DEF u
      <4> HIDE DEF b
      <4> QED
        BY <2>2, <2>8, <2>9, <3>1
    <3> HIDE DEF b, u
    <3> QED
      BY <2>7, <3>2 DEF SummaryNeverUndercounts
  <2> QED
    BY <1>2, <1>3, <2>6, <2>10 DEF CountersInv
<1> QED
  BY <1>2, <1>4, <1>5

LEMMA CountersInit == TelemetryInit => CountersInv
<1> SUFFICES ASSUME TelemetryInit PROVE CountersInv
  OBVIOUS
<1>1. NoCalls \in CallsRecord
  BY DEF NoCalls, CallsRecord
<1>2. NoUsage \in UsageRecord
  BY <1>1 DEF NoUsage, UsageRecord
<1>3. Adds(NoUsage)
  BY DEF Adds, NoUsage, NoCalls, Operation
<1>4. SummaryNeverUndercounts
  BY DEF TelemetryInit, SummaryNeverUndercounts, NoUsage, NoCalls, Operation
<1> QED
  BY <1>2, <1>3, <1>4 DEF TelemetryInit, CountersInv

LEMMA CountersStep == CountersInv /\ [TelemetryNext]_telemetryVars => CountersInv'
<1> SUFFICES ASSUME CountersInv, [TelemetryNext]_telemetryVars PROVE CountersInv'
  OBVIOUS
<1>1. CASE UNCHANGED <<usage, summary>>
  BY <1>1 DEF CountersInv, SummaryNeverUndercounts
<1>2. CASE ResetUsage
  <2>1. NoUsage \in UsageRecord /\ Adds(NoUsage)
    <3>1. NoCalls \in CallsRecord
      BY DEF NoCalls, CallsRecord
    <3> QED
      BY <3>1 DEF NoUsage, UsageRecord, Adds, NoCalls, Operation
  <2>2. usage' = NoUsage /\ summary'.usage = summary.usage
        /\ summary' \in [shares: SUBSET Operation, usage: UsageRecord]
    BY <1>2 DEF ResetUsage, CountersInv
  <2> QED
    BY <2>1, <2>2 DEF CountersInv, SummaryNeverUndercounts
<1>3. CASE GetSummary
  <2>1. usage' = usage /\ summary'.usage = usage
        /\ summary' \in [shares: SUBSET Operation, usage: UsageRecord]
    BY <1>3 DEF GetSummary, CountersInv
  <2>2. usage \in UsageRecord /\ Adds(usage)
    BY DEF CountersInv
  <2>3. /\ usage.total_calls \in Nat /\ usage.cached_calls \in Nat /\ usage.failed_calls \in Nat
    BY <2>2 DEF UsageRecord
  <2> QED
    BY <2>1, <2>2, <2>3 DEF CountersInv, SummaryNeverUndercounts, Adds
<1>4. ASSUME NEW r \in Scored, MeterHit(r) \/ MeterThreadHit(r) \/ AskGroq(r) PROVE CountersInv'
  <2>1. "full_score" \in Operation /\ "triage" \in Operation /\ "cached_calls" \in Outcome
        /\ {"successful_calls", "failed_calls"} \subseteq Outcome
    BY DEF Operation, Outcome
  <2>2. CASE MeterHit(r)
    BY <2>1, <2>2, CallStep DEF MeterHit
  <2>3. CASE MeterThreadHit(r)
    BY <2>1, <2>3, CallStep DEF MeterThreadHit
  <2>4. CASE AskGroq(r)
    BY <2>1, <2>4, CallStep DEF AskGroq
  <2> QED
    BY <1>4, <2>2, <2>3, <2>4
<1> QED
  BY <1>1, <1>2, <1>3, <1>4
  DEF TelemetryNext, telemetryVars, Hit, Miss, Finish, ThreadHit, ResetTraces, ReadTraces, ReadUsage,
      ReadCache
-----------------------------------------------------------------------------
At == {"idle", "hit", "metered", "gather", "done"}
ThreadAt == {"none", "asking", "hit", "again", "done"}

(* A score from the cache starts no thread.                                *)
ScoringType ==
  /\ scoring \in [Scored -> [at: At, thread: ThreadAt]]
  /\ \A r \in Scored : /\ scoring[r].at \in {"hit", "metered", "idle"} => scoring[r].thread = "none"
                       /\ scoring[r].at = "gather" => scoring[r].thread # "none"

(* The scores from the cache that the meter counts since its last reset,   *)
(* and the hits that it does not count yet.                                *)
FromCache(r) == scoring[r].at \in {"metered", "done"} /\ scoring[r].thread = "none"
Since(era) == {r \in Scored : FromCache(r) /\ metered[r] = era}
Pending == {r \in Scored : scoring[r].at = "hit" \/ scoring[r].thread = "hit"}

MeterInv ==
  /\ resets \in Nat /\ cacheHits \in Nat /\ metered \in [Scored -> Nat]
  /\ \A r \in Scored : metered[r] <= resets
  /\ Cardinality(Since(resets)) <= usage.cached_calls
  /\ usage.cached_calls + Cardinality(Pending) <= cacheHits

(* Traces are of different reports, which are scored.                      *)
TracesOfDone(q) ==
  /\ q \in Seq(Trace)
  /\ \A i \in DOMAIN q : scoring[q[i].of].at = "done" /\ (q[i].hit => scoring[q[i].of].thread = "none")
  /\ \A i, j \in DOMAIN q : q[i].of = q[j].of => i = j

FromCacheIn(q, era) == {i \in DOMAIN q : q[i].hit /\ metered[q[i].of] = era}

(* What the readings of a health summary keep true until it is done.       *)
ReadingInv ==
  /\ health.at \in {"usage", "done"} =>
       Cardinality(FromCacheIn(health.window, health.era)) <= health.usage.cached_calls
  /\ health.at = "usage" => health.usage.cached_calls <= cacheHits
  /\ health.at = "done" => health.usage.cached_calls <= health.hits

HealthType ==
  health \in [at: {"idle", "traces", "usage", "done"}, window: Seq(Trace),
              usage: UsageRecord, era: Nat, hits: Nat]

HealthInv ==
  /\ CountersInv /\ ScoringType /\ MeterInv
  /\ TracesOfDone(traces)
  /\ HealthType /\ TracesOfDone(health.window) /\ ReadingInv

(* Numbers of scorings.                                                    *)
LEMMA FewScorings ==
  ASSUME NEW S \in SUBSET Scored
  PROVE  /\ IsFiniteSet(S) /\ Cardinality(S) \in Nat
         /\ \A r \in Scored : Cardinality(S \cup {r}) <= Cardinality(S) + 1
         /\ \A r \in S : Cardinality(S \ {r}) = Cardinality(S) - 1
         /\ \A T \in SUBSET S : Cardinality(T) <= Cardinality(S)
<1>1. IsFiniteSet(S)
  BY FS_Subset, TelemetryAssumption
<1>2. Cardinality(S) \in Nat
  BY <1>1, FS_CardinalityType
<1>3. ASSUME NEW r \in Scored PROVE Cardinality(S \cup {r}) <= Cardinality(S) + 1
  <2>1. Cardinality(S \cup {r}) = IF r \in S THEN Cardinality(S) ELSE Cardinality(S) + 1
    BY <1>1, FS_AddElement
  <2> QED
    BY <1>2, <2>1
<1>4. ASSUME NEW r \in S PROVE Cardinality(S \ {r}) = Cardinality(S) - 1
  BY <1>1, FS_RemoveElement
<1>5. ASSUME NEW T \in SUBSET S PROVE Cardinality(T) <= Cardinality(S)
  BY <1>1, FS_Subset
<1> QED
  BY <1>1, <1>2, <1>3, <1>4, <1>5

LEMMA ScoringTypeStep == ScoringType /\ [TelemetryNext]_telemetryVars => ScoringType'
<1> SUFFICES ASSUME ScoringType, [TelemetryNext]_telemetryVars PROVE ScoringType'
  OBVIOUS
<1>1. CASE UNCHANGED scoring
  BY <1>1 DEF ScoringType
<1>2. ASSUME NEW r \in Scored,
             \/ Hit(r) \/ Miss(r) \/ MeterHit(r) \/ Finish(r)
             \/ ThreadHit(r) \/ MeterThreadHit(r) \/ AskGroq(r)
      PROVE  ScoringType'
  <2> DEFINE s == scoring'[r]
  <2>1. scoring[r] \in [at: At, thread: ThreadAt]
    BY DEF ScoringType
  <2>2. /\ s \in [at: At, thread: ThreadAt]
        /\ s.at \in {"hit", "metered", "idle"} => s.thread = "none"
        /\ s.at = "gather" => s.thread # "none"
    <3>1. CASE Hit(r)
      BY <2>1, <3>1 DEF Hit, ScoringType, At, ThreadAt
    <3>2. CASE Miss(r)
      BY <2>1, <3>2 DEF Miss, ScoringType, At, ThreadAt
    <3>3. CASE MeterHit(r)
      BY <2>1, <3>3 DEF MeterHit, ScoringType, At, ThreadAt
    <3>4. CASE Finish(r)
      BY <2>1, <3>4 DEF Finish, ScoringType, At, ThreadAt
    <3>5. CASE ThreadHit(r)
      BY <2>1, <3>5 DEF ThreadHit, ScoringType, At, ThreadAt
    <3>6. CASE MeterThreadHit(r)
      BY <2>1, <3>6 DEF MeterThreadHit, ScoringType, At, ThreadAt
    <3>7. CASE AskGroq(r)
      BY <2>1, <3>7 DEF AskGroq, ScoringType, At, ThreadAt
    <3> QED
      BY <1>2, <3>1, <3>2, <3>3, <3>4, <3>5, <3>6, <3>7
  <2>3. scoring' = [scoring EXCEPT ![r] = s]
    BY <1>2 DEF Hit, Miss, MeterHit, Finish, ThreadHit, MeterThreadHit, AskGroq, ScoringType
  <2>4. \A x \in Scored : x # r => scoring'[x] = scoring[x]
    BY <1>2 DEF Hit, Miss, MeterHit, Finish, ThreadHit, MeterThreadHit, AskGroq, ScoringType
  <2>5. scoring' \in [Scored -> [at: At, thread: ThreadAt]]
    <3> HIDE DEF s
    <3> QED
      BY <2>2, <2>3 DEF ScoringType
  <2> QED
    BY <2>2, <2>4, <2>5 DEF ScoringType
<1> QED
  BY <1>1, <1>2
  DEF TelemetryNext, telemetryVars, ResetUsage, GetSummary, ResetTraces, ReadTraces, ReadUsage, ReadCache

(* A call that is no cached one leaves the cached calls as they are.       *)
LEMMA CachedCalls ==
  ASSUME CountersInv
  PROVE  usage.cached_calls \in Nat
  BY DEF CountersInv, UsageRecord

LEMMA MeterStep ==
  CountersInv /\ ScoringType /\ MeterInv /\ [TelemetryNext]_telemetryVars => MeterInv'
<1> SUFFICES ASSUME CountersInv, ScoringType, MeterInv, [TelemetryNext]_telemetryVars PROVE MeterInv'
  OBVIOUS
<1>1. usage.cached_calls \in Nat /\ resets \in Nat /\ cacheHits \in Nat /\ metered \in [Scored -> Nat]
  BY CachedCalls DEF MeterInv
<1>2. /\ Since(resets) \in SUBSET Scored /\ Pending \in SUBSET Scored
      /\ Cardinality(Since(resets)) \in Nat /\ Cardinality(Pending) \in Nat
  BY FewScorings DEF Since, Pending
<1>3. /\ \A r \in Scored : metered[r] <= resets
      /\ Cardinality(Since(resets)) <= usage.cached_calls
      /\ usage.cached_calls + Cardinality(Pending) <= cacheHits
  BY DEF MeterInv
<1> DEFINE since == Since(resets)
           pending == Pending
<1>4. CASE UNCHANGED <<usage, resets, cacheHits, metered, scoring>>
  BY <1>4 DEF MeterInv, Since, Pending, FromCache
<1>5. CASE ResetUsage
  <2>1. /\ usage' = NoUsage /\ resets' = resets + 1
        /\ UNCHANGED <<cacheHits, metered, scoring>>
    BY <1>5 DEF ResetUsage
  <2>2. usage'.cached_calls = 0
    BY <2>1 DEF NoUsage
  <2>3. Since(resets)' = {}
    <3>1. \A r \in Scored : metered'[r] # resets'
      BY <1>1, <1>3, <2>1
    <3> QED
      BY <3>1 DEF Since
  <2>4. Cardinality(Since(resets)') = 0 /\ Pending' = Pending
    BY <2>1, <2>3, FS_EmptySet DEF Pending
  <2>5. \A r \in Scored : metered'[r] <= resets'
    BY <1>1, <1>3, <2>1
  <2>6. 0 + Cardinality(Pending) <= cacheHits
    BY <1>1, <1>2, <1>3
  <2> QED
    BY <1>1, <1>2, <2>1, <2>2, <2>4, <2>5, <2>6 DEF MeterInv
<1>6. ASSUME NEW r \in Scored, Hit(r) \/ ThreadHit(r) PROVE MeterInv'
  <2>1. cacheHits' = cacheHits + 1 /\ UNCHANGED <<usage, resets, metered>>
    BY <1>6 DEF Hit, ThreadHit
  <2>2. \A x \in Scored : x # r => scoring'[x] = scoring[x]
    BY <1>6 DEF Hit, ThreadHit, ScoringType
  <2>3. FromCache(r)' = FromCache(r)
    BY <1>6 DEF Hit, ThreadHit, ScoringType, FromCache
  <2>4. Since(resets)' = Since(resets)
    BY <2>1, <2>2, <2>3 DEF Since, FromCache
  <2>5. Pending' \in SUBSET (Pending \cup {r}) /\ Pending \cup {r} \in SUBSET Scored
    BY <2>2 DEF Pending
  <2>6. Cardinality(Pending') <= Cardinality(Pending) + 1 /\ Cardinality(Pending') \in Nat
    <3> DEFINE p == Pending
               q == Pending'
               u == p \cup {r}
    <3> HIDE DEF p, q
    <3>1. q \in SUBSET u /\ u \in SUBSET Scored /\ p \in SUBSET Scored /\ q \in SUBSET Scored
      BY <1>2, <2>5 DEF p, q
    <3>2. Cardinality(u) <= Cardinality(p) + 1 /\ Cardinality(p) \in Nat
      BY <3>1, FewScorings
    <3> HIDE DEF u
    <3>3. Cardinality(q) <= Cardinality(u) /\ Cardinality(u) \in Nat /\ Cardinality(q) \in Nat
      BY <3>1, FewScorings
    <3>4. Cardinality(q) <= Cardinality(p) + 1
      BY <3>2, <3>3 DEF u
    <3> QED
      BY <3>3, <3>4 DEF p, q
  <2>7. usage.cached_calls + Cardinality(Pending') <= cacheHits + 1
    BY <1>1, <1>2, <1>3, <2>6
  <2> QED
    BY <1>1, <1>3, <2>1, <2>4, <2>7 DEF MeterInv
<1>7. ASSUME NEW r \in Scored, MeterHit(r) \/ MeterThreadHit(r) PROVE MeterInv'
  <2>1. "full_score" \in Operation /\ "triage" \in Operation /\ "cached_calls" \in Outcome
    BY DEF Operation, Outcome
  <2>2. usage'.cached_calls = usage.cached_calls + 1
    BY <1>7, <2>1, CallStep DEF MeterHit, MeterThreadHit
  <2>3. UNCHANGED <<cacheHits, resets>>
    BY <1>7 DEF MeterHit, MeterThreadHit
  <2>4. /\ metered' \in [Scored -> Nat] /\ \A x \in Scored : metered'[x] <= resets
        /\ \A x \in Scored : x # r => metered'[x] = metered[x]
    <3>1. CASE MeterHit(r)
      <4>1. metered' = [metered EXCEPT ![r] = resets] /\ resets <= resets
        BY <1>1, <3>1 DEF MeterHit
      <4> QED
        BY <1>1, <1>3, <4>1
    <3>2. CASE MeterThreadHit(r)
      BY <1>1, <1>3, <3>2 DEF MeterThreadHit
    <3> QED
      BY <1>7, <3>1, <3>2
  <2>5. /\ \A x \in Scored : x # r => scoring'[x] = scoring[x]
        /\ r \in Pending /\ r \notin Pending'
    <3>1. CASE MeterHit(r)
      BY <3>1 DEF MeterHit, ScoringType, Pending
    <3>2. CASE MeterThreadHit(r)
      BY <3>2 DEF MeterThreadHit, ScoringType, Pending
    <3> QED
      BY <1>7, <3>1, <3>2
  <2>6. Pending' = Pending \ {r}
    BY <2>5 DEF Pending
  <2>7. Cardinality(Pending') = Cardinality(Pending) - 1
    BY <1>2, <2>5, <2>6, FewScorings
  <2>8. Since(resets)' \in SUBSET (since \cup {r})
    BY <2>3, <2>4, <2>5 DEF Since, FromCache
  <2>9. Cardinality(Since(resets)') <= Cardinality(since) + 1
    <3> DEFINE q == Since(resets)'
               u == since \cup {r}
    <3> HIDE DEF q
    <3>1. q \in SUBSET u /\ u \in SUBSET Scored /\ since \in SUBSET Scored /\ q \in SUBSET Scored
      BY <1>2, <2>8 DEF q
    <3> HIDE DEF since
    <3>2. Cardinality(u) <= Cardinality(since) + 1 /\ Cardinality(since) \in Nat
      BY <3>1, FewScorings
    <3> HIDE DEF u
    <3>3. Cardinality(q) <= Cardinality(u) /\ Cardinality(u) \in Nat /\ Cardinality(q) \in Nat
      BY <3>1, FewScorings
    <3>4. Cardinality(q) <= Cardinality(since) + 1
      BY <3>2, <3>3 DEF u
    <3> QED
      BY <3>4 DEF q
  <2>10. Cardinality(Since(resets)') \in Nat
    <3>1. Since(resets)' \in SUBSET Scored
      BY DEF Since
    <3> QED
      BY <3>1, FewScorings
  <2>11. Cardinality(Since(resets)') <= usage.cached_calls + 1
    BY <1>1, <1>2, <1>3, <2>9, <2>10
  <2>12. (usage.cached_calls + 1) + (Cardinality(Pending) - 1) <= cacheHits
    BY <1>1, <1>2, <1>3
  <2> QED
    BY <1>1, <1>2, <2>2, <2>3, <2>4, <2>7, <2>11, <2>12 DEF MeterInv
<1>8. ASSUME NEW r \in Scored, Miss(r) \/ Finish(r) \/ AskGroq(r) PROVE MeterInv'
  <2>1. UNCHANGED <<cacheHits, resets, metered>>
    BY <1>8 DEF Miss, Finish, AskGroq
  <2>2. usage'.cached_calls = usage.cached_calls
    <3>1. CASE AskGroq(r)
      <4>1. PICK outcome \in {"successful_calls", "failed_calls"} : record_call("triage", outcome)
        BY <3>1 DEF AskGroq
      <4>2. "triage" \in Operation /\ outcome \in Outcome /\ outcome # "cached_calls"
        BY DEF Operation, Outcome
      <4> QED
        BY <1>1, <4>1, <4>2, CallStep
    <3> QED
      BY <1>8, <3>1 DEF Miss, Finish
  <2>3. \A x \in Scored : x # r => scoring'[x] = scoring[x]
    BY <1>8 DEF Miss, Finish, AskGroq, ScoringType
  <2>4. FromCache(r)' = FromCache(r) /\ (r \in Pending <=> r \in Pending')
    <3>1. CASE Miss(r)
      BY <3>1 DEF Miss, ScoringType, FromCache, Pending
    <3>2. CASE Finish(r)
      BY <3>2 DEF Finish, ScoringType, FromCache, Pending
    <3>3. CASE AskGroq(r)
      BY <3>3 DEF AskGroq, ScoringType, FromCache, Pending
    <3> QED
      BY <1>8, <3>1, <3>2, <3>3
  <2>5. Since(resets)' = Since(resets)
    BY <2>1, <2>3, <2>4 DEF Since, FromCache
  <2>6. Pending' = Pending
    BY <2>3, <2>4 DEF Pending
  <2> QED
    BY <1>1, <1>3, <2>1, <2>2, <2>5, <2>6 DEF MeterInv
<1> QED
  BY <1>4, <1>5, <1>6, <1>7, <1>8
  DEF TelemetryNext, telemetryVars, GetSummary, ResetTraces, ReadTraces, ReadUsage, ReadCache

-----------------------------------------------------------------------------
(* A scoring that is done stays done, and its score where it came from.    *)
LEMMA DoneStays ==
  ASSUME ScoringType, [TelemetryNext]_telemetryVars, NEW x \in Scored, scoring[x].at = "done"
  PROVE  /\ scoring'[x].at = "done"
         /\ scoring[x].thread = "none" <=> scoring'[x].thread = "none"
         /\ metered'[x] = metered[x]
<1>1. CASE UNCHANGED <<scoring, metered>>
  BY <1>1
<1>2. ASSUME NEW r \in Scored,
             \/ Hit(r) \/ Miss(r) \/ MeterHit(r) \/ Finish(r)
             \/ ThreadHit(r) \/ MeterThreadHit(r) \/ AskGroq(r)
      PROVE  /\ scoring'[x].at = "done"
             /\ scoring[x].thread = "none" <=> scoring'[x].thread = "none"
             /\ metered'[x] = metered[x]
  <2>1. CASE Hit(r) \/ Miss(r) \/ Finish(r)
    BY <2>1 DEF Hit, Miss, Finish, ScoringType
  <2>2. CASE MeterHit(r)
    BY <2>2 DEF MeterHit, ScoringType
  <2>3. CASE ThreadHit(r) \/ MeterThreadHit(r) \/ AskGroq(r)
    BY <2>3 DEF ThreadHit, MeterThreadHit, AskGroq, ScoringType
  <2> QED
    BY <1>2, <2>1, <2>2, <2>3
<1> QED
  BY <1>1, <1>2
  DEF TelemetryNext, telemetryVars, ResetUsage, GetSummary, ResetTraces, ReadTraces, ReadUsage, ReadCache

LEMMA TracesStay ==
  ASSUME ScoringType, [TelemetryNext]_telemetryVars, NEW q, TracesOfDone(q)
  PROVE  /\ \A i \in DOMAIN q : /\ scoring'[q[i].of].at = "done"
                                /\ q[i].hit => scoring'[q[i].of].thread = "none"
         /\ \A e \in Nat : FromCacheIn(q, e) = {i \in DOMAIN q : q[i].hit /\ metered'[q[i].of] = e}
<1>1. ASSUME NEW i \in DOMAIN q PROVE q[i].of \in Scored
  <2>1. q[i] \in Trace
    BY DEF TracesOfDone
  <2> QED
    BY <2>1 DEF Trace
<1>2. \A i \in DOMAIN q : /\ scoring[q[i].of].at = "done"
                          /\ q[i].hit => scoring[q[i].of].thread = "none"
  BY DEF TracesOfDone
<1>3. ASSUME NEW i \in DOMAIN q
      PROVE  /\ scoring'[q[i].of].at = "done"
             /\ q[i].hit => scoring'[q[i].of].thread = "none"
             /\ metered'[q[i].of] = metered[q[i].of]
  <2>1. q[i].of \in Scored /\ scoring[q[i].of].at = "done"
    BY <1>1, <1>2
  <2> QED
    BY <1>2, <2>1, DoneStays
<1> QED
  BY <1>3 DEF FromCacheIn

LEMMA NewestTraces ==
  ASSUME NEW q \in Seq(Trace), NEW n \in Nat \ {0}
  PROVE  /\ Newest(q, n) \in Seq(Trace)
         /\ \E d \in Nat : \A i \in DOMAIN Newest(q, n) : i + d \in DOMAIN q /\ Newest(q, n)[i] = q[i + d]
<1>1. CASE Len(q) > n
  <2> DEFINE d == Len(q) - n
             s == SubSeq(q, d + 1, Len(q))
  <2>1. Newest(q, n) = s
    BY <1>1 DEF Newest
  <2>2. d \in Nat /\ Len(q) \in Nat /\ d <= Len(q)
    BY <1>1
  <2> HIDE DEF d
  <2>3. \A i \in d + 1 .. Len(q) : q[i] \in Trace
    BY <2>2
  <2>4. s \in Seq(Trace) /\ Len(s) = Len(q) - d /\ \A i \in 1 .. Len(s) : s[i] = q[i + d]
    BY <2>2, <2>3
  <2> HIDE DEF s
  <2>5. \A i \in DOMAIN s : i + d \in DOMAIN q /\ s[i] = q[i + d]
    BY <2>2, <2>4
  <2> QED
    BY <2>1, <2>2, <2>4, <2>5
<1>2. CASE ~(Len(q) > n)
  <2>1. Newest(q, n) = q
    BY <1>2 DEF Newest
  <2>2. \A i \in DOMAIN q : i + 0 \in DOMAIN q /\ q[i] = q[i + 0]
    OBVIOUS
  <2> QED
    BY <2>1, <2>2, 0 \in Nat
<1> QED
  BY <1>1, <1>2

LEMMA TracesStep ==
  ScoringType /\ TracesOfDone(traces) /\ [TelemetryNext]_telemetryVars => TracesOfDone(traces)'
<1> SUFFICES ASSUME ScoringType, TracesOfDone(traces), [TelemetryNext]_telemetryVars
             PROVE  TracesOfDone(traces)'
  OBVIOUS
<1>1. \A i \in DOMAIN traces : /\ scoring'[traces[i].of].at = "done"
                               /\ traces[i].hit => scoring'[traces[i].of].thread = "none"
  BY TracesStay
<1>2. CASE UNCHANGED traces
  BY <1>1, <1>2 DEF TracesOfDone
<1>3. CASE traces' = <<>>
  BY <1>3 DEF TracesOfDone
<1>4. ASSUME NEW r \in Scored, Finish(r) PROVE TracesOfDone(traces)'
  <2>1. scoring[r].at \in {"metered", "gather"} /\ scoring'[r].at = "done"
        /\ scoring'[r].thread = scoring[r].thread
    BY <1>4 DEF Finish, ScoringType
  <2> DEFINE hit == scoring[r].at = "metered"
  <2>2. PICK ms \in Duration : traces' = Newest(Append(traces, [of |-> r, hit |-> hit, ms |-> ms]), WindowSize)
    BY <1>4 DEF Finish, record_trace
  <2> DEFINE t == [of |-> r, hit |-> hit, ms |-> ms]
             q == Append(traces, t)
  <2>3. t \in Trace /\ t.of = r /\ (t.hit => scoring'[r].thread = "none")
    BY <2>1 DEF Trace, ScoringType
  <2> HIDE DEF t
  <2>4. traces \in Seq(Trace)
    BY DEF TracesOfDone
  <2>5. q \in Seq(Trace) /\ DOMAIN q = 1 .. Len(traces) + 1 /\ q[Len(traces) + 1] = t
        /\ \A i \in DOMAIN traces : q[i] = traces[i]
    BY <2>3, <2>4
  <2> HIDE DEF q
  <2>6. ASSUME NEW i \in DOMAIN q, i # Len(traces) + 1 PROVE i \in DOMAIN traces
    BY <2>4, <2>5, <2>6
  <2>7. \A i \in DOMAIN q : /\ scoring'[q[i].of].at = "done"
                            /\ q[i].hit => scoring'[q[i].of].thread = "none"
    BY <1>1, <2>1, <2>3, <2>5, <2>6
  <2>8. \A i \in DOMAIN traces : traces[i].of # r
    BY <2>1 DEF TracesOfDone
  <2>9. \A i, j \in DOMAIN q : q[i].of = q[j].of => i = j
    <3>1. \A i, j \in DOMAIN traces : traces[i].of = traces[j].of => i = j
      BY DEF TracesOfDone
    <3> QED
      BY <2>3, <2>5, <2>6, <2>8, <3>1
  <2>10. traces' = Newest(q, WindowSize) /\ WindowSize \in Nat \ {0}
    BY <2>2, TelemetryAssumption DEF q, t
  <2>11. /\ traces' \in Seq(Trace)
         /\ \E d \in Nat : \A i \in DOMAIN traces' : i + d \in DOMAIN q /\ traces'[i] = q[i + d]
    BY <2>5, <2>10, NewestTraces
  <2>12. PICK d \in Nat : \A i \in DOMAIN traces' : i + d \in DOMAIN q /\ traces'[i] = q[i + d]
    BY <2>11
  <2>13. ASSUME NEW i \in DOMAIN traces', NEW j \in DOMAIN traces', traces'[i].of = traces'[j].of
         PROVE  i = j
    <3>1. i + d = j + d
      BY <2>9, <2>12, <2>13
    <3>2. i \in Nat /\ j \in Nat
      BY <2>11
    <3> QED
      BY <3>1, <3>2
  <2>14. \A i \in DOMAIN traces' : /\ scoring'[traces'[i].of].at = "done"
                                   /\ traces'[i].hit => scoring'[traces'[i].of].thread = "none"
    BY <2>7, <2>12
  <2> QED
    BY <2>11, <2>13, <2>14 DEF TracesOfDone
<1> QED
  BY <1>2, <1>3, <1>4
  DEF TelemetryNext, telemetryVars, Hit, Miss, MeterHit, ThreadHit, MeterThreadHit, AskGroq, ResetUsage,
      GetSummary, ResetTraces, ReadTraces, ReadUsage, ReadCache

LEMMA HealthTypeStep ==
  ASSUME HealthInv, [TelemetryNext]_telemetryVars
  PROVE  HealthType' /\ TracesOfDone(health.window)'
<1>1. HealthType /\ TracesOfDone(health.window) /\ TracesOfDone(traces) /\ ScoringType
      /\ usage \in UsageRecord /\ resets \in Nat /\ cacheHits \in Nat /\ traces \in Seq(Trace)
  BY DEF HealthInv, CountersInv, MeterInv, TracesOfDone
<1>2. HealthType' /\ health'.window \in {health.window, traces}
  <2>1. CASE ReadTraces
    <3>1. NoHealth \in [at: {"idle", "traces", "usage", "done"}, window: Seq(Trace),
                        usage: UsageRecord, era: Nat, hits: Nat]
      <4>1. NoCalls \in CallsRecord
        BY DEF NoCalls, CallsRecord
      <4>2. NoUsage \in UsageRecord
        BY <4>1 DEF NoUsage, UsageRecord
      <4> QED
        BY <4>2 DEF NoHealth
    <3>2. health' = [at |-> "traces", window |-> traces, usage |-> NoUsage, era |-> 0, hits |-> 0]
      BY <2>1 DEF ReadTraces, NoHealth
    <3>3. NoUsage \in UsageRecord
      BY <3>1 DEF NoHealth
    <3> QED
      BY <1>1, <3>2, <3>3 DEF HealthType
  <2>2. CASE ReadUsage
    <3>1. health' = [health EXCEPT !.at = "usage", !.usage = usage, !.era = resets]
      BY <2>2 DEF ReadUsage
    <3>2. health' \in [at: {"idle", "traces", "usage", "done"}, window: Seq(Trace),
                       usage: UsageRecord, era: Nat, hits: Nat]
      BY <1>1, <3>1, Zenon DEF HealthType
    <3>3. health'.window = health.window
      BY <1>1, <3>1 DEF HealthType
    <3> QED
      BY <3>2, <3>3 DEF HealthType
  <2>3. CASE ReadCache
    <3>1. health' = [health EXCEPT !.at = "done", !.hits = cacheHits]
      BY <2>3 DEF ReadCache
    <3>2. health' \in [at: {"idle", "traces", "usage", "done"}, window: Seq(Trace),
                       usage: UsageRecord, era: Nat, hits: Nat]
      BY <1>1, <3>1, Zenon DEF HealthType
    <3>3. health'.window = health.window
      BY <1>1, <3>1 DEF HealthType
    <3> QED
      BY <3>2, <3>3 DEF HealthType
  <2>4. CASE UNCHANGED health
    BY <1>1, <2>4 DEF HealthType
  <2> QED
    BY <2>1, <2>2, <2>3, <2>4
    DEF TelemetryNext, telemetryVars, Hit, Miss, MeterHit, Finish, ThreadHit, MeterThreadHit, AskGroq,
        ResetUsage, GetSummary, ResetTraces
<1>3. PICK q : q = health'.window /\ TracesOfDone(q)
  BY <1>1, <1>2
<1>4. \A i \in DOMAIN q : /\ scoring'[q[i].of].at = "done"
                          /\ q[i].hit => scoring'[q[i].of].thread = "none"
  BY <1>1, <1>3, TracesStay
<1> QED
  BY <1>2, <1>3, <1>4 DEF TracesOfDone

(* The traces from the cache are of so many scores from the cache.         *)
LEMMA WindowCounts ==
  ASSUME HealthInv, NEW q, TracesOfDone(q), NEW era \in Nat
  PROVE  Cardinality(FromCacheIn(q, era)) <= Cardinality(Since(era))
<1> DEFINE W == FromCacheIn(q, era)
           S == Since(era)
           f == [i \in W |-> q[i].of]
<1>1. \A i \in DOMAIN q : q[i] \in Trace
  BY DEF TracesOfDone
<1>2. \A i \in W : q[i].of \in S
  BY <1>1 DEF TracesOfDone, FromCacheIn, Since, FromCache, Trace
<1>3. \A i, j \in W : q[i].of = q[j].of => i = j
  BY DEF TracesOfDone, FromCacheIn
<1>4. IsFiniteSet(S)
  <2>1. S \in SUBSET Scored
    BY DEF Since
  <2> HIDE DEF S
  <2> QED
    BY <2>1, FewScorings
<1>5. f \in Injection(W, S)
  <2> HIDE DEF W, S
  <2> QED
    BY <1>2, <1>3 DEF Injection, IsInjective
<1> HIDE DEF W, S, f
<1>6. Cardinality(W) <= Cardinality(S)
  BY <1>4, <1>5, FS_Injection
<1> QED
  BY <1>6 DEF W, S

LEMMA ReadingStep ==
  ASSUME HealthInv, [TelemetryNext]_telemetryVars
  PROVE  ReadingInv'
<1>1. /\ HealthType /\ TracesOfDone(health.window) /\ ScoringType /\ ReadingInv /\ MeterInv
      /\ CountersInv
  BY DEF HealthInv
<1>2. /\ resets \in Nat /\ cacheHits \in Nat /\ health.era \in Nat
      /\ usage.cached_calls \in Nat /\ usage \in UsageRecord
  BY <1>1, CachedCalls DEF MeterInv, HealthType, CountersInv
<1> DEFINE w == health.window
           In(e) == {i \in DOMAIN w : w[i].hit /\ metered'[w[i].of] = e}
<1>3. \A e \in Nat : FromCacheIn(w, e) = In(e)
  BY <1>1, TracesStay
<1>4. CASE ReadTraces
  <2>1. health'.at = "traces"
    BY <1>4 DEF ReadTraces, NoHealth
  <2> QED
    BY <2>1 DEF ReadingInv
<1>5. CASE ReadUsage
  <2>1. /\ health'.at = "usage" /\ health'.window = w /\ health'.usage = usage /\ health'.era = resets
        /\ UNCHANGED <<cacheHits, metered>>
    BY <1>1, <1>5 DEF ReadUsage, HealthType
  <2>2. Cardinality(FromCacheIn(w, resets)) <= Cardinality(Since(resets))
    BY <1>1, <1>2, WindowCounts
  <2>3. Cardinality(FromCacheIn(w, resets)) \in Nat
    <3>1. IsFiniteSet(DOMAIN w) /\ FromCacheIn(w, resets) \subseteq DOMAIN w
      <4>1. DOMAIN w = 1 .. Len(w) /\ Len(w) \in Nat
        BY <1>1 DEF HealthType
      <4> QED
        BY <4>1, FS_Interval, 1 \in Int DEF FromCacheIn
    <3> HIDE DEF w
    <3> QED
      BY <3>1, FS_Subset, FS_CardinalityType
  <2>4. Cardinality(Since(resets)) \in Nat /\ Cardinality(Pending) \in Nat
    <3>1. Since(resets) \in SUBSET Scored /\ Pending \in SUBSET Scored
      BY DEF Since, Pending
    <3> QED
      BY <3>1, FewScorings
  <2>5. /\ Cardinality(Since(resets)) <= usage.cached_calls
        /\ usage.cached_calls + Cardinality(Pending) <= cacheHits
    BY <1>1 DEF MeterInv
  <2>6. usage.cached_calls <= cacheHits
    BY <1>2, <2>4, <2>5
  <2>7. Cardinality(FromCacheIn(w, resets)) <= usage.cached_calls
    BY <1>2, <2>2, <2>3, <2>4, <2>5
  <2> QED
    BY <2>1, <2>6, <2>7 DEF ReadingInv, FromCacheIn
<1>6. CASE ReadCache
  <2>1. /\ health.at = "usage" /\ health'.at = "done" /\ health'.hits = cacheHits
        /\ health'.window = w /\ health'.usage = health.usage /\ health'.era = health.era
        /\ UNCHANGED <<cacheHits, metered>>
    BY <1>1, <1>6 DEF ReadCache, HealthType
  <2> QED
    BY <1>1, <2>1 DEF ReadingInv, FromCacheIn
<1>7. CASE UNCHANGED health
  <2>1. cacheHits' \in Nat /\ cacheHits' >= cacheHits
    BY <1>2 DEF TelemetryNext, telemetryVars, Hit, Miss, MeterHit, Finish, ThreadHit, MeterThreadHit,
                AskGroq, ResetUsage, GetSummary, ResetTraces, ReadTraces, ReadUsage, ReadCache
  <2>2. FromCacheIn(health.window, health.era)' = FromCacheIn(w, health.era)
    BY <1>2, <1>3, <1>7 DEF FromCacheIn
  <2>3. health.usage.cached_calls \in Nat
    <3>1. health.usage \in UsageRecord
      BY <1>1 DEF HealthType
    <3> QED
      BY <3>1 DEF UsageRecord
  <2> QED
    BY <1>1, <1>2, <1>7, <2>1, <2>2, <2>3 DEF ReadingInv
<1> QED
  BY <1>4, <1>5, <1>6, <1>7
  DEF TelemetryNext, telemetryVars, Hit, Miss, MeterHit, Finish, ThreadHit, MeterThreadHit, AskGroq,
      ResetUsage, GetSummary, ResetTraces

LEMMA HealthInit == TelemetryInit => HealthInv
<1> SUFFICES ASSUME TelemetryInit PROVE HealthInv
  OBVIOUS
<1>1. CountersInv
  BY CountersInit
<1>2. ScoringType
  BY DEF TelemetryInit, ScoringType, At, ThreadAt
<1>3. MeterInv
  <2>1. Since(resets) = {} /\ Pending = {}
    BY DEF TelemetryInit, Since, Pending, FromCache
  <2>2. usage.cached_calls = 0
    BY DEF TelemetryInit, NoUsage
  <2>3. Since(0) = {} /\ resets = 0 /\ cacheHits = 0 /\ metered = [r \in Scored |-> 0]
    BY <2>1 DEF TelemetryInit
  <2>4. Cardinality(Since(resets)) = 0 /\ Cardinality(Pending) = 0
    BY <2>1, FS_EmptySet
  <2> QED
    BY <2>2, <2>3, <2>4 DEF MeterInv
<1>4. HealthType /\ health.at = "idle" /\ health.window = <<>>
  <2>1. NoUsage \in UsageRecord
    BY <1>1 DEF TelemetryInit, CountersInv
  <2> QED
    BY <2>1 DEF TelemetryInit, HealthType, NoHealth
<1>5. TracesOfDone(<<>>) /\ traces = <<>>
  BY DEF TracesOfDone, TelemetryInit
<1> QED
  BY <1>1, <1>2, <1>3, <1>4, <1>5 DEF HealthInv, ReadingInv

(* The meter counts each score from the cache after its hit, so that a window*)
(* of traces never shows more of them than the counting it goes with.      *)
THEOREM HealthInvariant == TelemetrySpec => []HealthInv
<1>1. HealthInv /\ [TelemetryNext]_telemetryVars => HealthInv'
  BY CountersStep, ScoringTypeStep, MeterStep, TracesStep, HealthTypeStep, ReadingStep DEF HealthInv
<1> QED
  BY <1>1, HealthInit, PTL DEF TelemetrySpec

-----------------------------------------------------------------------------
(* A set of natural numbers has a least element.                           *)
LEMMA Least ==
  ASSUME NEW S \in SUBSET Nat, S # {}
  PROVE  \E n \in S : \A m \in S : n <= m
<1> DEFINE R == OpToRel(<, Nat)
<1>1. IsWellFoundedOn(R, Nat)
  BY NatLessThanWellFounded
<1>2. PICK n \in S : \A m \in S : <<m, n>> \notin R
  <2> HIDE DEF R
  <2> QED
    BY <1>1, WFMin
<1>3. \A m \in S : ~(m < n)
  BY <1>2 DEF OpToRel
<1> QED
  BY <1>3

(* Some report of a window took the longest.                               *)
LEMMA Longest ==
  ASSUME HealthType, health.window # <<>>
  PROVE  \E x \in Durations : UpTo(x) = Len(health.window)
<1> DEFINE w == health.window
           Of(l, j) == \A i \in 1 .. l : w[i].ms <= w[j].ms
           S == {l \in Nat : l \in 1 .. Len(w) => \E j \in 1 .. l : Of(l, j)}
<1>1. w \in Seq(Trace) /\ Len(w) \in Nat /\ DOMAIN w = 1 .. Len(w)
  BY DEF HealthType
<1>2. \A i \in 1 .. Len(w) : w[i].ms \in Nat
  <2>1. \A i \in 1 .. Len(w) : w[i] \in Trace
    BY <1>1
  <2> QED
    BY <2>1, TelemetryAssumption DEF Trace
<1> HIDE DEF w
<1>3. 0 \in S
  OBVIOUS
<1>4. ASSUME NEW l \in Nat, l \in S, l + 1 \in 1 .. Len(w)
      PROVE  \E j \in 1 .. l + 1 : Of(l + 1, j)
  <2>1. w[l + 1].ms \in Nat
    BY <1>2, <1>4
  <2>2. CASE l = 0
    <3>1. 1 \in 1 .. l + 1 /\ \A i \in 1 .. l + 1 : i = 1
      BY <2>2
    <3>2. w[1].ms <= w[1].ms
      BY <2>1, <2>2
    <3> QED
      BY <3>1, <3>2
  <2>3. CASE l # 0
    <3>1. l \in 1 .. Len(w)
      BY <1>1, <1>4, <2>3
    <3>2. PICK j \in 1 .. l : \A i \in 1 .. l : w[i].ms <= w[j].ms
      BY <1>4, <3>1
    <3>3. j \in 1 .. Len(w) /\ w[j].ms \in Nat
      BY <1>1, <1>2, <3>1
    <3>4. \A i \in 1 .. l : w[i].ms \in Nat
      BY <1>1, <1>2, <3>1
    <3>5. CASE w[l + 1].ms <= w[j].ms
      <4>1. \A i \in 1 .. l + 1 : i = l + 1 \/ i \in 1 .. l
        OBVIOUS
      <4>2. Of(l + 1, j)
        BY <3>2, <3>5, <4>1
      <4>3. j \in 1 .. l + 1
        OBVIOUS
      <4> HIDE DEF Of
      <4> QED
        BY <4>2, <4>3
    <3>6. CASE ~(w[l + 1].ms <= w[j].ms)
      <4>1. \A i \in 1 .. l : w[i].ms <= w[l + 1].ms
        BY <2>1, <3>2, <3>3, <3>4, <3>6
      <4>2. w[l + 1].ms <= w[l + 1].ms /\ l + 1 \in 1 .. l + 1
        BY <2>1
      <4>3. \A i \in 1 .. l + 1 : i = l + 1 \/ i \in 1 .. l
        OBVIOUS
      <4> QED
        BY <4>1, <4>2, <4>3
    <3> QED
      BY <3>5, <3>6
  <2> QED
    BY <2>2, <2>3
<1>5. Nat \subseteq S
  <2>1. \A l \in Nat : l \in S => l + 1 \in S
    <3> HIDE DEF Of
    <3> QED
      BY <1>4
  <2> HIDE DEF S
  <2> QED
    BY <1>3, <2>1, InductionOnNat
<1>6. Len(w) \in 1 .. Len(w)
  BY <1>1 DEF w
<1>7. PICK j \in 1 .. Len(w) : \A i \in 1 .. Len(w) : w[i].ms <= w[j].ms
  BY <1>1, <1>5, <1>6
<1>8. {i \in DOMAIN w : w[i].ms <= w[j].ms} = 1 .. Len(w)
  BY <1>1, <1>7
<1>9. Cardinality(1 .. Len(w)) = Len(w)
  BY <1>1, FS_Interval, 1 \in Int
<1>10. UpTo(w[j].ms) = Len(w) /\ w[j].ms \in Durations
  BY <1>1, <1>8, <1>9 DEF UpTo, Durations, w
<1> QED
  BY <1>10 DEF w

(* So that each rank is held by the duration of some report.               *)
LEMMA RankHeld ==
  ASSUME HealthType, NEW k \in Nat, k < Len(health.window)
  PROVE  Ranked(k) \in Durations /\ Ranked(k) \in Nat
<1> DEFINE w == health.window
           S == {x \in Durations : UpTo(x) > k}
<1>1. w \in Seq(Trace) /\ Len(w) \in Nat /\ DOMAIN w = 1 .. Len(w) /\ w # <<>>
  BY DEF HealthType
<1>2. Durations \subseteq Nat
  <2>1. \A i \in DOMAIN w : w[i] \in Trace
    BY <1>1
  <2>2. \A i \in DOMAIN w : w[i].ms \in Nat
    BY <2>1, TelemetryAssumption DEF Trace
  <2> QED
    BY <2>2 DEF Durations
<1>3. PICK x \in Durations : UpTo(x) = Len(w)
  BY <1>1, Longest
<1>4. x \in S
  BY <1>3
<1>5. PICK n \in S : \A m \in S : n <= m
  <2>1. S \in SUBSET Nat /\ S # {}
    BY <1>2, <1>4
  <2> HIDE DEF S
  <2> QED
    BY <2>1, Least
<1>6. \A y \in Durations : UpTo(y) \in Nat
  <2> TAKE y \in Durations
  <2> DEFINE I == {i \in DOMAIN w : w[i].ms <= y}
  <2>1. IsFiniteSet(DOMAIN w) /\ I \subseteq DOMAIN w
    BY <1>1, FS_Interval, 1 \in Int
  <2> HIDE DEF I
  <2>2. Cardinality(I) \in Nat
    BY <2>1, FS_Subset, FS_CardinalityType
  <2> QED
    BY <2>2 DEF I, UpTo
<1>7. ASSUME NEW y \in Durations, y < n PROVE UpTo(y) <= k
  <2>1. y \notin S
    BY <1>2, <1>5, <1>7
  <2>2. ~(UpTo(y) > k)
    BY <2>1
  <2> QED
    BY <1>6, <2>2
<1>8. n \in Durations /\ UpTo(n) > k
  BY <1>5
<1>9. Ranked(k) \in Durations
  BY <1>7, <1>8 DEF Ranked
<1> QED
  BY <1>2, <1>9

LEMMA Products ==
  ASSUME NEW m \in Nat, NEW x \in Nat, NEW a \in Nat, x <= m
  PROVE  x * a <= m * a /\ x * a \in Nat /\ m * a \in Nat
<1>1. (m - x) * a \in Nat
  BY m - x \in Nat
<1>2. (m - x) * a = m * a - x * a
  OBVIOUS
<1>3. x * a \in Nat /\ m * a \in Nat
  OBVIOUS
<1> QED
  BY <1>1, <1>2, <1>3

(* A percentile is not over what every report of the window is below.      *)
LEMMA PercentileBound ==
  ASSUME HealthType, health.window # <<>>, NEW m \in Nat, \A x \in Durations : ~(x > m)
  PROVE  ~(Percentile(95) > 100 * m)
<1> DEFINE n == Len(health.window)
           k == (n - 1) * 95
           f == k \div 100
           rest == k % 100
<1>1. n \in Nat /\ n >= 1
  BY DEF HealthType
<1> HIDE DEF n
<1>2. k \in Nat /\ k = 95 * n - 95
  BY <1>1
<1> HIDE DEF k
<1>3. f \in Nat /\ rest \in 0 .. 99 /\ 100 * f <= k /\ (k = 0 => rest = 0)
  <2>1. k \in Nat
    BY <1>2
  <2>2. f \in Nat /\ 100 * f <= k
    BY <2>1
  <2>3. rest \in 0 .. 99
    BY <2>1
  <2>4. k = 0 => rest = 0
    OBVIOUS
  <2> QED
    BY <2>2, <2>3, <2>4
<1> HIDE DEF f, rest
<1>4. f < n
  BY <1>1, <1>2, <1>3
<1>5. Ranked(f) \in Durations /\ Ranked(f) \in Nat
  BY <1>3, <1>4, RankHeld DEF n
<1>6. Ranked(f) <= m
  BY <1>5
<1>7. Percentile(95) = IF rest = 0 THEN 100 * Ranked(f)
                       ELSE Ranked(f) * (100 - rest) + Ranked(f + 1) * rest
  BY DEF Percentile, n, k, f, rest
<1>8. CASE rest = 0
  BY <1>5, <1>6, <1>7, <1>8
<1>9. CASE rest # 0
  <2>1. f + 1 < n /\ f + 1 \in Nat
    BY <1>1, <1>2, <1>3, <1>9
  <2>2. Ranked(f + 1) \in Durations /\ Ranked(f + 1) \in Nat
    BY <2>1, RankHeld DEF n
  <2>3. Ranked(f + 1) <= m
    BY <2>2
  <2> DEFINE a == 100 - rest
             x == Ranked(f)
             y == Ranked(f + 1)
  <2>4. a \in Nat /\ rest \in Nat /\ a + rest = 100
    BY <1>3
  <2> HIDE DEF a, x, y
  <2>5. x \in Nat /\ y \in Nat /\ x <= m /\ y <= m
    BY <1>5, <1>6, <2>2, <2>3 DEF x, y
  <2>6. x * a <= m * a /\ y * rest <= m * rest
    BY <2>4, <2>5, Products
  <2>7. x * a \in Nat /\ m * a \in Nat /\ y * rest \in Nat /\ m * rest \in Nat
    BY <2>4, <2>5, Products
  <2>8. m * a + m * rest = m * (a + rest)
    BY <2>4
  <2>9. m * (a + rest) = 100 * m
    BY <2>4
  <2>10. x * a + y * rest <= 100 * m
    BY <2>6, <2>7, <2>8, <2>9
  <2>11. x * a + y * rest \in Nat
    BY <2>7
  <2> QED
    BY <1>7, <1>9, <2>10, <2>11 DEF a, x, y
<1> QED
  BY <1>8, <1>9

LEMMA LongReports ==
  ASSUME HealthType, ~ColdStart, NEW m \in Nat, Percentile(95) > 100 * m
  PROVE  \E x \in Durations : x > m
  BY PercentileBound DEF ColdStart

(* The parts of a health summary agree, whatever was reset while it was    *)
(* made, and what a summary of the meter lists is never less than its sum. *)
THEOREM TelemetryCorrect == TelemetrySpec => [](SummaryNeverUndercounts /\ HealthAddsUp)
<1>1. HealthInv => SummaryNeverUndercounts
  BY DEF HealthInv, CountersInv
<1>2. ASSUME HealthInv PROVE HealthAddsUp
  <2>1. HealthType /\ ReadingInv
    BY <1>2 DEF HealthInv
  <2>2. /\ health.usage.successful_calls \in Nat /\ health.usage.failed_calls \in Nat
    <3>1. health.usage \in UsageRecord
      BY <2>1 DEF HealthType
    <3> QED
      BY <3>1 DEF UsageRecord
  <2>3. AvailableBelow(30) => AvailableBelow(70)
    BY <2>2 DEF AvailableBelow
  <2>4. ASSUME HealthStatus # "healthy"
        PROVE  AvailableBelow(70) \/ \E ms \in Durations : ms > 2000
    <3>1. ~ColdStart /\ (AvailableBelow(70) \/ Percentile(95) > 100 * 2000)
      BY <2>3, <2>4 DEF HealthStatus
    <3> QED
      BY <2>1, <3>1, LongReports, 2000 \in Nat
  <2>5. ASSUME HealthStatus = "down"
        PROVE  AvailableBelow(30) /\ \E ms \in Durations : ms > 5000
    <3>1. ~ColdStart /\ AvailableBelow(30) /\ Percentile(95) > 100 * 5000
      BY <2>5 DEF HealthStatus
    <3> QED
      BY <2>1, <3>1, LongReports, 5000 \in Nat
  <2> QED
    BY <2>1, <2>4, <2>5 DEF HealthAddsUp, ReadingInv, FromCacheIn
<1> QED
  BY <1>1, <1>2, HealthInvariant, PTL

-----------------------------------------------------------------------------
(* The three of them together.                                             *)

LEMMA OneAtATime ==
  ASSUME [Next]_memoryVars
  PROVE  [RealtimeNext]_rtVars /\ [LimitNext]_limitVars /\ [TelemetryNext]_telemetryVars
  BY DEF Next, memoryVars

(* Dashboards, limits and telemetry, each beside the others: a broadcast   *)
(* whose list nobody changes reaches all on it, and the summaries hold.    *)
THEOREM MemoryCorrect ==
  Spec => [](QuietBroadcastReachesAll /\ SummaryNeverUndercounts /\ HealthAddsUp)
<1>1. Init => RealtimeInit /\ TelemetryInit
  BY DEF Init
<1>2. [Next]_memoryVars => [RealtimeNext]_rtVars /\ [TelemetryNext]_telemetryVars
  BY OneAtATime
<1>3. Spec => RealtimeSpec /\ TelemetrySpec
  BY <1>1, <1>2, PTL DEF Spec, RealtimeSpec, TelemetrySpec
<1> QED
  BY <1>3, QuietBroadcastCorrect, TelemetryCorrect, PTL

(* And the limits are exact beside the others.                             *)
THEOREM MemoryLimitsCorrect == Spec => LimitsAreExact
<1>1. Init => LimitInit
  BY DEF Init
<1>2. [Next]_memoryVars => [LimitNext]_limitVars
  BY OneAtATime
<1>3. Spec => LimitSpec
  BY <1>1, <1>2, PTL DEF Spec, LimitSpec
<1> QED
  BY <1>3, LimitsCorrect, PTL
-----------------------------------------------------------------------------
(* The scoring.  A verdict of the triage is the other value cached.        *)
Entry == [key: Key, value: Score \cup [severity: Severity], expired: BOOLEAN]

(* A cached score was the answer to the report it is of, and its text is   *)
(* that report's.                                                          *)
Earned(e) == e.key[1] = "full_score" =>
  /\ e.value \in Score
  /\ text[e.value.of] = e.key[2]
  /\ call[e.value.of].at = "scored"
  /\ call[e.value.of].answer = e.value

EarnedEntry == {e \in Entry : Earned(e)}

Call == [at: {"idle", "normalize", "gather", "brief", "scored", "fallback"}, exceeded: BOOLEAN,
         answer: Score \cup {None}]

CacheInv ==
  /\ text \in [Report -> Text]
  /\ call \in [Report -> Call]
  /\ store \in Seq(EarnedEntry)
  /\ FallbackNotShared

LEMMA SeqWider == ASSUME NEW E, NEW F, E \subseteq F, NEW s \in Seq(E) PROVE s \in Seq(F)
  OBVIOUS

LEMMA GetKeeps == ASSUME NEW E, NEW s \in Seq(E), NEW k PROVE AfterGet(s, k) \in Seq(E)
  BY AtPositionsType DEF AfterGet

LEMMA SetKeeps ==
  ASSUME NEW E, NEW s \in Seq(E), NEW k, NEW v,
         [key |-> k, value |-> v, expired |-> FALSE] \in E
  PROVE  AfterSet(s, k, v) \in Seq(E)
<1>1. Live(s) \in Seq(E)
  BY AtPositionsType DEF Live
<1>2. DropOldest(Live(s)) \in Seq(E)
  <2> DEFINE l == Live(s)
             n == Len(l)
             d == Dropped(n) + 1
  <2>1. n \in Nat /\ d \in Nat /\ d >= 1
    BY <1>1 DEF Dropped
  <2>2. DropOldest(l) = SubSeq(l, d, n) /\ l \in Seq(E)
    BY <1>1 DEF DropOldest
  <2> HIDE DEF l, d
  <2>3. SubSeq(l, d, n) \in Seq(E)
    BY <2>1, <2>2
  <2> QED BY <2>2, <2>3 DEF l
<1>3. MakeRoom(s) \in Seq(E)
  BY <1>1, <1>2 DEF MakeRoom
<1>4. Lacking(MakeRoom(s), k) \in Seq(E)
  BY <1>3, AtPositionsType DEF Lacking
<1> QED BY <1>4 DEF AfterSet

LEMMA HitIsEntry ==
  ASSUME NEW E, NEW s \in Seq(E), NEW k, NEW v \in Hits(s, k)
  PROVE  \E e \in E : e.key = k /\ e.value = v
<1>1. PICK e \in {s[i] : i \in {j \in DOMAIN s : s[j].key = k /\ ~s[j].expired}} : e.value = v
  BY DEF Hits
<1>2. e \in E /\ e.key = k
  BY <1>1
<1> QED BY <1>1, <1>2

(* What is scored stays as it is; so does what was earned.                 *)
LEMMA EarnedStays ==
  ASSUME CacheInv, UNCHANGED text, NEW r \in Report, call[r].at # "scored",
         \A q \in Report \ {r} : call'[q] = call[q]
  PROVE  EarnedEntry \subseteq EarnedEntry'
<1> SUFFICES ASSUME NEW e \in EarnedEntry PROVE Earned(e)'
  BY DEF EarnedEntry
<1> SUFFICES ASSUME e.key[1] = "full_score"
             PROVE  /\ e.value \in Score
                    /\ text'[e.value.of] = e.key[2]
                    /\ call'[e.value.of].at = "scored"
                    /\ call'[e.value.of].answer = e.value
  BY DEF Earned
<1>1. Earned(e) /\ e.value \in Score
  BY DEF EarnedEntry, Earned
<1>2. e.value.of \in Report
  BY <1>1 DEF Score
<1> QED BY <1>1, <1>2 DEF Earned

(* Steps of the loop that answer nobody.                                   *)
LEMMA NoAnswerStep ==
  ASSUME CacheInv, UNCHANGED <<text, store>>, NEW r \in Report, call[r].at # "scored", call' \in [Report -> Call],
         call'[r].answer = call[r].answer \/ call'[r].answer = Fallback(r),
         \A q \in Report \ {r} : call'[q] = call[q]
  PROVE  CacheInv'
<1>1. text' \in [Report -> Text]
  BY DEF CacheInv
<1>2. EarnedEntry \subseteq EarnedEntry'
  BY EarnedStays
<1>3. store' \in Seq(EarnedEntry')
  <2> DEFINE E == EarnedEntry
             F == EarnedEntry'
  <2>1. store \in Seq(E) /\ E \subseteq F /\ store' = store
    BY <1>2 DEF CacheInv
  <2> HIDE DEF E, F
  <2>2. store' \in Seq(F)
    BY <2>1, SeqWider
  <2> QED BY <2>2 DEF F
<1>4. FallbackNotShared'
  <2> SUFFICES ASSUME NEW q \in Report, call'[q].answer # None
               PROVE  LET o == call'[q].answer.of IN
                      /\ text[o] = text[q]
                      /\ o # q => call'[o].at = "scored" /\ call'[o].answer = call'[q].answer
    BY DEF FallbackNotShared
  <2> DEFINE o == call'[q].answer.of
  <2>1. CASE call'[q].answer = call[q].answer
    <3>1. o \in Report
      BY <2>1 DEF CacheInv, Call, Score
    <3>2. text[o] = text[q] /\ (o # q => call[o].at = "scored" /\ call[o].answer = call[q].answer)
      BY <2>1 DEF CacheInv, FallbackNotShared
    <3> QED BY <3>1, <3>2, <2>1
  <2>2. CASE q = r /\ call'[r].answer = Fallback(r)
    BY <2>2 DEF Fallback
  <2> QED BY <2>1, <2>2
<1> QED BY <1>1, <1>3, <1>4 DEF CacheInv

LEMMA ReceiveStep == ASSUME CacheInv, NEW r \in Report, Receive(r) PROVE CacheInv'
<1>1. /\ text' = text /\ text \in [Report -> Text] /\ call \in [Report -> Call] /\ call[r] \in Call
      /\ call[r].at = "idle" /\ store' = AfterGet(store, FullKey(r))
  BY DEF Receive, CacheInv
<1>2. /\ call' \in [Report -> Call] /\ \A q \in Report \ {r} : call'[q] = call[q]
      /\ \/ call'[r].answer = call[r].answer
         \/ /\ call'[r].at = "scored"
            /\ call'[r].answer \in Score
            /\ text[call'[r].answer.of] = text[r]
            /\ call[call'[r].answer.of].at = "scored"
            /\ call[call'[r].answer.of].answer = call'[r].answer
  <2>1. CASE call' = [call EXCEPT ![r].at = "normalize"]
    BY <1>1, <2>1 DEF Call
  <2>2. CASE \E s \in Hits(store, FullKey(r)) : call' = [call EXCEPT ![r].at = "scored", ![r].answer = s]
    <3> PICK s \in Hits(store, FullKey(r)) : call' = [call EXCEPT ![r].at = "scored", ![r].answer = s]
      BY <2>2
    <3>1. PICK e \in EarnedEntry : e.key = FullKey(r) /\ e.value = s
      <4> DEFINE E == EarnedEntry
      <4> store \in Seq(E)
        BY DEF CacheInv
      <4> HIDE DEF E
      <4> \E e \in E : e.key = FullKey(r) /\ e.value = s
        BY HitIsEntry
      <4> QED BY DEF E
    <3>2. s \in Score /\ text[s.of] = text[r] /\ call[s.of].at = "scored" /\ call[s.of].answer = s
      BY <3>1 DEF EarnedEntry, Earned, FullKey
    <3>3. /\ call' \in [Report -> Call] /\ \A q \in Report \ {r} : call'[q] = call[q]
          /\ call'[r].at = "scored" /\ call'[r].answer = s
      BY <1>1, <3>2 DEF Call
    <3> QED BY <3>2, <3>3
  <2> QED BY <2>1, <2>2 DEF Receive
<1>3. EarnedEntry \subseteq EarnedEntry'
  BY <1>1, <1>2, EarnedStays
<1>4. store' \in Seq(EarnedEntry')
  <2> DEFINE E == EarnedEntry
             F == EarnedEntry'
             k == FullKey(r)
  <2>1. store \in Seq(E) /\ E \subseteq F /\ store' = AfterGet(store, k)
    BY <1>1, <1>3 DEF CacheInv
  <2> HIDE DEF E, F, k
  <2>2. store' \in Seq(F)
    BY <2>1, GetKeeps, SeqWider
  <2> QED BY <2>2 DEF F
<1>5. FallbackNotShared'
  <2> SUFFICES ASSUME NEW q \in Report, call'[q].answer # None
               PROVE  LET o == call'[q].answer.of IN
                      /\ text[o] = text[q]
                      /\ o # q => call'[o].at = "scored" /\ call'[o].answer = call'[q].answer
    BY <1>1 DEF FallbackNotShared
  <2> DEFINE o == call'[q].answer.of
  <2>1. o \in Report
    BY <1>2 DEF Call, Score
  <2>2. CASE call'[q].answer = call[q].answer
    <3>1. text[o] = text[q] /\ (o # q => call[o].at = "scored" /\ call[o].answer = call[q].answer)
      BY <2>2 DEF CacheInv, FallbackNotShared
    <3> QED BY <3>1, <2>1, <2>2, <1>1, <1>2
  <2>3. CASE q = r /\ call'[q].answer # call[q].answer
    BY <2>1, <2>3, <1>1, <1>2
  <2> QED BY <2>2, <2>3, <1>2
<1> QED BY <1>1, <1>2, <1>4, <1>5 DEF CacheInv

LEMMA AnswerStep == ASSUME CacheInv, NEW r \in Report, Answer(r) PROVE CacheInv'
<1>1. PICK late \in BOOLEAN :
        LET score == [of |-> r, partial |-> call[r].exceeded \/ late] IN
        /\ call' = [call EXCEPT ![r] = [at |-> "scored", exceeded |-> score.partial, answer |-> score]]
        /\ store' = AfterSet(store, FullKey(r), score)
  BY DEF Answer
<1> DEFINE score == [of |-> r, partial |-> call[r].exceeded \/ late]
<1>2. /\ text' = text /\ text \in [Report -> Text] /\ call \in [Report -> Call] /\ call[r] \in Call
      /\ call[r].at = "brief"
  BY DEF Answer, CacheInv
<1>3. score \in Score /\ score.of = r /\ score.partial \in BOOLEAN
  BY <1>2 DEF Score, Call
<1>4. /\ call' = [call EXCEPT ![r] = [at |-> "scored", exceeded |-> score.partial, answer |-> score]]
      /\ store' = AfterSet(store, FullKey(r), score)
  BY <1>1
<1> HIDE DEF score
<1>5. /\ call' \in [Report -> Call] /\ \A q \in Report \ {r} : call'[q] = call[q]
      /\ call'[r].at = "scored" /\ call'[r].answer = score
  BY <1>2, <1>3, <1>4 DEF Call
<1>6. EarnedEntry \subseteq EarnedEntry'
  BY <1>2, <1>5, EarnedStays
<1> PICK e : e = [key |-> FullKey(r), value |-> score, expired |-> FALSE]
  OBVIOUS
<1>7. e \in EarnedEntry'
  <2>1. e \in Entry
    BY <1>2, <1>3 DEF Entry, Key, FullKey
  <2>2. Earned(e)'
    BY <1>2, <1>3, <1>5 DEF Earned, FullKey
  <2> QED BY <2>1, <2>2 DEF EarnedEntry
<1>8. store' \in Seq(EarnedEntry')
  <2> DEFINE E == EarnedEntry
             F == EarnedEntry'
             k == FullKey(r)
  <2>1. store \in Seq(E) /\ E \subseteq F /\ store' = AfterSet(store, k, score)
        /\ [key |-> k, value |-> score, expired |-> FALSE] \in F
    BY <1>4, <1>6, <1>7 DEF CacheInv
  <2> HIDE DEF E, F, k
  <2>2. store \in Seq(F)
    BY <2>1, SeqWider
  <2>3. store' \in Seq(F)
    BY <2>1, <2>2, SetKeeps
  <2> QED BY <2>3 DEF F
<1>9. FallbackNotShared'
  <2> SUFFICES ASSUME NEW q \in Report, call'[q].answer # None
               PROVE  LET o == call'[q].answer.of IN
                      /\ text[o] = text[q]
                      /\ o # q => call'[o].at = "scored" /\ call'[o].answer = call'[q].answer
    BY <1>2 DEF FallbackNotShared
  <2> DEFINE o == call'[q].answer.of
  <2>1. CASE q = r
    BY <2>1, <1>3, <1>5
  <2>2. CASE q # r
    <3>1. call'[q].answer = call[q].answer
      BY <2>2, <1>5
    <3>2. o \in Report
      BY <3>1, <1>2 DEF Call, Score
    <3>3. text[o] = text[q] /\ (o # q => call[o].at = "scored" /\ call[o].answer = call[q].answer)
      BY <3>1 DEF CacheInv, FallbackNotShared
    <3> QED BY <3>1, <3>2, <3>3, <1>2, <1>5
  <2> QED BY <2>1, <2>2
<1> QED BY <1>2, <1>5, <1>8, <1>9 DEF CacheInv

(* The threads, and time, change the store only: nothing new is earned.    *)
LEMMA StoreStep ==
  ASSUME CacheInv, UNCHANGED <<text, call>>, store' \in Seq(EarnedEntry)
  PROVE  CacheInv'
<1>1. EarnedEntry' = EarnedEntry
  BY DEF EarnedEntry, Earned
<1> QED BY <1>1 DEF CacheInv, FallbackNotShared

(* The triage: where the thread is, and what its samples have given.       *)
Triage == [at: {"none", "queued", "asking", "correcting", "storing", "done"},
           attempt: Nat, tried: Nat, votes: [Severity -> Nat]]

NothingTried(r) == triage[r].tried = 0 => triage[r].votes = NoVotes

VotedOnce(r) == triage[r].tried > 0 \/ triage[r].at = "storing" =>
  \E s \in Severity : triage[r].votes[s] > 0

StillAsking(r) == triage[r].at \in {"asking", "correcting"} => triage[r].tried < SampleCount

(* All the samples were asked for, or one of them was no WARN.             *)
EnoughAsked(r) == triage[r].at = "storing" =>
  triage[r].tried = SampleCount \/ triage[r].votes[INFO] + triage[r].votes[CRITICAL] > 0

NothingAsked(r) == triage[r].at = "queued" => triage[r] = [NoTriage EXCEPT !.at = "queued"]

SampleInv(r) ==
  NothingTried(r) /\ VotedOnce(r) /\ StillAsking(r) /\ EnoughAsked(r) /\ NothingAsked(r)

EvidenceInv == triage \in [Report -> Triage] /\ \A r \in Report : SampleInv(r)

LEMMA Severities == Severity = {INFO, WARN, CRITICAL}
  BY DEF Severity, INFO, WARN, CRITICAL

LEMMA NoTriageType == NoTriage \in Triage /\ [NoTriage EXCEPT !.at = "done"] \in Triage
  BY DEF NoTriage, Triage, NoVotes

(* The vote has a winner, and half of the votes suffice for CRITICAL.      *)
LEMMA MajorityWins ==
  ASSUME NEW votes \in [Severity -> Nat]
  PROVE  /\ Majority(votes) \in Severity
         /\ votes[CRITICAL] >= votes[WARN] + votes[INFO] => Majority(votes) = CRITICAL
<1> DEFINE Wins(s) == \A x \in Severity : votes[s] > votes[x] \/ (votes[s] = votes[x] /\ s >= x)
           a == votes[INFO]
           b == votes[WARN]
           c == votes[CRITICAL]
<1> USE Severities DEF INFO, WARN, CRITICAL
<1>1. a \in Nat /\ b \in Nat /\ c \in Nat
  OBVIOUS
<1>2. \E s \in Severity : Wins(s)
  <2>1. CASE c >= a /\ c >= b
    <3>1. Wins(CRITICAL)
      BY <1>1, <2>1
    <3> QED BY <3>1
  <2>2. CASE b > c /\ b >= a
    <3>1. Wins(WARN)
      BY <1>1, <2>2
    <3> QED BY <3>1
  <2>3. CASE a > b /\ a > c
    <3>1. Wins(INFO)
      BY <1>1, <2>3
    <3> QED BY <3>1
  <2> QED BY <1>1, <2>1, <2>2, <2>3
<1>3. Majority(votes) = CHOOSE s \in Severity : Wins(s)
  BY DEF Majority
<1>4. Majority(votes) \in Severity /\ Wins(Majority(votes))
  <2> HIDE DEF Wins
  <2> QED BY <1>2, <1>3
<1>5. ASSUME c >= b + a PROVE Majority(votes) = CRITICAL
  <2>1. c > votes[Majority(votes)] \/ c >= votes[Majority(votes)]
    BY <1>1, <1>4, <1>5
  <2>2. votes[Majority(votes)] > c \/ (votes[Majority(votes)] = c /\ Majority(votes) >= CRITICAL)
    BY <1>4
  <2> QED BY <1>1, <1>4, <2>1, <2>2
<1> QED BY <1>4, <1>5

(* Who blocks the loop is normalizing, and has no thread yet.              *)
LoopInv ==
  \A r \in Report :
    /\ loop = r => call[r].at = "normalize"
    /\ call[r].at \in {"idle", "normalize"} => triage[r] = NoTriage

LEMMA LoopStep == CacheInv /\ EvidenceInv /\ LoopInv /\ [ScoringNext]_scoreVars => LoopInv'
<1> SUFFICES ASSUME CacheInv, EvidenceInv, LoopInv, [ScoringNext]_scoreVars PROVE LoopInv'
  OBVIOUS
<1>1. call \in [Report -> Call] /\ triage \in [Report -> Triage]
  BY DEF CacheInv, EvidenceInv
<1>2. CASE UNCHANGED <<loop, call, triage>>
  BY <1>2 DEF LoopInv
<1>3. ASSUME NEW r \in Report, OnLoop(r) PROVE LoopInv'
  <2>1. /\ \A q \in Report \ {r} : call'[q] = call[q] /\ triage'[q] = triage[q]
        /\ loop' \in {loop, None, r}
        /\ loop' # r => call'[r].at \notin {"idle", "normalize"}
        /\ loop' = r => call'[r].at = "normalize" /\ triage'[r] = NoTriage
    <3>1. CASE Receive(r)
      BY <1>1, <3>1, ScoringAssumption DEF Receive, LoopInv, Call
    <3>2. CASE Normalized(r)
      BY <1>1, <3>2, ScoringAssumption DEF Normalized, Call
    <3>3. CASE Gathered(r)
      BY <1>1, <3>3, ScoringAssumption DEF Gathered, Call
    <3>4. CASE BudgetExceeded(r)
      BY <1>1, <3>4, ScoringAssumption DEF BudgetExceeded, Cancelled, Call
    <3>5. CASE Answer(r)
      BY <1>1, <3>5, ScoringAssumption DEF Answer, Call
    <3>6. CASE Fail(r)
      BY <1>1, <3>6, ScoringAssumption DEF Fail, Cancelled, Call
    <3> QED BY <1>3, <3>1, <3>2, <3>3, <3>4, <3>5, <3>6 DEF OnLoop
  <2> QED BY <2>1, ScoringAssumption DEF LoopInv
<1>4. ASSUME NEW r \in Report, InThread(r) PROVE LoopInv'
  <2>1. /\ UNCHANGED <<loop, call>> /\ triage[r].at # "none"
        /\ \A q \in Report \ {r} : triage'[q] = triage[q]
    BY <1>1, <1>4 DEF InThread, LookUp, GroqAnswers, GroqFails, SampleFails, StoreVerdict, Sampled
  <2>2. triage[r] # NoTriage
    BY <2>1 DEF NoTriage
  <2> QED BY <2>1, <2>2 DEF LoopInv
<1> QED BY <1>2, <1>3, <1>4 DEF ScoringNext, Expire, scoreVars

LEMMA CacheStep == CacheInv /\ LoopInv /\ EvidenceInv /\ [ScoringNext]_scoreVars => CacheInv'
<1> SUFFICES ASSUME CacheInv, LoopInv, EvidenceInv, [ScoringNext]_scoreVars PROVE CacheInv'
  OBVIOUS
<1>1. /\ text \in [Report -> Text] /\ call \in [Report -> Call] /\ \A r \in Report : call[r] \in Call
      /\ store \in Seq(EarnedEntry)
  BY DEF CacheInv
<1>2. CASE UNCHANGED <<text, call, store>>
  BY <1>1, <1>2, StoreStep
<1>3. ASSUME NEW r \in Report, OnLoop(r) PROVE CacheInv'
  <2>1. CASE Normalized(r) \/ Gathered(r) \/ BudgetExceeded(r)
    <3>1. /\ UNCHANGED <<text, store>> /\ call[r].at \in {"normalize", "gather"}
          /\ \/ call' = [call EXCEPT ![r].at = "gather"]
             \/ call' = [call EXCEPT ![r].at = "brief"]
             \/ call' = [call EXCEPT ![r].at = "brief", ![r].exceeded = TRUE]
      BY <2>1 DEF Normalized, Gathered, BudgetExceeded, LoopInv
    <3>2. /\ call' \in [Report -> Call] /\ call'[r].answer = call[r].answer
          /\ \A q \in Report \ {r} : call'[q] = call[q]
      <4>1. CASE call' = [call EXCEPT ![r].at = "gather"]
        BY <1>1, <4>1 DEF Call
      <4>2. CASE call' = [call EXCEPT ![r].at = "brief"]
        BY <1>1, <4>2 DEF Call
      <4>3. CASE call' = [call EXCEPT ![r].at = "brief", ![r].exceeded = TRUE]
        BY <1>1, <4>3 DEF Call
      <4> QED BY <3>1, <4>1, <4>2, <4>3
    <3> QED BY <3>1, <3>2, NoAnswerStep
  <2>2. CASE Fail(r)
    <3>1. /\ UNCHANGED <<text, store>> /\ call[r].at # "scored"
          /\ call' = [call EXCEPT ![r] = [at |-> "fallback", exceeded |-> FALSE, answer |-> Fallback(r)]]
      BY <2>2 DEF Fail
    <3>2. Fallback(r) \in Score
      BY DEF Fallback, Score
    <3>3. /\ call' \in [Report -> Call] /\ call'[r].answer = Fallback(r)
          /\ \A q \in Report \ {r} : call'[q] = call[q]
      BY <1>1, <3>1, <3>2 DEF Call
    <3> QED BY <3>1, <3>3, NoAnswerStep
  <2> QED BY <1>3, <2>1, <2>2, ReceiveStep, AnswerStep DEF OnLoop
<1>4. ASSUME NEW r \in Report, InThread(r) PROVE CacheInv'
  <2>1. CASE LookUp(r)
    <3>1. UNCHANGED <<text, call>> /\ store' = AfterGet(store, TriageKey(r))
      BY <2>1 DEF LookUp
    <3>2. store' \in Seq(EarnedEntry)
      BY <1>1, <3>1, GetKeeps
    <3> QED BY <3>1, <3>2, StoreStep
  <2>2. CASE StoreVerdict(r)
    <3> DEFINE v == [severity |-> Majority(triage[r].votes)]
               e == [key |-> TriageKey(r), value |-> v, expired |-> FALSE]
    <3>1. UNCHANGED <<text, call>> /\ store' = AfterSet(store, TriageKey(r), v)
      BY <2>2 DEF StoreVerdict
    <3>2. e \in EarnedEntry
      <4>1. v \in [severity : Severity]
        BY MajorityWins DEF EvidenceInv, Triage
      <4>2. e \in Entry
        BY <4>1, <1>1 DEF Entry, Key, TriageKey
      <4> QED BY <4>2 DEF EarnedEntry, Earned, TriageKey
    <3>3. store' \in Seq(EarnedEntry)
      <4> HIDE DEF v
      <4> QED BY <1>1, <3>1, <3>2, SetKeeps
    <3> QED BY <3>1, <3>3, StoreStep
  <2> QED BY <1>2, <1>4, <2>1, <2>2 DEF InThread, GroqAnswers, GroqFails, SampleFails
<1>5. CASE Expire
  <2>1. PICK i \in Ageing(store) : store' = [store EXCEPT ![i].expired = TRUE]
    BY <1>5 DEF Expire
  <2>2. i \in DOMAIN store /\ store[i] \in EarnedEntry
    BY <1>1 DEF Ageing
  <2> DEFINE e == [store[i] EXCEPT !.expired = TRUE]
  <2>3. e \in Entry /\ e.key = store[i].key /\ e.value = store[i].value
    BY <2>2 DEF EarnedEntry, Entry
  <2>4. e \in EarnedEntry
    BY <2>2, <2>3 DEF EarnedEntry, Earned
  <2>5. store' = [store EXCEPT ![i] = e]
    BY <1>1, <2>1, <2>2
  <2>6. store' \in Seq(EarnedEntry)
    <3> HIDE DEF e
    <3> QED BY <1>1, <2>2, <2>4, <2>5
  <2> QED BY <1>5, <2>6, StoreStep DEF Expire
<1> QED BY <1>2, <1>3, <1>4, <1>5 DEF ScoringNext, scoreVars
-----------------------------------------------------------------------------
(* One report's triage is not another's.                                   *)
LEMMA TriageStep ==
  ASSUME EvidenceInv, NEW r \in Report, NEW new \in Triage, triage' = [triage EXCEPT ![r] = new], SampleInv(r)'
  PROVE  EvidenceInv'
<1>1. \A q \in Report \ {r} : triage'[q] = triage[q]
  BY DEF EvidenceInv
<1>2. triage' \in [Report -> Triage]
  BY DEF EvidenceInv
<1>3. ASSUME NEW q \in Report \ {r} PROVE SampleInv(q)'
  BY <1>1, <1>3 DEF EvidenceInv, SampleInv, NothingTried, VotedOnce, StillAsking, EnoughAsked, NothingAsked
<1> QED BY <1>2, <1>3 DEF EvidenceInv

(* A sample with one vote more.                                            *)
LEMMA SampledStep ==
  ASSUME EvidenceInv, NEW r \in Report, triage[r].at \in {"asking", "correcting"},
         NEW s \in Severity, Sampled(r, s)
  PROVE  EvidenceInv'
<1> DEFINE old == triage[r].votes
           n == triage[r].tried
           votes == [old EXCEPT ![s] = @ + 1]
<1>1. PICK more \in (IF n = 0 THEN Borderline(s) ELSE {TRUE}) :
        triage' = [triage EXCEPT ![r] = Asked(r, votes, more)]
  BY DEF Sampled
<1>2. triage[r] \in Triage /\ SampleInv(r)
  BY DEF EvidenceInv
<1>3. n \in Nat /\ old \in [Severity -> Nat] /\ n < SampleCount /\ (n = 0 => old = NoVotes)
  BY <1>2 DEF Triage, SampleInv, StillAsking, NothingTried
<1>4. votes \in [Severity -> Nat] /\ votes[s] = old[s] + 1 /\ votes[s] > 0
  BY <1>3
<1>5. more \in BOOLEAN /\ (~more => s # WARN)
  BY DEF Borderline
<1> DEFINE where == IF more /\ n + 1 < SampleCount THEN "asking" ELSE "storing"
           new == [at |-> where, attempt |-> 0, tried |-> n + 1, votes |-> votes]
<1>6. Asked(r, votes, more) = new
  BY DEF Asked
<1> HIDE DEF votes, n
<1>7. new \in Triage
  BY <1>3, <1>4 DEF Triage
<1>8. triage' = [triage EXCEPT ![r] = new]
  BY <1>1, <1>6
<1>9. triage'[r] = new
  BY <1>8 DEF EvidenceInv
<1>10. where = "storing" => n + 1 = SampleCount \/ votes[INFO] + votes[CRITICAL] > 0
  <2>1. CASE more
    BY <2>1, <1>3, ScoringAssumption
  <2>2. CASE ~more
    <3>1. s \in {INFO, CRITICAL}
      BY <1>5, <2>2, Severities
    <3>2. votes[INFO] \in Nat /\ votes[CRITICAL] \in Nat
      BY <1>4, Severities
    <3> QED BY <1>4, <3>1, <3>2
  <2> QED BY <2>1, <2>2
<1>11. SampleInv(r)'
  <2>1. /\ new.at = where /\ new.tried = n + 1 /\ new.votes = votes
        /\ where \in {"asking", "storing"} /\ (where = "asking" => n + 1 < SampleCount)
    OBVIOUS
  <2> HIDE DEF new, where
  <2> QED BY <2>1, <1>3, <1>4, <1>9, <1>10
          DEF SampleInv, NothingTried, VotedOnce, StillAsking, EnoughAsked, NothingAsked
<1> HIDE DEF new
<1> QED BY <1>7, <1>8, <1>11, TriageStep

LEMMA EvidenceThread == ASSUME EvidenceInv, NEW r \in Report, InThread(r) PROVE EvidenceInv'
<1> USE DEF SampleInv, NothingTried, VotedOnce, StillAsking, EnoughAsked, NothingAsked
<1>1. triage[r] \in Triage /\ SampleInv(r) /\ triage \in [Report -> Triage]
  BY DEF EvidenceInv
<1> DEFINE done == [NoTriage EXCEPT !.at = "done"]
<1>2. /\ done \in Triage /\ done.at = "done" /\ done.tried = 0 /\ done.votes = NoVotes
      /\ NoTriage.votes = NoVotes /\ NoTriage.tried = 0
  BY NoTriageType DEF NoTriage
<1>3. CASE triage' = [triage EXCEPT ![r] = done]
  <2>1. SampleInv(r)'
    <3> HIDE DEF done
    <3> QED BY <1>1, <1>2, <1>3
  <2> QED BY <1>2, <1>3, <2>1, TriageStep
<1>4. CASE LookUp(r)
  <2> PICK to \in {"done", "asking"} : triage' = [triage EXCEPT ![r].at = to]
    BY <1>4 DEF LookUp
  <2>1. triage[r].at = "queued"
    BY <1>4 DEF LookUp
  <2>2. triage[r].tried = 0 /\ triage[r].votes = NoVotes
    BY <1>1, <1>2, <2>1 DEF NoTriage
  <2> DEFINE new == [triage[r] EXCEPT !.at = to]
  <2>3. new \in Triage /\ new.at = to /\ new.tried = 0 /\ new.votes = NoVotes
    BY <1>1, <2>2 DEF Triage
  <2>4. triage' = [triage EXCEPT ![r] = new]
    BY <1>1
  <2> HIDE DEF new
  <2>5. triage'[r] = new
    BY <1>1, <2>4
  <2>6. SampleInv(r)'
    <3>1. 0 < SampleCount
      BY ScoringAssumption
    <3>2. triage'[r].at \in {"done", "asking"} /\ triage'[r].tried = 0 /\ triage'[r].votes = NoVotes
      BY <2>3, <2>5
    <3> QED BY <3>1, <3>2
  <2> QED BY <2>3, <2>4, <2>6, TriageStep
<1>5. ASSUME NEW to \in {"asking", "correcting"}, NEW k \in Nat, triage[r].at \in {"asking", "correcting"},
             triage' = [triage EXCEPT ![r].at = to, ![r].attempt = k]
      PROVE  EvidenceInv'
  <2> DEFINE new == [triage[r] EXCEPT !.at = to, !.attempt = k]
  <2>1. new \in Triage /\ new.at = to /\ new.tried = triage[r].tried /\ new.votes = triage[r].votes
    BY <1>1 DEF Triage
  <2>2. triage' = [triage EXCEPT ![r] = new]
    BY <1>1, <1>5
  <2> HIDE DEF new
  <2>3. triage'[r] = new
    BY <1>1, <2>2
  <2>4. SampleInv(r)'
    BY <1>1, <1>5, <2>1, <2>3
  <2> QED BY <2>1, <2>2, <2>4, TriageStep
<1>6. CASE GroqAnswers(r)
  <2>1. CASE triage[r].at \in {"asking", "correcting"} /\ \E s \in Severity : Sampled(r, s)
    BY <2>1, SampledStep
  <2>2. CASE triage[r].at = "asking" /\ triage' = [triage EXCEPT ![r].at = "correcting", ![r].attempt = 0]
    BY <2>2, <1>5
  <2>3. CASE triage[r].at = "correcting" /\ Sampled(r, WARN)
    BY <2>3, SampledStep, Severities
  <2> QED BY <1>6, <2>1, <2>2, <2>3 DEF GroqAnswers
<1>7. CASE GroqFails(r)
  <2>1. CASE /\ triage[r].at \in {"asking", "correcting"}
             /\ triage' = [triage EXCEPT ![r].attempt = @ + 1]
    <3> DEFINE k == triage[r].attempt + 1
               to == triage[r].at
    <3>1. k \in Nat /\ to \in {"asking", "correcting"}
      BY <1>1, <2>1 DEF Triage
    <3>2. triage' = [triage EXCEPT ![r].at = to, ![r].attempt = k]
      BY <1>1, <2>1 DEF Triage
    <3> HIDE DEF k, to
    <3> QED BY <2>1, <3>1, <3>2, <1>5
  <2>2. CASE triage[r].at = "correcting" /\ Sampled(r, WARN)
    BY <2>2, SampledStep, Severities
  <2> QED BY <1>7, <2>1, <2>2 DEF GroqFails
<1>8. CASE SampleFails(r)
  <2>1. CASE triage[r].tried = 0
    BY <1>3, <1>8, <2>1 DEF SampleFails
  <2>2. CASE triage[r].tried # 0
    <3> DEFINE n == triage[r].tried
               votes == triage[r].votes
               where == IF n + 1 < SampleCount THEN "asking" ELSE "storing"
               new == [at |-> where, attempt |-> 0, tried |-> n + 1, votes |-> votes]
    <3>1. n \in Nat /\ n > 0 /\ votes \in [Severity -> Nat] /\ n < SampleCount
      BY <1>1, <1>8, <2>2 DEF Triage, SampleFails
    <3>2. triage' = [triage EXCEPT ![r] = new]
      BY <1>8, <2>2 DEF SampleFails, Asked
    <3>3. \E s \in Severity : votes[s] > 0
      BY <1>1, <3>1
    <3> HIDE DEF votes, n
    <3>4. new \in Triage
      BY <3>1 DEF Triage
    <3>5. where = "storing" => n + 1 = SampleCount
      BY <3>1, ScoringAssumption
    <3>6. /\ new.at = where /\ new.tried = n + 1 /\ new.votes = votes
          /\ where \in {"asking", "storing"} /\ (where = "asking" => n + 1 < SampleCount)
      OBVIOUS
    <3> HIDE DEF new, where
    <3>7. triage'[r] = new
      BY <1>1, <3>2
    <3>8. SampleInv(r)'
      BY <3>1, <3>3, <3>5, <3>6, <3>7
    <3> QED BY <3>2, <3>4, <3>8, TriageStep
  <2> QED BY <2>1, <2>2
<1> QED BY <1>3, <1>4, <1>6, <1>7, <1>8 DEF InThread, StoreVerdict

LEMMA EvidenceStep == EvidenceInv /\ LoopInv /\ [ScoringNext]_scoreVars => EvidenceInv'
<1> SUFFICES ASSUME EvidenceInv, LoopInv, [ScoringNext]_scoreVars PROVE EvidenceInv'
  OBVIOUS
<1> USE DEF SampleInv, NothingTried, VotedOnce, StillAsking, EnoughAsked, NothingAsked
<1>1. CASE triage' = triage
  BY <1>1 DEF EvidenceInv
<1>2. ASSUME NEW r \in Report, OnLoop(r) PROVE EvidenceInv'
  <2>1. triage[r] \in Triage /\ SampleInv(r) /\ triage \in [Report -> Triage]
    BY DEF EvidenceInv
  <2>2. CASE triage' = [triage EXCEPT ![r] = NoTriage]
    <3>1. NoTriage.at = "none" /\ NoTriage.tried = 0 /\ NoTriage.votes = NoVotes /\ NoTriage \in Triage
      BY NoTriageType DEF NoTriage
    <3>2. triage'[r] = NoTriage
      BY <2>1, <2>2
    <3>3. SampleInv(r)'
      BY <3>1, <3>2
    <3> QED BY <2>2, <3>1, <3>3, TriageStep
  <2>3. CASE Normalized(r)
    <3> DEFINE new == [NoTriage EXCEPT !.at = "queued"]
    <3>1. triage[r] = NoTriage
      BY <2>3 DEF Normalized, LoopInv
    <3>2. new \in Triage /\ new.at = "queued" /\ new.tried = 0 /\ new.votes = NoVotes
      BY NoTriageType DEF NoTriage, Triage
    <3>3. triage' = [triage EXCEPT ![r] = new]
      BY <2>1, <2>3, <3>1 DEF Normalized
    <3>4. triage'[r] = [NoTriage EXCEPT !.at = "queued"]
      BY <2>1, <3>3
    <3>5. SampleInv(r)'
      BY <3>2, <3>4
    <3> QED BY <3>2, <3>3, <3>5, TriageStep
  <2> QED BY <1>1, <1>2, <2>2, <2>3 DEF OnLoop, Receive, Gathered, BudgetExceeded, Answer, Fail, Cancelled
<1> QED BY <1>1, <1>2, EvidenceThread DEF ScoringNext, Expire, scoreVars

LEMMA ScoringInitial == ScoringInit => CacheInv /\ LoopInv /\ EvidenceInv
<1> SUFFICES ASSUME ScoringInit PROVE CacheInv /\ LoopInv /\ EvidenceInv
  OBVIOUS
<1>1. CacheInv
  BY DEF ScoringInit, CacheInv, Call, FallbackNotShared
<1>2. LoopInv
  BY ScoringAssumption DEF ScoringInit, LoopInv
<1>3. EvidenceInv
  BY NoTriageType DEF ScoringInit, EvidenceInv, NoTriage, SampleInv, NothingTried, VotedOnce, StillAsking, EnoughAsked,
     NothingAsked
<1> QED BY <1>1, <1>2, <1>3

THEOREM ScoringInvariant == ScoringSpec => [](CacheInv /\ LoopInv /\ EvidenceInv)
  BY ScoringInitial, CacheStep, LoopStep, EvidenceStep, PTL DEF ScoringSpec

(* However the scorings, the threads and the expiries of the cache         *)
(* interleave, a report is answered with its own score or with one that    *)
(* was the answer to a report of the same text; a fallback stays where it  *)
(* was made (the cache is only written by score_async and the triage).     *)
THEOREM FallbackCorrect == ScoringSpec => []FallbackNotShared
<1>1. CacheInv => FallbackNotShared
  BY DEF CacheInv
<1> QED BY <1>1, ScoringInvariant, PTL

(* Whatever fails, is retried or corrected on the way, a verdict that goes *)
(* into the cache rests on votes, and half of them make it CRITICAL.       *)
THEOREM EvidenceCorrect == ScoringSpec => []StoredOnEvidence
<1>1. EvidenceInv => StoredOnEvidence
  <2> SUFFICES ASSUME EvidenceInv, NEW r \in Report, triage[r].at = "storing"
               PROVE  /\ triage[r].votes # NoVotes
                      /\ triage[r].votes = [NoVotes EXCEPT ![WARN] = 1] => triage[r].tried = SampleCount
                      /\ triage[r].votes[CRITICAL] >= triage[r].votes[WARN] + triage[r].votes[INFO] =>
                           Majority(triage[r].votes) = CRITICAL
    BY DEF StoredOnEvidence
  <2>1. triage[r].votes \in [Severity -> Nat] /\ SampleInv(r)
    BY DEF EvidenceInv, Triage
  <2>2. triage[r].votes # NoVotes
    BY <2>1 DEF SampleInv, VotedOnce, NoVotes
  <2>3. ASSUME triage[r].votes = [NoVotes EXCEPT ![WARN] = 1] PROVE triage[r].tried = SampleCount
    <3>1. triage[r].votes[INFO] = 0 /\ triage[r].votes[CRITICAL] = 0
      BY <2>3 DEF NoVotes, Severity, INFO, WARN, CRITICAL
    <3> QED BY <2>1, <3>1 DEF SampleInv, EnoughAsked
  <2> QED BY <2>1, <2>2, <2>3, MajorityWins
<1> QED BY <1>1, ScoringInvariant, PTL
=============================================================================
