----------------------------- MODULE TrackPrep ------------------------------
(***************************************************************************)
(* How the laboratory makes samples of one storm: the rows of its file are *)
(* loaded and cleaned, resampled to a regular grid and put together with   *)
(* their past and their future.  A value is told by its origin: the set of *)
(* the rows of the file it was interpolated from, {} for NaN.  Of the four *)
(* columns latitude and longitude are one, the position, and pressure is   *)
(* treated as the wind is.  No program gives build_samples an index of     *)
(* images, so no sample has one.                                           *)
(***************************************************************************)
EXTENDS Integers, Sequences, FiniteSetsExt

CONSTANT StormFiles (* the files to prepare: sequences of rows; a row is    *)
                    (* "placed" with a position and a time, and "measured"  *)
                    (* with a wind                                          *)

ASSUME PrepAssumption ==
  StormFiles \subseteq Seq([at : Nat, placed : BOOLEAN, measured : BOOLEAN])

(* Half hours.                                                             *)
Step == 12
Horizon == {12, 24, 48, 96, 144}
history_steps == 8
max_interp_gap == 2

VARIABLES
  file,   (* the rows, in the order of the file                              *)
  stage,  (* what has been done with them                                    *)
  track,   (* the rows [at, from, wind], later grid points with a speed      *)
  samples (* the samples, in order of time                                   *)

prepVars == <<file, stage, track, samples>>

PrepInit == /\ file \in StormFiles /\ stage = "raw" /\ track = <<>> /\ samples = <<>>

(* The members of S in the order of their times, which differ.             *)
InOrder(S, at) ==
  [k \in 1 .. Cardinality(S) |->
     CHOOSE x \in S : Cardinality({y \in S : at[y] < at[x]}) = k - 1]

-----------------------------------------------------------------------------
(* load_tracks drops the rows without a position or a time; clean_tracks   *)
(* leaves of those of one time the first.                                  *)
Placed == {i \in DOMAIN file : file[i].placed}
Kept == {i \in Placed : \A j \in Placed : j < i => file[j].at # file[i].at}
Chronicle == InOrder(Kept, [i \in Kept |-> file[i].at])

MeasuredBefore(i) == {j \in 1 .. i - 1 : file[Chronicle[j]].measured}
MeasuredAfter(i) == {j \in i + 1 .. Len(Chronicle) : file[Chronicle[j]].measured}

(* Mutant: gaps are filled from behind as well.                            *)
FilledBothWays(i) ==
  IF file[Chronicle[i]].measured THEN {Chronicle[i]}
  ELSE {Chronicle[j] : j \in {k \in MeasuredBefore(i) : k = Max(MeasuredBefore(i))}
                             \union {k \in MeasuredAfter(i) : k = Min(MeasuredAfter(i))}}

(* A missing wind: from the rows on both sides, or the last before it at   *)
(* the end of the track, for two rows after a measured one.                *)
Filled(i) ==
  IF file[Chronicle[i]].measured THEN {Chronicle[i]}
  ELSE IF MeasuredBefore(i) = {} \/ i - Max(MeasuredBefore(i)) > max_interp_gap THEN {}
  ELSE {Chronicle[Max(MeasuredBefore(i))]}
       \union {Chronicle[j] : j \in {k \in MeasuredAfter(i) : k = Min(MeasuredAfter(i))}}

(* clean_tracks(load_tracks())                                             *)
clean_tracks ==
  /\ stage = "raw"
  /\ track' = [i \in DOMAIN Chronicle |->
                 [at |-> file[Chronicle[i]].at, from |-> {Chronicle[i]}, wind |-> Filled(i)]]
  /\ stage' = "clean" /\ UNCHANGED <<file, samples>>

-----------------------------------------------------------------------------
(* resample_track: a column between two rows that have it, or after the    *)
(* last of them.                                                           *)
Positions == [i \in DOMAIN track |-> track[i].from]
Winds == [i \in DOMAIN track |-> track[i].wind]

AtOrBefore(column, g) == {i \in DOMAIN track : track[i].at <= g /\ column[i] # {}}
AtOrAfter(column, g) == {i \in DOMAIN track : track[i].at >= g /\ column[i] # {}}

Between(column, g) ==
  IF AtOrBefore(column, g) = {} THEN {}
  ELSE column[Max(AtOrBefore(column, g))]
         \union (IF AtOrAfter(column, g) = {} THEN {} ELSE column[Min(AtOrAfter(column, g))])

(* Grid points before the first row have no position and are dropped.      *)
GridTimes ==
  LET last == track[Len(track)].at
  IN {g \in {Step * k : k \in 0 .. (last + Step - 1) \div Step} : AtOrBefore(Positions, g) # {}}

(* The speed at a point is that to the next one, at the last that before.  *)
Speed(grid, i) ==
  LET j == IF i < Len(grid) THEN i ELSE i - 1
  IN IF Len(grid) = 1 THEN {}
     ELSE Between(Positions, grid[j]) \union Between(Positions, grid[j + 1])

resample_track ==
  /\ stage = "clean"
  /\ track' =
       IF Len(track) < 2
       THEN [i \in DOMAIN track |-> [at |-> track[i].at, from |-> track[i].from,
                                     wind |-> track[i].wind, speed |-> {}]]
       ELSE LET grid == InOrder(GridTimes, [g \in GridTimes |-> g])
            IN [i \in DOMAIN grid |->
                  [at |-> grid[i], from |-> Between(Positions, grid[i]),
                   wind |-> Between(Winds, grid[i]), speed |-> Speed(grid, i)]]
  /\ stage' = "grid" /\ UNCHANGED <<file, samples>>

-----------------------------------------------------------------------------
(* build_samples: the last eight points up to this one, with their speeds, *)
(* and the positions at the horizons there are.                            *)
Sample(i) ==
  [at |-> track[i].at, wind |-> track[i].wind,
   history |-> SubSeq(track, Max({1, i - history_steps + 1}), i),
   future |-> [h \in {h \in Horizon : \E j \in i + 1 .. Len(track) : track[j].at = track[i].at + h}
                 |-> track[CHOOSE j \in DOMAIN track : track[j].at = track[i].at + h].from]]

build_samples ==
  /\ stage = "grid"
  /\ samples' = [i \in DOMAIN track |-> Sample(i)]
  /\ stage' = "samples" /\ UNCHANGED <<file, track>>

(* What a network is given: eight rows, zeros in front of a short past and *)
(* for a wind that is NaN; and what it is asked for: the wind, and the     *)
(* horizons that are not masked.                                           *)
Zero == [at |-> 0, from |-> {}, wind |-> {}, speed |-> {}]

_build_track_sequence_tensor(history) ==
  [k \in 1 .. history_steps |->
     LET padding == history_steps - Len(history)
     IN IF k <= padding THEN Zero ELSE history[k - padding]]

make_fused_sample(s) ==
  [at |-> s.at, wind |-> s.wind,
   track_sequence |-> _build_track_sequence_tensor(s.history),
   horizon_masks |-> [h \in Horizon |-> h \in DOMAIN s.future],
   future_positions |-> [h \in Horizon |-> IF h \in DOMAIN s.future THEN s.future[h] ELSE {}]]

LoadDataset ==
  /\ stage = "samples"
  /\ samples' = [i \in DOMAIN samples |-> make_fused_sample(samples[i])]
  /\ stage' = "done" /\ UNCHANGED <<file, track>>

PrepNext == clean_tracks \/ resample_track \/ build_samples \/ LoadDataset

-----------------------------------------------------------------------------
(* The fixes of the file are the first placed rows of their times; some    *)
(* have a wind.  Of a set of rows, those next to a time, if one of them is *)
(* not after it.                                                           *)
Fixes == {i \in DOMAIN file :
            /\ file[i].placed
            /\ \A j \in DOMAIN file : j < i /\ file[j].placed => file[j].at # file[i].at}
WithWind == {i \in Fixes : file[i].measured}
Bracket(S, g) ==
  {i \in S : /\ file[i].at <= g
             /\ \A j \in S : file[j].at <= g => file[j].at <= file[i].at}
  \union
  {i \in S : /\ file[i].at >= g
             /\ \A j \in S : file[j].at >= g => file[j].at >= file[i].at}
Told(S, g) == \E i \in S : file[i].at <= g
Nearest(S, g) == IF Told(S, g) THEN Bracket(S, g) ELSE {}

(* What a network is given of a storm, and is asked for, rests on the      *)
(* nearest fixes before and after its time and on no other: a position on  *)
(* the placed rows, a wind on those among them that have one, whichever    *)
(* rows of the file lack either, are doubled or out of order.  There is no *)
(* row of a time before the first fix, and of a time before the first wind *)
(* the wind is NaN, which the network sees as zero: it is not filled from  *)
(* behind.  A gap, however long, looks ahead to the next wind.  The rows   *)
(* of the past follow one another on the grid up to the present, and their *)
(* speeds look ahead by one grid point: to the answer for the first        *)
(* horizon, no further.  (ibtracs.py:147, clean.py:81-98, align.py:57-77)  *)
SampleDrawsOnItsBracket ==
  stage = "done" =>
    \A i \in DOMAIN samples :
      LET s == samples[i]
          past == {k \in 1 .. history_steps : s.track_sequence[k] # Zero}
      IN /\ history_steps \in past
         /\ \A k \in past :
              LET row == s.track_sequence[k]
              IN /\ row.from = Bracket(Fixes, row.at) /\ Told(Fixes, row.at)
                 /\ row.wind = Nearest(WithWind, row.at)
                 /\ row.at = s.at - Step * (history_steps - k)
                 /\ row.speed \subseteq UNION {Bracket(Fixes, row.at + d) : d \in {-Step, 0, Step}}
         /\ s.wind = Nearest(WithWind, s.at)
         /\ \A h \in Horizon :
              s.horizon_masks[h] => s.future_positions[h] = Bracket(Fixes, s.at + h)
=============================================================================
