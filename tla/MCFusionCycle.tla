--------------------------- MODULE MCFusionCycle ----------------------------
(* Instances of FusionCycle for TLC.                                       *)
EXTENDS FusionCycle, TLC

Winds == {0, 16, 25, 30, 130}

(* 1 / (1 + exp(-0.16 (w - 17))) in hundredths.                            *)
LogisticOf == (0 :> 6) @@ (16 :> 46) @@ (25 :> 78) @@ (30 :> 89) @@ (130 :> 100)

Storms ==
  { [wind |-> 16,  bonus |-> 0,  nature |-> "TS", history |-> <<>>],
    [wind |-> 16,  bonus |-> 10, nature |-> "TS", history |-> <<30, 16>>],
    [wind |-> 25,  bonus |-> 5,  nature |-> "DS", history |-> <<130, 30, 25>>],
    [wind |-> 25,  bonus |-> 5,  nature |-> "TS", history |-> <<16, 25>>],
    [wind |-> 130, bonus |-> 10, nature |-> "TS", history |-> <<30, 130>>],
    [wind |-> Nan, bonus |-> 0,  nature |-> "ET", history |-> <<>>] }

Samples ==
  { [wind |-> s.wind, bonus |-> s.bonus, nature |-> s.nature, history |-> s.history,
     flag |-> i[1], image |-> i[2], env |-> e] :
      s \in Storms, e \in BOOLEAN,
      i \in {"true", "false", "absent"} \X {"none", "named", "read"} }

Outputs ==
  [probability : {100, 497, 900, Nan}, stage : {"WEAKENING_SYSTEM"}, stageConf : {55, 60},
   wind : {Nan, 40, 130}, windConf : {59, 70}, logVariance : {0, 6, Nan},
   path : {"on_globe", "off_globe"}]
=============================================================================
