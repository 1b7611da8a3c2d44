----------------------- MODULE MCCandidateRetraining -----------------------
(* Three development seasons, the first with a date-only fixture that      *)
(* shares its date with another, a sealed season, and a running one whose  *)
(* two matches the league may move once.                                   *)
EXTENDS CandidateRetraining, TLC

MCSeasonOf == 1 :> 1 @@ 2 :> 1 @@ 3 :> 2 @@ 4 :> 3 @@ 5 :> 4 @@ 6 :> 5 @@ 7 :> 5
MCHistoricalKickoff == 1 :> 2 @@ 2 :> 3 @@ 3 :> 4 @@ 4 :> 6 @@ 5 :> 8
MCFirstKickoff == 6 :> 11 @@ 7 :> 13
=============================================================================
