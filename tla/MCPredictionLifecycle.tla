----------------------- MODULE MCPredictionLifecycle -----------------------
(***************************************************************************)
(* Fixture 1 is date-only and absorbs fixture 2, which kicks off on the    *)
(* same day; 3 and 4 have days of their own.  The results of 1 and 2 may   *)
(* be retrieved early and again at the end, after that of 3: what is       *)
(* applied of a batch may be observed after the cutoff of a replacement    *)
(* made for a later batch.                                                 *)
(***************************************************************************)
EXTENDS PredictionLifecycle

MCKickoff == <<2, 3, 4, 6>>
MCPolls == <<{3, 6}, {4, 6}, {5}, {}>>
=============================================================================
