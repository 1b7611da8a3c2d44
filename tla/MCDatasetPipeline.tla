------------------------- MODULE MCDatasetPipeline -------------------------
(* Two processes and two seasons.  The second revision moves season 1 to   *)
(* another file; the third gives the first file other bytes, which no      *)
(* download may accept once the first revision's file is there.            *)
EXTENDS DatasetPipeline, TLC

CONSTANTS j1, j2, bytes1, bytes2, bytes3, file1, file2, file3

File(sha, at, path) == [sha256 |-> sha, captured_at |-> at, destination |-> path]

First == <<File(bytes1, 1, file1), File(bytes3, 1, file3)>>
Second == <<File(bytes2, 2, file2), File(bytes3, 2, file3)>>
Third == <<File(bytes2, 2, file1), File(bytes3, 2, file3)>>

MCCommands == j1 :> {"download", "catboost", "advanced", "artifact"}
              @@ j2 :> {"download", "evaluation"}
MCRevisions == {First, Second, Third}
MCReviewed == {First}
MCRawStores == {file1 :> None @@ file2 :> None @@ file3 :> None,
                file1 :> bytes1 @@ file2 :> bytes2 @@ file3 :> bytes3}

(* Nothing yet; or all of the second revision but an old assessment.       *)
Kinds == {"data", "evaluation", "catboost", "advanced", "assessment"}
MCEarlier == {[k \in Kinds |-> None],
              [k \in Kinds |-> IF k = "assessment" THEN First ELSE Second]}
=============================================================================
