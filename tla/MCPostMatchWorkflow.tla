------------------------- MODULE MCPostMatchWorkflow -------------------------
(***************************************************************************)
(* Instances of PostMatchWorkflow.  first and again pin one advancement,   *)
(* opening, and again regenerates more outputs from it; second builds on   *)
(* opening.  rival forks the chain: it starts from the empty state as      *)
(* opening does, with the result second applies, and it evaluates the      *)
(* prediction second does against a later observation of that result.      *)
(***************************************************************************)
EXTENDS PostMatchWorkflow, TLC

CONSTANTS first, again, second, rival,           \* workflows
          opening, next, fork,                   \* advancements
          p, q                                   \* predictions, one per result

Evaluation(prediction, result, at) ==
  [prediction |-> prediction, evidence |-> [result |-> result, at |-> at]]

MCPrior == [a \in Advancements |-> IF a = next THEN opening ELSE Initial]

MCApplied ==
  [a \in Advancements |->
     CASE a = opening -> {Evaluation(p, 1, 0)}
       [] a = next    -> {Evaluation(q, 2, 1)}
       [] OTHER       -> {Evaluation(q, 2, 2)}]

MCPre ==
  [a \in Advancements |->
     IF a = next THEN {x.evidence : x \in MCApplied[opening]} ELSE {}]

MCAdvancementOf ==
  [w \in Workflows |->
     CASE w \in {first, again} -> opening
       [] w = second           -> next
       [] OTHER                -> fork]

\* again and second are alternatives after first: each replaces the prediction
\* q0, which first leaves alone, and the simulation run first stored.
Replacement(w, old, new) ==
  [advancement |-> MCAdvancementOf[w], prior |-> old, replacement |-> new]

MCRegenerations ==
  [w \in Workflows |->
     CASE w = again  -> {Replacement(w, "q0", "q1")}
       [] w = second -> {Replacement(w, "q0", "q2")}
       [] OTHER      -> {}]

MCSimulationOf ==
  [w \in Workflows |->
     CASE w = again  -> Replacement(w, "s1", "s2")
       [] w = second -> Replacement(w, "s1", "s3")
       [] OTHER      -> Replacement(w, "s0", "s1")]

MCGiven == {"q0", "s0"}

RunnerSymmetry == Permutations(Runners)
=============================================================================
