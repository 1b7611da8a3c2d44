--------------------------- MODULE PostMatchInputs ---------------------------
(***************************************************************************)
(* What a post-match workflow is about, before anything runs.  A manifest  *)
(* pins one advancement of the operational team state, from a set of       *)
(* completed-result evidence (the pre-state) to that set and one more      *)
(* batch (the post-state), and with it the evaluations the advancement     *)
(* applies, the predictions it replaces and the simulation it replaces.    *)
(* Two manifests may pin one advancement: they differ in the outputs they  *)
(* regenerate from it.  The journal (PostMatchWorkflow), the ledger it     *)
(* implements (PostMatchLedger) and their proofs share these definitions.  *)
(***************************************************************************)
EXTENDS Integers

CONSTANTS
  Workflows,        \* manifests: one per distinct set of child identities
  Advancements,     \* advancements the manifests pin
  Initial,          \* what the first advancement of a season has for a predecessor
  Prior,            \* Prior[a]: the advancement a builds on, or Initial
  Pre,              \* Pre[a]: evidence in the state a advances
  Applied,          \* Applied[a]: the evaluations a applies, [prediction, evidence]
  AdvancementOf,    \* AdvancementOf[w]: the advancement manifest w pins
  Regenerations,    \* Regenerations[w]: its predictions, [advancement, prior, replacement]
  SimulationOf,     \* SimulationOf[w]: its simulation, [advancement, prior, replacement]
  Given             \* predictions and simulation runs stored before any workflow ran

\* Evidence is one result as one poll observed it: [result, at].
Batch(a) == {x.evidence : x \in Applied[a]}

\* The state an advancement leads to: the old ledger of results and the new batch.
Post(a) == Pre[a] \cup Batch(a)

(***************************************************************************)
(* advance_team_state starts from the empty state or from the post-state   *)
(* of the advancement it is given, and refuses an empty batch, a result    *)
(* twice, and a result of the pre-state.  A payload is refused unless all  *)
(* its outputs reference the advancement of its manifest.                  *)
(***************************************************************************)
ASSUME WorkflowInputs ==
  /\ Initial \notin Advancements
  /\ AdvancementOf \in [Workflows -> Advancements]
  /\ \A a \in Advancements :
       /\ Prior[a] \in Advancements \cup {Initial}
       /\ Pre[a] = (IF Prior[a] = Initial THEN {} ELSE Post(Prior[a]))
       /\ Applied[a] # {}
       /\ \A d \in Pre[a], e \in Batch(a) : d.result # e.result
       /\ \A x, y \in Applied[a] : x.evidence.result = y.evidence.result => x = y
  /\ \A w \in Workflows :
       \A x \in Regenerations[w] \cup {SimulationOf[w]} : x.advancement = AdvancementOf[w]

(***************************************************************************)
(* The six stages, by the sequence number of their journal event.          *)
(***************************************************************************)
Planned     == 0
Evaluations == 1
Advancement == 2
Predictions == 3
Simulation  == 4
Completed   == 5
Stages      == Planned .. Completed

\* The stages that write children before their checkpoint is appended.
WritingStages(w) ==
  {Evaluations, Advancement, Simulation}
    \cup (IF Regenerations[w] = {} THEN {} ELSE {Predictions})

\* What the last two writing stages of a workflow store.
Outputs(w, s) == IF s = Predictions THEN Regenerations[w] ELSE {SimulationOf[w]}

\* Two evaluations that the unique key (prediction, result) keeps apart: one
\* prediction and two observations of one result.
EvaluationsClash(x, y) ==
  /\ x # y
  /\ x.prediction = y.prediction
  /\ x.evidence.result = y.evidence.result

\* Do two advancements apply evidence of one and the same result?
ShareResult(a, b) == \E d \in Batch(a), e \in Batch(b) : d.result = e.result

\* Two advancements that the unique keys of the store keep apart.
AdvancementsClash(a, b) ==
  /\ a # b
  /\ Pre[a] = Pre[b] \/ Post(a) = Post(b) \/ ShareResult(a, b)

\* Two outputs the unique keys keep apart: a prior is replaced once per
\* advancement, and a replacement takes the place of one prior.
OutputsClash(x, y) ==
  /\ x # y
  /\ \/ x.advancement = y.advancement /\ x.prior = y.prior
     \/ x.replacement = y.replacement
=============================================================================
