--------------------------- MODULE PostMatchLedger ---------------------------
(***************************************************************************)
(* What the post-match workflow promises, with no process, no read and no  *)
(* failure in sight: each workflow goes through its stages in order, the   *)
(* effect of a stage is applied before the stage is checkpointed and after *)
(* the stage before it was, and the applied advancements extend a single   *)
(* chain of team states.                                                   *)
(***************************************************************************)
EXTENDS PostMatchInputs

VARIABLES
  checkpoints,   \* checkpoints[w]: the stages of w that are recorded as done
  effects        \* effects[w]: the stages of w whose children are stored

ledgerVars == <<checkpoints, effects>>

LedgerInit ==
  /\ checkpoints = [w \in Workflows |-> {}]
  /\ effects = [w \in Workflows |-> {}]

\* A recorded stage stays recorded, so "the one before s is recorded" means
\* that every earlier one is.
Reached(w, s) == (s - 1) \in checkpoints[w]

AppliedAdvancements == {AdvancementOf[v] : v \in {u \in Workflows : Advancement \in effects[u]}}

\* An advancement extends the chain: it starts where an applied one ended, or
\* at the empty state, and nothing else started or ended there.  A workflow
\* over an advancement that is applied already changes nothing about the chain.
ExtendsChain(a) ==
  \/ a \in AppliedAdvancements
  \/ /\ Prior[a] \in AppliedAdvancements \cup {Initial}
     /\ \A b \in AppliedAdvancements : ~AdvancementsClash(a, b)

Plan(w) ==
  /\ checkpoints[w] = {}
  /\ checkpoints' = [checkpoints EXCEPT ![w] = {Planned}]
  /\ UNCHANGED effects

ApplyStage(w, s) ==
  /\ s \in WritingStages(w) \ effects[w]
  /\ Reached(w, s)
  /\ s = Advancement => ExtendsChain(AdvancementOf[w])
  /\ effects' = [effects EXCEPT ![w] = @ \cup {s}]
  /\ UNCHANGED checkpoints

RecordStage(w, s) ==
  /\ s \in Stages \ checkpoints[w]
  /\ Reached(w, s)
  /\ s \in WritingStages(w) => s \in effects[w]
  /\ checkpoints' = [checkpoints EXCEPT ![w] = @ \cup {s}]
  /\ UNCHANGED effects

\* Every step adds to the ledger, so a step that leaves it alone is none of them.
LedgerNext ==
  /\ ledgerVars' # ledgerVars
  /\ \E w \in Workflows :
       \/ Plan(w)
       \/ \E s \in Stages : ApplyStage(w, s) \/ RecordStage(w, s)

LedgerSpec == LedgerInit /\ [][LedgerNext]_ledgerVars
=============================================================================
