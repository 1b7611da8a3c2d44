-------------------------- MODULE PostMatchWorkflow --------------------------
(***************************************************************************)
(* The resumable post-match workflow: run_post_match_workflow over the     *)
(* PostgreSQL journal (PostMatchWorkflowRepository) and the child writes   *)
(* of RepositoryWorkflowStageExecutor.                                     *)
(*                                                                         *)
(* A runner is one process inside one call of run_post_match_workflow.     *)
(* Every SELECT of a load is a step of its own, since each is issued on a  *)
(* fresh connection; every persist is one step, since it is one            *)
(* serializable transaction that commits or rolls back as a whole.         *)
(* Nothing in the repository keeps two processes from running one          *)
(* workflow, or two workflows of a season, at the same time.               *)
(***************************************************************************)
EXTENDS PostMatchInputs

CONSTANTS
  Runners,           \* processes that may call run_post_match_workflow
  MaxFaults,         \* bound on database errors, lost acknowledgements and crashes
  ShippedTriggers    \* TRUE: the validators of f0008 raise on every advancement

ASSUME RunnerInputs == MaxFaults \in Nat /\ ShippedTriggers \in BOOLEAN

VARIABLES
  manifest,   \* the workflows whose post_match_workflow row is stored
  events,     \* events[w]: sequence numbers of the stored journal rows of w
  children,   \* children[w]: the stages whose child aggregate is committed
  pc,         \* pc[r]: where runner r is in run_post_match_workflow
  flow,       \* flow[r]: the workflow runner r was called with
  purpose,    \* purpose[r]: what r loads for: to resume, to check an append, after a write
  seq,        \* seq[r]: the sequence number whose row r reads next
  found,      \* found[r]: how many events the load has collected
  held,       \* held[r]: sequence of the last event of the history r holds
  faults      \* how many faults have happened

database == <<manifest, events, children>>
locals   == <<purpose, seq, found, held>>
vars == <<manifest, events, children, pc, flow, purpose, seq, found, held, faults>>

\* "malformed" and "refused" both raise HISTORY_MALFORMED, the first out of a
\* load, the second out of append.
Resting  == {"idle", "done", "interrupted", "malformed", "refused"}
Loading  == {"manifest", "events"}
Calling  == Loading \cup {"create", "child", "append"}
Purposes == {"resume", "check", "written"}

-----------------------------------------------------------------------------
(* What the unique and foreign keys of the store let a child write commit.  A *)
(* row that is stored already is verified, whichever workflow stored it.      *)

Storing(s) == {w \in Workflows : s \in children[w]}

StoredEvaluations  == UNION {Applied[AdvancementOf[w]] : w \in Storing(Evaluations)}
StoredAdvancements == {AdvancementOf[w] : w \in Storing(Advancement)}
StoredOutputs(s)   == UNION {Outputs(w, s) : w \in Storing(s)}

\* One evaluation per prediction and result; the observation that was
\* evaluated is part of its identity.
EvaluationsAdmitted(w) ==
  \A x \in Applied[AdvancementOf[w]], y \in StoredEvaluations : ~EvaluationsClash(x, y)

\* Mutated form: no unique key on the pre-state of an advancement.
AdvancementAdmittedByResult(w) ==
  \A b \in StoredAdvancements \ {AdvancementOf[w]} : ~ShareResult(AdvancementOf[w], b)

\* Mutated form: no foreign key from an advancement to its predecessor.
AdvancementAdmittedUnanchored(w) ==
  /\ ~ShippedTriggers
  /\ \A b \in StoredAdvancements : ~AdvancementsClash(AdvancementOf[w], b)

\* An advancement another workflow has stored is verified.  To insert one, the
\* evaluations it applies must be stored, its predecessor too unless it is the
\* first, and neither the pre-state, nor the post-state, nor a result may
\* belong to another advancement.
AdvancementAdmitted(w) ==
  LET a == AdvancementOf[w]
  IN  \/ a \in StoredAdvancements
      \/ /\ ~ShippedTriggers
         /\ Applied[a] \subseteq StoredEvaluations
         /\ Prior[a] \in StoredAdvancements \cup {Initial}
         /\ \A b \in StoredAdvancements : ~AdvancementsClash(a, b)

\* What is replaced must be stored, and so must the advancement that made it
\* stale; the row of a replacement is new or its own.
OutputsAdmitted(w, s) ==
  /\ AdvancementOf[w] \in StoredAdvancements
  /\ \A x \in Outputs(w, s) :
       /\ x.prior \in Given \cup {y.replacement : y \in StoredOutputs(s)}
       /\ \A y \in StoredOutputs(s) \cup Outputs(w, s) : ~OutputsClash(x, y)

Admitted(w, s) ==
  CASE s = Evaluations -> EvaluationsAdmitted(w)
    [] s = Advancement -> AdvancementAdmitted(w)
    [] OTHER           -> OutputsAdmitted(w, s)

-----------------------------------------------------------------------------
(* The three transactions; each is idempotent.                             *)

StoreManifest(w) ==
  /\ manifest' = manifest \cup {w}
  /\ events' = [events EXCEPT ![w] = @ \cup {Planned}]
  /\ UNCHANGED children

\* Mutated form: every stage leaves a child.
StoreChildAlways(w, s) ==
  /\ children' = [children EXCEPT ![w] = @ \cup {s}]
  /\ UNCHANGED <<manifest, events>>

\* Mutated form: two children in one transaction.
StoreChildPaired(w, s) ==
  /\ s \in WritingStages(w) => Admitted(w, s)
  /\ children' = [children EXCEPT ![w] = @ \cup ({s, s + 1} \cap WritingStages(w))]
  /\ UNCHANGED <<manifest, events>>

\* A stage that writes nothing goes straight to its checkpoint.
StoreChild(w, s) ==
  /\ s \in WritingStages(w) => Admitted(w, s)
  /\ children' = [children EXCEPT ![w] = @ \cup ({s} \cap WritingStages(w))]
  /\ UNCHANGED <<manifest, events>>

\* Mutated form: the event is stored one sequence number too far.
StoreEventSkipping(w, s) ==
  /\ events' = [events EXCEPT ![w] = @ \cup {s + 1}]
  /\ UNCHANGED <<manifest, children>>

StoreEvent(w, s) ==
  /\ events' = [events EXCEPT ![w] = @ \cup {s}]
  /\ UNCHANGED <<manifest, children>>

-----------------------------------------------------------------------------
Init ==
  /\ manifest = {}
  /\ events = [w \in Workflows |-> {}]
  /\ children = [w \in Workflows |-> {}]
  /\ pc = [r \in Runners |-> "idle"]
  /\ flow \in [Runners -> Workflows]
  /\ purpose = [r \in Runners |-> "resume"]
  /\ seq = [r \in Runners |-> 0]
  /\ found = [r \in Runners |-> 0]
  /\ held = [r \in Runners |-> 0]
  /\ faults = 0

GoTo(r, label) == pc' = [pc EXCEPT ![r] = label]

\* The call is over, by return or by exception, and its locals are gone.
Leave(r, label) ==
  /\ GoTo(r, label)
  /\ purpose' = [purpose EXCEPT ![r] = "resume"]
  /\ seq' = [seq EXCEPT ![r] = 0]
  /\ found' = [found EXCEPT ![r] = 0]
  /\ held' = [held EXCEPT ![r] = 0]

\* Enter load: the manifest row, then the event rows from sequence 0 on.
Load(r, why) ==
  /\ GoTo(r, "manifest")
  /\ purpose' = [purpose EXCEPT ![r] = why]
  /\ seq' = [seq EXCEPT ![r] = 0]
  /\ found' = [found EXCEPT ![r] = 0]

\* run_post_match_workflow is called, for the first time or again.
StartRun(r, w) ==
  /\ pc[r] \in Resting
  /\ flow' = [flow EXCEPT ![r] = w]
  /\ held' = [held EXCEPT ![r] = 0]
  /\ Load(r, "resume")
  /\ UNCHANGED <<database, faults>>

\* The first SELECT of load.  Only a run that starts may find no manifest.
ReadManifest(r) ==
  /\ pc[r] = "manifest"
  /\ \/ flow[r] \in manifest /\ GoTo(r, "events") /\ UNCHANGED locals
     \/ flow[r] \notin manifest /\ purpose[r] = "resume" /\ GoTo(r, "create")
        /\ UNCHANGED locals
     \/ flow[r] \notin manifest /\ purpose[r] # "resume" /\ Leave(r, "malformed")
  /\ UNCHANGED <<database, flow, faults>>

\* One SELECT for one sequence number.  A row after a missing row is a
\* malformed history.
ReadEvent(r) ==
  /\ pc[r] = "events"
  /\ seq[r] \in Stages
  /\ LET stored == seq[r] \in events[flow[r]]
         gap    == found[r] < seq[r]
     IN  IF stored /\ gap
           THEN Leave(r, "malformed")
           ELSE /\ seq' = [seq EXCEPT ![r] = @ + 1]
                /\ found' = [found EXCEPT ![r] = IF stored THEN @ + 1 ELSE @]
                /\ UNCHANGED <<pc, purpose, held>>
  /\ UNCHANGED <<database, flow, faults>>

AllRead(r) == pc[r] = "events" /\ seq[r] \notin Stages

\* Mutated form: the checkpoint is appended before its child is written.
TakeHistoryCheckpointFirst(r) ==
  /\ AllRead(r)
  /\ purpose[r] # "check"
  /\ found[r] \in Stages \ {Planned}
  /\ held' = [held EXCEPT ![r] = found[r] - 1]
  /\ GoTo(r, "append")
  /\ UNCHANGED <<database, flow, purpose, seq, found, faults>>

\* Mutated form: the last child counts as completion.
TakeHistoryEarly(r) ==
  /\ AllRead(r)
  /\ purpose[r] # "check"
  /\ \/ found[r] = 0 /\ Leave(r, "malformed")
     \/ found[r] - 1 >= Simulation /\ Leave(r, "done")
     \/ /\ found[r] - 1 \in Planned .. Predictions
        /\ held' = [held EXCEPT ![r] = found[r] - 1]
        /\ GoTo(r, "child")
        /\ UNCHANGED <<purpose, seq, found>>
  /\ UNCHANGED <<database, flow, faults>>

\* A run takes the history it loaded: it is over once that history is
\* complete, and an empty history is malformed.
TakeHistory(r) ==
  /\ AllRead(r)
  /\ purpose[r] # "check"
  /\ \/ found[r] = 0 /\ Leave(r, "malformed")
     \/ found[r] - 1 = Completed /\ Leave(r, "done")
     \/ /\ found[r] - 1 \in Planned .. Simulation
        /\ held' = [held EXCEPT ![r] = found[r] - 1]
        /\ GoTo(r, "child")
        /\ UNCHANGED <<purpose, seq, found>>
  /\ UNCHANGED <<database, flow, faults>>

\* Mutated form: off by one, the history must already hold the event.
LastOfRead(r) == found[r] \in Stages \ {Planned} /\ found[r] = held[r] + 2

\* The event r is about to append is the successor of the history r has read;
\* a complete one has no successor.
SuccessorOfRead(r) == found[r] \in Stages \ {Planned} /\ found[r] = held[r] + 1

\* append compares the event it was given with the history it has just read;
\* the load before it raises if there is none.
CheckEvent(r) ==
  /\ AllRead(r)
  /\ purpose[r] = "check"
  /\ \/ found[r] = 0 /\ Leave(r, "malformed")
     \/ found[r] # 0 /\ SuccessorOfRead(r)  /\ GoTo(r, "append") /\ UNCHANGED locals
     \/ found[r] # 0 /\ ~SuccessorOfRead(r) /\ Leave(r, "refused")
  /\ UNCHANGED <<database, flow, faults>>

Create(r) ==
  /\ pc[r] = "create"
  /\ StoreManifest(flow[r])
  /\ Load(r, "written")
  /\ UNCHANGED <<flow, held, faults>>

WriteChild(r) ==
  /\ pc[r] = "child"
  /\ StoreChild(flow[r], held[r] + 1)
  /\ Load(r, "check")
  /\ UNCHANGED <<flow, held, faults>>

\* The transaction of the child violates a constraint and rolls back.
ChildRejected(r) ==
  /\ pc[r] = "child"
  /\ held[r] + 1 \in WritingStages(flow[r])
  /\ ~Admitted(flow[r], held[r] + 1)
  /\ Leave(r, "interrupted")
  /\ UNCHANGED <<database, flow, faults>>

AppendEvent(r) ==
  /\ pc[r] = "append"
  /\ StoreEvent(flow[r], held[r] + 1)
  /\ held' = [held EXCEPT ![r] = 0]
  /\ Load(r, "written")
  /\ UNCHANGED <<flow, faults>>

-----------------------------------------------------------------------------
(* Faults.                                                                 *)

Fault(r, label) ==
  /\ pc[r] \in Calling
  /\ faults < MaxFaults
  /\ faults' = faults + 1
  /\ Leave(r, label)
  /\ UNCHANGED flow

\* A read or a transaction fails, or the raw manifest cannot be verified: the
\* runner raises PostMatchWorkflowInterrupted.
DatabaseError(r) == Fault(r, "interrupted") /\ UNCHANGED database

\* The transaction commits and its acknowledgement never arrives.
LostAcknowledgement(r) ==
  /\ Fault(r, "interrupted")
  /\ \/ pc[r] = "create" /\ StoreManifest(flow[r])
     \/ pc[r] = "child"  /\ StoreChild(flow[r], held[r] + 1)
     \/ pc[r] = "append" /\ StoreEvent(flow[r], held[r] + 1)

\* The process dies; an open transaction rolls back.
Crash(r) == Fault(r, "idle") /\ UNCHANGED database

-----------------------------------------------------------------------------
Step(r) ==
  \/ ReadManifest(r) \/ ReadEvent(r) \/ TakeHistory(r) \/ CheckEvent(r)
  \/ Create(r) \/ WriteChild(r) \/ ChildRejected(r) \/ AppendEvent(r)

Next ==
  \E r \in Runners :
    \/ \E w \in Workflows : StartRun(r, w)
    \/ Step(r)
    \/ DatabaseError(r) \/ LostAcknowledgement(r) \/ Crash(r)

Spec == Init /\ [][Next]_vars

\* A call that has started runs on, and a caller keeps calling until the
\* workflow completes.  The repository schedules neither: it is what the word
\* "retryable" asks of the caller.
FairSpec ==
  /\ Spec
  /\ \A r \in Runners : WF_vars(Step(r))
  /\ \A w \in Workflows : SF_vars(\E r \in Runners : StartRun(r, w))

-----------------------------------------------------------------------------
(* Properties.                                                             *)

\* Every variable keeps its type; a load never reads past the last sequence.
TypeOK ==
  /\ manifest \in SUBSET Workflows
  /\ events \in [Workflows -> SUBSET Stages]
  /\ children \in [Workflows -> SUBSET (Evaluations .. Simulation)]
  /\ pc \in [Runners -> Resting \cup Calling]
  /\ flow \in [Runners -> Workflows]
  /\ purpose \in [Runners -> Purposes]
  /\ seq \in [Runners -> 0 .. Completed + 1]
  /\ found \in [Runners -> 0 .. Completed + 1]
  /\ held \in [Runners -> Stages]
  /\ faults \in 0 .. MaxFaults

\* The journal of a workflow is an unbroken run of checkpoints from "planned"
\* on, however the runners interleave and wherever they are cut off: load
\* calls anything else malformed.
JournalIsPrefix ==
  \A w \in Workflows, s \in Stages :
    s \in events[w] => w \in manifest /\ (s > 0 => (s - 1) \in events[w])

\* No checkpoint claims a stage whose children are not committed: the runner
\* executes the child write before it appends the stage's event.
CheckpointBacked ==
  \A w \in Workflows :
    \A s \in events[w] \cap WritingStages(w) : s \in children[w]

\* No child is written ahead of the checkpoint of the stage before it, even by
\* a runner that resumes from a journal another runner keeps extending.
ChildrenFollowCheckpoints ==
  \A w \in Workflows : \A s \in children[w] : (s - 1) \in events[w]

\* The operational team state of a season never forks: of two stored
\* advancements one builds on all the evidence of the other, whatever
\* workflows ran against each other.
OperationalStateNeverForks ==
  \A a, b \in StoredAdvancements :
    a # b => Post(a) \subseteq Pre[b] \/ Post(b) \subseteq Pre[a]

\* A runner that returns a complete history has every stage of its workflow
\* and every child the manifest pins in the database, and they stay there.
CompletionIsDurable ==
  \A r \in Runners :
    pc[r] = "done" =>
      /\ Stages \subseteq events[flow[r]]
      /\ WritingStages(flow[r]) \subseteq children[flow[r]]

\* The journal and the child tables implement the ledger: each transaction is
\* a step of the ledger and all else is invisible to it.
Ledger == INSTANCE PostMatchLedger WITH checkpoints <- events, effects <- children
ImplementsLedger == Ledger!LedgerSpec

\* Rows of other workflows stand where rows of w would have to.
Superseded(w) ==
  \/ ~EvaluationsAdmitted(w)
  \/ \E b \in StoredAdvancements : AdvancementsClash(AdvancementOf[w], b)
  \/ \E s \in {Predictions, Simulation} :
       \E x \in Outputs(w, s), y \in StoredOutputs(s) : OutputsClash(x, y)

\* A workflow whose caller keeps retrying completes, unless others took its
\* place: no interleaving of runners, no lost acknowledgement and no crash
\* leaves a journal that cannot be resumed.
RetriesComplete ==
  \A w \in Workflows : <>(Completed \in events[w] \/ Superseded(w))
=============================================================================
