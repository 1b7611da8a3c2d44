--------------------------- MODULE PostMatchProofs ---------------------------
(***************************************************************************)
(* Proofs about the post-match workflow, for every set of runners and      *)
(* workflows and every number of faults.                                   *)
(***************************************************************************)
EXTENDS PostMatchWorkflow, TLAPS

USE DEF Planned, Evaluations, Advancement, Predictions, Simulation, Completed, Stages

-----------------------------------------------------------------------------
(* The inductive invariant.                                                *)

\* What the locals of a runner say of the database stays true while others
\* write to it, since nothing is ever removed.
RunnerKnows(r) ==
  /\ found[r] <= seq[r]
  /\ found[r] > 0 => (found[r] - 1) \in events[flow[r]]
  /\ pc[r] = "child" \/ purpose[r] = "check" =>
       held[r] < Completed /\ held[r] \in events[flow[r]]
  /\ pc[r] = "append" => purpose[r] = "check"
  /\ purpose[r] = "check" /\ (held[r] + 1) \in WritingStages(flow[r]) =>
       (held[r] + 1) \in children[flow[r]]
  /\ pc[r] = "done" => Completed \in events[flow[r]]

\* The advancements in D form one chain from the empty state: any two are
\* ordered, no two start from one state, and wherever one lies below another
\* there is one that starts where it ends.
ChainOf(D) ==
  /\ \A a, b \in D : a # b => Post(a) \subseteq Pre[b] \/ Post(b) \subseteq Pre[a]
  /\ \A a, b \in D : a # b => Pre[a] # Pre[b]
  /\ \A a, b \in D : Post(a) \subseteq Pre[b] => \E x \in D : Pre[x] = Post(a)
  /\ D # {} => \E x \in D : Pre[x] = {}

DatabaseInv ==
  /\ JournalIsPrefix
  /\ CheckpointBacked
  /\ ChildrenFollowCheckpoints
  /\ ChainOf(StoredAdvancements)

IInv == TypeOK /\ DatabaseInv /\ \A r \in Runners : RunnerKnows(r)

-----------------------------------------------------------------------------
(* Facts about the inputs and about chains of team states.                 *)

LEMMA PinnedAdvancements ==
  /\ \A w \in Workflows : AdvancementOf[w] \in Advancements
  /\ StoredAdvancements \subseteq Advancements
<1>1. \A w \in Workflows : AdvancementOf[w] \in Advancements
  BY WorkflowInputs
<1> QED
  BY <1>1 DEF StoredAdvancements, Storing

\* An advancement adds something: its post-state is not below its pre-state.
LEMMA BatchIsNew ==
  ASSUME NEW a \in Advancements
  PROVE  ~(Post(a) \subseteq Pre[a])
<1>1. PICK x \in Applied[a] : TRUE
  BY WorkflowInputs
<1>2. x.evidence \in Batch(a)
  BY DEF Batch
<1>3. x.evidence \notin Pre[a]
  BY <1>2, WorkflowInputs
<1> QED
  BY <1>2, <1>3 DEF Post

\* An advancement whose predecessor is stored starts where one ends, or at the
\* empty state.
LEMMA StartsAtAnEnd ==
  ASSUME NEW D \in SUBSET Advancements, NEW a \in Advancements,
         Prior[a] \in D \cup {Initial}
  PROVE  Pre[a] = {} \/ \E b \in D : Post(b) = Pre[a]
BY WorkflowInputs

\* An advancement the store inserts, appended to a chain, leaves a chain.
LEMMA ChainExtends ==
  ASSUME NEW D \in SUBSET Advancements, ChainOf(D),
         NEW a \in Advancements \ D,
         Prior[a] \in D \cup {Initial},
         \A b \in D : ~AdvancementsClash(a, b)
  PROVE  ChainOf(D \cup {a})
<1>1. \A b \in D : Pre[b] # Pre[a]
  BY DEF AdvancementsClash
<1>2. ~(Post(a) \subseteq Pre[a])
  BY BatchIsNew
<1>3. CASE Pre[a] = {}
  <2>1. D = {}
    BY <1>1, <1>3 DEF ChainOf
  <2> QED
    BY <2>1, <1>2, <1>3 DEF ChainOf
<1>4. ASSUME NEW c \in D, Post(c) = Pre[a]
      PROVE  ChainOf(D \cup {a})
  <2>1. ~ \E x \in D : Pre[x] = Post(c)
    BY <1>1, <1>4
  <2>2. \A b \in D : ~(Post(c) \subseteq Pre[b])
    BY <2>1, <1>4 DEF ChainOf
  <2>3. \A b \in D \ {c} : Post(b) \subseteq Pre[c]
    BY <2>2, <1>4 DEF ChainOf
  <2>4. \A b \in D : Post(b) \subseteq Pre[a]
    BY <2>3, <1>4 DEF Post
  <2>5. \A b \in D : ~(Post(a) \subseteq Pre[b])
    BY <2>4, <1>2 DEF Post
  <2>6. \A b \in D : \E x \in D \cup {a} : Pre[x] = Post(b)
    BY <2>3, <1>4 DEF ChainOf
  <2>7. \E x \in D : Pre[x] = {}
    BY <1>4 DEF ChainOf
  <2>8. \A s, b \in D \cup {a} : s # b => Post(s) \subseteq Pre[b] \/ Post(b) \subseteq Pre[s]
    BY <2>4 DEF ChainOf
  <2>9. \A s, b \in D \cup {a} : s # b => Pre[s] # Pre[b]
    BY <1>1 DEF ChainOf
  <2>10. \A s, b \in D \cup {a} :
           Post(s) \subseteq Pre[b] => \E x \in D \cup {a} : Pre[x] = Post(s)
    BY <2>5, <2>6, <1>2
  <2> QED
    BY <2>7, <2>8, <2>9, <2>10 DEF ChainOf
<1> QED
  BY <1>3, <1>4, StartsAtAnEnd

-----------------------------------------------------------------------------
(* Type correctness.                                                       *)

LEMMA TypeInit == Init => TypeOK
BY RunnerInputs DEF Init, TypeOK, Resting, Purposes

LEMMA LeaveTyped ==
  ASSUME TypeOK, NEW r \in Runners, NEW label \in Resting, Leave(r, label)
  PROVE  /\ pc' \in [Runners -> Resting \cup Calling]
         /\ purpose' \in [Runners -> Purposes]
         /\ seq' \in [Runners -> 0 .. Completed + 1]
         /\ found' \in [Runners -> 0 .. Completed + 1]
         /\ held' \in [Runners -> Stages]
BY DEF TypeOK, Leave, GoTo, Resting, Purposes

LEMMA LoadTyped ==
  ASSUME TypeOK, NEW r \in Runners, NEW why \in Purposes, Load(r, why)
  PROVE  /\ pc' \in [Runners -> Resting \cup Calling]
         /\ purpose' \in [Runners -> Purposes]
         /\ seq' \in [Runners -> 0 .. Completed + 1]
         /\ found' \in [Runners -> 0 .. Completed + 1]
BY DEF TypeOK, Load, GoTo, Calling, Loading, Purposes

LEMMA StoreTyped ==
  ASSUME TypeOK, NEW w \in Workflows, NEW s \in Evaluations .. Completed,
         StoreManifest(w) \/ StoreChild(w, s) \/ StoreEvent(w, s)
  PROVE  /\ manifest' \in SUBSET Workflows
         /\ events' \in [Workflows -> SUBSET Stages]
         /\ children' \in [Workflows -> SUBSET (Evaluations .. Simulation)]
<1>1. WritingStages(w) \subseteq Evaluations .. Simulation
  BY DEF WritingStages
<1>2. CASE StoreManifest(w)
  BY <1>2 DEF TypeOK, StoreManifest
<1>3. CASE StoreChild(w, s)
  BY <1>1, <1>3 DEF TypeOK, StoreChild
<1>4. CASE StoreEvent(w, s)
  BY <1>4 DEF TypeOK, StoreEvent
<1> QED
  BY <1>2, <1>3, <1>4

LEMMA TypeStep == IInv /\ [Next]_vars => TypeOK'
<1> SUFFICES ASSUME IInv, [Next]_vars PROVE TypeOK'
  OBVIOUS
<1> USE DEF IInv
<1>1. CASE UNCHANGED vars
  BY <1>1 DEF vars, TypeOK
<1> SUFFICES ASSUME NEW r \in Runners,
                    \/ \E w \in Workflows : StartRun(r, w)
                    \/ Step(r) \/ DatabaseError(r) \/ LostAcknowledgement(r) \/ Crash(r)
             PROVE  TypeOK'
  BY <1>1 DEF Next
<1>2. /\ flow[r] \in Workflows
      /\ pc[r] \in {"child", "append"} => held[r] + 1 \in Evaluations .. Completed
  BY DEF TypeOK, RunnerKnows
<1>3. ASSUME NEW w \in Workflows, StartRun(r, w) PROVE TypeOK'
  BY <1>3, LoadTyped DEF StartRun, TypeOK, database, Purposes
<1>4. CASE ReadManifest(r)
  BY <1>4, LeaveTyped
     DEF ReadManifest, TypeOK, database, locals, GoTo, Resting, Calling, Loading
<1>5. CASE ReadEvent(r)
  BY <1>5, LeaveTyped DEF ReadEvent, TypeOK, database, RunnerKnows, Resting
<1>6. CASE TakeHistory(r)
  BY <1>6, LeaveTyped DEF TakeHistory, AllRead, TypeOK, database, GoTo, Resting, Calling
<1>7. CASE CheckEvent(r)
  BY <1>7, LeaveTyped
     DEF CheckEvent, SuccessorOfRead, AllRead, TypeOK, database, locals, GoTo, Resting, Calling
<1>8. CASE Create(r)
  BY <1>2, <1>8, LoadTyped, StoreTyped DEF Create, TypeOK, Purposes
<1>9. CASE WriteChild(r)
  BY <1>2, <1>9, LoadTyped, StoreTyped DEF WriteChild, TypeOK, Purposes
<1>10. CASE ChildRejected(r)
  BY <1>10, LeaveTyped DEF ChildRejected, TypeOK, database, Resting
<1>11. CASE AppendEvent(r)
  BY <1>2, <1>11, LoadTyped, StoreTyped DEF AppendEvent, TypeOK, Purposes
<1>12. CASE DatabaseError(r) \/ Crash(r)
  BY <1>12, LeaveTyped, RunnerInputs
     DEF DatabaseError, Crash, Fault, TypeOK, database, Resting
<1>13. CASE LostAcknowledgement(r)
  <2>1. faults' \in 0 .. MaxFaults /\ flow' = flow /\ Leave(r, "interrupted")
    BY <1>13, RunnerInputs DEF LostAcknowledgement, Fault, TypeOK
  <2>2. \/ StoreManifest(flow[r])
        \/ \E s \in Evaluations .. Completed :
             StoreChild(flow[r], s) \/ StoreEvent(flow[r], s)
    BY <1>2, <1>13 DEF LostAcknowledgement
  <2> QED
    BY <1>2, <2>1, <2>2, LeaveTyped, StoreTyped DEF TypeOK, Resting
<1> QED
  BY <1>3, <1>4, <1>5, <1>6, <1>7, <1>8, <1>9, <1>10, <1>11, <1>12, <1>13 DEF Step

-----------------------------------------------------------------------------
(* The database: what each transaction preserves.                          *)

LEMMA AdmittedAdvancement ==
  ASSUME NEW w \in Workflows, Admitted(w, Advancement)
  PROVE  AdvancementAdmitted(w)
BY DEF Admitted

\* The stored advancements only change when one is stored that was not.
LEMMA StoreGrows ==
  ASSUME TypeOK, NEW w \in Workflows, NEW s \in Evaluations .. Completed, StoreChild(w, s)
  PROVE  \/ StoredAdvancements' = StoredAdvancements
         \/ /\ s = Advancement
            /\ AdvancementOf[w] \notin StoredAdvancements
            /\ StoredAdvancements' = StoredAdvancements \cup {AdvancementOf[w]}
<1> USE DEF TypeOK, StoreChild
<1>1. CASE s # Advancement
  <2>1. Storing(Advancement)' = Storing(Advancement)
    BY <1>1 DEF Storing
  <2> QED
    BY <2>1 DEF StoredAdvancements
<1>2. CASE s = Advancement
  <2>1. Storing(Advancement)' = Storing(Advancement) \cup {w}
    BY <1>2 DEF Storing, WritingStages
  <2>2. StoredAdvancements' = StoredAdvancements \cup {AdvancementOf[w]}
    BY <2>1 DEF StoredAdvancements
  <2> QED
    BY <1>2, <2>2
<1> QED
  BY <1>1, <1>2

LEMMA ManifestKeeps ==
  ASSUME TypeOK, DatabaseInv, NEW w \in Workflows, StoreManifest(w)
  PROVE  DatabaseInv'
<1> USE DEF TypeOK, DatabaseInv, StoreManifest
<1>1. JournalIsPrefix'
  BY DEF JournalIsPrefix
<1>2. CheckpointBacked'
  BY DEF CheckpointBacked, WritingStages
<1>3. ChildrenFollowCheckpoints'
  BY DEF ChildrenFollowCheckpoints
<1>4. ChainOf(StoredAdvancements)'
  <2>1. StoredAdvancements' = StoredAdvancements
    BY DEF StoredAdvancements, Storing
  <2> QED
    BY <2>1 DEF ChainOf, Post, Batch
<1> QED
  BY <1>1, <1>2, <1>3, <1>4

LEMMA ChildKeeps ==
  ASSUME TypeOK, DatabaseInv, NEW w \in Workflows, NEW s \in Evaluations .. Completed,
         StoreChild(w, s), (s - 1) \in events[w]
  PROVE  DatabaseInv'
<1> USE DEF TypeOK, DatabaseInv, StoreChild
<1>1. JournalIsPrefix'
  BY DEF JournalIsPrefix
<1>2. CheckpointBacked'
  BY DEF CheckpointBacked, WritingStages
<1>3. ChildrenFollowCheckpoints'
  BY DEF ChildrenFollowCheckpoints
<1>4. ChainOf(StoredAdvancements)'
  <2>1. CASE StoredAdvancements' = StoredAdvancements
    BY <2>1 DEF ChainOf, Post, Batch
  <2>2. CASE StoredAdvancements' # StoredAdvancements
    <3>1. /\ s = Advancement
          /\ AdvancementOf[w] \notin StoredAdvancements
          /\ StoredAdvancements' = StoredAdvancements \cup {AdvancementOf[w]}
      BY <2>2, StoreGrows
    <3>2. AdvancementAdmitted(w)
      BY <3>1, AdmittedAdvancement DEF WritingStages
    <3>3. StoredAdvancements \in SUBSET Advancements /\ AdvancementOf[w] \in Advancements
      BY PinnedAdvancements
    <3>4. ChainOf(StoredAdvancements \cup {AdvancementOf[w]})
      BY <3>1, <3>2, <3>3, ChainExtends DEF AdvancementAdmitted
    <3> QED
      BY <3>1, <3>4 DEF ChainOf, Post, Batch
  <2> QED
    BY <2>1, <2>2
<1> QED
  BY <1>1, <1>2, <1>3, <1>4

LEMMA EventKeeps ==
  ASSUME TypeOK, DatabaseInv, NEW w \in Workflows, NEW s \in Evaluations .. Completed,
         StoreEvent(w, s), (s - 1) \in events[w],
         s \in WritingStages(w) => s \in children[w]
  PROVE  DatabaseInv'
<1> USE DEF TypeOK, DatabaseInv, StoreEvent
<1>1. JournalIsPrefix'
  BY DEF JournalIsPrefix
<1>2. CheckpointBacked'
  BY DEF CheckpointBacked, WritingStages
<1>3. ChildrenFollowCheckpoints'
  BY DEF ChildrenFollowCheckpoints
<1>4. ChainOf(StoredAdvancements)'
  <2>1. StoredAdvancements' = StoredAdvancements
    BY DEF StoredAdvancements, Storing
  <2> QED
    BY <2>1 DEF ChainOf, Post, Batch
<1> QED
  BY <1>1, <1>2, <1>3, <1>4

-----------------------------------------------------------------------------
(* Every step leaves the database alone or is one of the transactions.     *)

Transaction(r) ==
  \/ StoreManifest(flow[r])
  \/ \E s \in Evaluations .. Completed :
       /\ (s - 1) \in events[flow[r]]
       /\ \/ StoreChild(flow[r], s)
          \/ /\ StoreEvent(flow[r], s)
             /\ s \in WritingStages(flow[r]) => s \in children[flow[r]]

LEMMA StepIsTransaction ==
  IInv /\ [Next]_vars => UNCHANGED database \/ \E r \in Runners : Transaction(r)
<1> SUFFICES ASSUME IInv, [Next]_vars
             PROVE  UNCHANGED database \/ \E r \in Runners : Transaction(r)
  OBVIOUS
<1>1. CASE UNCHANGED vars
  BY <1>1 DEF vars, database
<1> SUFFICES ASSUME NEW r \in Runners,
                    \/ \E w \in Workflows : StartRun(r, w)
                    \/ Step(r) \/ DatabaseError(r) \/ LostAcknowledgement(r) \/ Crash(r)
             PROVE  UNCHANGED database \/ Transaction(r)
  BY <1>1 DEF Next
<1>2. held[r] \in Stages
  BY DEF IInv, TypeOK
<1>3. pc[r] = "child" /\ StoreChild(flow[r], held[r] + 1) => Transaction(r)
  <2> SUFFICES ASSUME pc[r] = "child", StoreChild(flow[r], held[r] + 1)
               PROVE  Transaction(r)
    OBVIOUS
  <2>1. held[r] + 1 \in Evaluations .. Completed /\ (held[r] + 1) - 1 \in events[flow[r]]
    BY <1>2 DEF IInv, RunnerKnows
  <2> QED
    BY <2>1 DEF Transaction
<1>4. pc[r] = "append" /\ StoreEvent(flow[r], held[r] + 1) => Transaction(r)
  <2> SUFFICES ASSUME pc[r] = "append", StoreEvent(flow[r], held[r] + 1)
               PROVE  Transaction(r)
    OBVIOUS
  <2>1. /\ held[r] + 1 \in Evaluations .. Completed
        /\ (held[r] + 1) - 1 \in events[flow[r]]
        /\ (held[r] + 1) \in WritingStages(flow[r]) => (held[r] + 1) \in children[flow[r]]
    BY <1>2 DEF IInv, RunnerKnows
  <2> QED
    BY <2>1 DEF Transaction
<1>5. CASE Create(r) \/ WriteChild(r) \/ AppendEvent(r)
  BY <1>3, <1>4, <1>5 DEF Create, WriteChild, AppendEvent, Transaction
<1>6. CASE LostAcknowledgement(r)
  BY <1>3, <1>4, <1>6 DEF LostAcknowledgement, Transaction
<1>7. CASE ReadManifest(r) \/ ReadEvent(r) \/ TakeHistory(r) \/ CheckEvent(r)
  BY <1>7 DEF ReadManifest, ReadEvent, TakeHistory, CheckEvent, SuccessorOfRead
<1>8. CASE ChildRejected(r) \/ DatabaseError(r) \/ Crash(r)
  BY <1>8 DEF ChildRejected, DatabaseError, Crash
<1>9. CASE \E w \in Workflows : StartRun(r, w)
  BY <1>9 DEF StartRun
<1> QED
  BY <1>5, <1>6, <1>7, <1>8, <1>9 DEF Step

LEMMA DatabaseStep == IInv /\ [Next]_vars => DatabaseInv'
<1> SUFFICES ASSUME IInv, [Next]_vars PROVE DatabaseInv'
  OBVIOUS
<1>1. CASE UNCHANGED database
  BY <1>1
     DEF IInv, database, DatabaseInv, JournalIsPrefix, CheckpointBacked,
         ChildrenFollowCheckpoints, WritingStages, ChainOf, StoredAdvancements,
         Storing, Post, Batch
<1>2. ASSUME NEW r \in Runners, Transaction(r) PROVE DatabaseInv'
  <2>1. flow[r] \in Workflows
    BY DEF IInv, TypeOK
  <2> QED
    BY <1>2, <2>1, ManifestKeeps, ChildKeeps, EventKeeps DEF Transaction, IInv
<1> QED
  BY <1>1, <1>2, StepIsTransaction

\* Nothing is removed from the database.
LEMMA DatabaseGrows ==
  ASSUME IInv, [Next]_vars, NEW w \in Workflows
  PROVE  events[w] \subseteq events'[w] /\ children[w] \subseteq children'[w]
<1>1. CASE UNCHANGED database
  BY <1>1 DEF database
<1>2. ASSUME NEW r \in Runners, Transaction(r)
      PROVE  events[w] \subseteq events'[w] /\ children[w] \subseteq children'[w]
  BY <1>2 DEF Transaction, StoreManifest, StoreChild, StoreEvent, IInv, TypeOK
<1> QED
  BY <1>1, <1>2, StepIsTransaction

-----------------------------------------------------------------------------
(* The runners: what each step leaves the acting runner, and the others,   *)
(* knowing.                                                                *)

SameLocals(r) ==
  /\ pc'[r] = pc[r] /\ flow'[r] = flow[r] /\ purpose'[r] = purpose[r]
  /\ seq'[r] = seq[r] /\ found'[r] = found[r] /\ held'[r] = held[r]

LEMMA OthersKnow ==
  ASSUME IInv, [Next]_vars, NEW r \in Runners, SameLocals(r)
  PROVE  RunnerKnows(r)'
<1>1. flow[r] \in Workflows
  BY DEF IInv, TypeOK
<1>2. /\ events[flow[r]] \subseteq events'[flow[r]]
      /\ children[flow[r]] \subseteq children'[flow[r]]
  BY <1>1, DatabaseGrows
<1> QED
  BY <1>2 DEF IInv, RunnerKnows, SameLocals, WritingStages

LEMMA LeaveKnows ==
  ASSUME TypeOK, NEW r \in Runners, NEW label \in Resting, Leave(r, label),
         label = "done" => Completed \in events'[flow'[r]]
  PROVE  RunnerKnows(r)'
BY DEF TypeOK, Leave, GoTo, Resting, RunnerKnows

LEMMA LoadKnows ==
  ASSUME TypeOK, NEW r \in Runners, NEW why \in Purposes, Load(r, why),
         why = "check" =>
           /\ held'[r] < Completed /\ held'[r] \in events'[flow'[r]]
           /\ (held'[r] + 1) \in WritingStages(flow'[r]) =>
                (held'[r] + 1) \in children'[flow'[r]]
  PROVE  RunnerKnows(r)'
BY DEF TypeOK, Load, GoTo, RunnerKnows, WritingStages

LEMMA ActorKnows ==
  ASSUME IInv, NEW r \in Runners,
         \/ \E w \in Workflows : StartRun(r, w)
         \/ Step(r) \/ DatabaseError(r) \/ LostAcknowledgement(r) \/ Crash(r)
  PROVE  RunnerKnows(r)'
<1> USE DEF IInv
<1>1. ASSUME NEW w \in Workflows, StartRun(r, w) PROVE RunnerKnows(r)'
  BY <1>1, LoadKnows DEF StartRun, Purposes
<1>2. CASE ReadManifest(r)
  <2>1. CASE Leave(r, "malformed")
    BY <2>1, LeaveKnows DEF Resting
  <2>2. CASE /\ pc' = [pc EXCEPT ![r] = "events"] \/ pc' = [pc EXCEPT ![r] = "create"]
             /\ UNCHANGED <<database, locals, flow>>
    BY <2>2 DEF RunnerKnows, TypeOK, database, locals, WritingStages
  <2> QED
    BY <1>2, <2>1, <2>2 DEF ReadManifest, GoTo
<1>3. CASE ReadEvent(r)
  <2>1. CASE Leave(r, "malformed")
    BY <2>1, LeaveKnows DEF Resting
  <2>2. CASE ~Leave(r, "malformed")
    <3>1. /\ UNCHANGED <<pc, purpose, held, flow>> /\ UNCHANGED database
          /\ seq'[r] = seq[r] + 1
          /\ \/ seq[r] \notin events[flow[r]] /\ found'[r] = found[r]
             \/ seq[r] \in events[flow[r]] /\ seq[r] <= found[r] /\ found'[r] = found[r] + 1
      BY <1>3, <2>2 DEF ReadEvent, TypeOK
    <3>2. /\ found'[r] <= seq'[r]
          /\ found'[r] > 0 => (found'[r] - 1) \in events[flow[r]]
      BY <3>1 DEF RunnerKnows, TypeOK
    <3> QED
      BY <3>1, <3>2 DEF RunnerKnows, TypeOK, database, WritingStages
  <2> QED
    BY <2>1, <2>2
<1>4. CASE TakeHistory(r)
  <2>1. CASE Leave(r, "malformed")
    BY <2>1, LeaveKnows DEF Resting
  <2>2. CASE found[r] - 1 = Completed /\ Leave(r, "done")
    <3>1. Completed \in events'[flow'[r]]
      BY <1>4, <2>2 DEF TakeHistory, RunnerKnows, TypeOK, database
    <3> QED
      BY <2>2, <3>1, LeaveKnows DEF Resting
  <2>3. CASE /\ found[r] - 1 \in Planned .. Simulation
             /\ held' = [held EXCEPT ![r] = found[r] - 1]
             /\ GoTo(r, "child")
             /\ UNCHANGED <<purpose, seq, found>>
    BY <1>4, <2>3 DEF TakeHistory, RunnerKnows, TypeOK, database, GoTo, WritingStages
  <2> QED
    BY <1>4, <2>1, <2>2, <2>3 DEF TakeHistory
<1>5. CASE CheckEvent(r)
  <2>1. CASE Leave(r, "malformed") \/ Leave(r, "refused")
    BY <2>1, LeaveKnows DEF Resting
  <2>2. CASE GoTo(r, "append") /\ UNCHANGED locals
    BY <1>5, <2>2 DEF CheckEvent, SuccessorOfRead, RunnerKnows, TypeOK, database, locals, GoTo, WritingStages
  <2> QED
    BY <1>5, <2>1, <2>2 DEF CheckEvent, SuccessorOfRead
<1>6. CASE Create(r)
  BY <1>6, LoadKnows DEF Create, Purposes
<1>7. CASE WriteChild(r)
  <2>1. /\ held'[r] < Completed /\ held'[r] \in events'[flow'[r]]
        /\ (held'[r] + 1) \in WritingStages(flow'[r]) =>
             (held'[r] + 1) \in children'[flow'[r]]
    BY <1>7 DEF WriteChild, StoreChild, RunnerKnows, TypeOK, WritingStages
  <2> QED
    BY <1>7, <2>1, LoadKnows DEF WriteChild, Purposes
<1>8. CASE ChildRejected(r)
  BY <1>8, LeaveKnows DEF ChildRejected, Resting
<1>9. CASE AppendEvent(r)
  BY <1>9, LoadKnows DEF AppendEvent, Purposes
<1>10. CASE DatabaseError(r) \/ LostAcknowledgement(r) \/ Crash(r)
  BY <1>10, LeaveKnows DEF DatabaseError, LostAcknowledgement, Crash, Fault, Resting
<1> QED
  BY <1>1, <1>2, <1>3, <1>4, <1>5, <1>6, <1>7, <1>8, <1>9, <1>10 DEF Step

LEMMA RunnersStep == IInv /\ [Next]_vars => \A q \in Runners : RunnerKnows(q)'
<1> SUFFICES ASSUME IInv, [Next]_vars, NEW q \in Runners PROVE RunnerKnows(q)'
  OBVIOUS
<1>1. CASE UNCHANGED vars
  BY <1>1, OthersKnow DEF vars, SameLocals
<1>2. ASSUME NEW r \in Runners,
             \/ \E w \in Workflows : StartRun(r, w)
             \/ Step(r) \/ DatabaseError(r) \/ LostAcknowledgement(r) \/ Crash(r)
      PROVE  RunnerKnows(q)'
  <2>1. CASE q = r
    BY <1>2, <2>1, ActorKnows
  <2>2. CASE q # r
    <3>1. SameLocals(q)
      BY <1>2, <2>2
         DEF SameLocals, IInv, TypeOK, Step, StartRun, ReadManifest, ReadEvent,
             TakeHistory, CheckEvent, Create, WriteChild, ChildRejected, AppendEvent,
             DatabaseError, LostAcknowledgement, Crash, Fault, Leave, Load, GoTo, locals
    <3> QED
      BY <3>1, OthersKnow
  <2> QED
    BY <2>1, <2>2
<1> QED
  BY <1>1, <1>2 DEF Next

-----------------------------------------------------------------------------
(* The theorems.                                                           *)

LEMMA InvInit == Init => IInv
<1> SUFFICES ASSUME Init PROVE IInv
  OBVIOUS
<1>1. TypeOK
  BY TypeInit
<1>2. DatabaseInv
  BY DEF Init, DatabaseInv, JournalIsPrefix, CheckpointBacked,
         ChildrenFollowCheckpoints, ChainOf, StoredAdvancements, Storing
<1>3. \A r \in Runners : RunnerKnows(r)
  BY DEF Init, RunnerKnows
<1> QED
  BY <1>1, <1>2, <1>3 DEF IInv

LEMMA InvStep == IInv /\ [Next]_vars => IInv'
BY TypeStep, DatabaseStep, RunnersStep DEF IInv

LEMMA Invariance == Spec => []IInv
BY InvInit, InvStep, PTL DEF Spec

\* Types: whatever runners do, and however often they fail, every variable of
\* the workflow keeps its type.
THEOREM TypeCorrect == Spec => []TypeOK
<1>1. IInv => TypeOK
  BY DEF IInv
<1> QED
  BY <1>1, Invariance, PTL

\* The journal of every workflow is at all times a prefix of the canonical
\* events, so that load can only be misled by its own separate reads.
THEOREM JournalStaysPrefix == Spec => []JournalIsPrefix
<1>1. IInv => JournalIsPrefix
  BY DEF IInv, DatabaseInv
<1> QED
  BY <1>1, Invariance, PTL

\* A checkpoint in the journal is never ahead of the children it stands for.
THEOREM CheckpointsAreBacked == Spec => []CheckpointBacked
<1>1. IInv => CheckpointBacked
  BY DEF IInv, DatabaseInv
<1> QED
  BY <1>1, Invariance, PTL

\* Nor is a child ever ahead of the checkpoint before it, however many runners
\* of one workflow crash and resume: a stage writes only behind its journal.
THEOREM ChildrenKeepBehind == Spec => []ChildrenFollowCheckpoints
<1>1. IInv => ChildrenFollowCheckpoints
  BY DEF IInv, DatabaseInv
<1> QED
  BY <1>1, Invariance, PTL

\* The keys of the advancement tables keep the operational team state of a
\* season on one line, however many workflows compete for it.
THEOREM NoFork == Spec => []OperationalStateNeverForks
<1>1. IInv => OperationalStateNeverForks
  BY DEF IInv, DatabaseInv, ChainOf, OperationalStateNeverForks
<1> QED
  BY <1>1, Invariance, PTL

\* What a finished run returns is in the database.
THEOREM FinishedIsDurable == Spec => []CompletionIsDurable
<1>1. ASSUME IInv, NEW r \in Runners, pc[r] = "done"
      PROVE  /\ Stages \subseteq events[flow[r]]
             /\ WritingStages(flow[r]) \subseteq children[flow[r]]
  <2>1. flow[r] \in Workflows /\ Completed \in events[flow[r]]
    BY <1>1 DEF IInv, TypeOK, RunnerKnows
  <2>2. Simulation \in events[flow[r]]
    BY <2>1, <1>1 DEF IInv, DatabaseInv, JournalIsPrefix
  <2>3. Predictions \in events[flow[r]]
    BY <2>1, <2>2, <1>1 DEF IInv, DatabaseInv, JournalIsPrefix
  <2>4. Advancement \in events[flow[r]]
    BY <2>1, <2>3, <1>1 DEF IInv, DatabaseInv, JournalIsPrefix
  <2>5. Evaluations \in events[flow[r]]
    BY <2>1, <2>4, <1>1 DEF IInv, DatabaseInv, JournalIsPrefix
  <2>6. Stages \subseteq events[flow[r]]
    BY <2>1, <2>2, <2>3, <2>4, <2>5, <1>1 DEF IInv, DatabaseInv, JournalIsPrefix
  <2> QED
    BY <2>1, <2>6, <1>1 DEF IInv, DatabaseInv, CheckpointBacked, WritingStages
<1>2. IInv => CompletionIsDurable
  BY <1>1 DEF CompletionIsDurable
<1> QED
  BY <1>2, Invariance, PTL

-----------------------------------------------------------------------------
(* The refinement.                                                         *)

\* The instance has its own copies of the definitions both modules share.
LEMMA SameVocabulary ==
  /\ Ledger!Planned = Planned /\ Ledger!Advancement = Advancement
  /\ Ledger!Stages = Stages
  /\ \A w \in Workflows : Ledger!WritingStages(w) = WritingStages(w)
  /\ \A a, b \in Advancements : Ledger!AdvancementsClash(a, b) <=> AdvancementsClash(a, b)
  /\ Ledger!AppliedAdvancements = StoredAdvancements
BY DEF Ledger!Planned, Ledger!Evaluations, Ledger!Advancement, Ledger!Predictions,
       Ledger!Simulation, Ledger!Completed, Ledger!Stages, WritingStages,
       Ledger!WritingStages, Batch, Ledger!Batch, Post, Ledger!Post, AdvancementsClash,
       Ledger!AdvancementsClash, ShareResult, Ledger!ShareResult,
       Ledger!AppliedAdvancements, StoredAdvancements, Storing

LEMMA LedgerInitially == Init => Ledger!LedgerInit
BY DEF Init, Ledger!LedgerInit

LEMMA LedgerStep == IInv /\ [Next]_vars => [Ledger!LedgerNext]_<<events, children>>
<1> SUFFICES ASSUME IInv, [Next]_vars,
                    NEW r \in Runners, Transaction(r), ~UNCHANGED <<events, children>>
             PROVE  Ledger!LedgerNext
  BY StepIsTransaction DEF database
<1> USE DEF IInv, TypeOK
<1> DEFINE w == flow[r]
<1>1. w \in Workflows
  OBVIOUS
<1>2. CASE StoreManifest(w)
  <2>1. Planned \notin events[w]
    BY <1>1, <1>2 DEF StoreManifest
  <2>2. Evaluations \notin events[w]
    BY <1>1, <2>1 DEF DatabaseInv, JournalIsPrefix
  <2>3. Advancement \notin events[w]
    BY <1>1, <2>2 DEF DatabaseInv, JournalIsPrefix
  <2>4. Predictions \notin events[w]
    BY <1>1, <2>3 DEF DatabaseInv, JournalIsPrefix
  <2>5. Simulation \notin events[w]
    BY <1>1, <2>4 DEF DatabaseInv, JournalIsPrefix
  <2>6. Completed \notin events[w]
    BY <1>1, <2>5 DEF DatabaseInv, JournalIsPrefix
  <2>7. events[w] = {}
    BY <1>1, <2>1, <2>2, <2>3, <2>4, <2>5, <2>6
  <2>8. Ledger!Plan(w)
    BY <1>2, <2>7, SameVocabulary DEF Ledger!Plan, StoreManifest
  <2> QED
    BY <1>1, <2>8 DEF Ledger!LedgerNext, Ledger!ledgerVars
<1>3. ASSUME NEW s \in Evaluations .. Completed, (s - 1) \in events[w], StoreChild(w, s)
      PROVE  Ledger!LedgerNext
  <2>1. s \in WritingStages(w) \ children[w]
    BY <1>1, <1>3 DEF StoreChild
  <2>2. s = Advancement => Ledger!ExtendsChain(AdvancementOf[w])
    <3> SUFFICES ASSUME s = Advancement PROVE Ledger!ExtendsChain(AdvancementOf[w])
      OBVIOUS
    <3>1. AdvancementAdmitted(w)
      BY <1>1, <1>3, <2>1, AdmittedAdvancement DEF StoreChild
    <3>2. StoredAdvancements \subseteq Advancements /\ AdvancementOf[w] \in Advancements
      BY <1>1, PinnedAdvancements
    <3> QED
      BY <3>1, <3>2, SameVocabulary DEF AdvancementAdmitted, Ledger!ExtendsChain
  <2>3. Ledger!ApplyStage(w, s)
    BY <1>1, <1>3, <2>1, <2>2, SameVocabulary
       DEF Ledger!ApplyStage, Ledger!Reached, StoreChild
  <2> QED
    BY <1>1, <1>3, <2>3, SameVocabulary DEF Ledger!LedgerNext, Ledger!ledgerVars
<1>4. ASSUME NEW s \in Evaluations .. Completed, (s - 1) \in events[w], StoreEvent(w, s),
             s \in WritingStages(w) => s \in children[w]
      PROVE  Ledger!LedgerNext
  <2>1. s \in Stages \ events[w]
    BY <1>1, <1>4 DEF StoreEvent
  <2>2. Ledger!RecordStage(w, s)
    BY <1>1, <1>4, <2>1, SameVocabulary
       DEF Ledger!RecordStage, Ledger!Reached, StoreEvent
  <2> QED
    BY <1>1, <2>1, <2>2, SameVocabulary DEF Ledger!LedgerNext, Ledger!ledgerVars
<1> QED
  BY <1>2, <1>3, <1>4 DEF Transaction

\* The journal and the child tables implement the ledger: concurrent runners,
\* torn reads, lost acknowledgements and crashes never show in it.
THEOREM WorkflowImplementsLedger == Spec => ImplementsLedger
<1>1. [Ledger!LedgerNext]_<<events, children>> => [Ledger!LedgerNext]_(Ledger!ledgerVars)
  BY DEF Ledger!ledgerVars
<1> QED
  BY <1>1, LedgerInitially, LedgerStep, Invariance, PTL DEF Spec, ImplementsLedger, Ledger!LedgerSpec
=============================================================================
