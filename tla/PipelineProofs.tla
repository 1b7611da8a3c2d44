--------------------------- MODULE PipelineProofs ---------------------------
(***************************************************************************)
(* Theorems about DatasetPipeline: for every number of processes, seasons  *)
(* and revisions, whatever earlier commands left, and wherever processes   *)
(* are killed or the manifest is edited: a raw file is never replaced, an  *)
(* artifact is only visible whole, feature and training datasets come from *)
(* one revision, and an assessment compares evaluations of one training.   *)
(* A command that nothing overlaps repairs whatever earlier ones left.     *)
(***************************************************************************)
EXTENDS DatasetPipeline, TLAPS, SequenceTheorems

-----------------------------------------------------------------------------
(* Processes.                                                              *)

JobRecord(v) ==
    v = [status |-> v.status, command |-> v.command, pc |-> v.pc,
         phase |-> v.phase, l |-> v.l]

LocalsRecord(l) ==
    l = [inputs |-> l.inputs, listing |-> l.listing, entry |-> l.entry, part |-> l.part,
         historical_sum |-> l.historical_sum, held |-> l.held, sums |-> l.sums]

JobShapes ==
    /\ DOMAIN job = Jobs
    /\ \A j \in Jobs : JobRecord(job[j]) /\ LocalsRecord(job[j].l)

OthersUntouched(j) == \A k \in Jobs \ {j} : job'[k] = job[k]

LEMMA ToPhaseEffect ==
  ASSUME JobShapes, NEW j \in Jobs, NEW phase, NEW l, LocalsRecord(l),
         ToPhase(j, phase, l)
  PROVE  /\ JobShapes' /\ OthersUntouched(j)
         /\ job'[j] = [status |-> job[j].status, command |-> job[j].command,
                       pc |-> job[j].pc, phase |-> phase, l |-> l]
<1>1. job[j] = [status |-> job[j].status, command |-> job[j].command, pc |-> job[j].pc,
                phase |-> job[j].phase, l |-> job[j].l]
  BY DEF JobShapes, JobRecord
<1>2. job'[j] = [job[j] EXCEPT !.phase = phase, !.l = l]
  BY DEF ToPhase, JobShapes
<1>3. job'[j] = [status |-> job[j].status, command |-> job[j].command,
                 pc |-> job[j].pc, phase |-> phase, l |-> l]
  BY <1>1, <1>2
<1>4. DOMAIN job' = Jobs /\ OthersUntouched(j)
  BY DEF ToPhase, JobShapes, OthersUntouched
<1>5. \A k \in Jobs : JobRecord(job'[k]) /\ LocalsRecord(job'[k].l)
  BY <1>3, <1>4 DEF JobShapes, JobRecord, OthersUntouched
<1>6. QED
  BY <1>3, <1>4, <1>5 DEF JobShapes

LEMMA IdleEffect ==
  ASSUME JobShapes, NEW j \in Jobs, NEW status, NEW command,
         job' = [job EXCEPT ![j] = Idle(status, command)]
  PROVE  /\ JobShapes' /\ OthersUntouched(j) /\ job'[j] = Idle(status, command)
<1>1. job'[j] = Idle(status, command)
  BY DEF JobShapes
<1>2. JobRecord(Idle(status, command)) /\ LocalsRecord(Idle(status, command).l)
  BY DEF Idle, JobRecord, LocalsRecord, NoLocals
<1>3. DOMAIN job' = Jobs /\ OthersUntouched(j)
  BY DEF JobShapes, OthersUntouched
<1>4. QED
  BY <1>1, <1>2, <1>3 DEF JobShapes, OthersUntouched

\* A job that advances ends or goes to its next step.
Moved(j, l) ==
    job'[j] = [status |-> job[j].status, command |-> job[j].command,
               pc |-> job[j].pc + 1, phase |-> "begin", l |-> l]

LEMMA AdvanceEffect ==
  ASSUME JobShapes, NEW j \in Jobs, NEW l, LocalsRecord(l), Advance(j, l)
  PROVE  /\ JobShapes' /\ OthersUntouched(j)
         /\ \/ /\ job[j].pc = Len(Steps(job[j].command))
               /\ job'[j] = Idle("done", job[j].command)
            \/ job[j].pc # Len(Steps(job[j].command)) /\ Moved(j, l)
<1>1. job[j] = [status |-> job[j].status, command |-> job[j].command, pc |-> job[j].pc,
                phase |-> job[j].phase, l |-> job[j].l]
  BY DEF JobShapes, JobRecord
<1>2. CASE job[j].pc = Len(Steps(job[j].command))
  <2>1. job'[j] = Idle("done", job[j].command)
    BY <1>2 DEF Advance, JobShapes
  <2>2. DOMAIN job' = Jobs /\ OthersUntouched(j)
    BY DEF Advance, JobShapes, OthersUntouched
  <2>3. JobRecord(job'[j]) /\ LocalsRecord(job'[j].l)
    BY <2>1 DEF Idle, JobRecord, LocalsRecord, NoLocals
  <2>4. \A k \in Jobs : JobRecord(job'[k]) /\ LocalsRecord(job'[k].l)
    BY <2>2, <2>3 DEF JobShapes, OthersUntouched
  <2>5. JobShapes'
    BY <2>2, <2>4 DEF JobShapes
  <2>6. QED
    BY <1>2, <2>1, <2>2, <2>5
<1>3. CASE job[j].pc # Len(Steps(job[j].command))
  <2>1. job'[j] = [job[j] EXCEPT !.pc = @ + 1, !.phase = "begin", !.l = l]
    BY <1>3 DEF Advance, JobShapes
  <2>2. Moved(j, l)
    BY <1>1, <2>1 DEF Moved
  <2>3. DOMAIN job' = Jobs /\ OthersUntouched(j)
    BY DEF Advance, JobShapes, OthersUntouched
  <2>4. \A k \in Jobs : JobRecord(job'[k]) /\ LocalsRecord(job'[k].l)
    BY <2>2, <2>3 DEF Moved, JobShapes, JobRecord, OthersUntouched
  <2>5. QED
    BY <1>3, <2>2, <2>3, <2>4 DEF JobShapes
<1>4. QED
  BY <1>2, <1>3

-----------------------------------------------------------------------------
(* The steps of a process, by the operation it is at.                      *)

\* Job j stays at its operation with locals l.
Stayed(j, phase, l) ==
    job'[j] = [status |-> job[j].status, command |-> job[j].command,
               pc |-> job[j].pc, phase |-> phase, l |-> l]

\* Job j completes its operation with locals l, or the last one of its command.
Completed(j, l) ==
    \/ /\ job[j].pc = Len(Steps(job[j].command))
       /\ job'[j] = Idle("done", job[j].command)
    \/ job[j].pc # Len(Steps(job[j].command)) /\ Moved(j, l)

Ended(j) == job'[j] = Idle("refused", job[j].command)

Loaded(l, d, r, m) ==
    [l EXCEPT !.part = None, !.held = Put(@, d, [rows |-> r, manifest |-> m])]

Hashed(l, d, m) == [l EXCEPT !.sums = Put(@, d, m)]

FilesUntouched == UNCHANGED <<historical, raw, disk, artifacts>>

LEMMA ReturnedIs ==
  ASSUME NEW d, NEW l
  PROVE  /\ d[1] = "canonical" => Returned(d, l) = [l EXCEPT !.entry = None]
         /\ d = Features(N) => Returned(d, l) = [l EXCEPT !.listing = None,
                                                         !.held = [x \in {} |-> None]]
         /\ d[1] \in {"training", "assessment"} => Returned(d, l) = NoLocals
         /\ d[1] \notin {"canonical", "training", "assessment"} /\ d # Features(N) =>
               Returned(d, l) = l
<1>1. d = Features(N) => d[1] = "features"
  BY DEF Features
<1>2. QED
  BY <1>1 DEF Returned

LEMMA OneUpdate ==
  ASSUME NEW l, LocalsRecord(l), NEW v
  PROVE  /\ LocalsRecord([l EXCEPT !.listing = v])
         /\ LocalsRecord([l EXCEPT !.part = v])
         /\ LocalsRecord([l EXCEPT !.held = v])
BY DEF LocalsRecord

LEMMA TwoUpdates ==
  ASSUME NEW l, LocalsRecord(l), NEW v, NEW w
  PROVE  /\ LocalsRecord([l EXCEPT !.listing = v, !.held = w])
         /\ LocalsRecord([l EXCEPT !.part = v, !.held = w])
<1>1. LocalsRecord([[l EXCEPT !.listing = v] EXCEPT !.held = w])
  BY OneUpdate
<1>2. LocalsRecord([[l EXCEPT !.part = v] EXCEPT !.held = w])
  BY OneUpdate
<1>3. QED
  BY <1>1, <1>2

\* What a function returns leaves well-formed locals.
LEMMA LocalsUpdated ==
  ASSUME NEW l, LocalsRecord(l), NEW d, NEW v, NEW r, NEW m
  PROVE  /\ LocalsRecord([l EXCEPT !.inputs = v])
         /\ LocalsRecord([l EXCEPT !.listing = v])
         /\ LocalsRecord([l EXCEPT !.entry = v])
         /\ LocalsRecord([l EXCEPT !.part = v])
         /\ LocalsRecord([l EXCEPT !.historical_sum = v])
         /\ LocalsRecord(Loaded(l, d, r, m))
         /\ LocalsRecord(Hashed(l, d, v))
         /\ LocalsRecord(Returned(d, l))
<1>1. /\ LocalsRecord([l EXCEPT !.inputs = v])
      /\ LocalsRecord([l EXCEPT !.listing = v])
      /\ LocalsRecord([l EXCEPT !.entry = v])
      /\ LocalsRecord([l EXCEPT !.part = v])
      /\ LocalsRecord([l EXCEPT !.historical_sum = v])
  BY DEF LocalsRecord
<1>2. LocalsRecord(Loaded(l, d, r, m))
  <2>1. LocalsRecord([l EXCEPT !.part = None,
                               !.held = Put(l.held, d, [rows |-> r, manifest |-> m])])
    BY TwoUpdates
  <2>2. QED
    BY <2>1 DEF Loaded
<1>3. LocalsRecord(Hashed(l, d, v))
  BY DEF LocalsRecord, Hashed
<1>4. LocalsRecord(Returned(d, l))
  <2>1. LocalsRecord(NoLocals)
    BY DEF LocalsRecord, NoLocals
  <2>2. LocalsRecord([l EXCEPT !.listing = None, !.held = [x \in {} |-> None]])
    BY TwoUpdates
  <2>3. \/ Returned(d, l) = [l EXCEPT !.entry = None]
        \/ Returned(d, l) = [l EXCEPT !.listing = None, !.held = [x \in {} |-> None]]
        \/ Returned(d, l) = NoLocals
        \/ Returned(d, l) = l
    BY ReturnedIs
  <2>4. LocalsRecord([l EXCEPT !.entry = None])
    BY DEF LocalsRecord
  <2>5. QED
    BY <2>1, <2>2, <2>3, <2>4
<1>5. QED
  BY <1>1, <1>2, <1>3, <1>4

\* What one step of job j may do, by its operation and phase.
ReadEffect(j) ==
    LET l == job[j].l
        d == Current(j).d
    IN  \/ At(j, "inputs", "begin") /\ Completed(j, [l EXCEPT !.inputs = historical])
        \/ At(j, "listing", "begin") /\ Completed(j, [l EXCEPT !.listing = historical])
        \/ At(j, "checksum", "begin") /\ Completed(j, [l EXCEPT !.historical_sum = historical])
        \/ At(j, "entry", "begin") /\ Stayed(j, "parse", [l EXCEPT !.entry = historical[d[2]]])
        \/ At(j, "entry", "parse") /\ Completed(j, l)

LoadEffect(j) ==
    LET l == job[j].l
        d == Current(j).d
    IN  \/ /\ At(j, "load", "begin")
           /\ \E part : /\ Stayed(j, "second", [l EXCEPT !.part = part])
                        /\ part # None
                        /\ part = IF d[1] = "canonical" THEN disk[d].rows ELSE disk[d].manifest
        \/ /\ At(j, "load", "second")
           /\ \E r, m : /\ Loads(d, r, m, l) /\ m # None
                        /\ r = IF d[1] = "canonical" THEN l.part ELSE disk[d].rows
                        /\ m = IF d[1] = "canonical" THEN disk[d].manifest ELSE l.part
                        /\ Passes(Current(j).check, Loaded(l, d, r, m))
                        /\ Completed(j, Loaded(l, d, r, m))
        \/ /\ At(j, "hash", "begin")
           /\ disk[d].manifest # None
           /\ Passes(Current(j).check, Hashed(l, d, disk[d].manifest))
           /\ Completed(j, Hashed(l, d, disk[d].manifest))

PublishStays(j) ==
    LET l == job[j].l
    IN  \/ /\ At(j, "publish", "begin") /\ Passes(Current(j).check, l)
           /\ \/ /\ Stayed(j, "compare", l)
                 /\ disk[Current(j).d].rows = Content(Current(j).d, l).rows
              \/ Stayed(j, "rows", l)
        \/ /\ At(j, "publish", "compare")
           /\ \/ Stayed(j, "manifest", l) \/ Stayed(j, "rows", l)
              \/ /\ Completed(j, Returned(Current(j).d, l))
                 /\ disk[Current(j).d].manifest = Content(Current(j).d, l).manifest

FetchStays(j) ==
    \/ At(j, "fetch", "begin") /\ Stayed(j, "fetched", job[j].l)
    \/ At(j, "fetch", "begin") /\ Completed(j, job[j].l)
    \/ At(j, "fetch", "fetched") /\ Completed(j, job[j].l)

StoreStays(j) ==
    \/ /\ At(j, "store", "begin")
       /\ Stayed(j, "reload", job[j].l) \/ Stayed(j, "preprocessor", job[j].l)
    \/ \E i \in 1..3 : At(j, "store", Files[i]) /\ Stayed(j, Temporary[i], job[j].l)
    \/ At(j, "store", "reload") /\ Completed(j, job[j].l)

\* A step that leaves the files alone.
QuietEffect(j) ==
    /\ Running(j)
    /\ FilesUntouched
    /\ Ended(j) \/ ReadEffect(j) \/ LoadEffect(j) \/ PublishStays(j)
          \/ FetchStays(j) \/ StoreStays(j)

RowsEffect(j) ==
    /\ At(j, "publish", "rows") /\ Stayed(j, "manifest", job[j].l)
    /\ disk' = [disk EXCEPT ![Current(j).d].rows = Content(Current(j).d, job[j].l).rows]
    /\ UNCHANGED <<historical, raw, artifacts>>

ManifestEffect(j) ==
    /\ At(j, "publish", "manifest") /\ Completed(j, Returned(Current(j).d, job[j].l))
    /\ disk' = [disk EXCEPT ![Current(j).d].manifest = Content(Current(j).d, job[j].l).manifest]
    /\ UNCHANGED <<historical, raw, artifacts>>

LinkEffect(j) ==
    /\ At(j, "fetch", "fetched") /\ Completed(j, job[j].l)
    /\ \E x, sha : raw[x] = None /\ raw' = [raw EXCEPT ![x] = sha]
    /\ UNCHANGED <<historical, disk, artifacts>>

ComponentEffect(j) ==
    /\ \E i \in 1..3 :
          /\ At(j, "store", Temporary[i])
          /\ artifacts' = artifacts \cup {<<Artifact(j), Files[i]>>}
          /\ Stayed(j, IF i = 3 THEN "reload" ELSE Files[i + 1], job[j].l)
    /\ UNCHANGED <<historical, raw, disk>>

StepEffect(j) ==
    QuietEffect(j) \/ RowsEffect(j) \/ ManifestEffect(j) \/ LinkEffect(j) \/ ComponentEffect(j)

\* Where a job goes, whatever it takes along.
JobFramed(j) == JobShapes' /\ OthersUntouched(j)

LEMMA Goes ==
  ASSUME JobShapes, NEW j \in Jobs, NEW phase, NEW l, LocalsRecord(l)
  PROVE  /\ ToPhase(j, phase, l) => JobFramed(j) /\ Stayed(j, phase, l)
         /\ Advance(j, l) => JobFramed(j) /\ Completed(j, l)
         /\ Refused(j) => JobFramed(j) /\ Ended(j)
<1>1. ToPhase(j, phase, l) => JobFramed(j) /\ Stayed(j, phase, l)
  BY ToPhaseEffect DEF JobFramed, Stayed
<1>2. Advance(j, l) => JobFramed(j) /\ Completed(j, l)
  BY AdvanceEffect DEF JobFramed, Completed
<1>3. ASSUME Refused(j)
      PROVE  JobFramed(j) /\ Ended(j)
  <2>1. job' = [job EXCEPT ![j] = Idle("refused", job[j].command)]
    BY <1>3 DEF Refused
  <2>2. QED
    BY <2>1, IdleEffect DEF JobFramed, Ended
<1>4. QED
  BY <1>1, <1>2, <1>3

LEMMA OwnLocals ==
  ASSUME JobShapes, NEW j \in Jobs
  PROVE  LocalsRecord(job[j].l)
BY DEF JobShapes

LEMMA ReadSteps ==
  ASSUME JobShapes, NEW j \in Jobs,
         ReadInputs(j) \/ ReadListing(j) \/ HashHistorical(j) \/ LookUpEntry(j) \/ ParseRaw(j)
  PROVE  JobFramed(j) /\ QuietEffect(j)
<1> DEFINE l == job[j].l
<1>1. LocalsRecord(l) /\ \A v : /\ LocalsRecord([l EXCEPT !.inputs = v])
                               /\ LocalsRecord([l EXCEPT !.listing = v])
                               /\ LocalsRecord([l EXCEPT !.entry = v])
                               /\ LocalsRecord([l EXCEPT !.historical_sum = v])
  BY OwnLocals, LocalsUpdated
<1> HIDE DEF l
<1>2. CASE ReadInputs(j)
  BY <1>1, <1>2, Goes
  DEF ReadInputs, At, QuietEffect, ReadEffect, UnchangedFiles, FilesUntouched, l
<1>3. CASE ReadListing(j)
  BY <1>1, <1>3, Goes
  DEF ReadListing, At, QuietEffect, ReadEffect, UnchangedFiles, FilesUntouched, l
<1>4. CASE HashHistorical(j)
  BY <1>1, <1>4, Goes
  DEF HashHistorical, At, QuietEffect, ReadEffect, UnchangedFiles, FilesUntouched, l
<1>5. CASE LookUpEntry(j)
  BY <1>1, <1>5, Goes
  DEF LookUpEntry, At, QuietEffect, ReadEffect, UnchangedFiles, FilesUntouched, l
<1>6. CASE ParseRaw(j)
  <2>1. FilesUntouched /\ At(j, "entry", "parse")
    BY <1>6 DEF ParseRaw, UnchangedFiles, FilesUntouched
  <2>2. Advance(j, l) \/ Refused(j)
    BY <1>6 DEF ParseRaw, l
  <2>3. JobFramed(j) /\ (Completed(j, l) \/ Ended(j))
    BY <1>1, <2>2, Goes
  <2>4. QED
    BY <2>1, <2>3 DEF QuietEffect, ReadEffect, At, l
<1>7. QED
  BY <1>2, <1>3, <1>4, <1>5, <1>6

LEMMA LoadSteps ==
  ASSUME JobShapes, NEW j \in Jobs,
         LoadFirst(j) \/ LoadSecond(j) \/ HashManifest(j) \/ ChampionUnsupported(j)
  PROVE  JobFramed(j) /\ QuietEffect(j)
<1> DEFINE l == job[j].l
           d == Current(j).d
<1>1. LocalsRecord(l)
  BY OwnLocals
<1>2. CASE LoadFirst(j)
  <2> DEFINE file == IF d[1] = "canonical" THEN disk[d].rows ELSE disk[d].manifest
  <2>1. FilesUntouched /\ At(j, "load", "begin")
    BY <1>2 DEF LoadFirst, UnchangedFiles, FilesUntouched
  <2>2. Refused(j) \/ (file # None /\ ToPhase(j, "second", [l EXCEPT !.part = file]))
    BY <1>2 DEF LoadFirst
  <2>3. LocalsRecord([l EXCEPT !.part = file])
    BY <1>1, LocalsUpdated
  <2> HIDE DEF l, d
  <2>4. /\ JobFramed(j)
        /\ Ended(j) \/ (file # None /\ Stayed(j, "second", [l EXCEPT !.part = file]))
    <3> HIDE DEF file
    <3>1. QED
      BY <2>2, <2>3, Goes
  <2>5. Ended(j) \/ LoadEffect(j)
    BY <2>1, <2>4 DEF LoadEffect, l, d
  <2>6. QED
    BY <2>1, <2>4, <2>5 DEF QuietEffect, At
<1>3. CASE LoadSecond(j)
  <2> DEFINE r == IF d[1] = "canonical" THEN l.part ELSE disk[d].rows
             m == IF d[1] = "canonical" THEN disk[d].manifest ELSE l.part
  <2>1. FilesUntouched /\ At(j, "load", "second")
    BY <1>3 DEF LoadSecond, UnchangedFiles, FilesUntouched
  <2>2. \/ Refused(j)
        \/ /\ m # None /\ Loads(d, r, m, l)
           /\ Passes(Current(j).check, Loaded(l, d, r, m))
           /\ Advance(j, Loaded(l, d, r, m))
    BY <1>3 DEF LoadSecond, Loaded
  <2>3. LocalsRecord(Loaded(l, d, r, m))
    BY <1>1, LocalsUpdated
  <2> HIDE DEF l, d
  <2>4. /\ JobFramed(j)
        /\ \/ Ended(j)
           \/ /\ m # None /\ Loads(d, r, m, l)
              /\ Passes(Current(j).check, Loaded(l, d, r, m))
              /\ Completed(j, Loaded(l, d, r, m))
    <3> HIDE DEF r, m
    <3>1. QED
      BY <2>2, <2>3, Goes
  <2>5. Ended(j) \/ LoadEffect(j)
    BY <2>1, <2>4 DEF LoadEffect, l, d
  <2>6. QED
    BY <2>1, <2>4, <2>5 DEF QuietEffect, At
<1>4. CASE HashManifest(j)
  <2>1. FilesUntouched /\ At(j, "hash", "begin")
    BY <1>4 DEF HashManifest, UnchangedFiles, FilesUntouched
  <2>2. \/ Refused(j)
        \/ /\ disk[d].manifest # None
           /\ Passes(Current(j).check, Hashed(l, d, disk[d].manifest))
           /\ Advance(j, Hashed(l, d, disk[d].manifest))
    BY <1>4 DEF HashManifest, Hashed
  <2>3. LocalsRecord(Hashed(l, d, disk[d].manifest))
    BY <1>1, LocalsUpdated
  <2> HIDE DEF l, d
  <2>4. /\ JobFramed(j)
        /\ \/ Ended(j)
           \/ /\ disk[d].manifest # None
              /\ Passes(Current(j).check, Hashed(l, d, disk[d].manifest))
              /\ Completed(j, Hashed(l, d, disk[d].manifest))
    BY <2>2, <2>3, Goes
  <2>5. Ended(j) \/ LoadEffect(j)
    BY <2>1, <2>4 DEF LoadEffect, l, d
  <2>6. QED
    BY <2>1, <2>4, <2>5 DEF QuietEffect, At
<1>5. CASE ChampionUnsupported(j)
  <2>1. FilesUntouched /\ At(j, "hash", "begin") /\ Refused(j)
    BY <1>5 DEF ChampionUnsupported, UnchangedFiles, FilesUntouched
  <2>2. QED
    BY <1>1, <2>1, Goes DEF QuietEffect, At
<1>6. QED
  BY <1>2, <1>3, <1>4, <1>5

LEMMA PublishSteps ==
  ASSUME JobShapes, NEW j \in Jobs,
         CompareRows(j) \/ CompareManifest(j) \/ WriteRows(j) \/ WriteManifest(j)
  PROVE  JobFramed(j) /\ StepEffect(j)
<1> DEFINE l == job[j].l
           d == Current(j).d
<1>1. LocalsRecord(l) /\ LocalsRecord(Returned(d, l))
  BY OwnLocals, LocalsUpdated
<1>2. CASE CompareRows(j)
  <2>1. FilesUntouched /\ At(j, "publish", "begin")
    BY <1>2 DEF CompareRows, UnchangedFiles, FilesUntouched
  <2>2. \/ Refused(j)
        \/ /\ Passes(Current(j).check, l)
           /\ \/ ToPhase(j, "compare", l) /\ disk[d].rows = Content(d, l).rows
              \/ ToPhase(j, "rows", l)
    BY <1>2 DEF CompareRows
  <2> HIDE DEF l, d
  <2>3. /\ JobFramed(j)
        /\ \/ Ended(j)
           \/ /\ Passes(Current(j).check, l)
              /\ \/ Stayed(j, "compare", l) /\ disk[d].rows = Content(d, l).rows
                 \/ Stayed(j, "rows", l)
    BY <1>1, <2>2, Goes
  <2>4. Ended(j) \/ PublishStays(j)
    BY <2>1, <2>3 DEF PublishStays, l, d
  <2>5. QED
    BY <2>1, <2>3, <2>4 DEF StepEffect, QuietEffect, At
<1>3. CASE CompareManifest(j)
  <2>1. FilesUntouched /\ At(j, "publish", "compare")
    BY <1>3 DEF CompareManifest, UnchangedFiles, FilesUntouched
  <2>2. \/ Advance(j, Returned(d, l)) /\ disk[d].manifest = Content(d, l).manifest
        \/ ToPhase(j, "manifest", l) \/ ToPhase(j, "rows", l)
    BY <1>3 DEF CompareManifest, Published
  <2> HIDE DEF l, d
  <2>3. /\ JobFramed(j)
        /\ \/ Completed(j, Returned(d, l)) /\ disk[d].manifest = Content(d, l).manifest
           \/ Stayed(j, "manifest", l) \/ Stayed(j, "rows", l)
    BY <1>1, <2>2, Goes
  <2>4. PublishStays(j)
    BY <2>1, <2>3 DEF PublishStays, l, d
  <2>5. QED
    BY <2>1, <2>3, <2>4 DEF StepEffect, QuietEffect, At
<1>4. CASE WriteRows(j)
  <2>1. ToPhase(j, "manifest", l)
    BY <1>4 DEF WriteRows
  <2>2. JobFramed(j) /\ Stayed(j, "manifest", l)
    <3> HIDE DEF l
    <3>1. QED
      BY <1>1, <2>1, Goes
  <2>3. QED
    BY <1>4, <2>2 DEF StepEffect, RowsEffect, WriteRows
<1>5. CASE WriteManifest(j)
  <2>1. Advance(j, Returned(d, l))
    BY <1>5 DEF WriteManifest, Published
  <2>2. JobFramed(j) /\ Completed(j, Returned(d, l))
    <3> HIDE DEF l, d
    <3>1. QED
      BY <1>1, <2>1, Goes
  <2>3. QED
    BY <1>5, <2>2 DEF StepEffect, ManifestEffect, WriteManifest
<1>6. QED
  BY <1>2, <1>3, <1>4, <1>5

LEMMA FetchSteps ==
  ASSUME JobShapes, NEW j \in Jobs, Fetch(j) \/ LinkRaw(j)
  PROVE  JobFramed(j) /\ StepEffect(j)
<1> DEFINE l == job[j].l
<1>1. LocalsRecord(l)
  BY OwnLocals
<1>2. CASE Fetch(j)
  <2>1. FilesUntouched /\ At(j, "fetch", "begin")
    BY <1>2 DEF Fetch, UnchangedFiles, FilesUntouched
  <2>2. Advance(j, l) \/ ToPhase(j, "fetched", l) \/ Refused(j)
    BY <1>2 DEF Fetch, VerifyExisting
  <2> HIDE DEF l
  <2>3. JobFramed(j) /\ (Completed(j, l) \/ Stayed(j, "fetched", l) \/ Ended(j))
    BY <1>1, <2>2, Goes
  <2>4. Ended(j) \/ FetchStays(j)
    BY <2>1, <2>3 DEF FetchStays, l
  <2>5. QED
    BY <2>1, <2>3, <2>4 DEF StepEffect, QuietEffect, At
<1>3. CASE LinkRaw(j)
  <2>1. At(j, "fetch", "fetched") /\ UNCHANGED <<historical, disk, artifacts>>
    BY <1>3 DEF LinkRaw
  <2>2. \/ /\ Advance(j, l) \/ Refused(j)
           /\ UNCHANGED raw
        \/ /\ \E x, sha : raw[x] = None /\ raw' = [raw EXCEPT ![x] = sha]
           /\ Advance(j, l)
    BY <1>3 DEF LinkRaw, VerifyExisting
  <2> HIDE DEF l
  <2>3. /\ JobFramed(j)
        /\ \/ /\ Completed(j, l) \/ Ended(j)
              /\ UNCHANGED raw
           \/ /\ \E x, sha : raw[x] = None /\ raw' = [raw EXCEPT ![x] = sha]
              /\ Completed(j, l)
    BY <1>1, <2>2, Goes
  <2>4. CASE UNCHANGED raw
    BY <2>1, <2>3, <2>4 DEF StepEffect, QuietEffect, FilesUntouched, FetchStays, LinkEffect, At, l
  <2>5. CASE \E x, sha : raw[x] = None /\ raw' = [raw EXCEPT ![x] = sha]
    BY <2>1, <2>3, <2>5 DEF StepEffect, QuietEffect, FilesUntouched, FetchStays, LinkEffect, At, l
  <2>6. QED
    BY <2>3, <2>4, <2>5
<1>4. QED
  BY <1>2, <1>3

LEMMA StoreSteps ==
  ASSUME JobShapes, NEW j \in Jobs,
         CompareArtifact(j) \/ OpenTemporary(j) \/ ReplaceComponent(j) \/ ReloadArtifact(j)
  PROVE  JobFramed(j) /\ StepEffect(j)
<1> DEFINE l == job[j].l
<1>1. LocalsRecord(l)
  BY OwnLocals
<1>2. CASE CompareArtifact(j)
  <2>1. FilesUntouched /\ At(j, "store", "begin")
    BY <1>2 DEF CompareArtifact, UnchangedFiles, FilesUntouched
  <2>2. ToPhase(j, "reload", l) \/ ToPhase(j, "preprocessor", l)
    BY <1>2 DEF CompareArtifact, Files
  <2> HIDE DEF l
  <2>3. JobFramed(j) /\ (Stayed(j, "reload", l) \/ Stayed(j, "preprocessor", l))
    BY <1>1, <2>2, Goes
  <2>4. QED
    BY <2>1, <2>3 DEF StepEffect, QuietEffect, StoreStays, At, l
<1>3. CASE OpenTemporary(j)
  <2>1. FilesUntouched
    BY <1>3 DEF OpenTemporary, UnchangedFiles, FilesUntouched
  <2>2. PICK i \in 1..3 : At(j, "store", Files[i]) /\ ToPhase(j, Temporary[i], l)
    BY <1>3 DEF OpenTemporary
  <2> HIDE DEF l
  <2>3. JobFramed(j) /\ Stayed(j, Temporary[i], l)
    BY <1>1, <2>2, Goes
  <2>4. StoreStays(j)
    BY <2>2, <2>3 DEF StoreStays, l
  <2>5. QED
    BY <2>1, <2>2, <2>3, <2>4 DEF StepEffect, QuietEffect, At
<1>4. CASE ReplaceComponent(j)
  <2>1. PICK i \in 1..3 :
          /\ At(j, "store", Temporary[i])
          /\ artifacts' = artifacts \cup {<<Artifact(j), Files[i]>>}
          /\ ToPhase(j, IF i = 3 THEN "reload" ELSE Files[i + 1], l)
    BY <1>4 DEF ReplaceComponent
  <2> HIDE DEF l
  <2>2. JobFramed(j) /\ Stayed(j, IF i = 3 THEN "reload" ELSE Files[i + 1], l)
    <3> DEFINE phase == IF i = 3 THEN "reload" ELSE Files[i + 1]
    <3>1. ToPhase(j, phase, l)
      BY <2>1
    <3> HIDE DEF phase
    <3>2. JobFramed(j) /\ Stayed(j, phase, l)
      BY <1>1, <3>1, Goes
    <3>3. QED
      BY <3>2 DEF phase
  <2>3. ComponentEffect(j)
    BY <1>4, <2>1, <2>2 DEF ComponentEffect, ReplaceComponent, l
  <2>4. QED
    BY <2>2, <2>3 DEF StepEffect
<1>5. CASE ReloadArtifact(j)
  <2>1. FilesUntouched /\ At(j, "store", "reload")
    BY <1>5 DEF ReloadArtifact, UnchangedFiles, FilesUntouched
  <2>2. Advance(j, l) \/ Refused(j)
    BY <1>5 DEF ReloadArtifact
  <2> HIDE DEF l
  <2>3. JobFramed(j) /\ (Completed(j, l) \/ Ended(j))
    BY <1>1, <2>2, Goes
  <2>4. QED
    BY <2>1, <2>3 DEF StepEffect, QuietEffect, StoreStays, At, l
<1>6. QED
  BY <1>2, <1>3, <1>4, <1>5

\* Every step of a job has one of the effects, and leaves other jobs alone.
LEMMA StepsHaveEffects ==
  ASSUME JobShapes, NEW j \in Jobs, Step(j)
  PROVE  JobFramed(j) /\ StepEffect(j)
<1>1. \/ ReadInputs(j) \/ ReadListing(j) \/ HashHistorical(j) \/ LookUpEntry(j) \/ ParseRaw(j)
      \/ LoadFirst(j) \/ LoadSecond(j) \/ HashManifest(j) \/ ChampionUnsupported(j)
      \/ CompareRows(j) \/ CompareManifest(j) \/ WriteRows(j) \/ WriteManifest(j)
      \/ Fetch(j) \/ LinkRaw(j)
      \/ CompareArtifact(j) \/ OpenTemporary(j) \/ ReplaceComponent(j) \/ ReloadArtifact(j)
  BY DEF Step
<1>2. QED
  BY <1>1, ReadSteps, LoadSteps, PublishSteps, FetchSteps, StoreSteps DEF StepEffect

-----------------------------------------------------------------------------
(* Raw files and artifacts.                                                *)

\* What is in place before job j writes the next component.
ArtifactReady(j) ==
    /\ At(j, "store", "classifier") \/ At(j, "store", "classifier.tmp") =>
          Holds(Artifact(j), {"preprocessor"})
    /\ At(j, "store", "manifest") \/ At(j, "store", "manifest.tmp") =>
          Holds(Artifact(j), {"preprocessor", "classifier"})

\* The inductive invariant: besides ArtifactsAreWhole, how far each process is
\* with the directory it writes.
StoreInv ==
    /\ JobShapes
    /\ DOMAIN raw = Paths
    /\ ArtifactsAreWhole
    /\ \A j \in Jobs : ArtifactReady(j)

LEMMA StayedAt ==
  ASSUME NEW j \in Jobs, NEW phase, NEW l, Stayed(j, phase, l)
  PROVE  /\ Current(j)' = Current(j)
         /\ job'[j].phase = phase /\ job'[j].l = l
         /\ \A op, ph : At(j, op, ph)' <=> Running(j) /\ Current(j).op = op /\ ph = phase
<1>1. /\ job'[j].status = job[j].status /\ job'[j].command = job[j].command
      /\ job'[j].pc = job[j].pc /\ job'[j].phase = phase /\ job'[j].l = l
  BY DEF Stayed
<1>2. Current(j)' = Current(j)
  BY <1>1 DEF Current
<1>3. Running(j)' <=> Running(j)
  BY <1>1 DEF Running
<1>4. QED
  BY <1>1, <1>2, <1>3 DEF At

\* A process that completes an operation, ends or starts is at a beginning.
LEMMA AtBegin ==
  ASSUME NEW j \in Jobs, NEW l, NEW status, NEW command,
         Completed(j, l) \/ Ended(j) \/ job'[j] = Idle(status, command)
  PROVE  job'[j].phase = "begin"
BY DEF Completed, Moved, Ended, Idle

LEMMA BeginIsReady ==
  ASSUME NEW j \in Jobs, job'[j].phase = "begin"
  PROVE  ArtifactReady(j)'
BY DEF ArtifactReady, At

LEMMA ReadyStays ==
  ASSUME NEW j \in Jobs, job'[j] = job[j], artifacts \subseteq artifacts', ArtifactReady(j)
  PROVE  ArtifactReady(j)'
<1>1. Artifact(j)' = Artifact(j) /\ \A op, ph : At(j, op, ph)' <=> At(j, op, ph)
  BY DEF Artifact, At, Running, Current
<1>2. \A a, files : Holds(a, files) => Holds(a, files)'
  BY DEF Holds
<1>3. QED
  BY <1>1, <1>2 DEF ArtifactReady

\* Outside the artifact store nothing is claimed.
LEMMA ElsewhereIsReady ==
  ASSUME NEW j \in Jobs, NEW phase, NEW l, Stayed(j, phase, l), Current(j).op # "store"
  PROVE  ArtifactReady(j)'
BY StayedAt DEF ArtifactReady

LEMMA QuietIsReady ==
  ASSUME NEW j \in Jobs, QuietEffect(j), ArtifactReady(j)
  PROVE  ArtifactReady(j)'
<1> DEFINE l == job[j].l
<1>1. artifacts' = artifacts
  BY DEF QuietEffect, FilesUntouched
<1>2. CASE job'[j].phase = "begin"
  BY <1>2, BeginIsReady
<1>3. CASE \E phase, k : Stayed(j, phase, k) /\ Current(j).op # "store"
  BY <1>3, ElsewhereIsReady
<1>4. CASE /\ Current(j).op = "store"
           /\ Stayed(j, "reload", l) \/ Stayed(j, "preprocessor", l)
  <2>1. job'[j].phase \in {"reload", "preprocessor"}
    BY <1>4, StayedAt
  <2>2. QED
    BY <2>1 DEF ArtifactReady, At
<1>5. CASE \E i \in 1..3 : At(j, "store", Files[i]) /\ Stayed(j, Temporary[i], l)
  <2>1. PICK i \in 1..3 : At(j, "store", Files[i]) /\ Stayed(j, Temporary[i], l)
    BY <1>5
  <2>2. \A op, ph : At(j, op, ph)' <=> Running(j) /\ Current(j).op = op /\ ph = Temporary[i]
    BY <2>1, StayedAt
  <2>3. Artifact(j)' = Artifact(j)
    BY <2>1, StayedAt DEF Artifact
  <2>4. \A a, files : Holds(a, files)' <=> Holds(a, files)
    BY <1>1 DEF Holds
  <2>5. CASE i = 1
    BY <2>2, <2>5 DEF ArtifactReady, Temporary
  <2>6. CASE i = 2
    <3>1. Holds(Artifact(j), {"preprocessor"})
      BY <2>1, <2>6 DEF ArtifactReady, Files
    <3>2. QED
      BY <3>1, <2>2, <2>3, <2>4, <2>6 DEF ArtifactReady, Temporary
  <2>7. CASE i = 3
    <3>1. Holds(Artifact(j), {"preprocessor", "classifier"})
      BY <2>1, <2>7 DEF ArtifactReady, Files
    <3>2. QED
      BY <3>1, <2>2, <2>3, <2>4, <2>7 DEF ArtifactReady, Temporary
  <2>8. QED
    BY <2>5, <2>6, <2>7
<1>6. \/ job'[j].phase = "begin"
      \/ \E phase, k : Stayed(j, phase, k) /\ Current(j).op # "store"
      \/ /\ Current(j).op = "store"
         /\ Stayed(j, "reload", l) \/ Stayed(j, "preprocessor", l)
      \/ \E i \in 1..3 : At(j, "store", Files[i]) /\ Stayed(j, Temporary[i], l)
  <2>1. ASSUME Ended(j) PROVE job'[j].phase = "begin"
    BY <2>1, AtBegin
  <2>2. ASSUME NEW k, Completed(j, k) PROVE job'[j].phase = "begin"
    BY <2>2, AtBegin
  <2>3. ASSUME ReadEffect(j)
        PROVE  \/ \E k : Completed(j, k)
               \/ \E phase, k : Stayed(j, phase, k) /\ Current(j).op # "store"
    BY <2>3 DEF ReadEffect, At
  <2>4. ASSUME LoadEffect(j)
        PROVE  \/ \E k : Completed(j, k)
               \/ \E phase, k : Stayed(j, phase, k) /\ Current(j).op # "store"
    BY <2>4 DEF LoadEffect, At
  <2>5. ASSUME PublishStays(j)
        PROVE  \/ \E k : Completed(j, k)
               \/ \E phase, k : Stayed(j, phase, k) /\ Current(j).op # "store"
    BY <2>5 DEF PublishStays, At
  <2>6. ASSUME FetchStays(j)
        PROVE  \/ \E k : Completed(j, k)
               \/ \E phase, k : Stayed(j, phase, k) /\ Current(j).op # "store"
    BY <2>6 DEF FetchStays, At
  <2>7. ASSUME StoreStays(j)
        PROVE  \/ \E k : Completed(j, k)
               \/ /\ Current(j).op = "store"
                  /\ Stayed(j, "reload", l) \/ Stayed(j, "preprocessor", l)
               \/ \E i \in 1..3 : At(j, "store", Files[i]) /\ Stayed(j, Temporary[i], l)
    BY <2>7 DEF StoreStays, At
  <2>8. QED
    BY <2>1, <2>2, <2>3, <2>4, <2>5, <2>6, <2>7 DEF QuietEffect
<1>7. QED
  BY <1>2, <1>3, <1>4, <1>5, <1>6

\* The component a process writes completes what the next one needs.
LEMMA ComponentIsReady ==
  ASSUME NEW j \in Jobs, ComponentEffect(j), ArtifactReady(j), ArtifactsAreWhole
  PROVE  ArtifactReady(j)' /\ ArtifactsAreWhole' /\ artifacts \subseteq artifacts'
<1>1. PICK i \in 1..3 :
        /\ At(j, "store", Temporary[i])
        /\ artifacts' = artifacts \cup {<<Artifact(j), Files[i]>>}
        /\ Stayed(j, IF i = 3 THEN "reload" ELSE Files[i + 1], job[j].l)
  BY DEF ComponentEffect
<1> DEFINE next == IF i = 3 THEN "reload" ELSE Files[i + 1]
<1>0. PICK a : a = Artifact(j)
  OBVIOUS
<1>2. \A op, ph : At(j, op, ph)' <=> Running(j) /\ Current(j).op = op /\ ph = next
  BY <1>1, StayedAt
<1>3. Artifact(j)' = a
  BY <1>0, <1>1, StayedAt DEF Artifact
<1>4. /\ <<a, Files[i]>> \in artifacts' /\ artifacts \subseteq artifacts'
      /\ \A p \in artifacts' : p \in artifacts \/ p = <<a, Files[i]>>
  BY <1>0, <1>1
<1>5. \A b, files : Holds(b, files) => Holds(b, files)'
  BY <1>4 DEF Holds
<1>6. CASE i = 1
  <2>1. next = "classifier" /\ Files[i] = "preprocessor"
    BY <1>6 DEF Files
  <2>2. Holds(a, {"preprocessor"})'
    BY <1>4, <2>1 DEF Holds
  <2>3. ArtifactReady(j)'
    BY <1>2, <1>3, <2>1, <2>2 DEF ArtifactReady
  <2>4. ArtifactsAreWhole'
    BY <1>4, <1>5, <2>1 DEF ArtifactsAreWhole
  <2>5. QED
    BY <2>3, <2>4, <1>4
<1>7. CASE i = 2
  <2>1. next = "manifest" /\ Files[i] = "classifier"
    BY <1>7 DEF Files
  <2>2. Holds(a, {"preprocessor"})
    BY <1>0, <1>1, <1>7 DEF ArtifactReady, Temporary
  <2>3. Holds(a, {"preprocessor", "classifier"})'
    BY <1>4, <2>1, <2>2 DEF Holds
  <2>4. ArtifactReady(j)'
    BY <1>2, <1>3, <2>1, <2>3 DEF ArtifactReady
  <2>5. ArtifactsAreWhole'
    BY <1>4, <1>5, <2>1 DEF ArtifactsAreWhole
  <2>6. QED
    BY <2>4, <2>5, <1>4
<1>8. CASE i = 3
  <2>1. next = "reload" /\ Files[i] = "manifest"
    BY <1>8 DEF Files
  <2>2. Holds(a, {"preprocessor", "classifier"})
    BY <1>0, <1>1, <1>8 DEF ArtifactReady, Temporary
  <2>3. ArtifactReady(j)'
    BY <1>2, <2>1 DEF ArtifactReady
  <2>4. ArtifactsAreWhole'
    BY <1>4, <1>5, <2>1, <2>2 DEF ArtifactsAreWhole
  <2>5. QED
    BY <2>3, <2>4, <1>4
<1>9. QED
  BY <1>6, <1>7, <1>8

LEMMA StoreInvInit ==
  ASSUME PipelineAssumption, Init
  PROVE  StoreInv
<1>1. JobShapes
  BY DEF Init, JobShapes, JobRecord, LocalsRecord, Idle, NoLocals
<1>2. DOMAIN raw = Paths
  BY DEF Init, PipelineAssumption
<1>3. ArtifactsAreWhole
  BY DEF Init, ArtifactsAreWhole
<1>4. \A j \in Jobs : ArtifactReady(j)
  BY DEF Init, ArtifactReady, At, Idle
<1>5. QED
  BY <1>1, <1>2, <1>3, <1>4 DEF StoreInv

LEMMA StoreInvStep ==
  ASSUME StoreInv, NEW j \in Jobs, Step(j)
  PROVE  StoreInv'
<1>1. JobShapes' /\ OthersUntouched(j) /\ StepEffect(j)
  BY StepsHaveEffects DEF StoreInv, JobFramed
<1>2. DOMAIN raw' = Paths
  <2>1. UNCHANGED raw \/ \E x, sha : raw' = [raw EXCEPT ![x] = sha]
    BY <1>1 DEF StepEffect, QuietEffect, FilesUntouched, RowsEffect, ManifestEffect,
                LinkEffect, ComponentEffect
  <2>2. QED
    BY <2>1 DEF StoreInv
<1>3. ArtifactReady(j)' /\ ArtifactsAreWhole' /\ artifacts \subseteq artifacts'
  <2>1. CASE QuietEffect(j)
    <3>1. artifacts' = artifacts
      BY <2>1 DEF QuietEffect, FilesUntouched
    <3>2. ArtifactsAreWhole'
      BY <3>1 DEF StoreInv, ArtifactsAreWhole, Holds
    <3>3. QED
      BY <2>1, <3>1, <3>2, QuietIsReady DEF StoreInv
  <2>2. CASE RowsEffect(j) \/ ManifestEffect(j) \/ LinkEffect(j)
    <3>1. artifacts' = artifacts
      BY <2>2 DEF RowsEffect, ManifestEffect, LinkEffect
    <3>2. ArtifactsAreWhole'
      BY <3>1 DEF StoreInv, ArtifactsAreWhole, Holds
    <3>3. ArtifactReady(j)'
      <4>1. CASE RowsEffect(j)
        BY <4>1, ElsewhereIsReady DEF RowsEffect, At
      <4>2. CASE ManifestEffect(j) \/ LinkEffect(j)
        BY <4>2, AtBegin, BeginIsReady DEF ManifestEffect, LinkEffect
      <4>3. QED
        BY <2>2, <4>1, <4>2
    <3>4. QED
      BY <3>1, <3>2, <3>3
  <2>3. CASE ComponentEffect(j)
    BY <2>3, ComponentIsReady DEF StoreInv
  <2>4. QED
    BY <1>1, <2>1, <2>2, <2>3 DEF StepEffect
<1>4. \A k \in Jobs : ArtifactReady(k)'
  <2>1. TAKE k \in Jobs
  <2>2. CASE k = j
    BY <1>3, <2>2
  <2>3. CASE k # j
    BY <1>1, <1>3, <2>3, ReadyStays DEF StoreInv, OthersUntouched
  <2>4. QED
    BY <2>2, <2>3
<1>5. QED
  BY <1>1, <1>2, <1>3, <1>4 DEF StoreInv

\* What leaves the jobs but one, the raw files and the artifacts alone.
LEMMA StoreInvFrame ==
  ASSUME StoreInv, UNCHANGED <<raw, artifacts>>, JobShapes',
         \A k \in Jobs : job'[k] = job[k] \/ job'[k].phase = "begin"
  PROVE  StoreInv'
<1>1. DOMAIN raw' = Paths /\ ArtifactsAreWhole'
  BY DEF StoreInv, ArtifactsAreWhole, Holds
<1>2. \A k \in Jobs : ArtifactReady(k)'
  BY BeginIsReady, ReadyStays DEF StoreInv
<1>3. QED
  BY <1>1, <1>2 DEF StoreInv

LEMMA StoreInvNext ==
  ASSUME StoreInv, [Next]_vars
  PROVE  StoreInv'
<1>1. CASE Edit \/ UNCHANGED vars
  <2>1. UNCHANGED <<raw, artifacts, job>>
    BY <1>1 DEF Edit, vars
  <2>2. JobShapes'
    BY <2>1 DEF StoreInv, JobShapes
  <2>3. QED
    BY <2>1, <2>2, StoreInvFrame
<1>2. ASSUME NEW j \in Jobs, Step(j)
      PROVE  StoreInv'
  BY <1>2, StoreInvStep
<1>3. ASSUME NEW j \in Jobs, Crash(j) \/ \E command \in Commands[j] : Start(j, command)
      PROVE  StoreInv'
  <2>1. UNCHANGED <<raw, artifacts>>
    BY <1>3 DEF Crash, Start, UnchangedFiles
  <2>2. PICK status, command : job' = [job EXCEPT ![j] = Idle(status, command)]
    BY <1>3 DEF Crash, Start
  <2>3. JobShapes' /\ OthersUntouched(j) /\ job'[j] = Idle(status, command)
    BY <2>2, IdleEffect DEF StoreInv
  <2>4. \A k \in Jobs : job'[k] = job[k] \/ job'[k].phase = "begin"
    BY <2>3 DEF OthersUntouched, Idle
  <2>5. QED
    BY <2>1, <2>3, <2>4, StoreInvFrame
<1>4. QED
  BY <1>1, <1>2, <1>3 DEF Next

THEOREM StoreInvHolds == Spec => []StoreInv
<1>1. Init => StoreInv
  BY PipelineAssumption, StoreInvInit
<1>2. StoreInv /\ [Next]_vars => StoreInv'
  BY StoreInvNext
<1>3. QED
  BY <1>1, <1>2, PTL DEF Spec

(* The manifest of an artifact is only visible with both components in     *)
(* place, whoever else writes or is killed writing the same directory.     *)
THEOREM ArtifactsStayWhole == Spec => []ArtifactsAreWhole
<1>1. StoreInv => ArtifactsAreWhole
  BY DEF StoreInv
<1>2. QED
  BY <1>1, StoreInvHolds, PTL

(* No command replaces a raw file, however downloads under two revisions   *)
(* race for its destination.                                               *)
THEOREM RawFilesStay == Spec => RawIsImmutable
<1>1. ASSUME StoreInv, [Next]_vars
      PROVE  \A p \in Paths : raw[p] # None => raw'[p] = raw[p]
  <2>1. ASSUME NEW j \in Jobs, Step(j)
        PROVE  UNCHANGED raw \/ \E x, sha : raw[x] = None /\ raw' = [raw EXCEPT ![x] = sha]
    <3>1. StepEffect(j)
      BY <1>1, <2>1, StepsHaveEffects DEF StoreInv
    <3>2. QED
      BY <3>1 DEF StepEffect, QuietEffect, FilesUntouched, RowsEffect, ManifestEffect,
                  LinkEffect, ComponentEffect
  <2>2. UNCHANGED raw \/ \E x, sha : raw[x] = None /\ raw' = [raw EXCEPT ![x] = sha]
    BY <1>1, <2>1 DEF Next, Edit, Crash, Start, UnchangedFiles, vars
  <2>3. QED
    BY <1>1, <2>2 DEF StoreInv
<1>2. QED
  BY <1>1, StoreInvHolds, PTL DEF Spec, RawIsImmutable

-----------------------------------------------------------------------------
(* Commands.  Where each operation stands in them.                         *)

OpNames == {"inputs", "listing", "entry", "load", "hash", "checksum", "publish",
            "fetch", "store"}
Checks == {"none", "embedded", "tuned_on_training", "freeze_of_tuning", "one_training",
           "freeze_of_evaluations", "tuning_of_advanced", "provenance"}
Operations == [op : OpNames, d : Datasets, check : Checks]

LEMMA SeasonsAreNaturals ==
        /\ N \in Nat \ {0}
        /\ \A s \in Seasons : s \in Nat /\ 1 <= s /\ s <= N
        /\ \A s \in Nat : 1 <= s /\ s <= N => s \in Seasons
BY PipelineAssumption DEF Seasons

LEMMA OperationsExist ==
  ASSUME NEW op \in OpNames, NEW d \in Datasets, NEW check \in Checks
  PROVE  /\ Op(op, d, check) \in Operations
         /\ Op(op, d, check).op = op /\ Op(op, d, check).d = d
         /\ Op(op, d, check).check = check
BY DEF Op, Operations

LEMMA SeasonOperationsExist ==
  ASSUME NEW s \in Seasons
  PROVE  /\ Op("entry", Canonical(s), "none") \in Operations
         /\ Publish(Canonical(s)) \in Operations /\ Load(Canonical(s)) \in Operations
         /\ Publish(Features(s)) \in Operations /\ Load(Features(s)) \in Operations
         /\ Hash(Features(s)) \in Operations
<1>1. Canonical(s) \in Datasets /\ Features(s) \in Datasets
  BY DEF Datasets
<1>2. {"entry", "load", "hash", "publish"} \subseteq OpNames /\ "none" \in Checks
  BY DEF OpNames, Checks
<1>3. Op("entry", Canonical(s), "none") \in Operations
  BY <1>1, <1>2, OperationsExist
<1>4. Publish(Canonical(s)) \in Operations /\ Publish(Features(s)) \in Operations
  BY <1>1, <1>2, OperationsExist DEF Publish
<1>5. Load(Canonical(s)) \in Operations /\ Load(Features(s)) \in Operations
  BY <1>1, <1>2, OperationsExist DEF Load
<1>6. Hash(Features(s)) \in Operations
  BY <1>1, <1>2, OperationsExist DEF Hash
<1>7. QED
  BY <1>3, <1>4, <1>5, <1>6

LEMMA OtherOperationsExist ==
  ASSUME NEW d \in {Training, Evaluation, Freeze, CatBoost, Advanced, Assessment},
         NEW op \in OpNames, NEW check \in Checks
  PROVE  Op(op, d, check) \in Operations
<1>1. d \in Datasets
  BY DEF Datasets
<1>2. QED
  BY <1>1, OperationsExist

LEMMA Joined ==
  ASSUME NEW S, NEW u, NEW v, NEW w, u \in Seq(S), v \in Seq(S), w = u \o v
  PROVE  /\ w \in Seq(S) /\ Len(w) = Len(u) + Len(v)
         /\ Len(u) \in Nat /\ Len(v) \in Nat
         /\ \A i \in 1..Len(u) : w[i] = u[i]
         /\ \A i \in 1..Len(v) : w[Len(u) + i] = v[i]
OBVIOUS

\* Places in blocks of two and of four.
LEMMA InFours ==
  ASSUME NEW s \in Seasons
  PROVE  /\ 1 + ((4 * s - 3 - 1) \div 4) = s /\ 1 + ((4 * s - 3 - 1) % 4) = 1
         /\ 1 + ((4 * s - 2 - 1) \div 4) = s /\ 1 + ((4 * s - 2 - 1) % 4) = 2
         /\ 1 + ((4 * s - 1 - 1) \div 4) = s /\ 1 + ((4 * s - 1 - 1) % 4) = 3
         /\ 1 + ((4 * s - 1) \div 4) = s /\ 1 + ((4 * s - 1) % 4) = 4
         /\ 4 * s - 3 \in 1..(4 * N) /\ 4 * s - 2 \in 1..(4 * N)
         /\ 4 * s - 1 \in 1..(4 * N) /\ 4 * s \in 1..(4 * N)
<1>1. s \in Nat /\ 1 <= s /\ s <= N /\ N \in Nat
  BY SeasonsAreNaturals
<1>2. 1 + ((4 * s - 3 - 1) \div 4) = s /\ 1 + ((4 * s - 3 - 1) % 4) = 1
  BY <1>1
<1>3. 1 + ((4 * s - 2 - 1) \div 4) = s /\ 1 + ((4 * s - 2 - 1) % 4) = 2
  BY <1>1
<1>4. 1 + ((4 * s - 1 - 1) \div 4) = s /\ 1 + ((4 * s - 1 - 1) % 4) = 3
  BY <1>1
<1>5. 1 + ((4 * s - 1) \div 4) = s /\ 1 + ((4 * s - 1) % 4) = 4
  BY <1>1
<1>6. /\ 4 * s - 3 \in 1..(4 * N) /\ 4 * s - 2 \in 1..(4 * N)
      /\ 4 * s - 1 \in 1..(4 * N) /\ 4 * s \in 1..(4 * N)
  BY <1>1
<1>7. QED
  BY <1>2, <1>3, <1>4, <1>5, <1>6

LEMMA InTwos ==
  ASSUME NEW s \in Seasons
  PROVE  /\ 1 + ((2 * s - 1 - 1) \div 2) = s /\ 1 + ((2 * s - 1 - 1) % 2) = 1
         /\ 1 + ((2 * s - 1) \div 2) = s /\ 1 + ((2 * s - 1) % 2) = 2
         /\ 2 * s - 1 \in 1..(2 * N) /\ 2 * s \in 1..(2 * N)
BY SeasonsAreNaturals

LEMMA OutOfFours ==
  ASSUME NEW i \in 1..(4 * N)
  PROVE  \E s \in Seasons : i \in {4 * s - 3, 4 * s - 2, 4 * s - 1, 4 * s}
<1> DEFINE s == 1 + ((i - 1) \div 4)
<1>1. s \in Nat /\ 4 * (s - 1) <= i - 1 /\ i - 1 < 4 * s /\ s >= 1
  OBVIOUS
<1>2. s <= N
  BY <1>1, SeasonsAreNaturals
<1>3. s \in Seasons
  BY <1>1, <1>2, SeasonsAreNaturals
<1>4. i \in {4 * s - 3, 4 * s - 2, 4 * s - 1, 4 * s}
  <2> HIDE DEF s
  <2>1. QED
    BY <1>1
<1>5. QED
  BY <1>3, <1>4

LEMMA OutOfTwos ==
  ASSUME NEW i \in 1..(2 * N)
  PROVE  \E s \in Seasons : i \in {2 * s - 1, 2 * s}
<1> DEFINE s == 1 + ((i - 1) \div 2)
<1>1. s \in Nat /\ 2 * (s - 1) <= i - 1 /\ i - 1 < 2 * s /\ s >= 1
  OBVIOUS
<1>2. s <= N
  BY <1>1, SeasonsAreNaturals
<1>3. s \in Seasons
  BY <1>1, <1>2, SeasonsAreNaturals
<1>4. i \in {2 * s - 1, 2 * s}
  <2> HIDE DEF s
  <2>1. QED
    BY <1>1
<1>5. QED
  BY <1>3, <1>4

FeatureBlock(s) == <<Op("entry", Canonical(s), "none"), Publish(Canonical(s)),
                     Load(Canonical(s)), Publish(Features(s))>>

FeatureBlocks == [i \in 1..(4 * N) |-> FeatureBlock(1 + ((i - 1) \div 4))[1 + ((i - 1) % 4)]]

LEMMA FeatureBlockAt ==
  ASSUME NEW s \in Seasons
  PROVE  /\ FeatureBlocks[4 * s - 3] = Op("entry", Canonical(s), "none")
         /\ FeatureBlocks[4 * s - 2] = Publish(Canonical(s))
         /\ FeatureBlocks[4 * s - 1] = Load(Canonical(s))
         /\ FeatureBlocks[4 * s] = Publish(Features(s))
<1>1. /\ FeatureBlocks[4 * s - 3] = FeatureBlock(s)[1]
      /\ FeatureBlocks[4 * s - 2] = FeatureBlock(s)[2]
      /\ FeatureBlocks[4 * s - 1] = FeatureBlock(s)[3]
      /\ FeatureBlocks[4 * s] = FeatureBlock(s)[4]
  BY InFours DEF FeatureBlocks
<1>2. QED
  BY <1>1 DEF FeatureBlock

LEMMA FeatureBlocksSeq ==
  FeatureBlocks \in Seq(Operations) /\ Len(FeatureBlocks) = 4 * N
<1>1. \A i \in 1..(4 * N) : FeatureBlocks[i] \in Operations
  <2>1. TAKE i \in 1..(4 * N)
  <2>2. PICK s \in Seasons : i \in {4 * s - 3, 4 * s - 2, 4 * s - 1, 4 * s}
    BY OutOfFours
  <2>3. FeatureBlocks[i] \in {Op("entry", Canonical(s), "none"), Publish(Canonical(s)),
                              Load(Canonical(s)), Publish(Features(s))}
    <3>1. CASE i = 4 * s - 3
      BY <3>1, FeatureBlockAt
    <3>2. CASE i = 4 * s - 2
      BY <3>2, FeatureBlockAt
    <3>3. CASE i = 4 * s - 1
      BY <3>3, FeatureBlockAt
    <3>4. CASE i = 4 * s
      BY <3>4, FeatureBlockAt
    <3>5. QED
      BY <2>2, <3>1, <3>2, <3>3, <3>4
  <2>4. QED
    BY <2>3, SeasonOperationsExist
<1>2. DOMAIN FeatureBlocks = 1..(4 * N) /\ 4 * N \in Nat
  BY SeasonsAreNaturals DEF FeatureBlocks
<1>3. FeatureBlocks = [i \in 1..(4 * N) |-> FeatureBlocks[i]]
  BY DEF FeatureBlocks
<1>4. QED
  BY <1>1, <1>2, <1>3

\* The operations of the feature materializer.
LEMMA FeatureLayout ==
        /\ FeatureSteps \in Seq(Operations) /\ Len(FeatureSteps) = 4 * N + 1
        /\ FeatureSteps[1] = Op("listing", Training, "none")
        /\ \A s \in Seasons :
              /\ FeatureSteps[4 * s - 2] = Op("entry", Canonical(s), "none")
              /\ FeatureSteps[4 * s - 1] = Publish(Canonical(s))
              /\ FeatureSteps[4 * s] = Load(Canonical(s))
              /\ FeatureSteps[4 * s + 1] = Publish(Features(s))
        /\ \A f \in 1..(4 * N + 1) :
              f = 1 \/ \E s \in Seasons : f \in {4 * s - 2, 4 * s - 1, 4 * s, 4 * s + 1}
<1>1. FeatureSteps = <<Op("listing", Training, "none")>> \o FeatureBlocks
  BY DEF FeatureSteps, EachSeason, FeatureBlocks, FeatureBlock
<1>2. FeatureBlocks \in Seq(Operations) /\ Len(FeatureBlocks) = 4 * N
  BY FeatureBlocksSeq
<1> DEFINE first == <<Op("listing", Training, "none")>>
<1>3. /\ first \in Seq(Operations) /\ Len(first) = 1
      /\ first[1] = Op("listing", Training, "none")
  <2>1. Op("listing", Training, "none") \in Operations
    BY OtherOperationsExist DEF OpNames, Checks
  <2>2. QED
    BY <2>1
<1> HIDE DEF first
<1>9. FeatureSteps = first \o FeatureBlocks
  BY <1>1 DEF first
<1>10. /\ FeatureSteps \in Seq(Operations)
       /\ Len(FeatureSteps) = Len(first) + Len(FeatureBlocks)
       /\ \A i \in 1..Len(first) : FeatureSteps[i] = first[i]
       /\ \A i \in 1..Len(FeatureBlocks) : FeatureSteps[Len(first) + i] = FeatureBlocks[i]
  <2>1. first \in Seq(Operations) /\ FeatureBlocks \in Seq(Operations)
    BY <1>2, <1>3
  <2>2. QED
    BY <2>1, <1>9, Joined
<1>4. /\ FeatureSteps \in Seq(Operations) /\ Len(FeatureSteps) = 4 * N + 1
      /\ FeatureSteps[1] = Op("listing", Training, "none")
  BY <1>2, <1>3, <1>10, SeasonsAreNaturals
<1>5. \A i \in 1..(4 * N) : FeatureSteps[i + 1] = FeatureBlocks[i]
  BY <1>2, <1>3, <1>10, SeasonsAreNaturals
<1>6. ASSUME NEW s \in Seasons
      PROVE  /\ FeatureSteps[4 * s - 2] = Op("entry", Canonical(s), "none")
             /\ FeatureSteps[4 * s - 1] = Publish(Canonical(s))
             /\ FeatureSteps[4 * s] = Load(Canonical(s))
             /\ FeatureSteps[4 * s + 1] = Publish(Features(s))
  <2>1. /\ 4 * s - 3 \in 1..(4 * N) /\ 4 * s - 2 \in 1..(4 * N)
        /\ 4 * s - 1 \in 1..(4 * N) /\ 4 * s \in 1..(4 * N)
    BY InFours
  <2>2. /\ FeatureSteps[(4 * s - 3) + 1] = FeatureBlocks[4 * s - 3]
        /\ FeatureSteps[(4 * s - 2) + 1] = FeatureBlocks[4 * s - 2]
        /\ FeatureSteps[(4 * s - 1) + 1] = FeatureBlocks[4 * s - 1]
        /\ FeatureSteps[4 * s + 1] = FeatureBlocks[4 * s]
    BY <1>5, <2>1
  <2>3. /\ (4 * s - 3) + 1 = 4 * s - 2 /\ (4 * s - 2) + 1 = 4 * s - 1
        /\ (4 * s - 1) + 1 = 4 * s
    BY SeasonsAreNaturals
  <2>4. QED
    BY <2>2, <2>3, FeatureBlockAt
<1>7. ASSUME NEW f \in 1..(4 * N + 1), f # 1
      PROVE  \E s \in Seasons : f \in {4 * s - 2, 4 * s - 1, 4 * s, 4 * s + 1}
  <2>1. f - 1 \in 1..(4 * N)
    BY <1>7, SeasonsAreNaturals
  <2>2. PICK s \in Seasons : f - 1 \in {4 * s - 3, 4 * s - 2, 4 * s - 1, 4 * s}
    BY <2>1, OutOfFours
  <2>3. s \in Nat /\ f \in Nat
    BY SeasonsAreNaturals
  <2>4. f = 4 * s - 2 \/ f = 4 * s - 1 \/ f = 4 * s \/ f = 4 * s + 1
    BY <2>2, <2>3
  <2>5. QED
    BY <2>4
<1>8. QED
  BY <1>4, <1>6, <1>7

LoadBlock(s) == <<Load(Features(s)), Hash(Features(s))>>

LoadBlocks == [i \in 1..(2 * N) |-> LoadBlock(1 + ((i - 1) \div 2))[1 + ((i - 1) % 2)]]

LEMMA LoadBlockAt ==
  ASSUME NEW s \in Seasons
  PROVE  /\ LoadBlocks[2 * s - 1] = Load(Features(s))
         /\ LoadBlocks[2 * s] = Hash(Features(s))
<1>1. LoadBlocks[2 * s - 1] = LoadBlock(s)[1] /\ LoadBlocks[2 * s] = LoadBlock(s)[2]
  BY InTwos DEF LoadBlocks
<1>2. QED
  BY <1>1 DEF LoadBlock

LEMMA LoadBlocksSeq ==
  LoadBlocks \in Seq(Operations) /\ Len(LoadBlocks) = 2 * N
<1>1. \A i \in 1..(2 * N) : LoadBlocks[i] \in Operations
  <2>1. TAKE i \in 1..(2 * N)
  <2>2. PICK s \in Seasons : i \in {2 * s - 1, 2 * s}
    BY OutOfTwos
  <2>3. LoadBlocks[i] \in {Load(Features(s)), Hash(Features(s))}
    <3>1. CASE i = 2 * s - 1
      BY <3>1, LoadBlockAt
    <3>2. CASE i = 2 * s
      BY <3>2, LoadBlockAt
    <3>3. QED
      BY <2>2, <3>1, <3>2
  <2>4. QED
    BY <2>3, SeasonOperationsExist
<1>2. DOMAIN LoadBlocks = 1..(2 * N) /\ 2 * N \in Nat
  BY SeasonsAreNaturals DEF LoadBlocks
<1>3. LoadBlocks = [i \in 1..(2 * N) |-> LoadBlocks[i]]
  BY DEF LoadBlocks
<1>4. QED
  BY <1>1, <1>2, <1>3

\* The operations of the training materializer.
LEMMA TrainingLayout ==
        /\ TrainingSteps \in Seq(Operations) /\ Len(TrainingSteps) = 6 * N + 4
        /\ TrainingSteps[1] = Op("inputs", Training, "none")
        /\ \A f \in 1..(4 * N + 1) : TrainingSteps[f + 1] = FeatureSteps[f]
        /\ \A s \in Seasons : /\ TrainingSteps[4 * N + 2 * s + 1] = Load(Features(s))
                              /\ TrainingSteps[4 * N + 2 * s + 2] = Hash(Features(s))
        /\ TrainingSteps[6 * N + 3] = Op("checksum", Training, "none")
        /\ TrainingSteps[6 * N + 4] = Publish(Training)
        /\ \A t \in 1..(6 * N + 4) :
              \/ t = 1 \/ t - 1 \in 1..(4 * N + 1)
              \/ \E s \in Seasons : t \in {4 * N + 2 * s + 1, 4 * N + 2 * s + 2}
              \/ t = 6 * N + 3 \/ t = 6 * N + 4
<1> DEFINE first == <<Op("inputs", Training, "none")>>
           last == <<Op("checksum", Training, "none"), Publish(Training)>>
<1>1. TrainingSteps = first \o FeatureSteps \o LoadBlocks \o last
  BY DEF TrainingSteps, EachSeason, LoadBlocks, LoadBlock
<1>2. FeatureSteps \in Seq(Operations) /\ Len(FeatureSteps) = 4 * N + 1
  BY FeatureLayout
<1>3. LoadBlocks \in Seq(Operations) /\ Len(LoadBlocks) = 2 * N
  BY LoadBlocksSeq
<1>4. /\ first \in Seq(Operations) /\ Len(first) = 1 /\ first[1] = Op("inputs", Training, "none")
      /\ last \in Seq(Operations) /\ Len(last) = 2
      /\ last[1] = Op("checksum", Training, "none") /\ last[2] = Publish(Training)
  <2>1. /\ Op("inputs", Training, "none") \in Operations
        /\ Op("checksum", Training, "none") \in Operations
    BY OtherOperationsExist DEF OpNames, Checks
  <2>2. Publish(Training) \in Operations
    BY OtherOperationsExist DEF Publish, OpNames, Checks
  <2>3. QED
    BY <2>1, <2>2
<1> HIDE DEF first, last
<1> DEFINE a == first \o FeatureSteps
           b == a \o LoadBlocks
<1>20. /\ a \in Seq(Operations) /\ Len(a) = Len(first) + Len(FeatureSteps)
       /\ \A i \in 1..Len(first) : a[i] = first[i]
       /\ \A i \in 1..Len(FeatureSteps) : a[Len(first) + i] = FeatureSteps[i]
  <2>1. first \in Seq(Operations) /\ FeatureSteps \in Seq(Operations) /\ a = first \o FeatureSteps
    BY <1>2, <1>4
  <2> HIDE DEF a
  <2>2. QED
    BY <2>1, Joined
<1> HIDE DEF a
<1>5. /\ Len(a) = 4 * N + 2
      /\ a[1] = Op("inputs", Training, "none")
      /\ \A f \in 1..(4 * N + 1) : a[1 + f] = FeatureSteps[f]
  BY <1>2, <1>4, <1>20, SeasonsAreNaturals
<1>21. /\ b \in Seq(Operations) /\ Len(b) = Len(a) + Len(LoadBlocks)
       /\ \A i \in 1..Len(a) : b[i] = a[i]
       /\ \A i \in 1..Len(LoadBlocks) : b[Len(a) + i] = LoadBlocks[i]
  <2>1. a \in Seq(Operations) /\ LoadBlocks \in Seq(Operations) /\ b = a \o LoadBlocks
    BY <1>3, <1>20
  <2> HIDE DEF b
  <2>2. QED
    BY <2>1, Joined
<1> HIDE DEF b
<1>6. /\ Len(b) = 6 * N + 2
      /\ \A i \in 1..(4 * N + 2) : b[i] = a[i]
      /\ \A i \in 1..(2 * N) : b[4 * N + 2 + i] = LoadBlocks[i]
  BY <1>3, <1>5, <1>21, SeasonsAreNaturals
<1>7. TrainingSteps = b \o last
  BY <1>1 DEF a, b
<1>22. /\ TrainingSteps \in Seq(Operations) /\ Len(TrainingSteps) = Len(b) + Len(last)
       /\ \A i \in 1..Len(b) : TrainingSteps[i] = b[i]
       /\ \A i \in 1..Len(last) : TrainingSteps[Len(b) + i] = last[i]
  <2>1. b \in Seq(Operations) /\ last \in Seq(Operations)
    BY <1>4, <1>21
  <2>2. QED
    BY <2>1, <1>7, Joined
<1>8. /\ TrainingSteps \in Seq(Operations) /\ Len(TrainingSteps) = 6 * N + 4
      /\ \A i \in 1..(6 * N + 2) : TrainingSteps[i] = b[i]
      /\ TrainingSteps[6 * N + 3] = last[1]
      /\ TrainingSteps[6 * N + 4] = last[2]
  <2>1. Len(TrainingSteps) = 6 * N + 4
    BY <1>4, <1>6, <1>22, SeasonsAreNaturals
  <2>2. TrainingSteps[(6 * N + 2) + 1] = last[1] /\ TrainingSteps[(6 * N + 2) + 2] = last[2]
    BY <1>4, <1>6, <1>22
  <2>3. (6 * N + 2) + 1 = 6 * N + 3 /\ (6 * N + 2) + 2 = 6 * N + 4
    BY SeasonsAreNaturals
  <2>4. QED
    BY <1>6, <1>22, <2>1, <2>2, <2>3
<1>9. TrainingSteps[1] = Op("inputs", Training, "none")
  BY <1>5, <1>6, <1>8, SeasonsAreNaturals
<1>10. \A f \in 1..(4 * N + 1) : TrainingSteps[f + 1] = FeatureSteps[f]
  <2>1. TAKE f \in 1..(4 * N + 1)
  <2>2. f + 1 = 1 + f /\ 1 + f \in 1..(4 * N + 2) /\ 1 + f \in 1..(6 * N + 2)
    BY SeasonsAreNaturals
  <2>3. TrainingSteps[1 + f] = b[1 + f] /\ b[1 + f] = a[1 + f] /\ a[1 + f] = FeatureSteps[f]
    BY <1>5, <1>6, <1>8, <2>2
  <2>4. QED
    BY <2>2, <2>3
<1>11. ASSUME NEW s \in Seasons
       PROVE  /\ TrainingSteps[4 * N + 2 * s + 1] = Load(Features(s))
              /\ TrainingSteps[4 * N + 2 * s + 2] = Hash(Features(s))
  <2>1. 2 * s - 1 \in 1..(2 * N) /\ 2 * s \in 1..(2 * N)
    BY InTwos
  <2>2. /\ b[4 * N + 2 + (2 * s - 1)] = Load(Features(s))
        /\ b[4 * N + 2 + 2 * s] = Hash(Features(s))
    BY <1>6, <2>1, LoadBlockAt
  <2>3. /\ 4 * N + 2 + (2 * s - 1) = 4 * N + 2 * s + 1
        /\ 4 * N + 2 + 2 * s = 4 * N + 2 * s + 2
        /\ 4 * N + 2 * s + 1 \in 1..(6 * N + 2) /\ 4 * N + 2 * s + 2 \in 1..(6 * N + 2)
    BY SeasonsAreNaturals
  <2>4. QED
    BY <1>8, <2>2, <2>3
<1>12. ASSUME NEW t \in 1..(6 * N + 4),
              t # 1, t - 1 \notin 1..(4 * N + 1), t # 6 * N + 3, t # 6 * N + 4
       PROVE  \E s \in Seasons : t \in {4 * N + 2 * s + 1, 4 * N + 2 * s + 2}
  <2>1. t - (4 * N + 2) \in 1..(2 * N)
    BY <1>12, SeasonsAreNaturals
  <2>2. PICK s \in Seasons : t - (4 * N + 2) \in {2 * s - 1, 2 * s}
    BY <2>1, OutOfTwos
  <2>3. t \in {4 * N + 2 * s + 1, 4 * N + 2 * s + 2}
    BY <1>12, <2>2, SeasonsAreNaturals
  <2>4. QED
    BY <2>3
<1>13. QED
  BY <1>4, <1>8, <1>9, <1>10, <1>11, <1>12

\* What the evaluations, the assessment and the artifact do after the training.
EvaluationTail == <<Load(Training), Hash(Training), Op("publish", Evaluation, "embedded")>>
CatBoostTail == <<Load(Training), Hash(Training), Publish(Freeze),
                  Op("publish", CatBoost, "embedded")>>
AdvancedTail == <<Load(Training), Hash(Training), Load(CatBoost),
                  Op("hash", CatBoost, "tuned_on_training"), Load(Freeze),
                  Op("hash", Freeze, "freeze_of_tuning"),
                  Op("publish", Advanced, "embedded")>>
AssessmentTail == <<Load(Training), Hash(Training), Load(Evaluation), Load(CatBoost),
                    Op("load", Advanced, "one_training"), Load(Freeze),
                    Op("hash", Freeze, "freeze_of_evaluations"),
                    Op("hash", CatBoost, "tuning_of_advanced"),
                    Hash(Evaluation), Hash(Advanced),
                    Op("publish", Assessment, "embedded")>>
ArtifactTail == <<Load(Training)>> \o ArtifactInputs
                \o <<Load(CatBoost), Op("store", Assessment, "none")>>

\* Operations that publish no feature, training or assessment dataset.
Elsewhere ==
    {o \in Operations : o.op = "publish" =>
        o.d \in {Canonical(s) : s \in Seasons} \cup {Evaluation, Freeze, CatBoost, Advanced}}

LEMMA ElsewhereOperations ==
  ASSUME NEW d \in {Training, Evaluation, Freeze, CatBoost, Advanced, Assessment},
         NEW check \in Checks
  PROVE  /\ Load(d) \in Elsewhere /\ Hash(d) \in Elsewhere
         /\ Op("load", d, check) \in Elsewhere /\ Op("hash", d, check) \in Elsewhere
         /\ Op("store", d, check) \in Elsewhere /\ Op("fetch", d, check) \in Elsewhere
         /\ d \in {Evaluation, Freeze, CatBoost, Advanced} =>
               Publish(d) \in Elsewhere /\ Op("publish", d, check) \in Elsewhere
<1>1. d \in Datasets /\ "none" \in Checks
      /\ {"load", "hash", "store", "fetch", "publish"} \subseteq OpNames
  BY DEF Datasets, OpNames, Checks
<1>2. ASSUME NEW op \in {"load", "hash", "store", "fetch", "publish"}, NEW check2 \in Checks
      PROVE  Op(op, d, check2) \in Operations /\ Op(op, d, check2).op = op
             /\ Op(op, d, check2).d = d
  BY <1>1, OperationsExist
<1>3. ASSUME NEW op \in {"load", "hash", "store", "fetch", "publish"}, NEW check2 \in Checks,
             op # "publish" \/ d \in {Evaluation, Freeze, CatBoost, Advanced}
      PROVE  Op(op, d, check2) \in Elsewhere
  BY <1>2, <1>3 DEF Elsewhere
<1>4. Load(d) \in Elsewhere /\ Hash(d) \in Elsewhere
  BY <1>1, <1>3 DEF Load, Hash
<1>5. /\ Op("load", d, check) \in Elsewhere /\ Op("hash", d, check) \in Elsewhere
      /\ Op("store", d, check) \in Elsewhere /\ Op("fetch", d, check) \in Elsewhere
  BY <1>3
<1>6. d \in {Evaluation, Freeze, CatBoost, Advanced} =>
               Publish(d) \in Elsewhere /\ Op("publish", d, check) \in Elsewhere
  BY <1>1, <1>3 DEF Publish
<1>7. QED
  BY <1>4, <1>5, <1>6

LEMMA OneInSeq ==
  ASSUME NEW S, NEW a1 \in S
  PROVE  <<a1>> \in Seq(S)
OBVIOUS

LEMMA TwoInSeq ==
  ASSUME NEW S, NEW a1 \in S, NEW a2 \in S
  PROVE  <<a1, a2>> \in Seq(S)
OBVIOUS

LEMMA ThreeInSeq ==
  ASSUME NEW S, NEW a1 \in S, NEW a2 \in S, NEW a3 \in S
  PROVE  <<a1, a2, a3>> \in Seq(S)
OBVIOUS

LEMMA FourInSeq ==
  ASSUME NEW S, NEW a1 \in S, NEW a2 \in S, NEW a3 \in S, NEW a4 \in S
  PROVE  <<a1, a2, a3, a4>> \in Seq(S)
OBVIOUS

LEMMA SevenInSeq ==
  ASSUME NEW S, NEW a1 \in S, NEW a2 \in S, NEW a3 \in S, NEW a4 \in S, NEW a5 \in S,
         NEW a6 \in S, NEW a7 \in S
  PROVE  <<a1, a2, a3, a4, a5, a6, a7>> \in Seq(S)
OBVIOUS

LEMMA TenInSeq ==
  ASSUME NEW S, NEW a1 \in S, NEW a2 \in S, NEW a3 \in S, NEW a4 \in S, NEW a5 \in S,
         NEW a6 \in S, NEW a7 \in S, NEW a8 \in S, NEW a9 \in S, NEW a10 \in S
  PROVE  <<a1, a2, a3, a4, a5, a6, a7, a8, a9, a10>> \in Seq(S)
OBVIOUS

LEMMA ElevenInSeq ==
  ASSUME NEW S, NEW a1 \in S, NEW a2 \in S, NEW a3 \in S, NEW a4 \in S, NEW a5 \in S,
         NEW a6 \in S, NEW a7 \in S, NEW a8 \in S, NEW a9 \in S, NEW a10 \in S, NEW a11 \in S
  PROVE  <<a1, a2, a3, a4, a5, a6, a7, a8, a9, a10, a11>> \in Seq(S)
OBVIOUS

LEMMA Tails ==
  /\ EvaluationTail \in Seq(Elsewhere) /\ CatBoostTail \in Seq(Elsewhere)
  /\ AdvancedTail \in Seq(Elsewhere)
  /\ <<Load(Training)>> \in Seq(Elsewhere) /\ ArtifactInputs \in Seq(Elsewhere)
  /\ <<Load(CatBoost), Op("store", Assessment, "none")>> \in Seq(Elsewhere)
  /\ ArtifactTail \in Seq(Elsewhere) /\ Len(ArtifactTail) = 13
  /\ AssessmentTail \in Seq(Operations) /\ Len(AssessmentTail) = 11
  /\ \A k \in 1..10 : AssessmentTail[k] \in Elsewhere
  /\ AssessmentTail[11] = Op("publish", Assessment, "embedded")
<1>1. /\ Load(Training) \in Elsewhere /\ Hash(Training) \in Elsewhere
      /\ Load(Evaluation) \in Elsewhere /\ Hash(Evaluation) \in Elsewhere
      /\ Load(CatBoost) \in Elsewhere /\ Hash(CatBoost) \in Elsewhere
      /\ Load(Advanced) \in Elsewhere /\ Hash(Advanced) \in Elsewhere
      /\ Load(Assessment) \in Elsewhere /\ Hash(Assessment) \in Elsewhere
      /\ Load(Freeze) \in Elsewhere /\ Publish(Freeze) \in Elsewhere
  BY ElsewhereOperations DEF Checks
<1>2. /\ Op("publish", Evaluation, "embedded") \in Elsewhere
      /\ Op("publish", CatBoost, "embedded") \in Elsewhere
      /\ Op("publish", Advanced, "embedded") \in Elsewhere
  BY ElsewhereOperations DEF Checks
<1>3. /\ Op("hash", CatBoost, "tuned_on_training") \in Elsewhere
      /\ Op("hash", CatBoost, "tuning_of_advanced") \in Elsewhere
      /\ Op("hash", Freeze, "freeze_of_tuning") \in Elsewhere
      /\ Op("hash", Freeze, "freeze_of_evaluations") \in Elsewhere
      /\ Op("hash", Freeze, "provenance") \in Elsewhere
  BY ElsewhereOperations DEF Checks
<1>4. /\ Op("load", Advanced, "one_training") \in Elsewhere
      /\ Op("store", Assessment, "none") \in Elsewhere
  BY ElsewhereOperations DEF Checks
<1>5. EvaluationTail \in Seq(Elsewhere)
  BY <1>1, <1>2, ThreeInSeq DEF EvaluationTail
<1>6. CatBoostTail \in Seq(Elsewhere)
  BY <1>1, <1>2, FourInSeq DEF CatBoostTail
<1>7. AdvancedTail \in Seq(Elsewhere)
  BY <1>1, <1>2, <1>3, SevenInSeq DEF AdvancedTail
<1>8. /\ ArtifactTail \in Seq(Elsewhere) /\ Len(ArtifactTail) = 13
      /\ <<Load(Training)>> \in Seq(Elsewhere) /\ ArtifactInputs \in Seq(Elsewhere)
      /\ <<Load(CatBoost), Op("store", Assessment, "none")>> \in Seq(Elsewhere)
  <2>1. <<Load(Training)>> \in Seq(Elsewhere) /\ Len(<<Load(Training)>>) = 1
    BY <1>1, OneInSeq
  <2>2. ArtifactInputs \in Seq(Elsewhere)
    BY <1>1, <1>3, TenInSeq DEF ArtifactInputs
  <2>3. Len(ArtifactInputs) = 10
    BY DEF ArtifactInputs
  <2> DEFINE v == <<Load(Training)>>
             u == v \o ArtifactInputs
             x == <<Load(CatBoost), Op("store", Assessment, "none")>>
  <2>8. v \in Seq(Elsewhere) /\ Len(v) = 1 /\ u = v \o ArtifactInputs
    BY <2>1
  <2>4. x \in Seq(Elsewhere) /\ Len(x) = 2
    BY <1>1, <1>4, TwoInSeq
  <2>6. ArtifactTail = u \o x
    BY DEF ArtifactTail
  <2> HIDE DEF u, v, x
  <2>5. u \in Seq(Elsewhere) /\ Len(u) = 11
    <3>1. u \in Seq(Elsewhere) /\ Len(u) = Len(v) + Len(ArtifactInputs)
      BY <2>2, <2>8, Joined
    <3>2. QED
      BY <2>3, <2>8, <3>1
  <2>9. ArtifactTail \in Seq(Elsewhere) /\ Len(ArtifactTail) = Len(u) + Len(x)
    <3>1. u \in Seq(Elsewhere) /\ x \in Seq(Elsewhere) /\ ArtifactTail = u \o x
      BY <2>4, <2>5, <2>6
    <3>2. QED
      BY <3>1, Joined
  <2>10. Len(ArtifactTail) = 13
    BY <2>4, <2>5, <2>9
  <2>7. QED
    BY <2>2, <2>4, <2>8, <2>9, <2>10 DEF v, x
<1>9. AssessmentTail \in Seq(Operations) /\ Len(AssessmentTail) = 11
  <2>1. Op("publish", Assessment, "embedded") \in Operations
    BY OtherOperationsExist DEF OpNames, Checks
  <2>2. Elsewhere \subseteq Operations
    BY DEF Elsewhere
  <2>3. AssessmentTail \in Seq(Operations)
    BY <1>1, <1>3, <1>4, <2>1, <2>2, ElevenInSeq DEF AssessmentTail
  <2>4. QED
    BY <2>3 DEF AssessmentTail
<1>10. /\ AssessmentTail[1] = Load(Training) /\ AssessmentTail[2] = Hash(Training)
       /\ AssessmentTail[3] = Load(Evaluation) /\ AssessmentTail[4] = Load(CatBoost)
       /\ AssessmentTail[5] = Op("load", Advanced, "one_training")
       /\ AssessmentTail[6] = Load(Freeze)
       /\ AssessmentTail[7] = Op("hash", Freeze, "freeze_of_evaluations")
       /\ AssessmentTail[8] = Op("hash", CatBoost, "tuning_of_advanced")
       /\ AssessmentTail[9] = Hash(Evaluation) /\ AssessmentTail[10] = Hash(Advanced)
       /\ AssessmentTail[11] = Op("publish", Assessment, "embedded")
  BY DEF AssessmentTail
<1>11. \A k \in 1..10 : AssessmentTail[k] \in Elsewhere
  <2>1. \A k \in 1..10 : k = 1 \/ k = 2 \/ k = 3 \/ k = 4 \/ k = 5 \/ k = 6 \/ k = 7
                         \/ k = 8 \/ k = 9 \/ k = 10
    OBVIOUS
  <2>2. QED
    BY <2>1, <1>10, <1>1, <1>3, <1>4
<1>12. QED
  BY <1>5, <1>6, <1>7, <1>8, <1>9, <1>10, <1>11

TrainingLength == 6 * N + 4

\* The place in TrainingSteps of operation i of a command, 0 if it has none.
TrainingPlace(c, i) ==
    IF c \in {"training", "evaluation", "catboost", "advanced", "assessment", "artifact"}
       /\ i <= TrainingLength
    THEN i
    ELSE IF c = "artifact" /\ i > TrainingLength + 11 /\ i <= 2 * TrainingLength + 11
    THEN i - (TrainingLength + 11) ELSE 0

FeaturePlace(c, i) ==
    IF c = "features" THEN i
    ELSE IF TrainingPlace(c, i) >= 2 /\ TrainingPlace(c, i) <= 4 * N + 2
    THEN TrainingPlace(c, i) - 1 ELSE 0

AssessmentPlace(c, i) ==
    IF c \in {"assessment", "artifact"} /\ i > TrainingLength /\ i <= TrainingLength + 11
    THEN i - TrainingLength ELSE 0

LEMMA StepsAre ==
  /\ Steps("training") = TrainingSteps
  /\ Steps("evaluation") = TrainingSteps \o EvaluationTail
  /\ Steps("catboost") = TrainingSteps \o CatBoostTail
  /\ Steps("advanced") = TrainingSteps \o AdvancedTail
  /\ Steps("assessment") = TrainingSteps \o AssessmentTail
  /\ Steps("artifact") = ((TrainingSteps \o AssessmentTail) \o TrainingSteps) \o ArtifactTail
  /\ Steps("features") = FeatureSteps
  /\ Steps("download") = DownloadSteps
  /\ Steps("canonical") = CanonicalSteps
<1>1. /\ Steps("training") = TrainingSteps
      /\ Steps("evaluation") = EvaluationSteps /\ Steps("catboost") = CatBoostSteps
      /\ Steps("advanced") = AdvancedSteps /\ Steps("assessment") = AssessmentSteps
      /\ Steps("artifact") = ArtifactSteps
      /\ Steps("features") = FeatureSteps /\ Steps("download") = DownloadSteps
      /\ Steps("canonical") = CanonicalSteps
  BY DEF Steps
<1>2. /\ EvaluationSteps = TrainingSteps \o EvaluationTail
      /\ CatBoostSteps = TrainingSteps \o CatBoostTail
      /\ AdvancedSteps = TrainingSteps \o AdvancedTail
      /\ AssessmentSteps = TrainingSteps \o AssessmentTail
  BY DEF EvaluationSteps, CatBoostSteps, AdvancedSteps, AssessmentSteps, EvaluationTail,
         CatBoostTail, AdvancedTail, AssessmentTail
<1>3. ArtifactSteps = ((TrainingSteps \o AssessmentTail) \o TrainingSteps) \o ArtifactTail
  <2>1. ArtifactSteps = (((AssessmentSteps \o TrainingSteps) \o <<Load(Training)>>)
                          \o ArtifactInputs) \o <<Load(CatBoost), Op("store", Assessment, "none")>>
    BY DEF ArtifactSteps
  <2> DEFINE u == AssessmentSteps \o TrainingSteps
             v == <<Load(Training)>>
             w == ArtifactInputs
             x == <<Load(CatBoost), Op("store", Assessment, "none")>>
  <2>2. u \in Seq(Operations)
    BY <1>2, Tails, TrainingLayout, Joined
  <2>3. v \in Seq(Operations) /\ w \in Seq(Operations) /\ x \in Seq(Operations)
    <3>1. Elsewhere \subseteq Operations
      BY DEF Elsewhere
    <3>2. v \in Seq(Elsewhere) /\ w \in Seq(Elsewhere) /\ x \in Seq(Elsewhere)
      BY Tails
    <3>3. QED
      BY <3>1, <3>2
  <2>4. ArtifactSteps = ((u \o v) \o w) \o x /\ ArtifactTail = (v \o w) \o x
    BY <2>1 DEF ArtifactTail
  <2>5. u = (TrainingSteps \o AssessmentTail) \o TrainingSteps
    BY <1>2
  <2> HIDE DEF u, v, w, x
  <2>6. ((u \o v) \o w) \o x = u \o ((v \o w) \o x)
    <3>1. (u \o v) \o w = u \o (v \o w)
      BY <2>2, <2>3, ConcatAssociative
    <3>4. v \o w \in Seq(Operations)
      BY <2>3, ConcatProperties
    <3>2. PICK y : y = v \o w
      OBVIOUS
    <3>5. (u \o y) \o x = u \o (y \o x)
      <4>1. u \in Seq(Operations) /\ y \in Seq(Operations) /\ x \in Seq(Operations)
        BY <2>2, <2>3, <3>2, <3>4
      <4>2. QED
        BY ONLY <4>1, ConcatAssociative
    <3>3. QED
      BY <3>1, <3>2, <3>5
  <2>7. QED
    BY <2>4, <2>5, <2>6
<1>4. QED
  BY <1>1, <1>2, <1>3

LEMMA WiderSeq ==
  ASSUME NEW S, NEW T, S \subseteq T, NEW u \in Seq(S)
  PROVE  u \in Seq(T)
OBVIOUS

LEMMA ElsewhereSubset ==
  ASSUME NEW u \in Seq(Elsewhere)
  PROVE  u \in Seq(Operations)
<1>1. Elsewhere \subseteq Operations
  BY DEF Elsewhere
<1>2. QED
  BY <1>1, WiderSeq

LEMMA AfterSeq ==
  ASSUME NEW S, NEW u, NEW v, NEW w, u \in Seq(S), v \in Seq(S), w = u \o v,
         NEW i \in 1..Len(w)
  PROVE  /\ i <= Len(u) => i \in 1..Len(u) /\ w[i] = u[i]
         /\ i > Len(u) => i - Len(u) \in 1..Len(v) /\ w[i] = v[i - Len(u)]
<1>1. /\ Len(w) = Len(u) + Len(v) /\ Len(u) \in Nat /\ Len(v) \in Nat
      /\ \A k \in 1..Len(u) : w[k] = u[k]
      /\ \A k \in 1..Len(v) : w[Len(u) + k] = v[k]
  BY Joined
<1>2. ASSUME i <= Len(u) PROVE i \in 1..Len(u) /\ w[i] = u[i]
  BY <1>1, <1>2
<1>3. ASSUME i > Len(u) PROVE i - Len(u) \in 1..Len(v) /\ w[i] = v[i - Len(u)]
  <2>1. i - Len(u) \in 1..Len(v) /\ Len(u) + (i - Len(u)) = i
    BY <1>1, <1>3
  <2>2. QED
    BY <1>1, <2>1
<1>4. QED
  BY <1>2, <1>3

\* What the places of an operation say about it.
Placed(c, i) ==
    LET o == Steps(c)[i]
        t == TrainingPlace(c, i)
        f == FeaturePlace(c, i)
        k == AssessmentPlace(c, i)
    IN  /\ o \in Operations
        /\ t \in 0..TrainingLength /\ f \in 0..(4 * N + 1) /\ k \in 0..11
        /\ t # 0 => o = TrainingSteps[t]
        /\ f # 0 => o = FeatureSteps[f]
        /\ k # 0 => o = AssessmentTail[k]
        /\ t = 0 /\ f = 0 /\ k = 0 => o \in Elsewhere

LEMMA PlacedInTraining ==
  ASSUME NEW c, NEW i, TrainingPlace(c, i) \in 1..TrainingLength, c # "features",
         AssessmentPlace(c, i) = 0, Steps(c)[i] = TrainingSteps[TrainingPlace(c, i)]
  PROVE  Placed(c, i)
<1> DEFINE t == TrainingPlace(c, i)
<1>1. Len(TrainingSteps) = TrainingLength /\ TrainingSteps \in Seq(Operations)
  BY TrainingLayout DEF TrainingLength
<1>2. Steps(c)[i] \in Operations
  BY <1>1
<1>3. /\ FeaturePlace(c, i) \in 0..(4 * N + 1)
      /\ FeaturePlace(c, i) # 0 => Steps(c)[i] = FeatureSteps[FeaturePlace(c, i)]
  <2>1. CASE t >= 2 /\ t <= 4 * N + 2
    <3>1. FeaturePlace(c, i) = t - 1
      BY <2>1 DEF FeaturePlace
    <3>2. t - 1 \in 1..(4 * N + 1) /\ (t - 1) + 1 = t
      BY <2>1, SeasonsAreNaturals
    <3>3. TrainingSteps[t] = FeatureSteps[t - 1]
      BY <3>2, TrainingLayout
    <3>4. QED
      BY <3>1, <3>2, <3>3, SeasonsAreNaturals
  <2>2. CASE ~(t >= 2 /\ t <= 4 * N + 2)
    <3>1. FeaturePlace(c, i) = 0
      BY <2>2 DEF FeaturePlace
    <3>2. QED
      BY <3>1, SeasonsAreNaturals
  <2>3. QED
    BY <2>1, <2>2
<1>4. t \in 0..TrainingLength /\ t # 0 /\ 0 \in 0..11
  BY SeasonsAreNaturals DEF TrainingLength
<1>5. QED
  BY <1>2, <1>3, <1>4 DEF Placed

LEMMA PlacedElsewhere ==
  ASSUME NEW c, NEW i, TrainingPlace(c, i) = 0, c # "features",
         AssessmentPlace(c, i) = 0, Steps(c)[i] \in Elsewhere
  PROVE  Placed(c, i)
<1>1. FeaturePlace(c, i) = 0
  BY DEF FeaturePlace
<1>2. Steps(c)[i] \in Operations /\ 0 \in 0..TrainingLength /\ 0 \in 0..(4 * N + 1)
  BY SeasonsAreNaturals DEF TrainingLength, Elsewhere
<1>3. QED
  BY <1>1, <1>2 DEF Placed

LEMMA PlacedInAssessment ==
  ASSUME NEW c, NEW i, TrainingPlace(c, i) = 0, c # "features",
         AssessmentPlace(c, i) \in 1..11, Steps(c)[i] = AssessmentTail[AssessmentPlace(c, i)]
  PROVE  Placed(c, i)
<1>1. FeaturePlace(c, i) = 0
  BY DEF FeaturePlace
<1>2. Steps(c)[i] \in Operations
  <2>1. AssessmentTail \in Seq(Operations) /\ AssessmentPlace(c, i) \in 1..Len(AssessmentTail)
    BY Tails
  <2>2. QED
    BY <2>1
<1>4. 0 \in 0..TrainingLength /\ 0 \in 0..(4 * N + 1)
  BY SeasonsAreNaturals DEF TrainingLength
<1>3. QED
  BY <1>1, <1>2, <1>4 DEF Placed

LEMMA PlacedWithTail ==
  ASSUME NEW c \in {"training", "evaluation", "catboost", "advanced"},
         NEW tail \in Seq(Elsewhere), Steps(c) = TrainingSteps \o tail,
         NEW i \in 1..Len(Steps(c))
  PROVE  Placed(c, i)
<1>1. /\ TrainingSteps \in Seq(Operations) /\ Len(TrainingSteps) = TrainingLength
      /\ TrainingLength \in Nat
  BY TrainingLayout, SeasonsAreNaturals DEF TrainingLength
<1>2. tail \in Seq(Operations)
  BY ElsewhereSubset
<1>3. AssessmentPlace(c, i) = 0 /\ c # "features"
  BY DEF AssessmentPlace
<1>4. CASE i <= TrainingLength
  <2>1. TrainingPlace(c, i) = i
    BY <1>4 DEF TrainingPlace
  <2>2. i \in 1..TrainingLength /\ Steps(c)[i] = TrainingSteps[i]
    BY <1>1, <1>2, <1>4, AfterSeq
  <2>3. QED
    BY <1>3, <2>1, <2>2, PlacedInTraining
<1>5. CASE i > TrainingLength
  <2>1. TrainingPlace(c, i) = 0
    <3>1. ~(i <= TrainingLength)
      BY <1>1, <1>5
    <3>2. QED
      BY <3>1 DEF TrainingPlace
  <2>2. i - Len(TrainingSteps) \in 1..Len(tail) /\ Steps(c)[i] = tail[i - Len(TrainingSteps)]
    BY <1>1, <1>2, <1>5, AfterSeq
  <2>3. Steps(c)[i] \in Elsewhere
    BY <2>2
  <2>4. QED
    BY <1>3, <2>1, <2>3, PlacedElsewhere
<1>6. QED
  BY <1>1, <1>4, <1>5

LEMMA PlacedAssessment ==
  ASSUME NEW i \in 1..Len(Steps("assessment"))
  PROVE  Placed("assessment", i)
<1>1. /\ TrainingSteps \in Seq(Operations) /\ Len(TrainingSteps) = TrainingLength
      /\ TrainingLength \in Nat
  BY TrainingLayout, SeasonsAreNaturals DEF TrainingLength
<1>2. /\ AssessmentTail \in Seq(Operations) /\ Len(AssessmentTail) = 11
      /\ Steps("assessment") = TrainingSteps \o AssessmentTail
  BY Tails, StepsAre
<1>3. /\ i <= Len(TrainingSteps) => /\ i \in 1..Len(TrainingSteps)
                                    /\ Steps("assessment")[i] = TrainingSteps[i]
      /\ i > Len(TrainingSteps) =>
            /\ i - Len(TrainingSteps) \in 1..Len(AssessmentTail)
            /\ Steps("assessment")[i] = AssessmentTail[i - Len(TrainingSteps)]
  <2>1. /\ TrainingSteps \in Seq(Operations) /\ AssessmentTail \in Seq(Operations)
        /\ Steps("assessment") = TrainingSteps \o AssessmentTail
    BY <1>1, <1>2
  <2>2. QED
    BY <2>1, AfterSeq
<1>4. CASE i <= TrainingLength
  <2>1. TrainingPlace("assessment", i) = i /\ AssessmentPlace("assessment", i) = 0
    BY <1>1, <1>4 DEF TrainingPlace, AssessmentPlace
  <2>2. QED
    BY <1>1, <1>3, <1>4, <2>1, PlacedInTraining
<1>5. CASE i > TrainingLength
  <2>1. i - TrainingLength \in 1..11
        /\ Steps("assessment")[i] = AssessmentTail[i - TrainingLength]
    BY <1>1, <1>2, <1>3, <1>5
  <2>2. ~(i <= TrainingLength) /\ i <= TrainingLength + 11
    BY <1>1, <1>5, <2>1
  <2>3. TrainingPlace("assessment", i) = 0
        /\ AssessmentPlace("assessment", i) = i - TrainingLength
    BY <1>5, <2>2 DEF TrainingPlace, AssessmentPlace
  <2>4. QED
    BY <2>1, <2>3, PlacedInAssessment
<1>6. QED
  BY <1>1, <1>4, <1>5

LEMMA PlacedArtifact ==
  ASSUME NEW i \in 1..Len(Steps("artifact"))
  PROVE  Placed("artifact", i)
<1> DEFINE u == TrainingSteps \o AssessmentTail
           v == u \o TrainingSteps
<1>1. /\ TrainingSteps \in Seq(Operations) /\ Len(TrainingSteps) = TrainingLength
      /\ TrainingLength \in Nat
  BY TrainingLayout, SeasonsAreNaturals DEF TrainingLength
<1>2. /\ AssessmentTail \in Seq(Operations) /\ Len(AssessmentTail) = 11
      /\ ArtifactTail \in Seq(Operations) /\ Len(ArtifactTail) = 13
      /\ ArtifactTail \in Seq(Elsewhere)
  BY Tails, ElsewhereSubset
<1>15. u = TrainingSteps \o AssessmentTail
  OBVIOUS
<1>16. v = u \o TrainingSteps
  OBVIOUS
<1>17. TrainingSteps \in Seq(Operations) /\ AssessmentTail \in Seq(Operations)
       /\ ArtifactTail \in Seq(Operations)
  BY <1>1, <1>2
<1> HIDE DEF u, v
<1>3. u \in Seq(Operations) /\ Len(u) = Len(TrainingSteps) + Len(AssessmentTail)
  BY <1>15, <1>17, Joined
<1>4. v \in Seq(Operations) /\ Len(v) = Len(u) + Len(TrainingSteps)
  <2>1. u \in Seq(Operations) /\ TrainingSteps \in Seq(Operations) /\ v = u \o TrainingSteps
    BY <1>3, <1>16, <1>17
  <2>2. QED
    BY <2>1, Joined
<1>5. Steps("artifact") = v \o ArtifactTail
  <2>1. Steps("artifact") = ((TrainingSteps \o AssessmentTail) \o TrainingSteps) \o ArtifactTail
    BY StepsAre
  <2>2. QED
    BY <2>1, <1>15, <1>16
<1>6. Len(u) = TrainingLength + 11 /\ Len(v) = 2 * TrainingLength + 11
  BY <1>1, <1>2, <1>3, <1>4
<1>7. /\ i <= Len(v) => i \in 1..Len(v) /\ Steps("artifact")[i] = v[i]
      /\ i > Len(v) => /\ i - Len(v) \in 1..Len(ArtifactTail)
                       /\ Steps("artifact")[i] = ArtifactTail[i - Len(v)]
  <2>1. v \in Seq(Operations) /\ ArtifactTail \in Seq(Operations)
        /\ Steps("artifact") = v \o ArtifactTail
    BY <1>4, <1>5, <1>17
  <2>2. QED
    BY <2>1, AfterSeq
<1>8. /\ i \in 1..Len(v) /\ i <= Len(u) => i \in 1..Len(u) /\ v[i] = u[i]
      /\ i \in 1..Len(v) /\ i > Len(u) =>
            /\ i - Len(u) \in 1..Len(TrainingSteps)
            /\ v[i] = TrainingSteps[i - Len(u)]
  BY <1>3, <1>16, <1>17, AfterSeq
<1>9. /\ i \in 1..Len(u) /\ i <= Len(TrainingSteps) =>
            i \in 1..Len(TrainingSteps) /\ u[i] = TrainingSteps[i]
      /\ i \in 1..Len(u) /\ i > Len(TrainingSteps) =>
            /\ i - Len(TrainingSteps) \in 1..Len(AssessmentTail)
            /\ u[i] = AssessmentTail[i - Len(TrainingSteps)]
  BY <1>15, <1>17, AfterSeq
<1>10. CASE i <= TrainingLength
  <2>1. TrainingPlace("artifact", i) = i /\ AssessmentPlace("artifact", i) = 0
    BY <1>1, <1>10 DEF TrainingPlace, AssessmentPlace
  <2>2. i <= Len(v) /\ i <= Len(u) /\ i <= Len(TrainingSteps)
    BY <1>1, <1>6, <1>10
  <2>3. i \in 1..TrainingLength /\ Steps("artifact")[i] = TrainingSteps[i]
    BY <1>1, <1>7, <1>8, <1>9, <2>2
  <2>4. QED
    BY <2>1, <2>3, PlacedInTraining
<1>11. CASE i > TrainingLength /\ i <= TrainingLength + 11
  <2>1. i <= Len(v) /\ i <= Len(u) /\ i > Len(TrainingSteps)
    BY <1>1, <1>6, <1>11
  <2>2. i - TrainingLength \in 1..11
        /\ Steps("artifact")[i] = AssessmentTail[i - TrainingLength]
    BY <1>1, <1>2, <1>7, <1>8, <1>9, <2>1
  <2>3. ~(i <= TrainingLength) /\ ~(i > TrainingLength + 11)
    BY <1>1, <1>11
  <2>4. TrainingPlace("artifact", i) = 0
        /\ AssessmentPlace("artifact", i) = i - TrainingLength
    BY <1>11, <2>3 DEF TrainingPlace, AssessmentPlace
  <2>5. QED
    BY <2>2, <2>4, PlacedInAssessment
<1>12. CASE i > TrainingLength + 11 /\ i <= 2 * TrainingLength + 11
  <2>1. i <= Len(v) /\ i > Len(u)
    BY <1>6, <1>12
  <2>2. i - (TrainingLength + 11) \in 1..TrainingLength
        /\ Steps("artifact")[i] = TrainingSteps[i - (TrainingLength + 11)]
    BY <1>1, <1>6, <1>7, <1>8, <2>1
  <2>3. ~(i <= TrainingLength) /\ ~(i <= TrainingLength + 11)
    BY <1>1, <1>12
  <2>4. TrainingPlace("artifact", i) = i - (TrainingLength + 11)
        /\ AssessmentPlace("artifact", i) = 0
    BY <1>12, <2>3 DEF TrainingPlace, AssessmentPlace
  <2>5. QED
    BY <2>2, <2>4, PlacedInTraining
<1>13. CASE i > 2 * TrainingLength + 11
  <2>1. i > Len(v)
    BY <1>6, <1>13
  <2>2. Steps("artifact")[i] \in Elsewhere
    <3>1. ArtifactTail \in Seq(Elsewhere) /\ i - Len(v) \in 1..Len(ArtifactTail)
          /\ Steps("artifact")[i] = ArtifactTail[i - Len(v)]
      BY <1>2, <1>7, <2>1
    <3>2. QED
      BY <3>1
  <2>3. ~(i <= TrainingLength) /\ ~(i <= TrainingLength + 11)
        /\ ~(i <= 2 * TrainingLength + 11)
    BY <1>1, <1>13
  <2>4. TrainingPlace("artifact", i) = 0 /\ AssessmentPlace("artifact", i) = 0
    BY <2>3 DEF TrainingPlace, AssessmentPlace
  <2>5. QED
    BY <2>2, <2>4, PlacedElsewhere
<1>14. QED
  BY <1>1, <1>10, <1>11, <1>12, <1>13

LEMMA PlacedFeatures ==
  ASSUME NEW i \in 1..Len(Steps("features"))
  PROVE  Placed("features", i)
<1>1. /\ FeatureSteps \in Seq(Operations) /\ Len(FeatureSteps) = 4 * N + 1
      /\ Steps("features") = FeatureSteps
  BY FeatureLayout, StepsAre
<1>2. /\ TrainingPlace("features", i) = 0 /\ AssessmentPlace("features", i) = 0
      /\ FeaturePlace("features", i) = i
  BY DEF TrainingPlace, AssessmentPlace, FeaturePlace
<1>3. i \in 1..(4 * N + 1) /\ i \in 0..(4 * N + 1) /\ i # 0 /\ 0 \in 0..TrainingLength
  BY <1>1, SeasonsAreNaturals DEF TrainingLength
<1>4. FeatureSteps[i] \in Operations
  BY <1>1, <1>3
<1>5. QED
  BY <1>1, <1>2, <1>3, <1>4 DEF Placed

DownloadBlock(s) == <<Op("fetch", Canonical(s), "none")>>

LEMMA DownloadElsewhere == DownloadSteps \in Seq(Elsewhere) /\ Len(DownloadSteps) = N + 1
<1> DEFINE u == <<Op("inputs", Training, "none")>>
           v == [i \in 1..N |-> Op("fetch", Canonical(i), "none")]
<1>1. DownloadSteps = u \o v
  <2> DEFINE w == [i \in 1..(1 * N) |-> DownloadBlock(1 + ((i - 1) \div 1))[1 + ((i - 1) % 1)]]
  <2>1. DownloadSteps = u \o w
    BY DEF DownloadSteps, EachSeason, DownloadBlock
  <2>2. \A i \in 1..N : 1 + ((i - 1) \div 1) = i /\ 1 + ((i - 1) % 1) = 1
    BY SeasonsAreNaturals
  <2>3. 1 * N = N
    BY SeasonsAreNaturals
  <2>4. \A i \in 1..N : DownloadBlock(i)[1] = Op("fetch", Canonical(i), "none")
    BY DEF DownloadBlock
  <2>5. w = v
    <3>1. \A i \in 1..N : w[i] = v[i]
      BY <2>2, <2>3, <2>4
    <3>2. QED
      BY <2>3, <3>1
  <2>6. QED
    BY <2>1, <2>5
<1>2. u \in Seq(Elsewhere)
  <2>1. Op("inputs", Training, "none") \in Operations
    BY OtherOperationsExist DEF OpNames, Checks
  <2>4. Op("inputs", Training, "none").op = "inputs"
    BY DEF Op
  <2>2. Op("inputs", Training, "none") \in Elsewhere
    BY <2>1, <2>4 DEF Elsewhere
  <2>3. QED
    BY <2>2, OneInSeq
<1>3. v \in Seq(Elsewhere)
  <2>1. ASSUME NEW i \in 1..N
        PROVE  Op("fetch", Canonical(i), "none") \in Elsewhere
    <3>1. Canonical(i) \in Datasets /\ "fetch" \in OpNames /\ "none" \in Checks
      BY DEF Datasets, Seasons, OpNames, Checks
    <3>2. Op("fetch", Canonical(i), "none") \in Operations
          /\ Op("fetch", Canonical(i), "none").op = "fetch"
      BY <3>1, OperationsExist
    <3>3. QED
      BY <3>2 DEF Elsewhere
  <2>2. v \in [1..N -> Elsewhere] /\ N \in Nat
    BY <2>1, SeasonsAreNaturals
  <2>3. QED
    BY <2>2
<1>5. Len(u) = 1 /\ Len(v) = N
  BY SeasonsAreNaturals
<1> HIDE DEF u, v
<1>4. DownloadSteps \in Seq(Elsewhere) /\ Len(DownloadSteps) = Len(u) + Len(v)
  BY <1>1, <1>2, <1>3, Joined
<1>6. QED
  BY <1>4, <1>5, SeasonsAreNaturals

CanonicalBlock(s) == <<Op("entry", Canonical(s), "none"), Publish(Canonical(s))>>

LEMMA CanonicalElsewhere == CanonicalSteps \in Seq(Elsewhere) /\ Len(CanonicalSteps) = 2 * N
<1>1. CanonicalSteps =
        [i \in 1..(2 * N) |-> CanonicalBlock(1 + ((i - 1) \div 2))[1 + ((i - 1) % 2)]]
  BY DEF CanonicalSteps, EachSeason, CanonicalBlock
<1>2. ASSUME NEW s \in Seasons
      PROVE  /\ Op("entry", Canonical(s), "none") \in Elsewhere
             /\ Publish(Canonical(s)) \in Elsewhere
  <2>1. Canonical(s) \in Datasets /\ {"entry", "publish"} \subseteq OpNames /\ "none" \in Checks
    BY DEF Datasets, OpNames, Checks
  <2>2. /\ Op("entry", Canonical(s), "none") \in Operations
        /\ Op("entry", Canonical(s), "none").op = "entry"
        /\ Op("publish", Canonical(s), "none") \in Operations
        /\ Op("publish", Canonical(s), "none").d = Canonical(s)
    BY <2>1, OperationsExist
  <2>3. QED
    BY <2>2 DEF Elsewhere, Publish
<1>3. ASSUME NEW i \in 1..(2 * N)
      PROVE  CanonicalBlock(1 + ((i - 1) \div 2))[1 + ((i - 1) % 2)] \in Elsewhere
  <2>1. PICK s \in Seasons : i = 2 * s - 1 \/ i = 2 * s
    BY OutOfTwos
  <2>2. CASE i = 2 * s - 1
    <3>1. CanonicalBlock(1 + ((i - 1) \div 2))[1 + ((i - 1) % 2)] = CanonicalBlock(s)[1]
      BY <2>2, InTwos
    <3>2. QED
      BY <3>1, <1>2 DEF CanonicalBlock
  <2>3. CASE i = 2 * s
    <3>1. CanonicalBlock(1 + ((i - 1) \div 2))[1 + ((i - 1) % 2)] = CanonicalBlock(s)[2]
      BY <2>3, InTwos
    <3>2. QED
      BY <3>1, <1>2 DEF CanonicalBlock
  <2>4. QED
    BY <2>1, <2>2, <2>3
<1>4. CanonicalSteps \in [1..(2 * N) -> Elsewhere] /\ 2 * N \in Nat
  BY <1>1, <1>3, SeasonsAreNaturals
<1>5. QED
  BY <1>4

LEMMA PlacedOther ==
  ASSUME NEW c \in {"download", "canonical"}, NEW i \in 1..Len(Steps(c))
  PROVE  Placed(c, i)
<1>1. Steps(c) \in Seq(Elsewhere)
  BY StepsAre, DownloadElsewhere, CanonicalElsewhere
<1>2. Steps(c)[i] \in Elsewhere
  BY <1>1
<1>3. TrainingPlace(c, i) = 0 /\ AssessmentPlace(c, i) = 0 /\ c # "features"
  BY DEF TrainingPlace, AssessmentPlace
<1>4. QED
  BY <1>2, <1>3, PlacedElsewhere

\* Every operation of every command stands where its places say.
LEMMA CommandLayout ==
  ASSUME NEW c \in AllCommands, NEW i \in 1..Len(Steps(c))
  PROVE  Placed(c, i)
<1>1. CASE c = "training"
  <2>1. <<>> \in Seq(Elsewhere) /\ TrainingSteps \in Seq(Operations)
    BY TrainingLayout
  <2>2. TrainingSteps \o <<>> = TrainingSteps
    BY <2>1, ConcatEmptySeq
  <2>3. Steps(c) = TrainingSteps \o <<>>
    BY <1>1, <2>2, StepsAre
  <2>4. QED
    BY <1>1, <2>1, <2>3, PlacedWithTail
<1>2. CASE c = "evaluation"
  BY <1>2, StepsAre, Tails, PlacedWithTail
<1>3. CASE c = "catboost"
  BY <1>3, StepsAre, Tails, PlacedWithTail
<1>4. CASE c = "advanced"
  BY <1>4, StepsAre, Tails, PlacedWithTail
<1>5. CASE c \in {"assessment", "artifact", "features", "download", "canonical"}
  BY <1>5, PlacedAssessment, PlacedArtifact, PlacedFeatures, PlacedOther
<1>6. QED
  BY <1>1, <1>2, <1>3, <1>4, <1>5 DEF AllCommands

LEMMA NextPlaces ==
  ASSUME NEW c, NEW i \in Nat \ {0}
  PROVE  /\ TrainingPlace(c, i + 1) > 1 => TrainingPlace(c, i) = TrainingPlace(c, i + 1) - 1
         /\ FeaturePlace(c, i + 1) > 1 => FeaturePlace(c, i) = FeaturePlace(c, i + 1) - 1
         /\ AssessmentPlace(c, i + 1) > 1 => AssessmentPlace(c, i) = AssessmentPlace(c, i + 1) - 1
<1>1. TrainingLength \in Nat /\ N \in Nat
  BY SeasonsAreNaturals DEF TrainingLength
<1>2. TrainingPlace(c, i + 1) > 1 => TrainingPlace(c, i) = TrainingPlace(c, i + 1) - 1
  BY <1>1 DEF TrainingPlace
<1>3. AssessmentPlace(c, i + 1) > 1 => AssessmentPlace(c, i) = AssessmentPlace(c, i + 1) - 1
  BY <1>1 DEF AssessmentPlace
<1>4. TrainingPlace(c, i) \in Nat /\ TrainingPlace(c, i + 1) \in Nat
  BY <1>1 DEF TrainingPlace
<1>5. FeaturePlace(c, i + 1) > 1 => FeaturePlace(c, i) = FeaturePlace(c, i + 1) - 1
  BY <1>1, <1>2, <1>4 DEF FeaturePlace
<1>6. QED
  BY <1>2, <1>3, <1>5

\* A kind of dataset tells it from the others.
LEMMA DatasetsDiffer ==
  ASSUME NEW s \in Seasons
  PROVE  /\ Canonical(s) \notin {Training, Evaluation, Freeze, CatBoost, Advanced, Assessment}
         /\ Features(s) \notin {Training, Evaluation, Freeze, CatBoost, Advanced, Assessment}
         /\ \A t \in Seasons : /\ Canonical(s) # Features(t)
                               /\ Canonical(s) = Canonical(t) => s = t
                               /\ Features(s) = Features(t) => s = t
BY DEF Canonical, Features, Training, Evaluation, Freeze, CatBoost, Advanced, Assessment

LEMMA OthersDiffer ==
  /\ Training \notin {Evaluation, Freeze, CatBoost, Advanced, Assessment}
  /\ Evaluation \notin {Freeze, CatBoost, Advanced, Assessment}
  /\ Freeze \notin {CatBoost, Advanced, Assessment}
  /\ CatBoost \notin {Advanced, Assessment}
  /\ Advanced # Assessment
BY DEF Training, Evaluation, Freeze, CatBoost, Advanced, Assessment

\* A dataset of the features, the training or the assessment is published at
\* one place only.
LEMMA PublishPlaces ==
  ASSUME NEW c, NEW i, Placed(c, i), Steps(c)[i].op = "publish"
  PROVE  /\ \A s \in Seasons : Steps(c)[i].d = Features(s) => FeaturePlace(c, i) = 4 * s + 1
         /\ Steps(c)[i].d = Training => TrainingPlace(c, i) = TrainingLength
         /\ Steps(c)[i].d = Assessment => AssessmentPlace(c, i) = 11
<1> DEFINE o == Steps(c)[i]
<1>1. ASSUME o \in Elsewhere
      PROVE  /\ o.d # Training /\ o.d # Assessment
             /\ \A s \in Seasons : o.d # Features(s)
  BY <1>1, DatasetsDiffer, OthersDiffer DEF Elsewhere
<1>2. ASSUME NEW f \in 1..(4 * N + 1), o = FeatureSteps[f]
      PROVE  /\ o.d # Training /\ o.d # Assessment
             /\ \A s \in Seasons : o.d = Features(s) => f = 4 * s + 1
  <2>1. f # 1
    BY <1>2, FeatureLayout DEF Op
  <2>2. PICK t \in Seasons : f \in {4 * t - 2, 4 * t - 1, 4 * t, 4 * t + 1}
    BY <2>1, FeatureLayout
  <2>3. o \in {Op("entry", Canonical(t), "none"), Publish(Canonical(t)), Load(Canonical(t)),
               Publish(Features(t))}
    <3>1. /\ FeatureSteps[4 * t - 2] = Op("entry", Canonical(t), "none")
          /\ FeatureSteps[4 * t - 1] = Publish(Canonical(t))
          /\ FeatureSteps[4 * t] = Load(Canonical(t))
          /\ FeatureSteps[4 * t + 1] = Publish(Features(t))
      BY FeatureLayout
    <3>2. QED
      BY <1>2, <2>2, <3>1
  <2>4. CASE o = Publish(Features(t)) /\ f = 4 * t + 1
    BY <2>4, DatasetsDiffer DEF Publish, Op
  <2>5. CASE o = Publish(Canonical(t))
    BY <2>5, DatasetsDiffer DEF Publish, Op
  <2>6. o # Op("entry", Canonical(t), "none") /\ o # Load(Canonical(t))
    BY DEF Op, Load
  <2>7. o = Publish(Features(t)) => f = 4 * t + 1
    <3>1. Publish(Features(t)) # Publish(Canonical(t))
      BY DatasetsDiffer DEF Publish, Op
    <3>2. QED
      BY <1>2, <2>2, <2>6, <3>1, FeatureLayout
  <2>8. QED
    BY <2>3, <2>4, <2>5, <2>6, <2>7
<1>3. ASSUME NEW t \in 1..TrainingLength, o = TrainingSteps[t], t - 1 \notin 1..(4 * N + 1)
      PROVE  t = TrainingLength /\ o.d = Training
  <2>1. t # 1
    BY <1>3, TrainingLayout DEF Op
  <2>2. ASSUME NEW s \in Seasons PROVE t # 4 * N + 2 * s + 1 /\ t # 4 * N + 2 * s + 2
    <3>1. /\ TrainingSteps[4 * N + 2 * s + 1] = Load(Features(s))
          /\ TrainingSteps[4 * N + 2 * s + 2] = Hash(Features(s))
      BY TrainingLayout
    <3>2. Load(Features(s)).op = "load" /\ Hash(Features(s)).op = "hash"
      BY DEF Load, Hash, Op
    <3>3. QED
      BY <1>3, <3>1, <3>2
  <2>3. t # 6 * N + 3
    BY <1>3, TrainingLayout DEF Op
  <2>4. t \in 1..(6 * N + 4)
    BY DEF TrainingLength
  <2>5. \/ t = 1 \/ t - 1 \in 1..(4 * N + 1)
        \/ \E s \in Seasons : t \in {4 * N + 2 * s + 1, 4 * N + 2 * s + 2}
        \/ t = 6 * N + 3 \/ t = 6 * N + 4
    BY <2>4, TrainingLayout
  <2>6. t = 6 * N + 4
    BY <1>3, <2>1, <2>2, <2>3, <2>5
  <2>7. o = Publish(Training)
    BY <1>3, <2>6, TrainingLayout
  <2>8. QED
    BY <2>6, <2>7 DEF TrainingLength, Publish, Op
<1>4. ASSUME NEW k \in 1..11, o = AssessmentTail[k]
      PROVE  /\ o.d = Assessment => k = 11
             /\ o.d # Training /\ \A s \in Seasons : o.d # Features(s)
  <2>1. CASE k = 11
    <3>1. o.d = Assessment
      BY <1>4, <2>1, Tails DEF Op
    <3>2. QED
      BY <2>1, <3>1, DatasetsDiffer, OthersDiffer
  <2>2. CASE k # 11
    <3>1. k \in 1..10
      BY <2>2
    <3>2. o \in Elsewhere
      BY <1>4, <3>1, Tails
    <3>3. QED
      BY <1>1, <3>2
  <2>3. QED
    BY <2>1, <2>2
<1>5. /\ TrainingPlace(c, i) \in 0..TrainingLength
      /\ FeaturePlace(c, i) \in 0..(4 * N + 1) /\ AssessmentPlace(c, i) \in 0..11
      /\ TrainingPlace(c, i) # 0 => o = TrainingSteps[TrainingPlace(c, i)]
      /\ FeaturePlace(c, i) # 0 => o = FeatureSteps[FeaturePlace(c, i)]
      /\ AssessmentPlace(c, i) # 0 => o = AssessmentTail[AssessmentPlace(c, i)]
      /\ TrainingPlace(c, i) = 0 /\ FeaturePlace(c, i) = 0 /\ AssessmentPlace(c, i) = 0 =>
            o \in Elsewhere
  BY DEF Placed
<1>6. CASE FeaturePlace(c, i) # 0
  <2>1. FeaturePlace(c, i) \in 1..(4 * N + 1)
    BY <1>5, <1>6, SeasonsAreNaturals
  <2>2. QED
    BY <1>2, <1>5, <1>6, <2>1
<1>7. CASE FeaturePlace(c, i) = 0 /\ TrainingPlace(c, i) # 0
  <2> DEFINE t == TrainingPlace(c, i)
  <2>1. t \in 1..TrainingLength /\ o = TrainingSteps[t]
    BY <1>5, <1>7, SeasonsAreNaturals DEF TrainingLength
  <2>2. c # "features"
    BY <1>7 DEF TrainingPlace
  <2>3. ~(t >= 2 /\ t <= 4 * N + 2)
    <3>1. ASSUME t >= 2, t <= 4 * N + 2 PROVE FALSE
      <4>1. FeaturePlace(c, i) = t - 1
        BY <2>2, <3>1 DEF FeaturePlace
      <4>2. QED
        BY <1>7, <2>1, <3>1, <4>1
    <3>2. QED
      BY <3>1
  <2>4. t - 1 \notin 1..(4 * N + 1)
    BY <2>1, <2>3, SeasonsAreNaturals
  <2> HIDE DEF t
  <2>5. t = TrainingLength /\ o.d = Training
    BY <1>3, <2>1, <2>4
  <2>6. QED
    BY <2>5, DatasetsDiffer, OthersDiffer DEF t
<1>8. CASE AssessmentPlace(c, i) # 0 /\ FeaturePlace(c, i) = 0 /\ TrainingPlace(c, i) = 0
  <2>1. AssessmentPlace(c, i) \in 1..11
    BY <1>5, <1>8
  <2>2. QED
    BY <1>4, <1>5, <1>8, <2>1
<1>9. CASE AssessmentPlace(c, i) = 0 /\ FeaturePlace(c, i) = 0 /\ TrainingPlace(c, i) = 0
  BY <1>1, <1>5, <1>9
<1>10. QED
  BY <1>6, <1>7, <1>8, <1>9

\* What a job has read, apart from the file it is reading.
SameReads(l, k) ==
    k.inputs = l.inputs /\ k.listing = l.listing /\ k.held = l.held /\ k.sums = l.sums

\* A job goes on with the same operation; what it has of a file it loads is on disk.
Waits(j) ==
    \E phase, k :
        /\ Stayed(j, phase, k) /\ SameReads(job[j].l, k)
        /\ Current(j).op = "load" /\ Current(j).d[1] # "canonical" =>
              k.part # None /\ k.part = disk[Current(j).d].manifest

\* What a job has read when its operation is complete.
Completes(j) ==
    LET l == job[j].l
        o == Current(j)
    IN  \E k :
        /\ Completed(j, k)
        /\ \/ /\ o.op = "load" /\ job[j].phase = "second"
              /\ \E r, m : /\ Loads(o.d, r, m, l) /\ m # None
                           /\ m = IF o.d[1] = "canonical" THEN disk[o.d].manifest ELSE l.part
                           /\ k = Loaded(l, o.d, r, m) /\ Passes(o.check, k)
           \/ /\ o.op = "hash" /\ disk[o.d].manifest # None
              /\ k = Hashed(l, o.d, disk[o.d].manifest) /\ Passes(o.check, k)
           \/ o.op = "publish" /\ k = Returned(o.d, l)
           \/ o.op = "inputs" /\ k = [l EXCEPT !.inputs = historical]
           \/ o.op = "listing" /\ k = [l EXCEPT !.listing = historical]
           \/ o.op \in {"checksum", "entry", "fetch", "store"} /\ SameReads(l, k)

LEMMA ReadsUpdated ==
  ASSUME NEW l, LocalsRecord(l), NEW v
  PROVE  /\ SameReads(l, l)
         /\ SameReads(l, [l EXCEPT !.part = v]) /\ [l EXCEPT !.part = v].part = v
         /\ SameReads(l, [l EXCEPT !.entry = v])
         /\ SameReads(l, [l EXCEPT !.historical_sum = v])
BY DEF LocalsRecord, SameReads

LEMMA StepOutcome ==
  ASSUME JobShapes, NEW j \in Jobs, StepEffect(j)
  PROVE  Running(j) /\ (Ended(j) \/ Waits(j) \/ Completes(j))
<1> DEFINE l == job[j].l
           o == Current(j)
<1>1. LocalsRecord(l)
  BY OwnLocals
<1>2. \A v : /\ SameReads(l, l)
             /\ SameReads(l, [l EXCEPT !.part = v]) /\ [l EXCEPT !.part = v].part = v
             /\ SameReads(l, [l EXCEPT !.entry = v])
             /\ SameReads(l, [l EXCEPT !.historical_sum = v])
  BY <1>1, ReadsUpdated
<1> HIDE DEF l
<1>3. ASSUME NEW phase, o.op # "load", Stayed(j, phase, l) PROVE Waits(j)
  BY <1>2, <1>3 DEF Waits, l
<1>4. ASSUME o.op \in {"checksum", "entry", "fetch", "store"}, Completed(j, l) PROVE Completes(j)
  BY <1>2, <1>4 DEF Completes, l
<1>5. ASSUME ReadEffect(j) PROVE Waits(j) \/ Completes(j)
  <2>1. CASE At(j, "inputs", "begin") /\ Completed(j, [l EXCEPT !.inputs = historical])
    BY <2>1 DEF Completes, At, l
  <2>2. CASE At(j, "listing", "begin") /\ Completed(j, [l EXCEPT !.listing = historical])
    BY <2>2 DEF Completes, At, l
  <2>3. CASE At(j, "checksum", "begin") /\ Completed(j, [l EXCEPT !.historical_sum = historical])
    BY <1>2, <2>3 DEF Completes, At, l
  <2>4. CASE /\ At(j, "entry", "begin")
             /\ Stayed(j, "parse", [l EXCEPT !.entry = historical[o.d[2]]])
    BY <1>2, <2>4 DEF Waits, At, l
  <2>5. CASE At(j, "entry", "parse") /\ Completed(j, l)
    BY <2>5, <1>4 DEF At
  <2>6. QED
    BY <1>5, <2>1, <2>2, <2>3, <2>4, <2>5 DEF ReadEffect, l
<1>6. ASSUME LoadEffect(j) PROVE Waits(j) \/ Completes(j)
  <2>1. CASE /\ At(j, "load", "begin")
             /\ \E part : /\ Stayed(j, "second", [l EXCEPT !.part = part])
                          /\ part # None
                          /\ part = IF o.d[1] = "canonical" THEN disk[o.d].rows
                                    ELSE disk[o.d].manifest
    BY <1>2, <2>1 DEF Waits, l
  <2>2. CASE /\ At(j, "load", "second")
             /\ \E r, m : /\ Loads(o.d, r, m, l) /\ m # None
                          /\ r = IF o.d[1] = "canonical" THEN l.part ELSE disk[o.d].rows
                          /\ m = IF o.d[1] = "canonical" THEN disk[o.d].manifest ELSE l.part
                          /\ Passes(Current(j).check, Loaded(l, o.d, r, m))
                          /\ Completed(j, Loaded(l, o.d, r, m))
    BY <2>2 DEF Completes, At, l
  <2>3. CASE /\ At(j, "hash", "begin")
             /\ disk[o.d].manifest # None
             /\ Passes(Current(j).check, Hashed(l, o.d, disk[o.d].manifest))
             /\ Completed(j, Hashed(l, o.d, disk[o.d].manifest))
    BY <2>3 DEF Completes, At, l
  <2>4. QED
    BY <1>6, <2>1, <2>2, <2>3 DEF LoadEffect, l
<1>7. ASSUME PublishStays(j) PROVE Waits(j) \/ Completes(j)
  <2>1. o.op = "publish"
    BY <1>7 DEF PublishStays, At
  <2>2. (\E phase : Stayed(j, phase, l)) \/ Completed(j, Returned(o.d, l))
    BY <1>7 DEF PublishStays, l
  <2>3. QED
    BY <1>3, <2>1, <2>2 DEF Completes, l
<1>8. ASSUME FetchStays(j) PROVE Waits(j) \/ Completes(j)
  BY <1>3, <1>4, <1>8 DEF FetchStays, At, l
<1>9. ASSUME StoreStays(j) PROVE Waits(j) \/ Completes(j)
  <2>1. o.op = "store"
    BY <1>9 DEF StoreStays, At
  <2>2. (\E phase : Stayed(j, phase, l)) \/ Completed(j, l)
    BY <1>9 DEF StoreStays, l
  <2>3. QED
    BY <1>3, <1>4, <2>1, <2>2
<1>10. CASE QuietEffect(j)
  BY <1>5, <1>6, <1>7, <1>8, <1>9, <1>10 DEF QuietEffect
<1>11. CASE RowsEffect(j)
  BY <1>3, <1>11 DEF RowsEffect, At, l
<1>12. CASE ManifestEffect(j)
  BY <1>12 DEF ManifestEffect, At, Completes, l
<1>13. CASE LinkEffect(j)
  BY <1>4, <1>13 DEF LinkEffect, At, l
<1>14. CASE ComponentEffect(j)
  BY <1>3, <1>14 DEF ComponentEffect, At, l
<1>15. QED
  BY <1>10, <1>11, <1>12, <1>13, <1>14 DEF StepEffect

\* What a step of job j leaves on disk.
LEMMA DiskOutcome ==
  ASSUME NEW j \in Jobs, StepEffect(j)
  PROVE  /\ historical' = historical
         /\ disk' = disk \/ RowsEffect(j) \/ ManifestEffect(j)
BY DEF StepEffect, QuietEffect, FilesUntouched, RowsEffect, ManifestEffect, LinkEffect,
       ComponentEffect

-----------------------------------------------------------------------------
(* Where a process is in its command.                                      *)

OnItsWay(j) ==
    Running(j) => /\ job[j].command \in AllCommands
                  /\ job[j].pc \in 1..Len(Steps(job[j].command))

LEMMA StepsLength ==
  ASSUME NEW c \in AllCommands
  PROVE  Len(Steps(c)) \in Nat /\ 1 \in 1..Len(Steps(c))
<1>1. Len(TrainingSteps) \in Nat \ {0} /\ TrainingSteps \in Seq(Operations)
  BY TrainingLayout, SeasonsAreNaturals
<1>2. ASSUME NEW tail \in Seq(Operations)
      PROVE  /\ TrainingSteps \o tail \in Seq(Operations)
             /\ Len(TrainingSteps \o tail) \in Nat \ {0}
  <2>1. /\ TrainingSteps \o tail \in Seq(Operations) /\ Len(tail) \in Nat
        /\ Len(TrainingSteps \o tail) = Len(TrainingSteps) + Len(tail)
    BY <1>1, Joined
  <2>2. QED
    BY <1>1, <2>1
<1>3. /\ EvaluationTail \in Seq(Operations) /\ CatBoostTail \in Seq(Operations)
      /\ AdvancedTail \in Seq(Operations) /\ AssessmentTail \in Seq(Operations)
      /\ ArtifactTail \in Seq(Operations)
  BY Tails, ElsewhereSubset
<1>4. CASE c \in {"training", "evaluation", "catboost", "advanced", "assessment"}
  <2>1. Len(Steps(c)) \in Nat \ {0}
    BY <1>1, <1>2, <1>3, <1>4, StepsAre
  <2>2. QED
    BY <2>1
<1>5. CASE c = "artifact"
  <2> DEFINE u == TrainingSteps \o AssessmentTail
             v == u \o TrainingSteps
  <2>1. u \in Seq(Operations) /\ Len(u) \in Nat \ {0}
    BY <1>2, <1>3
  <2>2. Steps(c) = v \o ArtifactTail
    BY <1>5, StepsAre
  <2> HIDE DEF u
  <2>3. v \in Seq(Operations) /\ Len(v) = Len(u) + Len(TrainingSteps)
    BY <1>1, <2>1, Joined
  <2> HIDE DEF v
  <2>4. v \in Seq(Operations) /\ ArtifactTail \in Seq(Operations)
    BY <1>3, <2>3
  <2>5. Len(Steps(c)) = Len(v) + Len(ArtifactTail)
    BY <2>2, <2>4, Joined
  <2>6. Len(ArtifactTail) = 13
    BY Tails
  <2>7. QED
    BY <1>1, <2>1, <2>3, <2>5, <2>6
<1>6. CASE c \in {"features", "download", "canonical"}
  <2>1. \/ Len(Steps(c)) = 4 * N + 1
        \/ Len(Steps(c)) = N + 1
        \/ Len(Steps(c)) = 2 * N
    <3>1. Len(FeatureSteps) = 4 * N + 1
      BY FeatureLayout
    <3>2. Len(DownloadSteps) = N + 1 /\ Len(CanonicalSteps) = 2 * N
      BY DownloadElsewhere, CanonicalElsewhere
    <3>3. Steps(c) \in {FeatureSteps, DownloadSteps, CanonicalSteps}
      BY <1>6, StepsAre
    <3>4. QED
      BY ONLY <3>1, <3>2, <3>3
  <2>2. N \in Nat \ {0}
    BY SeasonsAreNaturals
  <2>3. QED
    BY ONLY <2>1, <2>2
<1>7. QED
  BY <1>4, <1>5, <1>6 DEF AllCommands

LEMMA OnItsWayStep ==
  ASSUME JobShapes, NEW j \in Jobs, StepEffect(j), OnItsWay(j)
  PROVE  OnItsWay(j)'
<1>1. Running(j) /\ (Ended(j) \/ Waits(j) \/ Completes(j))
  BY StepOutcome
<1>2. job[j].status = "running" /\ job[j].command \in AllCommands
      /\ job[j].pc \in 1..Len(Steps(job[j].command))
  BY <1>1 DEF OnItsWay, Running
<1>3. CASE Ended(j) \/ job'[j] = Idle("done", job[j].command)
  <2>1. job'[j].status # "running"
    BY <1>3 DEF Ended, Idle
  <2>2. QED
    BY <2>1 DEF OnItsWay, Running
<1>4. CASE \E phase, k : Stayed(j, phase, k)
  <2>1. job'[j].command = job[j].command /\ job'[j].pc = job[j].pc
    BY <1>4 DEF Stayed
  <2>2. QED
    BY <1>2, <2>1 DEF OnItsWay
<1>5. CASE \E k : job[j].pc # Len(Steps(job[j].command)) /\ Moved(j, k)
  <2>1. job'[j].command = job[j].command /\ job'[j].pc = job[j].pc + 1
    BY <1>5 DEF Moved
  <2>2. job[j].pc + 1 \in 1..Len(Steps(job[j].command))
    BY <1>2, <1>5, StepsLength
  <2>3. QED
    BY <1>2, <2>1, <2>2 DEF OnItsWay
<1>6. QED
  BY <1>1, <1>3, <1>4, <1>5 DEF Waits, Completes, Completed

-----------------------------------------------------------------------------
(* The datasets on disk.                                                   *)

DiskShape ==
    /\ DOMAIN disk = Datasets
    /\ \A d \in Datasets : disk[d] = [rows |-> disk[d].rows, manifest |-> disk[d].manifest]

\* What a step does to one file.
LEMMA FileWritten ==
  ASSUME DiskShape, NEW j \in Jobs, StepEffect(j)
  PROVE  /\ DiskShape'
         /\ \A d \in Datasets :
              \/ disk'[d].manifest = disk[d].manifest
              \/ /\ Current(j).op = "publish" /\ Current(j).d = d
                 /\ disk'[d].manifest = Content(d, job[j].l).manifest
<1>1. CASE disk' = disk
  BY <1>1 DEF DiskShape
<1>2. CASE RowsEffect(j)
  <2> DEFINE v == Content(Current(j).d, job[j].l).rows
  <2>1. disk' = [disk EXCEPT ![Current(j).d].rows = v]
    BY <1>2 DEF RowsEffect
  <2> HIDE DEF v
  <2>2. DOMAIN disk' = Datasets
    BY <2>1 DEF DiskShape
  <2>3. \A d \in Datasets : disk'[d] = disk[d] \/ disk'[d] = [disk[d] EXCEPT !.rows = v]
    BY <2>1 DEF DiskShape
  <2>4. \A d \in Datasets :
          /\ disk'[d] = [rows |-> disk'[d].rows, manifest |-> disk'[d].manifest]
          /\ disk'[d].manifest = disk[d].manifest
    <3>1. TAKE d \in Datasets
    <3>2. disk[d] = [rows |-> disk[d].rows, manifest |-> disk[d].manifest]
      BY DEF DiskShape
    <3>3. CASE disk'[d] = disk[d]
      BY ONLY <3>2, <3>3
    <3>4. CASE disk'[d] = [disk[d] EXCEPT !.rows = v]
      BY ONLY <3>2, <3>4
    <3>5. QED
      BY <2>3, <3>3, <3>4
  <2>5. QED
    BY <2>2, <2>4 DEF DiskShape
<1>3. CASE ManifestEffect(j)
  <2> DEFINE v == Content(Current(j).d, job[j].l).manifest
  <2>1. disk' = [disk EXCEPT ![Current(j).d].manifest = v] /\ Current(j).op = "publish"
    BY <1>3 DEF ManifestEffect, At
  <2> HIDE DEF v
  <2>2. DOMAIN disk' = Datasets
    BY <2>1 DEF DiskShape
  <2>3. \A d \in Datasets : \/ disk'[d] = disk[d]
                            \/ d = Current(j).d /\ disk'[d] = [disk[d] EXCEPT !.manifest = v]
    BY <2>1 DEF DiskShape
  <2>4. \A d \in Datasets :
          /\ disk'[d] = [rows |-> disk'[d].rows, manifest |-> disk'[d].manifest]
          /\ \/ disk'[d].manifest = disk[d].manifest
             \/ d = Current(j).d /\ disk'[d].manifest = v
    <3>1. TAKE d \in Datasets
    <3>2. disk[d] = [rows |-> disk[d].rows, manifest |-> disk[d].manifest]
      BY DEF DiskShape
    <3>3. CASE disk'[d] = disk[d]
      BY <3>2, <3>3
    <3>4. CASE d = Current(j).d /\ disk'[d] = [disk[d] EXCEPT !.manifest = v]
      <4>1. disk'[d] = [rows |-> disk[d].rows, manifest |-> v]
        BY <3>2, <3>4
      <4>2. QED
        BY <3>4, <4>1
    <3>5. QED
      BY <2>3, <3>3, <3>4
  <2>5. \A d \in Datasets : d = Current(j).d => v = Content(d, job[j].l).manifest
    BY DEF v
  <2>6. QED
    BY <2>1, <2>2, <2>4, <2>5 DEF DiskShape
<1>4. QED
  BY <1>1, <1>2, <1>3, DiskOutcome

\* The manifests of the datasets, by their kind.
LEMMA ContentIs ==
  ASSUME NEW l, NEW s \in Seasons
  PROVE  /\ Content(Canonical(s), l).manifest = CanonicalManifest(l)
         /\ Content(Features(s), l).manifest = FeatureManifest(s, l)
         /\ Content(Training, l).manifest = TrainingManifest(l)
         /\ Content(CatBoost, l).manifest = CatBoostManifest(l)
         /\ Content(Assessment, l).manifest = AssessmentManifest(l)
<1>1. Content(Canonical(s), l) = CanonicalContent(l)
  BY DEF Content, Canonical
<1>2. Content(Features(s), l) = FeatureContent(s, l)
  BY DEF Content, Features
<1>3. Content(Training, l) = TrainingContent(l)
  BY DEF Content, Training
<1>4. Content(CatBoost, l) = CatBoostContent(l)
  BY DEF Content, CatBoost
<1>5. Content(Assessment, l) = AssessmentContent(l)
  BY DEF Content, Assessment
<1>6. QED
  BY <1>1, <1>2, <1>3, <1>4, <1>5
  DEF CanonicalContent, FeatureContent, TrainingContent, CatBoostContent, AssessmentContent

\* The pairs of files that earlier commands may have left.
IdealRows(h) == TrainingSha(IdealTraining(h))

IdealTuning(h) ==
    [training |-> IdealTraining(h), test_freeze |-> FreezeOf(IdealTraining(h))]

IdealAdvanced(h) ==
    [training |-> IdealTraining(h), tuning_manifest_sha256 |-> IdealTuning(h),
     selected_predictions_sha256 |-> IdealRows(h),
     test_freeze_manifest_sha256 |-> FreezeOf(IdealTraining(h))]

IdealManifests(h) ==
    [d \in {Evaluation, CatBoost, Advanced} |->
        CASE d = Evaluation -> [training |-> IdealTraining(h)]
          [] d = CatBoost -> IdealTuning(h) [] d = Advanced -> IdealAdvanced(h)]

IdealAssessment(h) ==
    [training |-> IdealTraining(h), acceptance |-> {IdealTraining(h)},
     predictions |-> [d \in {Evaluation, CatBoost, Advanced} |-> IdealRows(h)],
     manifests |-> IdealManifests(h),
     test_freeze_manifest_sha256 |-> FreezeOf(IdealTraining(h))]

LEMMA IdealFiles ==
  ASSUME NEW h
  PROVE  /\ \A s \in Seasons :
              /\ Ideal(h)[Canonical(s)] = [rows |-> h[s].sha256, manifest |-> IdealLink(h, s)]
              /\ Ideal(h)[Features(s)] =
                    [rows |-> IdealFeatures(h, s), manifest |-> IdealFeatures(h, s)]
         /\ Ideal(h)[Training] = [rows |-> IdealRows(h), manifest |-> IdealTraining(h)]
         /\ Ideal(h)[Freeze] = [rows |-> None, manifest |-> FreezeOf(IdealTraining(h))]
         /\ Ideal(h)[Evaluation] =
              [rows |-> IdealRows(h), manifest |-> [training |-> IdealTraining(h)]]
         /\ Ideal(h)[CatBoost] = [rows |-> IdealRows(h), manifest |-> IdealTuning(h)]
         /\ Ideal(h)[Advanced] = [rows |-> IdealRows(h), manifest |-> IdealAdvanced(h)]
         /\ Ideal(h)[Assessment] = [rows |-> None, manifest |-> IdealAssessment(h)]
<1> DEFINE m == IdealTraining(h)
           rows == IdealRows(h)
           manifests == IdealManifests(h)
           assessment == [training |-> m, acceptance |-> {m},
                          predictions |-> [x \in DOMAIN manifests |-> rows],
                          manifests |-> manifests,
                          test_freeze_manifest_sha256 |-> FreezeOf(m)]
           File(d) ==
          CASE d[1] = "canonical" -> [rows |-> h[d[2]].sha256, manifest |-> IdealLink(h, d[2])]
            [] d[1] = "features" -> [rows |-> IdealFeatures(h, d[2]), manifest |-> IdealFeatures(h, d[2])]
            [] d = Training -> [rows |-> rows, manifest |-> m]
            [] d = Freeze -> [rows |-> None, manifest |-> FreezeOf(m)]
            [] d = Assessment -> [rows |-> None, manifest |-> assessment]
            [] OTHER -> [rows |-> rows, manifest |-> manifests[d]]
<1>1. \A d \in Datasets : Ideal(h)[d] = File(d)
  BY DEF Ideal, IdealManifests, IdealTuning, IdealAdvanced, IdealRows
<1>2. manifests[CatBoost] = IdealTuning(h)
  BY OthersDiffer DEF IdealManifests
<1>3. DOMAIN manifests = {Evaluation, CatBoost, Advanced}
  BY DEF IdealManifests
<1>10. manifests[Evaluation] = [training |-> m] /\ manifests[Advanced] = IdealAdvanced(h)
  BY OthersDiffer DEF IdealManifests
<1> HIDE DEF manifests, assessment, rows
<1>20. \A s \in Seasons : /\ Canonical(s)[1] = "canonical" /\ Canonical(s)[2] = s
                          /\ Features(s)[1] = "features" /\ Features(s)[2] = s
                          /\ Canonical(s) \in Datasets /\ Features(s) \in Datasets
  BY DEF Canonical, Features, Datasets
<1>21. \A d \in {Training, Evaluation, Freeze, CatBoost, Advanced, Assessment} :
          d[1] # "canonical" /\ d[1] # "features" /\ d \in Datasets
  BY DEF Training, Evaluation, Freeze, CatBoost, Advanced, Assessment, Datasets
<1>4. \A s \in Seasons : Ideal(h)[Canonical(s)] = [rows |-> h[s].sha256, manifest |-> IdealLink(h, s)]
  <2>1. \A s \in Seasons : File(Canonical(s)) = [rows |-> h[s].sha256, manifest |-> IdealLink(h, s)]
    <3>1. TAKE s \in Seasons
    <3>2. Canonical(s)[1] = "canonical" /\ Canonical(s)[2] = s
          /\ Canonical(s) # Training /\ Canonical(s) # Freeze /\ Canonical(s) # Assessment
      BY <1>20, DatasetsDiffer
    <3>3. QED
      BY <3>2
  <2> HIDE DEF File
  <2>2. QED
    BY <1>1, <1>20, <2>1
<1>5. \A s \in Seasons :
        Ideal(h)[Features(s)] = [rows |-> IdealFeatures(h, s), manifest |-> IdealFeatures(h, s)]
  <2>1. \A s \in Seasons :
          File(Features(s)) = [rows |-> IdealFeatures(h, s), manifest |-> IdealFeatures(h, s)]
    <3>1. TAKE s \in Seasons
    <3>2. Features(s)[1] = "features" /\ Features(s)[2] = s
          /\ Features(s) # Training /\ Features(s) # Freeze /\ Features(s) # Assessment
      BY <1>20, DatasetsDiffer
    <3>3. QED
      BY <3>2
  <2> HIDE DEF File
  <2>2. QED
    BY <1>1, <1>20, <2>1
<1>6. Ideal(h)[Training] = [rows |-> rows, manifest |-> m]
  <2>1. File(Training) = [rows |-> rows, manifest |-> m]
    BY <1>21, OthersDiffer
  <2> HIDE DEF File
  <2>2. QED
    BY <1>1, <1>21, <2>1
<1>7. Ideal(h)[Freeze] = [rows |-> None, manifest |-> FreezeOf(m)]
  <2>1. File(Freeze) = [rows |-> None, manifest |-> FreezeOf(m)]
    BY <1>21, OthersDiffer
  <2> HIDE DEF File
  <2>2. QED
    BY <1>1, <1>21, <2>1
<1>8. Ideal(h)[Assessment] = [rows |-> None, manifest |-> assessment]
  <2>1. File(Assessment) = [rows |-> None, manifest |-> assessment]
    BY <1>21, OthersDiffer
  <2> HIDE DEF File
  <2>2. QED
    BY <1>1, <1>21, <2>1
<1>9. \A d \in {Evaluation, CatBoost, Advanced} :
        Ideal(h)[d] = [rows |-> rows, manifest |-> manifests[d]]
  <2>1. \A d \in {Evaluation, CatBoost, Advanced} :
          File(d) = [rows |-> rows, manifest |-> manifests[d]]
    BY <1>21, OthersDiffer
  <2> HIDE DEF File
  <2>2. QED
    BY <1>1, <1>21, <2>1
<1>11. /\ Ideal(h)[Evaluation] = [rows |-> rows, manifest |-> [training |-> m]]
       /\ Ideal(h)[CatBoost] = [rows |-> rows, manifest |-> IdealTuning(h)]
       /\ Ideal(h)[Advanced] = [rows |-> rows, manifest |-> IdealAdvanced(h)]
  BY <1>2, <1>9, <1>10
<1>12. assessment = IdealAssessment(h)
  <2>1. [x \in DOMAIN manifests |-> rows] = [d \in {Evaluation, CatBoost, Advanced} |-> IdealRows(h)]
    BY <1>3 DEF rows
  <2>2. QED
    BY <2>1 DEF assessment, IdealAssessment, manifests
<1> HIDE DEF File
<1>13. QED
  BY <1>4, <1>5, <1>6, <1>7, <1>8, <1>11, <1>12 DEF rows

\* What earlier commands may have left.
LEMMA IdealIs ==
  ASSUME NEW h
  PROVE  /\ \A s \in Seasons :
              /\ Ideal(h)[Canonical(s)].manifest = IdealLink(h, s)
              /\ Ideal(h)[Features(s)].manifest = IdealFeatures(h, s)
         /\ Ideal(h)[Training].manifest = IdealTraining(h)
         /\ Ideal(h)[CatBoost].manifest =
              [training |-> IdealTraining(h), test_freeze |-> FreezeOf(IdealTraining(h))]
         /\ Ideal(h)[Assessment].manifest.training = IdealTraining(h)
         /\ Ideal(h)[Assessment].manifest.acceptance = {IdealTraining(h)}
         /\ Ideal(h)[Assessment].manifest.test_freeze_manifest_sha256 = FreezeOf(IdealTraining(h))
         /\ \A d \in Datasets :
              Ideal(h)[d] = [rows |-> Ideal(h)[d].rows, manifest |-> Ideal(h)[d].manifest]
<1>1. ASSUME NEW s \in Seasons
      PROVE  /\ Ideal(h)[Canonical(s)] = [rows |-> h[s].sha256, manifest |-> IdealLink(h, s)]
             /\ Ideal(h)[Features(s)] =
                   [rows |-> IdealFeatures(h, s), manifest |-> IdealFeatures(h, s)]
  BY ONLY <1>1, IdealFiles
<1>2. /\ Ideal(h)[Training] = [rows |-> IdealRows(h), manifest |-> IdealTraining(h)]
      /\ Ideal(h)[Freeze] = [rows |-> None, manifest |-> FreezeOf(IdealTraining(h))]
      /\ Ideal(h)[Evaluation] =
           [rows |-> IdealRows(h), manifest |-> [training |-> IdealTraining(h)]]
      /\ Ideal(h)[CatBoost] = [rows |-> IdealRows(h), manifest |-> IdealTuning(h)]
      /\ Ideal(h)[Advanced] = [rows |-> IdealRows(h), manifest |-> IdealAdvanced(h)]
      /\ Ideal(h)[Assessment] = [rows |-> None, manifest |-> IdealAssessment(h)]
  BY ONLY IdealFiles
<1>3. \A s \in Seasons : /\ Ideal(h)[Canonical(s)].manifest = IdealLink(h, s)
                         /\ Ideal(h)[Features(s)].manifest = IdealFeatures(h, s)
  <2>1. TAKE s \in Seasons
  <2>2. Ideal(h)[Canonical(s)] = [rows |-> h[s].sha256, manifest |-> IdealLink(h, s)]
    BY <1>1
  <2>3. Ideal(h)[Features(s)] = [rows |-> IdealFeatures(h, s), manifest |-> IdealFeatures(h, s)]
    BY <1>1
  <2>4. QED
    BY <2>2, <2>3
<1>4. /\ Ideal(h)[Training].manifest = IdealTraining(h)
      /\ Ideal(h)[CatBoost].manifest = IdealTuning(h)
      /\ Ideal(h)[Assessment].manifest = IdealAssessment(h)
  BY <1>2
<1>5. /\ IdealTuning(h) = [training |-> IdealTraining(h), test_freeze |-> FreezeOf(IdealTraining(h))]
      /\ IdealAssessment(h).training = IdealTraining(h)
      /\ IdealAssessment(h).acceptance = {IdealTraining(h)}
      /\ IdealAssessment(h).test_freeze_manifest_sha256 = FreezeOf(IdealTraining(h))
  BY DEF IdealTuning, IdealAssessment
<1>7. ASSUME NEW d \in Datasets
      PROVE  Ideal(h)[d] = [rows |-> Ideal(h)[d].rows, manifest |-> Ideal(h)[d].manifest]
  <2>1. CASE \E s \in Seasons : d = Canonical(s)
    BY <1>1, <2>1
  <2>2. CASE \E s \in Seasons : d = Features(s)
    BY <1>1, <2>2
  <2>3. CASE d \in {Training, Freeze, Assessment, Evaluation, CatBoost, Advanced}
    BY <1>2, <2>3
  <2>4. QED
    BY <2>1, <2>2, <2>3 DEF Datasets
<1>6. QED
  BY <1>3, <1>4, <1>5, <1>7

-----------------------------------------------------------------------------
(* What a process has read, by its place in its command.                   *)

\* The inputs of the assessment: they were evaluated on one training, under
\* one freeze, once its two checks have passed.
Assessed(k, l) ==
    /\ k > 1 => Training \in DOMAIN l.held
    /\ k > 2 => Training \in DOMAIN l.sums
    /\ k > 3 => Evaluation \in DOMAIN l.held
    /\ k > 4 => CatBoost \in DOMAIN l.held
    /\ k > 5 => Advanced \in DOMAIN l.held /\ OneTraining(l)
    /\ k > 7 => /\ Freeze \in DOMAIN l.sums
                /\ l.sums[Freeze] = l.held[CatBoost].manifest.test_freeze

\* The inputs of the feature materializer: the canonical datasets loaded so far
\* are those of the manifest it read.
Featured(f, l) ==
    /\ f > 1 => l.listing \in Revisions
    /\ \A s \in Seasons : f > 4 * s =>
          /\ Canonical(s) \in DOMAIN l.held
          /\ l.held[Canonical(s)].manifest.fixtures_sha256 = l.listing[s].sha256

\* The inputs of the training materializer: the feature datasets loaded so far
\* come from the manifest it read.
Trained(t, l) ==
    /\ t > 1 => l.inputs \in Revisions
    /\ \A s \in Seasons : t > 4 * N + 2 * s + 1 =>
          /\ Features(s) \in DOMAIN l.held
          /\ l.held[Features(s)].manifest.own.source = Lineage(l.inputs[s])

\* A tuning names the freeze of its own training.
TunedFreeze(m) == m.test_freeze = FreezeOf(m.training)

Tuned(l) == CatBoost \in DOMAIN l.held => TunedFreeze(l.held[CatBoost].manifest)

\* What a command knows at its i-th operation.
Knows(c, i, l) ==
    /\ Assessed(AssessmentPlace(c, i), l) /\ Featured(FeaturePlace(c, i), l)
    /\ Trained(TrainingPlace(c, i), l) /\ Tuned(l)

JobReads(j) ==
    Running(j) =>
        /\ Knows(job[j].command, job[j].pc, job[j].l)
        /\ job[j].phase = "second" /\ Current(j).op = "load" /\ Current(j).d = CatBoost =>
              TunedFreeze(job[j].l.part)

\* The datasets on disk.
DiskReads ==
    /\ \A s \in Seasons :
          /\ disk[Canonical(s)].manifest # None =>
                disk[Canonical(s)].manifest.fixtures_sha256 = disk[Canonical(s)].manifest.source.sha256
          /\ disk[Features(s)].manifest # None =>
                \E h \in Revisions : disk[Features(s)].manifest = IdealFeatures(h, s)
    /\ disk[Training].manifest # None =>
          \E h \in Revisions : \A s \in Seasons :
              disk[Training].manifest.sources[s].features.own.source = Lineage(h[s])
    /\ disk[CatBoost].manifest # None => TunedFreeze(disk[CatBoost].manifest)
    /\ ComparedOnOneTraining

ReadsInv ==
    /\ JobShapes /\ DiskShape /\ historical \in Revisions
    /\ DiskReads
    /\ \A j \in Jobs : OnItsWay(j) /\ JobReads(j)

LEMMA LoadedHolds ==
  ASSUME NEW l, LocalsRecord(l), NEW d, NEW r, NEW m
  PROVE  LET k == Loaded(l, d, r, m)
         IN  /\ k.inputs = l.inputs /\ k.listing = l.listing /\ k.sums = l.sums
             /\ DOMAIN k.held = DOMAIN l.held \cup {d}
             /\ k.held[d].manifest = m /\ k.held[d].rows = r
             /\ \A x \in DOMAIN l.held : x # d => k.held[x] = l.held[x]
<1> DEFINE h == Put(l.held, d, [rows |-> r, manifest |-> m])
           k == Loaded(l, d, r, m)
<1>1. k = [[l EXCEPT !.part = None] EXCEPT !.held = h]
  BY DEF Loaded
<1>2. /\ DOMAIN h = DOMAIN l.held \cup {d} /\ h[d] = [rows |-> r, manifest |-> m]
      /\ \A x \in DOMAIN l.held : x # d => h[x] = l.held[x]
  BY DEF Put
<1> HIDE DEF h
<1>3. /\ k.inputs = l.inputs /\ k.listing = l.listing /\ k.sums = l.sums /\ k.held = h
  BY <1>1 DEF LocalsRecord
<1> HIDE DEF k
<1>4. QED
  BY <1>2, <1>3 DEF k

LEMMA HashedHolds ==
  ASSUME NEW l, LocalsRecord(l), NEW d, NEW m
  PROVE  LET k == Hashed(l, d, m)
         IN  /\ k.inputs = l.inputs /\ k.listing = l.listing /\ k.held = l.held
             /\ DOMAIN k.sums = DOMAIN l.sums \cup {d} /\ k.sums[d] = m
             /\ \A x \in DOMAIN l.sums : x # d => k.sums[x] = l.sums[x]
<1> DEFINE h == Put(l.sums, d, m)
           k == Hashed(l, d, m)
<1>1. k = [l EXCEPT !.sums = h]
  BY DEF Hashed
<1>2. /\ DOMAIN h = DOMAIN l.sums \cup {d} /\ h[d] = m
      /\ \A x \in DOMAIN l.sums : x # d => h[x] = l.sums[x]
  BY DEF Put
<1> HIDE DEF h
<1>3. /\ k.inputs = l.inputs /\ k.listing = l.listing /\ k.held = l.held /\ k.sums = h
  BY <1>1 DEF LocalsRecord
<1> HIDE DEF k
<1>4. QED
  BY <1>2, <1>3 DEF k

\* What a job of locals l has read when it completes operation o.
Reads(j, l, o, k) ==
    \/ /\ o.op = "load" /\ job[j].phase = "second"
       /\ \E r, m : /\ Loads(o.d, r, m, l) /\ m # None
                    /\ m = IF o.d[1] = "canonical" THEN disk[o.d].manifest ELSE l.part
                    /\ k = Loaded(l, o.d, r, m) /\ Passes(o.check, k)
    \/ /\ o.op = "hash" /\ disk[o.d].manifest # None
       /\ k = Hashed(l, o.d, disk[o.d].manifest) /\ Passes(o.check, k)
    \/ o.op = "publish" /\ k = Returned(o.d, l)
    \/ o.op = "inputs" /\ k = [l EXCEPT !.inputs = historical]
    \/ o.op = "listing" /\ k = [l EXCEPT !.listing = historical]
    \/ o.op \in {"checksum", "entry", "fetch", "store"} /\ SameReads(l, k)

\* A load adds one dataset to what is held, a hash one manifest.
LEMMA ReadsLoad ==
  ASSUME NEW j, NEW l, LocalsRecord(l), NEW o, NEW k, Reads(j, l, o, k), o.op = "load"
  PROVE  /\ k.sums = l.sums /\ k.inputs = l.inputs /\ k.listing = l.listing
         /\ DOMAIN k.held = DOMAIN l.held \cup {o.d}
         /\ \A x \in DOMAIN l.held : x # o.d => k.held[x] = l.held[x]
         /\ Passes(o.check, k)
<1>1. PICK r, m : k = Loaded(l, o.d, r, m) /\ Passes(o.check, k)
  BY DEF Reads
<1>2. /\ k.sums = l.sums /\ k.inputs = l.inputs /\ k.listing = l.listing
      /\ DOMAIN k.held = DOMAIN l.held \cup {o.d}
      /\ \A x \in DOMAIN l.held : x # o.d => k.held[x] = l.held[x]
  BY <1>1, LoadedHolds
<1>3. QED
  BY <1>1, <1>2

LEMMA LoadedManifest ==
  ASSUME NEW j, NEW l, LocalsRecord(l), NEW o, NEW k, Reads(j, l, o, k), o.op = "load"
  PROVE  LET m == k.held[o.d].manifest
         IN  /\ \E r : Loads(o.d, r, m, l)
             /\ job[j].phase = "second"
             /\ m # None /\ m = IF o.d[1] = "canonical" THEN disk[o.d].manifest ELSE l.part
<1>1. PICK r, m : /\ Loads(o.d, r, m, l) /\ m # None
                  /\ m = IF o.d[1] = "canonical" THEN disk[o.d].manifest ELSE l.part
                  /\ k = Loaded(l, o.d, r, m)
  BY DEF Reads
<1>2. k.held[o.d].manifest = m
  BY <1>1, LoadedHolds
<1>3. job[j].phase = "second"
  BY DEF Reads
<1>4. QED
  BY <1>1, <1>2, <1>3

LEMMA ReadsHash ==
  ASSUME NEW j, NEW l, LocalsRecord(l), NEW o, NEW k, Reads(j, l, o, k), o.op = "hash"
  PROVE  /\ k.held = l.held /\ k.inputs = l.inputs /\ k.listing = l.listing
         /\ DOMAIN k.sums = DOMAIN l.sums \cup {o.d}
         /\ \A x \in DOMAIN l.sums : x # o.d => k.sums[x] = l.sums[x]
         /\ Passes(o.check, k)
<1>1. k = Hashed(l, o.d, disk[o.d].manifest) /\ Passes(o.check, k)
  BY DEF Reads
<1>2. QED
  BY <1>1, HashedHolds

LEMMA OpIs ==
  ASSUME NEW op, NEW d, NEW check
  PROVE  /\ Op(op, d, check).op = op /\ Op(op, d, check).d = d /\ Op(op, d, check).check = check
         /\ Load(d).op = "load" /\ Load(d).d = d /\ Hash(d).op = "hash" /\ Hash(d).d = d
         /\ Publish(d).op = "publish" /\ Publish(d).d = d
BY DEF Op, Load, Hash, Publish

LEMMA AssessmentOperations ==
  ASSUME NEW p \in 1..10, NEW o, o = AssessmentTail[p]
  PROVE  /\ p = 1 => o.op = "load" /\ o.d = Training
         /\ p = 2 => o.op = "hash" /\ o.d = Training
         /\ p = 3 => o.op = "load" /\ o.d = Evaluation
         /\ p = 4 => o.op = "load" /\ o.d = CatBoost
         /\ p = 5 => o.op = "load" /\ o.d = Advanced /\ o.check = "one_training"
         /\ p = 6 => o.op = "load" /\ o.d = Freeze
         /\ p = 7 => o.op = "hash" /\ o.d = Freeze /\ o.check = "freeze_of_evaluations"
         /\ p \in 8..10 => o.op = "hash" /\ o.d \in {CatBoost, Evaluation, Advanced}
<1>1. AssessmentTail[1] = Load(Training) /\ AssessmentTail[2] = Hash(Training)
  BY DEF AssessmentTail
<1>2. AssessmentTail[3] = Load(Evaluation) /\ AssessmentTail[4] = Load(CatBoost)
  BY DEF AssessmentTail
<1>3. AssessmentTail[5] = Op("load", Advanced, "one_training") /\ AssessmentTail[6] = Load(Freeze)
  BY DEF AssessmentTail
<1>4. /\ AssessmentTail[7] = Op("hash", Freeze, "freeze_of_evaluations")
      /\ AssessmentTail[8] = Op("hash", CatBoost, "tuning_of_advanced")
  BY DEF AssessmentTail
<1>5. AssessmentTail[9] = Hash(Evaluation) /\ AssessmentTail[10] = Hash(Advanced)
  BY DEF AssessmentTail
<1>6. p = 1 => o.op = "load" /\ o.d = Training
  BY <1>1, OpIs
<1>7. p = 2 => o.op = "hash" /\ o.d = Training
  BY <1>1, OpIs
<1>8. p = 3 => o.op = "load" /\ o.d = Evaluation
  BY <1>2, OpIs
<1>9. p = 4 => o.op = "load" /\ o.d = CatBoost
  BY <1>2, OpIs
<1>10. p = 5 => o.op = "load" /\ o.d = Advanced /\ o.check = "one_training"
  BY <1>3, OpIs
<1>11. p = 6 => o.op = "load" /\ o.d = Freeze
  BY <1>3, OpIs
<1>12. p = 7 => o.op = "hash" /\ o.d = Freeze /\ o.check = "freeze_of_evaluations"
  BY <1>4, OpIs
<1>13. p = 8 => o.op = "hash" /\ o.d = CatBoost
  BY <1>4, OpIs
<1>14. p = 9 => o.op = "hash" /\ o.d = Evaluation
  BY <1>5, OpIs
<1>15. p = 10 => o.op = "hash" /\ o.d = Advanced
  BY <1>5, OpIs
<1>16. p \in 8..10 => p = 8 \/ p = 9 \/ p = 10
  OBVIOUS
<1>17. p \in 8..10 => o.op = "hash" /\ o.d \in {CatBoost, Evaluation, Advanced}
  BY <1>13, <1>14, <1>15, <1>16
<1>18. QED
  BY <1>6, <1>7, <1>8, <1>9, <1>10, <1>11, <1>12, <1>17

\* The assessment reads its inputs one by one and compares them.
LEMMA AssessedStep ==
  ASSUME NEW j, NEW l, LocalsRecord(l), NEW k, NEW p \in 1..10, NEW o, o = AssessmentTail[p],
         Reads(j, l, o, k), Assessed(p, l)
  PROVE  Assessed(p + 1, k)
<1>1. ASSUME o.op = "load"
      PROVE  /\ k.sums = l.sums /\ DOMAIN k.held = DOMAIN l.held \cup {o.d}
             /\ \A x \in DOMAIN l.held : x # o.d => k.held[x] = l.held[x]
             /\ Passes(o.check, k)
  <2>1. LocalsRecord(l) /\ Reads(j, l, o, k) /\ o.op = "load"
    BY <1>1
  <2>2. QED
    BY ONLY <2>1, ReadsLoad
<1>2. ASSUME o.op = "hash"
      PROVE  /\ k.held = l.held /\ DOMAIN k.sums = DOMAIN l.sums \cup {o.d}
             /\ \A x \in DOMAIN l.sums : x # o.d => k.sums[x] = l.sums[x]
             /\ Passes(o.check, k)
  <2>1. LocalsRecord(l) /\ Reads(j, l, o, k) /\ o.op = "hash"
    BY <1>2
  <2>2. QED
    BY ONLY <2>1, ReadsHash
<1>3. /\ p = 1 => o.op = "load" /\ o.d = Training
      /\ p = 2 => o.op = "hash" /\ o.d = Training
      /\ p = 3 => o.op = "load" /\ o.d = Evaluation
      /\ p = 4 => o.op = "load" /\ o.d = CatBoost
      /\ p = 5 => o.op = "load" /\ o.d = Advanced /\ o.check = "one_training"
      /\ p = 6 => o.op = "load" /\ o.d = Freeze
      /\ p = 7 => o.op = "hash" /\ o.d = Freeze /\ o.check = "freeze_of_evaluations"
      /\ p \in 8..10 => o.op = "hash" /\ o.d \in {CatBoost, Evaluation, Advanced}
  BY AssessmentOperations
<1>4. ASSUME OneTraining(l), k.sums[Training] = l.sums[Training],
             \A d \in {Training, Evaluation, CatBoost, Advanced} : k.held[d] = l.held[d]
      PROVE  OneTraining(k)
  BY <1>4 DEF OneTraining, ComparablePopulations
<1>5. CASE p = 1
  BY <1>1, <1>3, <1>5 DEF Assessed
<1>6. CASE p = 2
  BY <1>2, <1>3, <1>6 DEF Assessed
<1>7. CASE p = 3
  BY <1>1, <1>3, <1>7 DEF Assessed
<1>8. CASE p = 4
  BY <1>1, <1>3, <1>8 DEF Assessed
<1>9. CASE p = 5
  <2>1. OneTraining(k)
    BY <1>1, <1>3, <1>9 DEF Passes
  <2>2. QED
    BY <1>1, <1>3, <1>9, <2>1 DEF Assessed
<1>10. CASE p = 6
  <2>1. o.op = "load" /\ o.d = Freeze
    BY <1>3, <1>10
  <2>2. /\ {Training, Evaluation, CatBoost, Advanced} \subseteq DOMAIN l.held
        /\ OneTraining(l) /\ Training \in DOMAIN l.sums
    BY <1>10 DEF Assessed
  <2>3. OneTraining(k)
    BY <1>1, <1>4, <2>1, <2>2, OthersDiffer
  <2>4. QED
    BY <1>1, <1>10, <2>1, <2>2, <2>3 DEF Assessed
<1>11. CASE p \in 7..10
  <2>1. /\ o.op = "hash" /\ o.d # Training
        /\ p = 7 => o.d = Freeze /\ o.check = "freeze_of_evaluations"
        /\ p # 7 => o.d # Freeze
    <3>1. CASE p = 7
      BY <1>3, <3>1, OthersDiffer
    <3>2. CASE p \in 8..10
      BY <1>3, <3>2, OthersDiffer
    <3>3. QED
      BY <1>11, <3>1, <3>2
  <2>2. /\ {Training, Evaluation, CatBoost, Advanced} \subseteq DOMAIN l.held
        /\ OneTraining(l) /\ Training \in DOMAIN l.sums
    BY <1>11 DEF Assessed
  <2>3. OneTraining(k)
    BY <1>2, <1>4, <2>1, <2>2
  <2>4. Freeze \in DOMAIN k.sums /\ k.sums[Freeze] = k.held[CatBoost].manifest.test_freeze
    <3>1. CASE p = 7
      <4>1. FreezeOfEvaluations(k)
        BY <1>2, <2>1, <3>1 DEF Passes
      <4>2. QED
        BY <1>2, <2>1, <3>1, <4>1 DEF FreezeOfEvaluations, FreezeOfTuning
    <3>2. CASE p # 7
      <4>1. Freeze \in DOMAIN l.sums /\ l.sums[Freeze] = l.held[CatBoost].manifest.test_freeze
        BY <1>11, <3>2 DEF Assessed
      <4>2. QED
        BY <1>2, <2>1, <3>2, <4>1
    <3>3. QED
      BY <3>1, <3>2
  <2>5. QED
    BY <1>2, <2>1, <2>2, <2>3, <2>4 DEF Assessed
<1>12. QED
  BY <1>5, <1>6, <1>7, <1>8, <1>9, <1>10, <1>11

LEMMA ReturnedHeld ==
  ASSUME NEW l, LocalsRecord(l), NEW d
  PROVE  /\ Returned(d, l).held = l.held \/ DOMAIN Returned(d, l).held = {}
         /\ d[1] \notin {"training", "assessment"} => Returned(d, l).inputs = l.inputs
         /\ d[1] \notin {"training", "assessment"} /\ d # Features(N) =>
               SameReads(l, Returned(d, l))
<1>1. SameReads(l, [l EXCEPT !.entry = None]) /\ SameReads(l, l)
  BY ReadsUpdated
<1>2. [l EXCEPT !.listing = None].inputs = l.inputs /\ LocalsRecord([l EXCEPT !.listing = None])
  BY DEF LocalsRecord
<1>3. \A k, v : LocalsRecord(k) =>
        [k EXCEPT !.held = v].inputs = k.inputs /\ [k EXCEPT !.held = v].held = v
  BY DEF LocalsRecord
<1> DEFINE nothing == [x \in {} |-> None]
           f == [[l EXCEPT !.listing = None] EXCEPT !.held = nothing]
<1>4. f.inputs = l.inputs /\ f.held = nothing
  BY <1>2, <1>3
<1>5. DOMAIN nothing = {} /\ NoLocals.held = nothing
  BY DEF NoLocals
<1>6. f = [l EXCEPT !.listing = None, !.held = nothing]
  OBVIOUS
<1> HIDE DEF nothing, f
<1>7. CASE d[1] = "canonical"
  <2>1. d # Features(N)
    BY <1>7 DEF Features
  <2>2. Returned(d, l) = [l EXCEPT !.entry = None]
    BY <1>7, ReturnedIs
  <2>3. QED
    BY <1>1, <2>1, <2>2 DEF SameReads
<1>8. CASE d = Features(N)
  <2>1. Returned(d, l) = f
    BY <1>6, <1>8, ReturnedIs DEF nothing
  <2>2. QED
    BY <1>4, <1>5, <1>8, <2>1
<1>9. CASE d[1] \in {"training", "assessment"}
  <2>1. Returned(d, l) = NoLocals
    BY <1>9, ReturnedIs
  <2>2. QED
    BY <1>5, <1>9, <2>1
<1>10. CASE d[1] \notin {"canonical", "training", "assessment"} /\ d # Features(N)
  <2>1. Returned(d, l) = l
    BY <1>10, ReturnedIs
  <2>2. QED
    BY <1>1, <2>1 DEF SameReads
<1>11. QED
  BY <1>7, <1>8, <1>9, <1>10

LEMMA LoadsAre ==
  ASSUME NEW s \in Seasons, NEW r, NEW m, NEW l
  PROVE  /\ Loads(Canonical(s), r, m, l) = CanonicalLoads(s, r, m, l)
         /\ Loads(Features(s), r, m, l) = FeaturesLoad(s, r, m, l)
<1>1. Canonical(s)[1] = "canonical" /\ Canonical(s)[2] = s /\ ~SingleFile(Canonical(s))
  BY DatasetsDiffer DEF Canonical, SingleFile
<1>2. Features(s)[1] = "features" /\ Features(s)[2] = s /\ ~SingleFile(Features(s))
  BY DatasetsDiffer DEF Features, SingleFile
<1>3. Loads(Canonical(s), r, m, l) = CanonicalLoads(s, r, m, l)
  BY <1>1 DEF Loads
<1>4. Loads(Features(s), r, m, l) = FeaturesLoad(s, r, m, l)
  BY <1>2 DEF Loads
<1>5. QED
  BY <1>3, <1>4

\* A tuning that was loaded names the freeze of its own training.
LEMMA TunedStep ==
  ASSUME NEW j, NEW l, LocalsRecord(l), NEW o, NEW k, Reads(j, l, o, k), Tuned(l),
         o.op = "load" /\ job[j].phase = "second" /\ o.d = CatBoost => TunedFreeze(l.part)
  PROVE  Tuned(k)
<1>1. CASE o.op = "load"
  <2>1. /\ DOMAIN k.held = DOMAIN l.held \cup {o.d}
        /\ \A x \in DOMAIN l.held : x # o.d => k.held[x] = l.held[x]
    BY <1>1, ReadsLoad
  <2>2. CASE o.d = CatBoost
    <3>1. o.d[1] # "canonical"
      BY <2>2 DEF CatBoost
    <3>4. LocalsRecord(l) /\ Reads(j, l, o, k) /\ o.op = "load"
      BY <1>1
    <3>2. job[j].phase = "second" /\ k.held[o.d].manifest = l.part
      BY ONLY <3>1, <3>4, LoadedManifest
    <3>3. QED
      BY <1>1, <2>2, <3>2 DEF Tuned
  <2>3. CASE o.d # CatBoost
    BY <2>1, <2>3 DEF Tuned
  <2>4. QED
    BY <2>2, <2>3
<1>2. CASE o.op = "hash"
  <2>1. k.held = l.held
    BY <1>2, ReadsHash
  <2>2. QED
    BY <2>1 DEF Tuned
<1>3. CASE o.op = "publish"
  <2>1. k = Returned(o.d, l)
    BY <1>3 DEF Reads
  <2>2. k.held = l.held \/ DOMAIN k.held = {}
    BY <2>1, ReturnedHeld
  <2>3. QED
    BY <2>2 DEF Tuned
<1>4. CASE o.op \notin {"load", "hash", "publish"}
  <2>1. \/ k = [l EXCEPT !.inputs = historical] \/ k = [l EXCEPT !.listing = historical]
        \/ SameReads(l, k)
    BY <1>4 DEF Reads
  <2>2. k.held = l.held
    BY <2>1 DEF SameReads, LocalsRecord
  <2>3. QED
    BY <2>2 DEF Tuned
<1>5. QED
  BY <1>1, <1>2, <1>3, <1>4

LEMMA FeaturedKept ==
  ASSUME NEW l, NEW k, k.listing = l.listing, k.held = l.held,
         NEW f \in 2..(4 * N), Featured(f, l), \A s \in Seasons : f # 4 * s
  PROVE  Featured(f + 1, k)
<1>1. \A s \in Seasons : f + 1 > 4 * s => f > 4 * s
  BY SeasonsAreNaturals
<1>2. k.listing \in Revisions
  BY DEF Featured
<1>3. QED
  BY <1>1, <1>2 DEF Featured

\* The feature materializer loads the canonical dataset of one season after
\* another, and checks each against the manifest it read.
LEMMA FeaturedStep ==
  ASSUME NEW j, NEW l, LocalsRecord(l), NEW o, NEW k, Reads(j, l, o, k),
         NEW f \in 1..(4 * N), o = FeatureSteps[f], Featured(f, l),
         historical \in Revisions, DiskReads
  PROVE  Featured(f + 1, k)
<1>1. CASE f = 1
  <2>1. o.op = "listing"
    BY <1>1, FeatureLayout, OpIs
  <2>2. k = [l EXCEPT !.listing = historical]
    BY <2>1 DEF Reads
  <2>3. k.listing \in Revisions
    BY <2>2 DEF LocalsRecord
  <2>4. \A s \in Seasons : ~(f + 1 > 4 * s)
    BY <1>1, SeasonsAreNaturals
  <2>5. QED
    BY <2>3, <2>4 DEF Featured
<1>2. CASE f # 1
  <2>1. f \in 1..(4 * N + 1) /\ N \in Nat
    BY SeasonsAreNaturals
  <2>2. PICK s \in Seasons : f \in {4 * s - 2, 4 * s - 1, 4 * s, 4 * s + 1}
    BY <1>2, <2>1, FeatureLayout
  <2>3. f \in 2..(4 * N) /\ s \in Nat /\ 1 <= s /\ s <= N /\ f \in Nat
    BY <1>2, SeasonsAreNaturals
  <2>4. CASE f = 4 * s - 2
    <3>1. o.op = "entry"
      BY <2>4, FeatureLayout, OpIs
    <3>2. SameReads(l, k)
      BY <3>1 DEF Reads
    <3>3. \A t \in Seasons : f # 4 * t
      BY <2>3, <2>4, SeasonsAreNaturals
    <3>4. QED
      BY <2>3, <3>2, <3>3, FeaturedKept DEF SameReads
  <2>5. CASE f = 4 * s - 1
    <3>1. o.op = "publish" /\ o.d = Canonical(s)
      BY <2>5, FeatureLayout, OpIs
    <3>2. k = Returned(o.d, l) /\ o.d[1] = "canonical"
      BY <3>1 DEF Reads, Canonical
    <3>6. k = [l EXCEPT !.entry = None]
      BY <3>2, ReturnedIs
    <3>3. SameReads(l, k)
      BY <3>6, ReadsUpdated
    <3>4. \A t \in Seasons : f # 4 * t
      BY <2>3, <2>5, SeasonsAreNaturals
    <3>5. QED
      BY <2>3, <3>3, <3>4, FeaturedKept DEF SameReads
  <2>6. CASE f = 4 * s
    <3>1. o.op = "load" /\ o.d = Canonical(s)
      BY <2>6, FeatureLayout, OpIs
    <3>2. /\ k.listing = l.listing /\ DOMAIN k.held = DOMAIN l.held \cup {o.d}
          /\ \A x \in DOMAIN l.held : x # o.d => k.held[x] = l.held[x]
      BY <3>1, ReadsLoad
    <3>3. k.held[o.d].manifest.fixtures_sha256 = l.listing[s].sha256
      <4>1. PICK r, m : Loads(o.d, r, m, l) /\ m = disk[o.d].manifest /\ m # None
                        /\ m = k.held[o.d].manifest
        <5>1. o.d[1] = "canonical"
          BY <3>1 DEF Canonical
        <5>2. QED
          BY <3>1, <5>1, LoadedManifest
      <4>3. CanonicalLoads(s, r, m, l)
        BY <3>1, <4>1, LoadsAre
      <4>4. m.fixtures_sha256 = m.source.sha256
        BY <3>1, <4>1 DEF DiskReads
      <4>5. m.source = Lineage(l.listing[s])
        BY <4>3 DEF CanonicalLoads
      <4>6. m.source.sha256 = l.listing[s].sha256
        BY <4>5 DEF Lineage
      <4>7. QED
        BY <4>1, <4>4, <4>6
    <3>4. ASSUME NEW t \in Seasons, f + 1 > 4 * t
          PROVE  /\ Canonical(t) \in DOMAIN k.held
                 /\ k.held[Canonical(t)].manifest.fixtures_sha256 = k.listing[t].sha256
      <4>1. CASE t = s
        BY <3>1, <3>2, <3>3, <4>1
      <4>2. CASE t # s
        <5>1. f > 4 * t
          BY <2>6, <3>4, <4>2, SeasonsAreNaturals
        <5>2. Canonical(t) # o.d
          BY <3>1, <4>2, DatasetsDiffer
        <5>3. QED
          BY <3>2, <5>1, <5>2 DEF Featured
      <4>3. QED
        BY <4>1, <4>2
    <3>5. k.listing \in Revisions
      BY <2>3, <3>2 DEF Featured
    <3>6. QED
      BY <3>4, <3>5 DEF Featured
  <2>7. CASE f = 4 * s + 1
    <3>7. o = Publish(Features(s))
      BY <2>7, FeatureLayout
    <3>1. o.op = "publish" /\ o.d = Features(s)
      BY <3>7, OpIs
    <3>2. s # N /\ N \in Seasons
      BY <2>3, <2>7, SeasonsAreNaturals
    <3>3. k = Returned(o.d, l) /\ o.d[1] = "features" /\ o.d # Features(N)
      BY <3>1, <3>2, DatasetsDiffer DEF Reads, Features
    <3>4. SameReads(l, k)
      BY <3>3, ReturnedHeld
    <3>5. \A t \in Seasons : f # 4 * t
      BY <2>3, <2>7, SeasonsAreNaturals
    <3>6. QED
      BY <2>3, <3>4, <3>5, FeaturedKept DEF SameReads
  <2>8. QED
    BY <2>2, <2>4, <2>5, <2>6, <2>7
<1>3. QED
  BY <1>1, <1>2

\* Within the feature materializer the copy of the training stands.
LEMMA InputsKept ==
  ASSUME NEW j, NEW l, LocalsRecord(l), NEW o, NEW k, Reads(j, l, o, k),
         NEW f \in 1..(4 * N + 1), o = FeatureSteps[f]
  PROVE  k.inputs = l.inputs
<1>1. CASE f = 1
  <2>1. o.op = "listing"
    BY <1>1, FeatureLayout, OpIs
  <2>2. k = [l EXCEPT !.listing = historical]
    BY <2>1 DEF Reads
  <2>3. QED
    BY <2>2 DEF LocalsRecord
<1>2. CASE f # 1
  <2>1. PICK s \in Seasons : f \in {4 * s - 2, 4 * s - 1, 4 * s, 4 * s + 1}
    BY <1>2, FeatureLayout
  <2>2. \/ o.op = "entry"
        \/ o.op = "publish" /\ o.d = Canonical(s)
        \/ o.op = "load"
        \/ o.op = "publish" /\ o.d = Features(s)
    <3>1. CASE f = 4 * s - 2
      BY <3>1, FeatureLayout, OpIs
    <3>2. CASE f = 4 * s - 1
      BY <3>2, FeatureLayout, OpIs
    <3>3. CASE f = 4 * s
      BY <3>3, FeatureLayout, OpIs
    <3>4. CASE f = 4 * s + 1
      <4>1. o = Publish(Features(s))
        BY <3>4, FeatureLayout
      <4>2. QED
        BY <4>1, OpIs
    <3>5. QED
      BY <2>1, <3>1, <3>2, <3>3, <3>4
  <2>3. CASE o.op = "entry"
    BY <2>3 DEF Reads, SameReads
  <2>4. CASE o.op = "load"
    BY <2>4, ReadsLoad
  <2>5. CASE o.op = "publish" /\ (o.d = Canonical(s) \/ o.d = Features(s))
    <3>1. k = Returned(o.d, l) /\ o.d[1] \notin {"training", "assessment"}
      BY <2>5 DEF Reads, Canonical, Features
    <3>2. QED
      BY <3>1, ReturnedHeld
  <2>6. QED
    BY <2>2, <2>3, <2>4, <2>5
<1>3. QED
  BY <1>1, <1>2

\* The training materializer loads the feature datasets one by one, and checks
\* each against the manifest it read.
LEMMA TrainedStep ==
  ASSUME NEW j, NEW l, LocalsRecord(l), NEW o, NEW k, Reads(j, l, o, k),
         NEW t \in 1..(6 * N + 3), o = TrainingSteps[t], Trained(t, l),
         historical \in Revisions
  PROVE  Trained(t + 1, k)
<1>1. t \in Nat /\ N \in Nat /\ t >= 1
  BY SeasonsAreNaturals
<1>2. CASE t = 1
  <2>1. o.op = "inputs"
    BY <1>2, TrainingLayout, OpIs
  <2>2. k = [l EXCEPT !.inputs = historical]
    BY <2>1 DEF Reads
  <2>3. k.inputs \in Revisions
    BY <2>2 DEF LocalsRecord
  <2>4. \A s \in Seasons : ~(t + 1 > 4 * N + 2 * s + 1)
    BY <1>1, <1>2, SeasonsAreNaturals
  <2>5. QED
    BY <2>3, <2>4 DEF Trained
<1>3. CASE t - 1 \in 1..(4 * N + 1)
  <2> DEFINE f == t - 1
  <2>1. o = FeatureSteps[f] /\ f \in 1..(4 * N + 1)
    <3>1. TrainingSteps[f + 1] = FeatureSteps[f] /\ f + 1 = t
      BY <1>1, <1>3, TrainingLayout
    <3>2. QED
      BY <1>3, <3>1
  <2> HIDE DEF f
  <2>2. k.inputs = l.inputs
    BY <2>1, InputsKept
  <2>3. \A s \in Seasons : ~(t + 1 > 4 * N + 2 * s + 1)
    BY <1>1, <1>3, SeasonsAreNaturals
  <2>4. l.inputs \in Revisions
    BY <1>1, <1>3 DEF Trained
  <2>5. QED
    BY <2>2, <2>3, <2>4 DEF Trained
<1>4. ASSUME NEW s \in Seasons, t = 4 * N + 2 * s + 1
      PROVE  Trained(t + 1, k)
  <2>1. o.op = "load" /\ o.d = Features(s)
    <3>1. o = Load(Features(s))
      BY <1>4, TrainingLayout
    <3>2. QED
      BY <3>1, OpIs
  <2>2. /\ k.inputs = l.inputs /\ DOMAIN k.held = DOMAIN l.held \cup {o.d}
        /\ \A x \in DOMAIN l.held : x # o.d => k.held[x] = l.held[x]
    <3>1. LocalsRecord(l) /\ Reads(j, l, o, k) /\ o.op = "load"
      BY <2>1
    <3>2. QED
      BY ONLY <3>1, ReadsLoad
  <2>3. k.held[o.d].manifest.own.source = Lineage(l.inputs[s])
    <3>1. PICK r : Loads(o.d, r, k.held[o.d].manifest, l)
      BY <2>1, LoadedManifest
    <3>3. FeaturesLoad(s, r, k.held[o.d].manifest, l)
      BY <2>1, <3>1, LoadsAre
    <3>4. QED
      BY <3>3 DEF FeaturesLoad
  <2>4. ASSUME NEW u \in Seasons, t + 1 > 4 * N + 2 * u + 1
        PROVE  /\ Features(u) \in DOMAIN k.held
               /\ k.held[Features(u)].manifest.own.source = Lineage(k.inputs[u])
    <3>1. CASE u = s
      BY <2>1, <2>2, <2>3, <3>1
    <3>2. CASE u # s
      <4>1. t > 4 * N + 2 * u + 1
        BY <1>1, <1>4, <2>4, <3>2, SeasonsAreNaturals
      <4>2. Features(u) # o.d
        BY <2>1, <3>2, DatasetsDiffer
      <4>3. QED
        BY <2>2, <4>1, <4>2 DEF Trained
    <3>3. QED
      BY <3>1, <3>2
  <2>5. k.inputs \in Revisions
    <3>1. t > 1
      BY <1>1, <1>4, SeasonsAreNaturals
    <3>2. QED
      BY <2>2, <3>1 DEF Trained
  <2>6. QED
    BY <2>4, <2>5 DEF Trained
<1>5. ASSUME k.inputs = l.inputs, k.held = l.held, t > 1,
             \A s \in Seasons : t # 4 * N + 2 * s + 1
      PROVE  Trained(t + 1, k)
  <2>1. \A s \in Seasons : t + 1 > 4 * N + 2 * s + 1 => t > 4 * N + 2 * s + 1
    BY <1>1, <1>5, SeasonsAreNaturals
  <2>2. QED
    BY <1>5, <2>1 DEF Trained
<1>6. ASSUME NEW s \in Seasons, t = 4 * N + 2 * s + 2
      PROVE  Trained(t + 1, k)
  <2>1. o.op = "hash"
    BY <1>6, TrainingLayout, OpIs
  <2>2. k.inputs = l.inputs /\ k.held = l.held
    BY <2>1, ReadsHash
  <2>3. t > 1 /\ \A u \in Seasons : t # 4 * N + 2 * u + 1
    BY <1>1, <1>6, SeasonsAreNaturals
  <2>4. QED
    BY <1>5, <2>2, <2>3
<1>7. CASE t = 6 * N + 3
  <2>1. o.op = "checksum"
    BY <1>7, TrainingLayout, OpIs
  <2>2. k.inputs = l.inputs /\ k.held = l.held
    BY <2>1 DEF Reads, SameReads
  <2>3. t > 1 /\ \A u \in Seasons : t # 4 * N + 2 * u + 1
    BY <1>1, <1>7, SeasonsAreNaturals
  <2>4. QED
    BY <1>5, <2>2, <2>3
<1>8. \/ t = 1 \/ t - 1 \in 1..(4 * N + 1)
      \/ \E s \in Seasons : t \in {4 * N + 2 * s + 1, 4 * N + 2 * s + 2}
      \/ t = 6 * N + 3 \/ t = 6 * N + 4
  <2>1. t \in 1..(6 * N + 4)
    BY SeasonsAreNaturals
  <2>2. QED
    BY <2>1, TrainingLayout
<1>9. t # 6 * N + 4
  BY SeasonsAreNaturals
<1>10. QED
  BY <1>2, <1>3, <1>4, <1>6, <1>7, <1>8, <1>9

LEMMA SmallPlaces ==
  ASSUME NEW l, NEW p \in {0, 1}
  PROVE  Assessed(p, l) /\ Featured(p, l) /\ Trained(p, l)
<1>1. \A s \in Seasons : ~(p > 4 * s) /\ ~(p > 4 * N + 2 * s + 1)
  BY SeasonsAreNaturals
<1>2. ~(p > 1) /\ ~(p > 2) /\ ~(p > 3) /\ ~(p > 4) /\ ~(p > 5) /\ ~(p > 7)
  OBVIOUS
<1>3. Assessed(p, l)
  BY <1>2 DEF Assessed
<1>4. Featured(p, l)
  BY <1>1, <1>2 DEF Featured
<1>5. Trained(p, l)
  BY <1>1, <1>2 DEF Trained
<1>6. QED
  BY <1>3, <1>4, <1>5

LEMMA KnowsSame ==
  ASSUME NEW c, NEW i, NEW l, NEW k, SameReads(l, k), Knows(c, i, l)
  PROVE  Knows(c, i, k)
<1>1. k.inputs = l.inputs /\ k.listing = l.listing /\ k.held = l.held /\ k.sums = l.sums
  BY DEF SameReads
<1>2. \A p : Assessed(p, l) => Assessed(p, k)
  BY <1>1 DEF Assessed, OneTraining, ComparablePopulations
<1>3. \A p : Featured(p, l) => Featured(p, k)
  BY <1>1 DEF Featured
<1>4. \A p : Trained(p, l) => Trained(p, k)
  BY <1>1 DEF Trained
<1>5. Tuned(l) => Tuned(k)
  BY <1>1 DEF Tuned
<1>6. QED
  BY <1>2, <1>3, <1>4, <1>5 DEF Knows

LEMMA KnowsMoves ==
  ASSUME NEW j, NEW l, LocalsRecord(l), NEW c \in AllCommands,
         NEW i \in 1..Len(Steps(c)), i # Len(Steps(c)),
         NEW o, o = Steps(c)[i], NEW k, Reads(j, l, o, k), Knows(c, i, l),
         o.op = "load" /\ job[j].phase = "second" /\ o.d = CatBoost => TunedFreeze(l.part),
         historical \in Revisions, DiskReads
  PROVE  Knows(c, i + 1, k)
<1>1. i \in Nat \ {0} /\ i + 1 \in 1..Len(Steps(c))
  BY StepsLength
<1>2. Placed(c, i) /\ Placed(c, i + 1)
  BY <1>1, CommandLayout
<1>3. Assessed(AssessmentPlace(c, i + 1), k)
  <2>8. PICK p, q : p = AssessmentPlace(c, i) /\ q = AssessmentPlace(c, i + 1)
    OBVIOUS
  <2>5. q \in 0..11 /\ (p # 0 => o = AssessmentTail[p])
    BY <1>2, <2>8 DEF Placed, TrainingLength
  <2>6. q > 1 => p = q - 1
    BY <1>1, <2>8, NextPlaces
  <2>7. Assessed(p, l)
    BY <2>8 DEF Knows
  <2>2. CASE q \in {0, 1}
    BY <2>2, <2>8, SmallPlaces
  <2>3. CASE q \notin {0, 1}
    <3>1. p \in 1..10 /\ o = AssessmentTail[p] /\ q = p + 1
      BY <2>3, <2>5, <2>6
    <3>4. LocalsRecord(l) /\ Reads(j, l, o, k) /\ Assessed(p, l)
      BY <2>7
    <3>2. Assessed(p + 1, k)
      BY ONLY <3>1, <3>4, AssessedStep
    <3>3. QED
      BY <2>8, <3>1, <3>2
  <2>4. QED
    BY <2>2, <2>3, <2>8
<1>4. Featured(FeaturePlace(c, i + 1), k)
  <2>8. PICK p, q : p = FeaturePlace(c, i) /\ q = FeaturePlace(c, i + 1)
    OBVIOUS
  <2>5. q \in 0..(4 * N + 1) /\ (p # 0 => o = FeatureSteps[p])
    BY <1>2, <2>8 DEF Placed, TrainingLength
  <2>6. q > 1 => p = q - 1
    BY <1>1, <2>8, NextPlaces
  <2>7. Featured(p, l)
    BY <2>8 DEF Knows
  <2>2. CASE q \in {0, 1}
    BY <2>2, <2>8, SmallPlaces
  <2>3. CASE q \notin {0, 1}
    <3>1. p \in 1..(4 * N) /\ o = FeatureSteps[p] /\ q = p + 1
      BY <2>3, <2>5, <2>6, SeasonsAreNaturals
    <3>4. LocalsRecord(l) /\ Reads(j, l, o, k) /\ Featured(p, l) /\ historical \in Revisions /\ DiskReads
      BY <2>7
    <3>2. Featured(p + 1, k)
      BY ONLY <3>1, <3>4, FeaturedStep
    <3>3. QED
      BY <2>8, <3>1, <3>2
  <2>4. QED
    BY <2>2, <2>3, <2>8
<1>5. Trained(TrainingPlace(c, i + 1), k)
  <2>8. PICK p, q : p = TrainingPlace(c, i) /\ q = TrainingPlace(c, i + 1)
    OBVIOUS
  <2>5. q \in 0..(6 * N + 4) /\ (p # 0 => o = TrainingSteps[p])
    BY <1>2, <2>8 DEF Placed, TrainingLength
  <2>6. q > 1 => p = q - 1
    BY <1>1, <2>8, NextPlaces
  <2>7. Trained(p, l)
    BY <2>8 DEF Knows
  <2>2. CASE q \in {0, 1}
    BY <2>2, <2>8, SmallPlaces
  <2>3. CASE q \notin {0, 1}
    <3>1. p \in 1..(6 * N + 3) /\ o = TrainingSteps[p] /\ q = p + 1
      BY <2>3, <2>5, <2>6, SeasonsAreNaturals
    <3>4. LocalsRecord(l) /\ Reads(j, l, o, k) /\ Trained(p, l) /\ historical \in Revisions
      BY <2>7
    <3>2. Trained(p + 1, k)
      BY ONLY <3>1, <3>4, TrainedStep
    <3>3. QED
      BY <2>8, <3>1, <3>2
  <2>4. QED
    BY <2>2, <2>3, <2>8
<1>6. Tuned(k)
  BY TunedStep DEF Knows
<1>7. QED
  BY <1>3, <1>4, <1>5, <1>6 DEF Knows

\* A step of a job adds to what the job knows.
LEMMA JobReadsStep ==
  ASSUME ReadsInv, NEW j \in Jobs, StepEffect(j)
  PROVE  JobReads(j)'
<1> DEFINE l == job[j].l
           c == job[j].command
           i == job[j].pc
           o == Current(j)
<1>1. Running(j) /\ (Ended(j) \/ Waits(j) \/ Completes(j)) /\ JobShapes
  BY StepOutcome DEF ReadsInv
<1>2. c \in AllCommands /\ i \in 1..Len(Steps(c)) /\ o = Steps(c)[i]
  <2>1. OnItsWay(j)
    BY DEF ReadsInv
  <2>2. QED
    BY <1>1, <2>1 DEF OnItsWay, Current
<1>3. Knows(c, i, l) /\ (job[j].phase = "second" /\ o.op = "load" /\ o.d = CatBoost => TunedFreeze(l.part))
  BY <1>1 DEF ReadsInv, JobReads
<1>4. LocalsRecord(l)
  BY <1>1, OwnLocals
<1>5. CASE Ended(j) \/ job'[j] = Idle("done", c)
  <2>3. job'[j].status # "running"
    BY <1>5 DEF Ended, Idle
  <2>1. ~Running(j)'
    BY <2>3 DEF Running
  <2>2. QED
    BY <2>1 DEF JobReads
<1>6. CASE Waits(j)
  <2>1. PICK phase, k :
        /\ Stayed(j, phase, k) /\ SameReads(l, k)
        /\ o.op = "load" /\ o.d[1] # "canonical" =>
              k.part # None /\ k.part = disk[o.d].manifest
    BY <1>6 DEF Waits
  <2>2. Knows(c, i, k)
    BY <1>3, <2>1, KnowsSame
  <2>3. job'[j].command = c /\ job'[j].pc = i /\ job'[j].l = k
    BY <2>1 DEF Stayed
  <2>4. Current(j)' = o
    BY <2>1, StayedAt
  <2>5. ASSUME o.op = "load", o.d = CatBoost PROVE TunedFreeze(k.part)
    <3>1. CatBoost[1] # "canonical"
      BY DEF CatBoost
    <3>2. k.part # None /\ k.part = disk[CatBoost].manifest
      BY <2>1, <2>5, <3>1
    <3>3. QED
      BY <3>2 DEF ReadsInv, DiskReads
  <2> HIDE DEF l, c, i, o
  <2>6. QED
    BY <2>2, <2>3, <2>4, <2>5 DEF JobReads
<1>7. CASE Completes(j) /\ ~(job'[j] = Idle("done", c))
  <2>1. PICK k : Completed(j, k) /\ Reads(j, l, o, k)
    BY <1>7 DEF Completes, Reads
  <2>2. i # Len(Steps(c)) /\ Moved(j, k)
    BY <1>7, <2>1 DEF Completed
  <2>3. job'[j].command = c /\ job'[j].pc = i + 1 /\ job'[j].l = k /\ job'[j].phase = "begin"
    BY <2>2 DEF Moved
  <2>4. historical \in Revisions /\ DiskReads
    BY DEF ReadsInv
  <2> HIDE DEF l, c, i, o
  <2>5. Knows(c, i + 1, k)
    BY <1>2, <1>3, <1>4, <2>1, <2>2, <2>4, KnowsMoves
  <2>6. QED
    BY <2>3, <2>5 DEF JobReads
<1>8. QED
  BY <1>1, <1>5, <1>6, <1>7

LEMMA JobReadsFrame ==
  ASSUME NEW j \in Jobs, job'[j] = job[j], JobReads(j), OnItsWay(j)
  PROVE  JobReads(j)' /\ OnItsWay(j)'
<1>1. (Running(j)' <=> Running(j)) /\ Current(j)' = Current(j)
  BY DEF Running, Current
<1>2. QED
  BY <1>1 DEF JobReads, OnItsWay

LEMMA IdleReads ==
  ASSUME NEW j \in Jobs, NEW status, NEW c, job'[j] = Idle(status, c),
         status # "running" \/ c \in AllCommands
  PROVE  JobReads(j)' /\ OnItsWay(j)'
<1>1. /\ job'[j].status = status /\ job'[j].command = c /\ job'[j].pc = 1
      /\ job'[j].l = NoLocals /\ job'[j].phase = "begin"
  BY DEF Idle
<1>2. CASE status # "running"
  <2>1. ~Running(j)'
    BY <1>1, <1>2 DEF Running
  <2>2. QED
    BY <2>1 DEF JobReads, OnItsWay
<1>3. CASE status = "running"
  <2>1. 1 \in 1..Len(Steps(c)) /\ c \in AllCommands
    BY <1>3, StepsLength
  <2>2. /\ TrainingPlace(c, 1) \in {0, 1} /\ FeaturePlace(c, 1) \in {0, 1}
        /\ AssessmentPlace(c, 1) \in {0, 1}
    BY SeasonsAreNaturals DEF TrainingPlace, FeaturePlace, AssessmentPlace, TrainingLength
  <2>3. Tuned(NoLocals)
    BY DEF Tuned, NoLocals
  <2>4. Knows(c, 1, NoLocals)
    BY <2>2, <2>3, SmallPlaces DEF Knows
  <2>5. QED
    BY <1>1, <2>1, <2>4 DEF JobReads, OnItsWay
<1>4. QED
  BY <1>2, <1>3

-----------------------------------------------------------------------------
(* What a process that knows this publishes.                               *)

LEMMA FeaturesPublished ==
  ASSUME NEW s \in Seasons, NEW l, Featured(4 * s + 1, l)
  PROVE  \E h \in Revisions : FeatureManifest(s, l) = IdealFeatures(h, s)
<1>1. l.listing \in Revisions
  BY SeasonsAreNaturals DEF Featured
<1>2. \A t \in Seasons : t <= s => Link(t, l) = IdealLink(l.listing, t)
  <2>1. ASSUME NEW t \in Seasons, t <= s
        PROVE  Link(t, l) = IdealLink(l.listing, t)
    <3>1. 4 * s + 1 > 4 * t
      BY <2>1, SeasonsAreNaturals
    <3>2. l.held[Canonical(t)].manifest.fixtures_sha256 = l.listing[t].sha256
      BY <3>1 DEF Featured
    <3>3. QED
      BY <3>2 DEF Link, IdealLink
  <2>2. QED
    BY <2>1
<1>3. \A t \in 1..(s - 1) : t \in Seasons /\ t <= s
  BY SeasonsAreNaturals
<1>4. History(s, l) = [k \in 1..(s - 1) |-> IdealLink(l.listing, k)]
  BY <1>2, <1>3 DEF History
<1>5. Link(s, l) = IdealLink(l.listing, s)
  BY <1>2, SeasonsAreNaturals
<1>6. FeatureManifest(s, l) = IdealFeatures(l.listing, s)
  BY <1>4, <1>5 DEF FeatureManifest, IdealFeatures
<1>7. QED
  BY <1>1, <1>6

LEMMA TrainingPublished ==
  ASSUME NEW l, Trained(6 * N + 4, l)
  PROVE  \E h \in Revisions : \A s \in Seasons :
            TrainingManifest(l).sources[s].features.own.source = Lineage(h[s])
<1>1. l.inputs \in Revisions
  BY SeasonsAreNaturals DEF Trained
<1>2. ASSUME NEW s \in Seasons
      PROVE  TrainingManifest(l).sources[s].features.own.source = Lineage(l.inputs[s])
  <2>1. 6 * N + 4 > 4 * N + 2 * s + 1
    BY SeasonsAreNaturals
  <2>2. l.held[Features(s)].manifest.own.source = Lineage(l.inputs[s])
    BY <2>1 DEF Trained
  <2>3. TrainingManifest(l).sources[s] = FeatureSource(s, l)
    BY DEF TrainingManifest
  <2>4. FeatureSource(s, l).features = l.held[Features(s)].manifest
    BY DEF FeatureSource
  <2>5. QED
    BY <2>2, <2>3, <2>4
<1>3. QED
  BY <1>1, <1>2

OneEvaluated(a) == a.acceptance = {a.training} /\ a.test_freeze_manifest_sha256 = FreezeOf(a.training)

LEMMA AssessmentPublished ==
  ASSUME NEW l, Assessed(11, l), Tuned(l)
  PROVE  OneEvaluated(AssessmentManifest(l))
<1> DEFINE m == l.held[Training].manifest
           a == AssessmentManifest(l)
<1>1. /\ CatBoost \in DOMAIN l.held /\ OneTraining(l)
      /\ l.sums[Freeze] = l.held[CatBoost].manifest.test_freeze
  BY DEF Assessed
<1>2. \A d \in {Evaluation, CatBoost, Advanced} : l.held[d].manifest.training = m
  BY <1>1 DEF OneTraining
<1>3. /\ a.training = m /\ a.test_freeze_manifest_sha256 = l.sums[Freeze]
      /\ a.acceptance = {l.held[d].manifest.training : d \in {Evaluation, CatBoost, Advanced}}
  BY DEF AssessmentManifest
<1> HIDE DEF m, a
<1>4. a.acceptance = {m}
  BY <1>2, <1>3
<1>5. l.sums[Freeze] = FreezeOf(m)
  BY <1>1, <1>2 DEF Tuned, TunedFreeze
<1>6. QED
  BY <1>3, <1>4, <1>5 DEF OneEvaluated, a

\* What a step leaves on disk.
LEMMA DiskReadsStep ==
  ASSUME ReadsInv, NEW j \in Jobs, StepEffect(j)
  PROVE  DiskReads'
<1> DEFINE l == job[j].l
           c == job[j].command
           i == job[j].pc
<1>1. DiskShape /\ DiskReads /\ JobShapes /\ JobReads(j) /\ OnItsWay(j)
  BY DEF ReadsInv
<1>2. \A d \in Datasets :
        \/ disk'[d].manifest = disk[d].manifest
        \/ /\ Current(j).op = "publish" /\ Current(j).d = d
           /\ disk'[d].manifest = Content(d, l).manifest
  BY <1>1, FileWritten
<1>3. Running(j)
  BY <1>1, StepOutcome
<1>4. Knows(c, i, l) /\ c \in AllCommands /\ i \in 1..Len(Steps(c)) /\ Current(j) = Steps(c)[i]
  BY <1>1, <1>3 DEF JobReads, OnItsWay, Current
<1>5. Placed(c, i)
  BY <1>4, CommandLayout
<1>6. ASSUME Current(j).op = "publish"
      PROVE  /\ \A s \in Seasons : Current(j).d = Features(s) => FeaturePlace(c, i) = 4 * s + 1
             /\ Current(j).d = Training => TrainingPlace(c, i) = 6 * N + 4
             /\ Current(j).d = Assessment => AssessmentPlace(c, i) = 11
  BY <1>4, <1>5, <1>6, PublishPlaces DEF TrainingLength
<1>7. /\ \A s \in Seasons : Canonical(s) \in Datasets /\ Features(s) \in Datasets
      /\ Training \in Datasets /\ CatBoost \in Datasets /\ Assessment \in Datasets
  BY DEF Datasets
<1> HIDE DEF l, c, i
<1>8. ASSUME NEW s \in Seasons, disk'[Canonical(s)].manifest # None
      PROVE  disk'[Canonical(s)].manifest.fixtures_sha256 = disk'[Canonical(s)].manifest.source.sha256
  <2>1. CASE disk'[Canonical(s)].manifest = disk[Canonical(s)].manifest
    BY <1>1, <1>8, <2>1 DEF DiskReads
  <2>2. CASE disk'[Canonical(s)].manifest = CanonicalManifest(l)
    BY <2>2 DEF CanonicalManifest, Lineage
  <2>3. QED
    BY <1>2, <1>7, <2>1, <2>2, ContentIs
<1>9. ASSUME NEW s \in Seasons, disk'[Features(s)].manifest # None
      PROVE  \E h \in Revisions : disk'[Features(s)].manifest = IdealFeatures(h, s)
  <2>1. CASE disk'[Features(s)].manifest = disk[Features(s)].manifest
    BY <1>1, <1>9, <2>1 DEF DiskReads
  <2>2. CASE /\ Current(j).op = "publish" /\ Current(j).d = Features(s)
             /\ disk'[Features(s)].manifest = FeatureManifest(s, l)
    <3>1. Featured(4 * s + 1, l)
      BY <1>4, <1>6, <2>2 DEF Knows
    <3>2. QED
      BY <2>2, <3>1, FeaturesPublished
  <2>3. QED
    BY <1>2, <1>7, <2>1, <2>2, ContentIs
<1>10. ASSUME disk'[Training].manifest # None
       PROVE  \E h \in Revisions : \A s \in Seasons :
                 disk'[Training].manifest.sources[s].features.own.source = Lineage(h[s])
  <2>1. CASE disk'[Training].manifest = disk[Training].manifest
    BY <1>1, <1>10, <2>1 DEF DiskReads
  <2>2. CASE /\ Current(j).op = "publish" /\ Current(j).d = Training
             /\ disk'[Training].manifest = TrainingManifest(l)
    <3>1. Trained(6 * N + 4, l)
      BY <1>4, <1>6, <2>2 DEF Knows
    <3>2. QED
      BY <2>2, <3>1, TrainingPublished
  <2>3. N \in Seasons
    BY SeasonsAreNaturals
  <2>4. QED
    BY <1>2, <1>7, <2>1, <2>2, <2>3, ContentIs
<1>11. ASSUME disk'[CatBoost].manifest # None
       PROVE  TunedFreeze(disk'[CatBoost].manifest)
  <2>1. CASE disk'[CatBoost].manifest = disk[CatBoost].manifest
    BY <1>1, <1>11, <2>1 DEF DiskReads
  <2>2. CASE disk'[CatBoost].manifest = CatBoostManifest(l)
    BY <2>2 DEF CatBoostManifest, TunedFreeze
  <2>3. N \in Seasons
    BY SeasonsAreNaturals
  <2>4. QED
    BY <1>2, <1>7, <2>1, <2>2, <2>3, ContentIs
<1>12. ASSUME disk'[Assessment].manifest # None
       PROVE  OneEvaluated(disk'[Assessment].manifest)
  <2>1. CASE disk'[Assessment].manifest = disk[Assessment].manifest
    BY <1>1, <1>12, <2>1 DEF DiskReads, ComparedOnOneTraining, OneEvaluated
  <2>2. CASE /\ Current(j).op = "publish" /\ Current(j).d = Assessment
             /\ disk'[Assessment].manifest = AssessmentManifest(l)
    <3>1. Assessed(11, l) /\ Tuned(l)
      BY <1>4, <1>6, <2>2 DEF Knows
    <3>2. QED
      BY <2>2, <3>1, AssessmentPublished
  <2>3. N \in Seasons
    BY SeasonsAreNaturals
  <2>4. QED
    BY <1>2, <1>7, <2>1, <2>2, <2>3, ContentIs
<1>13. ComparedOnOneTraining'
  BY <1>12 DEF ComparedOnOneTraining, OneEvaluated
<1>14. QED
  BY <1>8, <1>9, <1>10, <1>11, <1>13 DEF DiskReads

LEMMA ReadsInvStep ==
  ASSUME ReadsInv, NEW j \in Jobs, Step(j)
  PROVE  ReadsInv'
<1>1. JobShapes' /\ OthersUntouched(j) /\ StepEffect(j)
  BY StepsHaveEffects DEF ReadsInv, JobFramed
<1>2. DiskShape'
  BY <1>1, FileWritten DEF ReadsInv
<1>3. historical' \in Revisions
  BY <1>1, DiskOutcome DEF ReadsInv
<1>4. DiskReads'
  BY <1>1, DiskReadsStep
<1>5. OnItsWay(j)' /\ JobReads(j)'
  BY <1>1, OnItsWayStep, JobReadsStep DEF ReadsInv
<1>6. ASSUME NEW k \in Jobs, k # j PROVE OnItsWay(k)' /\ JobReads(k)'
  BY <1>1, <1>6, JobReadsFrame DEF ReadsInv, OthersUntouched
<1>7. \A k \in Jobs : OnItsWay(k)' /\ JobReads(k)'
  BY <1>5, <1>6
<1>8. QED
  BY <1>1, <1>2, <1>3, <1>4, <1>7 DEF ReadsInv

LEMMA ReadsInvInit ==
  ASSUME Init
  PROVE  ReadsInv
<1>1. JobShapes
  BY DEF Init, JobShapes, JobRecord, LocalsRecord, Idle, NoLocals
<1>2. historical \in Revisions
  BY PipelineAssumption DEF Init
<1>3. \A j \in Jobs : OnItsWay(j) /\ JobReads(j)
  BY DEF Init, OnItsWay, JobReads, Running, Idle
<1>4. PICK e \in Earlier : disk = LeftBy(e)
  BY DEF Init
<1>5. \A d \in Datasets : e[Kind(d)] = None \/ e[Kind(d)] \in Revisions
  <2>1. \A d \in Datasets : Kind(d) \in {"data", "evaluation", "catboost", "advanced", "assessment"}
    BY DEF Datasets, Kind, Canonical, Features, Training, Evaluation, Freeze, CatBoost,
           Advanced, Assessment
  <2>2. e \in [{"data", "evaluation", "catboost", "advanced", "assessment"} -> Revisions \cup {None}]
    BY PipelineAssumption
  <2>3. QED
    BY <2>1, <2>2
<1>6. /\ DOMAIN disk = Datasets
      /\ \A d \in Datasets :
            \/ disk[d] = [rows |-> None, manifest |-> None]
            \/ \E h \in Revisions : disk[d] = Ideal(h)[d]
  BY <1>4, <1>5 DEF LeftBy
<1>7. DiskShape
  <2>1. ASSUME NEW d \in Datasets
        PROVE  disk[d] = [rows |-> disk[d].rows, manifest |-> disk[d].manifest]
    <3>1. CASE disk[d] = [rows |-> None, manifest |-> None]
      BY <3>1
    <3>2. ASSUME NEW h, disk[d] = Ideal(h)[d]
          PROVE  disk[d] = [rows |-> disk[d].rows, manifest |-> disk[d].manifest]
      <4>1. Ideal(h)[d] = [rows |-> Ideal(h)[d].rows, manifest |-> Ideal(h)[d].manifest]
        BY IdealIs
      <4>2. QED
        BY <3>2, <4>1
    <3>3. QED
      BY <1>6, <3>1, <3>2
  <2>2. QED
    BY <1>6, <2>1 DEF DiskShape
<1>8. \A d \in Datasets : disk[d].manifest # None => \E h \in Revisions : disk[d] = Ideal(h)[d]
  BY <1>6
<1>9. /\ \A s \in Seasons : Canonical(s) \in Datasets /\ Features(s) \in Datasets
      /\ Training \in Datasets /\ CatBoost \in Datasets /\ Assessment \in Datasets
  BY DEF Datasets
<1>10. ASSUME NEW s \in Seasons, disk[Canonical(s)].manifest # None
       PROVE  disk[Canonical(s)].manifest.fixtures_sha256 = disk[Canonical(s)].manifest.source.sha256
  <2>3. PICK h \in Revisions : disk[Canonical(s)] = Ideal(h)[Canonical(s)]
    BY <1>8, <1>9, <1>10
  <2>1. disk[Canonical(s)].manifest = IdealLink(h, s)
    BY <2>3, IdealIs
  <2>2. QED
    BY <2>1 DEF IdealLink, Lineage
<1>11. ASSUME NEW s \in Seasons, disk[Features(s)].manifest # None
       PROVE  \E h \in Revisions : disk[Features(s)].manifest = IdealFeatures(h, s)
  <2>1. PICK h \in Revisions : disk[Features(s)] = Ideal(h)[Features(s)]
    BY <1>8, <1>9, <1>11
  <2>2. disk[Features(s)].manifest = IdealFeatures(h, s)
    BY <2>1, IdealIs
  <2>3. QED
    BY <2>2
<1>12. ASSUME disk[Training].manifest # None
       PROVE  \E h \in Revisions : \A s \in Seasons :
                 disk[Training].manifest.sources[s].features.own.source = Lineage(h[s])
  <2>4. PICK h \in Revisions : disk[Training] = Ideal(h)[Training]
    BY <1>8, <1>9, <1>12
  <2>1. disk[Training].manifest = IdealTraining(h)
    BY <2>4, IdealIs
  <2>2. ASSUME NEW s \in Seasons
        PROVE  IdealTraining(h).sources[s].features.own.source = Lineage(h[s])
    BY DEF IdealTraining, IdealFeatures, IdealLink
  <2>3. QED
    BY <2>1, <2>2
<1>13. ASSUME disk[CatBoost].manifest # None
       PROVE  TunedFreeze(disk[CatBoost].manifest)
  <2>3. PICK h \in Revisions : disk[CatBoost] = Ideal(h)[CatBoost]
    BY <1>8, <1>9, <1>13
  <2>1. disk[CatBoost].manifest =
          [training |-> IdealTraining(h), test_freeze |-> FreezeOf(IdealTraining(h))]
    BY <2>3, IdealIs
  <2>2. QED
    BY <2>1 DEF TunedFreeze
<1>14. ComparedOnOneTraining
  <2>1. ASSUME disk[Assessment].manifest # None
        PROVE  OneEvaluated(disk[Assessment].manifest)
    <3>1. PICK h \in Revisions : disk[Assessment] = Ideal(h)[Assessment]
      BY <1>8, <1>9, <2>1
    <3>2. QED
      <4>1. /\ Ideal(h)[Assessment].manifest.training = IdealTraining(h)
            /\ Ideal(h)[Assessment].manifest.acceptance = {IdealTraining(h)}
            /\ Ideal(h)[Assessment].manifest.test_freeze_manifest_sha256 = FreezeOf(IdealTraining(h))
        BY IdealIs
      <4>2. QED
        BY <3>1, <4>1 DEF OneEvaluated
  <2>2. QED
    BY <2>1 DEF ComparedOnOneTraining, OneEvaluated
<1>15. QED
  BY <1>1, <1>2, <1>3, <1>7, <1>10, <1>11, <1>12, <1>13, <1>14 DEF ReadsInv, DiskReads

LEMMA ReadsInvNext ==
  ASSUME ReadsInv, [Next]_vars
  PROVE  ReadsInv'
<1>1. ASSUME UNCHANGED disk PROVE DiskShape' /\ DiskReads'
  BY <1>1 DEF ReadsInv, DiskShape, DiskReads, ComparedOnOneTraining
<1>2. CASE Edit \/ UNCHANGED vars
  <2>1. UNCHANGED <<disk, job>> /\ historical' \in Revisions
    BY <1>2 DEF Edit, vars, ReadsInv
  <2>2. JobShapes'
    BY <2>1 DEF ReadsInv, JobShapes
  <2>3. \A k \in Jobs : OnItsWay(k)' /\ JobReads(k)'
    BY <2>1, JobReadsFrame DEF ReadsInv
  <2>4. QED
    BY <1>1, <2>1, <2>2, <2>3 DEF ReadsInv
<1>3. ASSUME NEW j \in Jobs, Step(j) PROVE ReadsInv'
  BY <1>3, ReadsInvStep
<1>4. ASSUME NEW j \in Jobs, Crash(j) \/ \E command \in Commands[j] : Start(j, command)
      PROVE  ReadsInv'
  <2>1. UNCHANGED <<disk, historical>>
    BY <1>4 DEF Crash, Start, UnchangedFiles
  <2>2. PICK status, command : /\ job' = [job EXCEPT ![j] = Idle(status, command)]
                               /\ status # "running" \/ command \in AllCommands
    <3>1. CASE Crash(j)
      <4>1. job' = [job EXCEPT ![j] = Idle("crashed", job[j].command)]
        BY <3>1 DEF Crash
      <4>2. "crashed" # "running"
        OBVIOUS
      <4>3. QED
        BY <4>1, <4>2
    <3>2. CASE \E command \in Commands[j] : Start(j, command)
      <4>1. PICK command \in Commands[j] : Start(j, command)
        BY <3>2
      <4>2. Commands[j] \in SUBSET AllCommands
        BY PipelineAssumption
      <4>3. command \in AllCommands /\ job' = [job EXCEPT ![j] = Idle("running", command)]
        BY <4>1, <4>2 DEF Start
      <4>4. QED
        BY <4>3
    <3>3. QED
      BY <1>4, <3>1, <3>2
  <2>3. JobShapes' /\ OthersUntouched(j) /\ job'[j] = Idle(status, command)
    BY <2>2, IdleEffect DEF ReadsInv
  <2>4. OnItsWay(j)' /\ JobReads(j)'
    BY <2>2, <2>3, IdleReads
  <2>5. \A k \in Jobs : k # j => OnItsWay(k)' /\ JobReads(k)'
    BY <2>3, JobReadsFrame DEF ReadsInv, OthersUntouched
  <2>6. QED
    BY <1>1, <2>1, <2>3, <2>4, <2>5 DEF ReadsInv
<1>5. QED
  BY <1>2, <1>3, <1>4 DEF Next

(* The inductive invariant of the datasets: what a process has read agrees *)
(* with its copies of the historical manifest and with the checks it has   *)
(* passed, and every manifest on disk was written by a process that knew.  *)
THEOREM ReadsInvHolds == Spec => []ReadsInv
<1>1. Init => ReadsInv
  BY ReadsInvInit
<1>2. ReadsInv /\ [Next]_vars => ReadsInv'
  BY ReadsInvNext
<1>3. QED
  BY <1>1, <1>2, PTL DEF Spec

(* An intact feature dataset and its whole chain of earlier seasons come   *)
(* from one revision of the historical manifest, although the canonical    *)
(* materializer reads that file again for every entry.                     *)
THEOREM FeaturesComeFromOneRevision == Spec => []FeaturesFromOneRevision
<1>1. ReadsInv => FeaturesFromOneRevision
  BY DEF ReadsInv, DiskReads, FeaturesFromOneRevision, Intact
<1>2. QED
  BY <1>1, ReadsInvHolds, PTL

(* All seasons of an intact training dataset come from raw files of one    *)
(* revision, although other commands replace feature datasets meanwhile.   *)
THEOREM TrainingComesFromOneRevision == Spec => []TrainingFromOneRevision
<1>1. ReadsInv => TrainingFromOneRevision
  BY DEF ReadsInv, DiskReads, TrainingFromOneRevision, Intact
<1>2. QED
  BY <1>1, ReadsInvHolds, PTL

(* The acceptance report compares evaluations of one training manifest,    *)
(* under the freeze of that training, whatever commands have overlapped.   *)
THEOREM EvaluationsShareOneTraining == Spec => []ComparedOnOneTraining
<1>1. ReadsInv => ComparedOnOneTraining
  BY DEF ReadsInv, DiskReads
<1>2. QED
  BY <1>1, ReadsInvHolds, PTL

-----------------------------------------------------------------------------
(* What every operation of a command has before it.                        *)

\* Operation o stands before place i, and nothing publishes a dataset of X after it.
Kept(q, i, o, X) ==
    \E k \in 1..(i - 1) :
        /\ q[k] = o
        /\ \A x \in (k + 1)..(i - 1) : ~(q[x].op = "publish" /\ q[x].d \in X)

\* What is dropped when the training materializer or the assessment returns,
\* and what the feature materializer drops as well.
Ending == {Training, Assessment}
Closing == {Features(N), Training, Assessment}

Listing == Op("listing", Training, "none")
Inputs == Op("inputs", Training, "none")
Checksum == Op("checksum", Training, "none")

LEMMA KeptNext ==
  ASSUME NEW q, NEW i \in Nat \ {0}, NEW o, NEW X, Kept(q, i + 1, o, X)
  PROVE  o = q[i] \/ (Kept(q, i, o, X) /\ ~(q[i].op = "publish" /\ q[i].d \in X))
<1>1. PICK k \in 1..i :
        /\ q[k] = o
        /\ \A x \in (k + 1)..i : ~(q[x].op = "publish" /\ q[x].d \in X)
  <2>1. (i + 1) - 1 = i
    OBVIOUS
  <2>2. QED
    BY <2>1 DEF Kept
<1>2. CASE k = i
  BY <1>1, <1>2
<1>3. CASE k # i
  <2>1. k \in 1..(i - 1) /\ i \in (k + 1)..i
    BY <1>3
  <2>2. \A x \in (k + 1)..(i - 1) : x \in (k + 1)..i
    OBVIOUS
  <2>3. QED
    BY <1>1, <2>1, <2>2 DEF Kept
<1>4. QED
  BY <1>2, <1>3

LEMMA KeptFirst ==
  ASSUME NEW q, NEW o, NEW X
  PROVE  ~Kept(q, 1, o, X)
BY DEF Kept

\* What is kept is kept from the publications of fewer datasets.
LEMMA KeptLess ==
  ASSUME NEW q, NEW i, NEW o, NEW X, NEW Y, Y \subseteq X, Kept(q, i, o, X)
  PROVE  Kept(q, i, o, Y)
BY DEF Kept

\* The places of q are those of r from place n on.
LEMMA KeptWithin ==
  ASSUME NEW q, NEW r, NEW n \in Nat, NEW i \in Nat, \A x \in 1..(i - 1) : r[n + x] = q[x],
         NEW o, NEW X, Kept(q, i, o, X)
  PROVE  Kept(r, n + i, o, X)
<1>1. PICK k \in 1..(i - 1) :
        /\ q[k] = o
        /\ \A x \in (k + 1)..(i - 1) : ~(q[x].op = "publish" /\ q[x].d \in X)
  BY DEF Kept
<1>2. n + k \in 1..(n + i - 1) /\ r[n + k] = o
  BY <1>1
<1>3. ASSUME NEW y \in (n + k + 1)..(n + i - 1)
      PROVE  ~(r[y].op = "publish" /\ r[y].d \in X)
  <2>1. y - n \in (k + 1)..(i - 1) /\ y - n \in 1..(i - 1) /\ n + (y - n) = y
    OBVIOUS
  <2>2. r[y] = q[y - n]
    BY <2>1
  <2>3. QED
    BY <1>1, <2>1, <2>2
<1>4. QED
  BY <1>2, <1>3 DEF Kept

\* A season is published from the entry looked up just before, its features
\* from the canonical datasets loaded so far.
SeasonSupplied(q, i, s) ==
    LET o == q[i]
    IN  /\ o.op = "publish" /\ o.d = Canonical(s) =>
              i > 1 /\ q[i - 1] = Op("entry", Canonical(s), "none")
        /\ o.op \in {"load", "hash"} /\ o.d = Canonical(s) =>
              Kept(q, i, Publish(Canonical(s)), {}) /\ Kept(q, i, Listing, Closing)
        /\ o.op = "publish" /\ o.d = Features(s) =>
              /\ Kept(q, i, Listing, Closing)
              /\ \A t \in 1..s : /\ Kept(q, i, Publish(Canonical(t)), {})
                                 /\ Kept(q, i, Load(Canonical(t)), Closing)
        /\ o.op \in {"load", "hash"} /\ o.d = Features(s) =>
              Kept(q, i, Publish(Features(s)), {}) /\ Kept(q, i, Inputs, Ending)

\* What stands before the publications that follow the training.
ResultSupplied(q, i, d) ==
    /\ d \in {Evaluation, Freeze, CatBoost, Advanced, Assessment} =>
          Kept(q, i, Load(Training), Closing) /\ Kept(q, i, Hash(Training), Ending)
    /\ d = Advanced =>
          /\ Kept(q, i, Load(CatBoost), Datasets)
          /\ Kept(q, i, Op("hash", CatBoost, "tuned_on_training"), Datasets)
    /\ d = Assessment =>
          /\ Kept(q, i, Load(Evaluation), Datasets) /\ Kept(q, i, Load(CatBoost), Datasets)
          /\ Kept(q, i, Op("load", Advanced, "one_training"), Datasets)
          /\ Kept(q, i, Op("hash", Freeze, "freeze_of_evaluations"), Datasets)
          /\ Kept(q, i, Op("hash", CatBoost, "tuning_of_advanced"), Datasets)
          /\ Kept(q, i, Hash(Evaluation), Datasets) /\ Kept(q, i, Hash(Advanced), Datasets)

TrainingSupplied(q, i) ==
    /\ Kept(q, i, Checksum, Ending)
    /\ \A s \in Seasons : /\ Kept(q, i, Publish(Features(s)), {})
                          /\ Kept(q, i, Load(Features(s)), Closing)
                          /\ Kept(q, i, Hash(Features(s)), Ending)

Supplied(q, i) ==
    LET o == q[i]
    IN  /\ \A s \in Seasons : SeasonSupplied(q, i, s)
        /\ o.op = "publish" /\ o.d = Training => TrainingSupplied(q, i)
        /\ o.op \in {"load", "hash"} /\ o.d = Training => Kept(q, i, Publish(Training), {})
        /\ o.op = "publish" /\ o.d \in {Evaluation, Freeze, CatBoost, Advanced, Assessment} =>
              Kept(q, i, Publish(Training), {})
        /\ o.op = "publish" => ResultSupplied(q, i, o.d)

LEMMA SuppliedWithin ==
  ASSUME NEW q, NEW r, NEW n \in Nat, NEW i \in Nat \ {0}, \A x \in 1..i : r[n + x] = q[x],
         Supplied(q, i)
  PROVE  Supplied(r, n + i)
<1>1. \A o, X : Kept(q, i, o, X) => Kept(r, n + i, o, X)
  <2>1. \A x \in 1..(i - 1) : r[n + x] = q[x]
    OBVIOUS
  <2>2. QED
    BY <2>1, KeptWithin
<1>2. r[n + i] = q[i]
  OBVIOUS
<1>3. i > 1 => n + i > 1 /\ r[(n + i) - 1] = q[i - 1]
  <2>1. i > 1 => i - 1 \in 1..i /\ n + (i - 1) = (n + i) - 1
    OBVIOUS
  <2>2. QED
    BY <2>1
<1>4. ASSUME NEW s \in Seasons PROVE SeasonSupplied(r, n + i, s)
  <2>1. SeasonSupplied(q, i, s)
    BY DEF Supplied
  <2>2. QED
    BY <1>1, <1>2, <1>3, <2>1 DEF SeasonSupplied
<1>5. TrainingSupplied(q, i) => TrainingSupplied(r, n + i)
  BY <1>1 DEF TrainingSupplied
<1>6. \A d : ResultSupplied(q, i, d) => ResultSupplied(r, n + i, d)
  BY <1>1 DEF ResultSupplied
<1>7. QED
  BY <1>1, <1>2, <1>4, <1>5, <1>6 DEF Supplied

-----------------------------------------------------------------------------
(* The feature materializer.                                               *)

LEMMA FeatureOperations ==
  ASSUME NEW s \in Seasons
  PROVE  /\ FeatureSteps[4 * s - 2].op = "entry"
         /\ FeatureSteps[4 * s - 1].op = "publish" /\ FeatureSteps[4 * s - 1].d = Canonical(s)
         /\ FeatureSteps[4 * s].op = "load" /\ FeatureSteps[4 * s].d = Canonical(s)
         /\ FeatureSteps[4 * s + 1].op = "publish" /\ FeatureSteps[4 * s + 1].d = Features(s)
<1>1. /\ FeatureSteps[4 * s - 2] = Op("entry", Canonical(s), "none")
      /\ FeatureSteps[4 * s - 1] = Publish(Canonical(s))
      /\ FeatureSteps[4 * s] = Load(Canonical(s))
      /\ FeatureSteps[4 * s + 1] = Publish(Features(s))
  BY FeatureLayout
<1>2. QED
  BY <1>1, OpIs

\* Before its last step the feature materializer keeps what it holds.
LEMMA FeaturesKeep ==
  ASSUME NEW f \in 1..(4 * N)
  PROVE  ~(FeatureSteps[f].op = "publish" /\ FeatureSteps[f].d \in Closing)
<1>1. CASE f = 1
  BY <1>1, FeatureLayout, OpIs
<1>2. CASE f # 1
  <2>1. f \in 1..(4 * N + 1)
    BY SeasonsAreNaturals
  <2>2. PICK s \in Seasons : f \in {4 * s - 2, 4 * s - 1, 4 * s, 4 * s + 1}
    BY <1>2, <2>1, FeatureLayout
  <2>3. Canonical(s) \notin Closing
    <3>1. N \in Seasons
      BY SeasonsAreNaturals
    <3>2. QED
      BY <3>1, DatasetsDiffer DEF Closing
  <2>4. CASE f = 4 * s + 1
    <3>1. s # N
      BY <2>4, SeasonsAreNaturals
    <3>2. Features(s) \notin Closing
      <4>1. N \in Seasons
        BY SeasonsAreNaturals
      <4>2. QED
        BY <3>1, <4>1, DatasetsDiffer DEF Closing
    <3>3. QED
      BY <2>4, <3>2, FeatureOperations
  <2>5. CASE f # 4 * s + 1
    BY <2>2, <2>3, <2>5, FeatureOperations
  <2>6. QED
    BY <2>4, <2>5
<1>3. QED
  BY <1>1, <1>2

LEMMA FeaturesKept ==
  ASSUME NEW f \in 1..(4 * N + 1), NEW g \in 1..(f - 1)
  PROVE  Kept(FeatureSteps, f, FeatureSteps[g], Closing)
<1>1. \A x \in (g + 1)..(f - 1) : x \in 1..(4 * N)
  BY SeasonsAreNaturals
<1>2. QED
  BY <1>1, FeaturesKeep DEF Kept

LEMMA FeaturesSupplied ==
  ASSUME NEW f \in 1..(4 * N + 1)
  PROVE  Supplied(FeatureSteps, f)
<1> DEFINE o == FeatureSteps[f]
<1>1. \A g \in 1..(f - 1) : /\ Kept(FeatureSteps, f, FeatureSteps[g], Closing)
                            /\ Kept(FeatureSteps, f, FeatureSteps[g], {})
  BY FeaturesKept, KeptLess
<1>2. f > 1 => Kept(FeatureSteps, f, Listing, Closing)
  BY <1>1, FeatureLayout DEF Listing
<1>3. f = 1 => o.op = "listing"
  BY FeatureLayout, OpIs
<1>4. CASE f = 1
  BY <1>3, <1>4 DEF Supplied, SeasonSupplied
<1>5. CASE f # 1
  <2>1. PICK s \in Seasons : f \in {4 * s - 2, 4 * s - 1, 4 * s, 4 * s + 1}
    BY <1>5, FeatureLayout
  <2>2. s \in Nat /\ 1 <= s /\ s <= N /\ N \in Nat
    BY SeasonsAreNaturals
  <2>3. CASE f = 4 * s - 2
    BY <2>3, FeatureOperations DEF Supplied, SeasonSupplied
  <2>4. CASE f = 4 * s - 1
    <3>1. o.op = "publish" /\ o.d = Canonical(s)
      BY <2>4, FeatureOperations
    <3>2. f - 1 = 4 * s - 2 /\ f > 1
      BY <2>2, <2>4
    <3>3. FeatureSteps[f - 1] = Op("entry", Canonical(s), "none")
      BY <3>2, FeatureLayout
    <3>4. \A t \in Seasons : SeasonSupplied(FeatureSteps, f, t)
      BY <3>1, <3>2, <3>3, DatasetsDiffer DEF SeasonSupplied
    <3>5. o.d \notin {Training, Evaluation, Freeze, CatBoost, Advanced, Assessment}
      BY <3>1, DatasetsDiffer
    <3>6. QED
      BY <3>4, <3>5 DEF Supplied, ResultSupplied
  <2>5. CASE f = 4 * s
    <3>1. o.op = "load" /\ o.d = Canonical(s)
      BY <2>5, FeatureOperations
    <3>2. 4 * s - 1 \in 1..(f - 1) /\ f > 1
      BY <2>2, <2>5
    <3>3. Kept(FeatureSteps, f, Publish(Canonical(s)), {})
      BY <1>1, <3>2, FeatureLayout
    <3>4. \A t \in Seasons : SeasonSupplied(FeatureSteps, f, t)
      BY <1>2, <3>1, <3>2, <3>3, DatasetsDiffer DEF SeasonSupplied
    <3>5. o.d \notin {Training, Evaluation, Freeze, CatBoost, Advanced, Assessment}
      BY <3>1, DatasetsDiffer
    <3>6. QED
      BY <3>1, <3>4, <3>5 DEF Supplied, ResultSupplied
  <2>6. CASE f = 4 * s + 1
    <3>1. o.op = "publish" /\ o.d = Features(s)
      BY <2>6, FeatureOperations
    <3>2. ASSUME NEW t \in 1..s
          PROVE  /\ Kept(FeatureSteps, f, Publish(Canonical(t)), {})
                 /\ Kept(FeatureSteps, f, Load(Canonical(t)), Closing)
      <4>1. t \in Seasons /\ 4 * t - 1 \in 1..(f - 1) /\ 4 * t \in 1..(f - 1)
        BY <2>2, <2>6, SeasonsAreNaturals
      <4>2. /\ FeatureSteps[4 * t - 1] = Publish(Canonical(t))
            /\ FeatureSteps[4 * t] = Load(Canonical(t))
        BY <4>1, FeatureLayout
      <4>3. QED
        BY <1>1, <4>1, <4>2
    <3>3. f > 1
      BY <2>2, <2>6
    <3>4. \A t \in Seasons : SeasonSupplied(FeatureSteps, f, t)
      BY <1>2, <3>1, <3>2, <3>3, DatasetsDiffer DEF SeasonSupplied
    <3>5. o.d \notin {Training, Evaluation, Freeze, CatBoost, Advanced, Assessment}
      BY <3>1, DatasetsDiffer
    <3>6. QED
      BY <3>4, <3>5 DEF Supplied, ResultSupplied
  <2>7. QED
    BY <2>1, <2>3, <2>4, <2>5, <2>6
<1>6. QED
  BY <1>4, <1>5

-----------------------------------------------------------------------------
(* The training materializer.                                              *)

LEMMA TrainingOperations ==
  /\ TrainingSteps[1].op = "inputs" /\ TrainingSteps[6 * N + 3].op = "checksum"
  /\ TrainingSteps[6 * N + 4].op = "publish" /\ TrainingSteps[6 * N + 4].d = Training
  /\ \A s \in Seasons :
        /\ TrainingSteps[4 * N + 2 * s + 1].op = "load"
        /\ TrainingSteps[4 * N + 2 * s + 1].d = Features(s)
        /\ TrainingSteps[4 * N + 2 * s + 2].op = "hash"
        /\ TrainingSteps[4 * N + 2 * s + 2].d = Features(s)
<1>1. /\ TrainingSteps[1].op = "inputs" /\ TrainingSteps[6 * N + 3].op = "checksum"
      /\ TrainingSteps[6 * N + 4].op = "publish" /\ TrainingSteps[6 * N + 4].d = Training
  BY TrainingLayout, OpIs
<1>2. ASSUME NEW s \in Seasons
      PROVE  /\ TrainingSteps[4 * N + 2 * s + 1].op = "load"
             /\ TrainingSteps[4 * N + 2 * s + 1].d = Features(s)
             /\ TrainingSteps[4 * N + 2 * s + 2].op = "hash"
             /\ TrainingSteps[4 * N + 2 * s + 2].d = Features(s)
  <2>1. /\ TrainingSteps[4 * N + 2 * s + 1] = Load(Features(s))
        /\ TrainingSteps[4 * N + 2 * s + 2] = Hash(Features(s))
    BY TrainingLayout
  <2>2. QED
    BY <2>1, OpIs
<1>3. QED
  BY <1>1, <1>2

\* Before its last step the training materializer keeps what it has read, and
\* once the features are published also what it holds.
LEMMA TrainingKeeps ==
  ASSUME NEW t \in 1..(6 * N + 3), TrainingSteps[t].op = "publish"
  PROVE  /\ TrainingSteps[t].d \notin Ending
         /\ t <= 4 * N + 2
<1>1. t \in Nat /\ N \in Nat /\ t >= 1
  BY SeasonsAreNaturals
<1>2. t # 1 /\ t # 6 * N + 3
  BY TrainingOperations
<1>3. \A s \in Seasons : t \notin {4 * N + 2 * s + 1, 4 * N + 2 * s + 2}
  BY TrainingOperations
<1>4. t \in 1..(6 * N + 4) /\ t # 6 * N + 4
  BY <1>1
<1>5. t - 1 \in 1..(4 * N + 1)
  BY <1>2, <1>3, <1>4, TrainingLayout
<1>6. t <= 4 * N + 2
  BY <1>1, <1>5
<1>7. TrainingSteps[t] = FeatureSteps[t - 1]
  <2>1. (t - 1) + 1 = t
    BY <1>1
  <2>2. QED
    BY <1>5, <2>1, TrainingLayout
<1>8. FeatureSteps[t - 1].d \notin Ending
  <2>1. CASE t - 1 = 4 * N + 1
    <3>1. N \in Seasons
      BY SeasonsAreNaturals
    <3>2. FeatureSteps[t - 1].d = Features(N)
      BY <2>1, <3>1, FeatureOperations
    <3>3. QED
      BY <3>1, <3>2, DatasetsDiffer DEF Ending
  <2>2. CASE t - 1 # 4 * N + 1
    <3>1. t - 1 \in 1..(4 * N)
      BY <1>5, <2>2, SeasonsAreNaturals
    <3>2. QED
      BY <1>7, <3>1, FeaturesKeep DEF Closing, Ending
  <2>3. QED
    BY <2>1, <2>2
<1>9. QED
  BY <1>6, <1>7, <1>8

LEMMA TrainingKept ==
  ASSUME NEW t \in 1..(6 * N + 4), NEW g \in 1..(t - 1)
  PROVE  /\ Kept(TrainingSteps, t, TrainingSteps[g], Ending)
         /\ g > 4 * N + 2 => Kept(TrainingSteps, t, TrainingSteps[g], Closing)
<1>1. \A x \in (g + 1)..(t - 1) : x \in 1..(6 * N + 3) /\ x > g /\ N \in Nat /\ x \in Nat
  BY SeasonsAreNaturals
<1>2. Kept(TrainingSteps, t, TrainingSteps[g], Ending)
  BY <1>1, TrainingKeeps DEF Kept
<1>3. ASSUME g > 4 * N + 2
      PROVE  Kept(TrainingSteps, t, TrainingSteps[g], Closing)
  <2>1. \A x \in (g + 1)..(t - 1) : ~(x <= 4 * N + 2)
    BY <1>1, <1>3
  <2>2. \A x \in (g + 1)..(t - 1) : TrainingSteps[x].op # "publish"
    BY <1>1, <2>1, TrainingKeeps
  <2>3. QED
    BY <2>2 DEF Kept
<1>4. QED
  BY <1>2, <1>3

LEMMA TrainingIsSupplied ==
  ASSUME NEW t \in 1..(6 * N + 4)
  PROVE  Supplied(TrainingSteps, t)
<1> DEFINE o == TrainingSteps[t]
<1>1. N \in Nat \ {0} /\ t \in Nat /\ t >= 1
  BY SeasonsAreNaturals
<1>2. \A g \in 1..(t - 1) :
        /\ Kept(TrainingSteps, t, TrainingSteps[g], Ending)
        /\ Kept(TrainingSteps, t, TrainingSteps[g], {})
        /\ g > 4 * N + 2 => Kept(TrainingSteps, t, TrainingSteps[g], Closing)
  BY TrainingKept, KeptLess
<1>3. \A s \in Seasons : 4 * s + 1 \in 1..(4 * N + 1) /\ (4 * s + 1) + 1 = 4 * s + 2
  BY SeasonsAreNaturals
<1>4. \A s \in Seasons : TrainingSteps[4 * s + 2] = Publish(Features(s))
  <2>1. TAKE s \in Seasons
  <2>2. TrainingSteps[(4 * s + 1) + 1] = FeatureSteps[4 * s + 1]
    BY <1>3, TrainingLayout
  <2>3. QED
    BY <1>3, <2>2, FeatureLayout
<1>5. CASE t = 1 \/ t = 6 * N + 3
  BY <1>5, TrainingOperations DEF Supplied, SeasonSupplied
<1>6. CASE t - 1 \in 1..(4 * N + 1)
  <2>1. Supplied(FeatureSteps, t - 1) /\ t - 1 \in Nat \ {0} /\ 1 + (t - 1) = t
    BY <1>1, <1>6, FeaturesSupplied
  <2>2. \A x \in 1..(t - 1) : TrainingSteps[1 + x] = FeatureSteps[x]
    <3>1. TAKE x \in 1..(t - 1)
    <3>2. x \in 1..(4 * N + 1) /\ 1 + x = x + 1
      BY <1>1, <1>6
    <3>3. QED
      BY <3>2, TrainingLayout
  <2>3. Supplied(TrainingSteps, 1 + (t - 1))
    <3>1. PICK f : f = t - 1
      OBVIOUS
    <3>2. f \in Nat \ {0} /\ Supplied(FeatureSteps, f) /\ 1 \in Nat
          /\ \A x \in 1..f : TrainingSteps[1 + x] = FeatureSteps[x]
      BY <2>1, <2>2, <3>1
    <3>3. Supplied(TrainingSteps, 1 + f)
      BY ONLY <3>2, SuppliedWithin
    <3>4. QED
      BY <3>1, <3>3
  <2>4. QED
    BY <2>1, <2>3
<1>7. ASSUME NEW s \in Seasons, t \in {4 * N + 2 * s + 1, 4 * N + 2 * s + 2}
      PROVE  Supplied(TrainingSteps, t)
  <2>1. o.op \in {"load", "hash"} /\ o.d = Features(s)
    BY <1>7, TrainingOperations
  <2>2. 4 * s + 2 \in 1..(t - 1) /\ 1 \in 1..(t - 1)
    BY <1>1, <1>7, SeasonsAreNaturals
  <2>3. Kept(TrainingSteps, t, Publish(Features(s)), {})
    BY <1>2, <1>4, <2>2
  <2>4. Kept(TrainingSteps, t, Inputs, Ending)
    BY <1>2, <2>2, TrainingLayout DEF Inputs
  <2>5. \A u \in Seasons : SeasonSupplied(TrainingSteps, t, u)
    BY <2>1, <2>3, <2>4, DatasetsDiffer DEF SeasonSupplied
  <2>6. o.d # Training
    BY <2>1, DatasetsDiffer
  <2>7. QED
    BY <2>1, <2>5, <2>6 DEF Supplied
<1>8. CASE t = 6 * N + 4
  <2>1. o.op = "publish" /\ o.d = Training
    BY <1>8, TrainingOperations
  <2>2. Kept(TrainingSteps, t, Checksum, Ending)
    <3>1. 6 * N + 3 \in 1..(t - 1)
      BY <1>1, <1>8
    <3>2. QED
      BY <1>2, <3>1, TrainingLayout DEF Checksum
  <2>3. ASSUME NEW s \in Seasons
        PROVE  /\ Kept(TrainingSteps, t, Publish(Features(s)), {})
               /\ Kept(TrainingSteps, t, Load(Features(s)), Closing)
               /\ Kept(TrainingSteps, t, Hash(Features(s)), Ending)
    <3>1. /\ 4 * s + 2 \in 1..(t - 1)
          /\ 4 * N + 2 * s + 1 \in 1..(t - 1) /\ 4 * N + 2 * s + 1 > 4 * N + 2
          /\ 4 * N + 2 * s + 2 \in 1..(t - 1)
      BY <1>1, <1>8, SeasonsAreNaturals
    <3>2. /\ TrainingSteps[4 * N + 2 * s + 1] = Load(Features(s))
          /\ TrainingSteps[4 * N + 2 * s + 2] = Hash(Features(s))
      BY TrainingLayout
    <3>3. QED
      BY <1>2, <1>4, <3>1, <3>2
  <2>4. TrainingSupplied(TrainingSteps, t)
    BY <2>2, <2>3 DEF TrainingSupplied
  <2>5. \A s \in Seasons : SeasonSupplied(TrainingSteps, t, s)
    BY <2>1, DatasetsDiffer DEF SeasonSupplied
  <2>6. o.d \notin {Evaluation, Freeze, CatBoost, Advanced, Assessment}
    BY <2>1, OthersDiffer
  <2>7. QED
    BY <2>1, <2>4, <2>5, <2>6 DEF Supplied, ResultSupplied
<1>9. QED
  <2>1. \/ t = 1 \/ t - 1 \in 1..(4 * N + 1)
        \/ \E s \in Seasons : t \in {4 * N + 2 * s + 1, 4 * N + 2 * s + 2}
        \/ t = 6 * N + 3 \/ t = 6 * N + 4
    BY TrainingLayout
  <2>2. QED
    BY <1>5, <1>6, <1>7, <1>8, <2>1

-----------------------------------------------------------------------------
(* What follows the training.                                              *)

\* What the stages after the training read or publish.
Results == {Training, Evaluation, Freeze, CatBoost, Advanced, Assessment}

LEMMA EarlierKept ==
  ASSUME NEW q, NEW p \in Nat, NEW g \in 1..(p - 1), NEW X,
         \A x \in 1..(p - 1) : ~(q[x].op = "publish" /\ q[x].d \in X)
  PROVE  Kept(q, p, q[g], X)
<1>1. \A x \in (g + 1)..(p - 1) : x \in 1..(p - 1)
  OBVIOUS
<1>2. QED
  BY <1>1 DEF Kept

TailSupplied(tail, p) ==
    /\ tail[p].d \in Results
    /\ tail[p].op = "publish" => tail[p].d # Training /\ ResultSupplied(tail, p, tail[p].d)

LEMMA AfterTraining ==
  ASSUME NEW tail \in Seq(Operations), NEW w, w = TrainingSteps \o tail,
         \A p \in 1..Len(tail) : TailSupplied(tail, p)
  PROVE  \A i \in 1..Len(w) : Supplied(w, i)
<1>1. /\ TrainingSteps \in Seq(Operations) /\ Len(TrainingSteps) = TrainingLength
      /\ TrainingLength \in Nat \ {0} /\ TrainingSteps[TrainingLength] = Publish(Training)
  BY TrainingLayout, SeasonsAreNaturals DEF TrainingLength
<1>2. /\ Len(w) = TrainingLength + Len(tail) /\ Len(tail) \in Nat
      /\ \A i \in 1..TrainingLength : w[i] = TrainingSteps[i]
      /\ \A p \in 1..Len(tail) : w[TrainingLength + p] = tail[p]
  <2>1. TrainingSteps \in Seq(Operations) /\ tail \in Seq(Operations) /\ w = TrainingSteps \o tail
    BY <1>1
  <2>2. /\ Len(w) = Len(TrainingSteps) + Len(tail) /\ Len(tail) \in Nat
        /\ \A i \in 1..Len(TrainingSteps) : w[i] = TrainingSteps[i]
        /\ \A p \in 1..Len(tail) : w[Len(TrainingSteps) + p] = tail[p]
    BY ONLY <2>1, Joined
  <2>3. QED
    BY <1>1, <2>2
<1>3. ASSUME NEW i \in 1..TrainingLength
      PROVE  Supplied(w, i)
  <2>1. Supplied(TrainingSteps, i)
    BY TrainingIsSupplied DEF TrainingLength
  <2>2. i \in Nat \ {0} /\ 0 \in Nat /\ (\A x \in 1..i : w[0 + x] = TrainingSteps[x]) /\ 0 + i = i
    BY <1>1, <1>2
  <2>3. Supplied(w, 0 + i)
    BY ONLY <2>1, <2>2, SuppliedWithin
  <2>4. QED
    BY <2>2, <2>3
<1>4. ASSUME NEW p \in 1..Len(tail)
      PROVE  Supplied(w, TrainingLength + p)
  <2> DEFINE i == TrainingLength + p
             o == w[i]
  <2>1. o = tail[p] /\ TailSupplied(tail, p)
    BY <1>2
  <2>2. Kept(w, i, Publish(Training), {})
    <3>1. TrainingLength \in 1..(i - 1) /\ w[TrainingLength] = Publish(Training)
      BY <1>1, <1>2
    <3>2. QED
      BY <3>1 DEF Kept
  <2>3. \A a, X : Kept(tail, p, a, X) => Kept(w, i, a, X)
    <3>1. /\ TrainingLength \in Nat /\ p \in Nat
          /\ \A x \in 1..(p - 1) : w[TrainingLength + x] = tail[x]
      BY <1>1, <1>2
    <3>2. QED
      BY ONLY <3>1, KeptWithin DEF i
  <2>4. o.op = "publish" => ResultSupplied(w, i, o.d)
    <3>1. o.op = "publish" => ResultSupplied(tail, p, o.d)
      BY <2>1 DEF TailSupplied
    <3>2. QED
      BY <2>3, <3>1 DEF ResultSupplied
  <2>5. o.d \in Results /\ (o.op = "publish" => o.d # Training)
    BY <2>1 DEF TailSupplied
  <2> HIDE DEF i
  <2>6. \A s \in Seasons : o.d # Canonical(s) /\ o.d # Features(s)
    BY <2>5, DatasetsDiffer DEF Results
  <2>7. \A s \in Seasons : SeasonSupplied(w, i, s)
    BY <2>6 DEF SeasonSupplied
  <2>8. Supplied(w, i)
    BY <2>2, <2>4, <2>5, <2>7 DEF Supplied
  <2>9. QED
    BY <2>8 DEF i
<1>5. QED
  <2>1. TAKE i \in 1..Len(w)
  <2>2. CASE i <= TrainingLength
    BY <1>1, <1>3, <2>2
  <2>3. CASE i > TrainingLength
    <3>3. i \in 1..(TrainingLength + Len(tail))
      BY <1>2
    <3>1. i - TrainingLength \in 1..Len(tail) /\ TrainingLength + (i - TrainingLength) = i
      BY ONLY <1>1, <1>2, <2>3, <3>3
    <3>2. PICK p \in 1..Len(tail) : TrainingLength + p = i
      BY <3>1
    <3>4. QED
      BY <1>4, <3>2
  <2>4. QED
    BY <1>1, <2>2, <2>3

LEMMA EvaluationSupplied ==
  \A p \in 1..Len(EvaluationTail) : TailSupplied(EvaluationTail, p)
<1>1. /\ Len(EvaluationTail) = 3
      /\ EvaluationTail[1] = Load(Training) /\ EvaluationTail[2] = Hash(Training)
      /\ EvaluationTail[3] = Op("publish", Evaluation, "embedded")
  BY DEF EvaluationTail
<1>2. /\ EvaluationTail[1].op = "load" /\ EvaluationTail[1].d = Training
      /\ EvaluationTail[2].op = "hash" /\ EvaluationTail[2].d = Training
      /\ EvaluationTail[3].op = "publish" /\ EvaluationTail[3].d = Evaluation
  BY <1>1, OpIs
<1>3. \A X : /\ Kept(EvaluationTail, 3, Load(Training), X)
             /\ Kept(EvaluationTail, 3, Hash(Training), X)
  <2>1. TAKE X
  <2>2. \A x \in 1..(3 - 1) : ~(EvaluationTail[x].op = "publish" /\ EvaluationTail[x].d \in X)
    <3>1. \A x \in 1..(3 - 1) : x = 1 \/ x = 2
      OBVIOUS
    <3>2. QED
      BY <1>2, <3>1
  <2>3. 1 \in 1..(3 - 1) /\ 2 \in 1..(3 - 1) /\ 3 \in Nat
    OBVIOUS
  <2>4. Kept(EvaluationTail, 3, EvaluationTail[1], X) /\ Kept(EvaluationTail, 3, EvaluationTail[2], X)
    BY <2>2, <2>3, EarlierKept
  <2>5. QED
    BY <1>1, <2>4
<1>4. TailSupplied(EvaluationTail, 3)
  BY <1>2, <1>3, OthersDiffer DEF TailSupplied, ResultSupplied, Results
<1>5. TailSupplied(EvaluationTail, 1) /\ TailSupplied(EvaluationTail, 2)
  BY <1>2 DEF TailSupplied, Results
<1>6. \A p \in 1..Len(EvaluationTail) : p = 1 \/ p = 2 \/ p = 3
  BY <1>1
<1>7. QED
  BY <1>4, <1>5, <1>6

LEMMA CatBoostSupplied ==
  \A p \in 1..Len(CatBoostTail) : TailSupplied(CatBoostTail, p)
<1>1. /\ Len(CatBoostTail) = 4
      /\ CatBoostTail[1] = Load(Training) /\ CatBoostTail[2] = Hash(Training)
      /\ CatBoostTail[3] = Publish(Freeze)
      /\ CatBoostTail[4] = Op("publish", CatBoost, "embedded")
  BY DEF CatBoostTail
<1>2. /\ CatBoostTail[1].op = "load" /\ CatBoostTail[1].d = Training
      /\ CatBoostTail[2].op = "hash" /\ CatBoostTail[2].d = Training
      /\ CatBoostTail[3].op = "publish" /\ CatBoostTail[3].d = Freeze
      /\ CatBoostTail[4].op = "publish" /\ CatBoostTail[4].d = CatBoost
  BY <1>1, OpIs
<1>3. Freeze \notin Closing
  <2>1. N \in Seasons
    BY SeasonsAreNaturals
  <2>2. QED
    BY <2>1, DatasetsDiffer, OthersDiffer DEF Closing
<1>4. Freeze \notin Ending
  BY OthersDiffer DEF Ending
<1>5. ASSUME NEW p \in {3, 4}, NEW X \in {Closing, Ending}
      PROVE  Kept(CatBoostTail, p, Load(Training), X) /\ Kept(CatBoostTail, p, Hash(Training), X)
  <2>1. \A x \in 1..(p - 1) : ~(CatBoostTail[x].op = "publish" /\ CatBoostTail[x].d \in X)
    <3>1. \A x \in 1..(p - 1) : x = 1 \/ x = 2 \/ x = 3
      OBVIOUS
    <3>2. QED
      BY <1>2, <1>3, <1>4, <3>1
  <2>2. 1 \in 1..(p - 1) /\ 2 \in 1..(p - 1) /\ p \in Nat
    OBVIOUS
  <2>3. Kept(CatBoostTail, p, CatBoostTail[1], X) /\ Kept(CatBoostTail, p, CatBoostTail[2], X)
    BY <2>1, <2>2, EarlierKept
  <2>4. QED
    BY <1>1, <2>3
<1>6. TailSupplied(CatBoostTail, 3) /\ TailSupplied(CatBoostTail, 4)
  BY <1>2, <1>5, OthersDiffer DEF TailSupplied, ResultSupplied, Results
<1>7. TailSupplied(CatBoostTail, 1) /\ TailSupplied(CatBoostTail, 2)
  BY <1>2 DEF TailSupplied, Results
<1>8. \A p \in 1..Len(CatBoostTail) : p = 1 \/ p = 2 \/ p = 3 \/ p = 4
  BY <1>1
<1>9. QED
  BY <1>6, <1>7, <1>8

LEMMA AdvancedSupplied ==
  \A p \in 1..Len(AdvancedTail) : TailSupplied(AdvancedTail, p)
<1>1. /\ Len(AdvancedTail) = 7
      /\ AdvancedTail[1] = Load(Training) /\ AdvancedTail[2] = Hash(Training)
      /\ AdvancedTail[3] = Load(CatBoost)
      /\ AdvancedTail[4] = Op("hash", CatBoost, "tuned_on_training")
      /\ AdvancedTail[5] = Load(Freeze)
      /\ AdvancedTail[6] = Op("hash", Freeze, "freeze_of_tuning")
      /\ AdvancedTail[7] = Op("publish", Advanced, "embedded")
  BY DEF AdvancedTail
<1>2. /\ \A p \in 1..6 : AdvancedTail[p].op \in {"load", "hash"} /\ AdvancedTail[p].d \in Results
      /\ AdvancedTail[7].op = "publish" /\ AdvancedTail[7].d = Advanced
  <2>1. \A p \in 1..6 : p = 1 \/ p = 2 \/ p = 3 \/ p = 4 \/ p = 5 \/ p = 6
    OBVIOUS
  <2>2. QED
    BY <1>1, <2>1, OpIs DEF Results
<1>3. \A X : \A g \in 1..6 : Kept(AdvancedTail, 7, AdvancedTail[g], X)
  <2>1. TAKE X
  <2>2. TAKE g \in 1..6
  <2>3. g \in 1..(7 - 1) /\ 7 \in Nat
        /\ \A x \in 1..(7 - 1) : ~(AdvancedTail[x].op = "publish" /\ AdvancedTail[x].d \in X)
    BY <1>2
  <2>4. QED
    BY ONLY <2>3, EarlierKept
<1>4. /\ 1 \in 1..6 /\ 2 \in 1..6 /\ 3 \in 1..6 /\ 4 \in 1..6
  OBVIOUS
<1>5. \A X : /\ Kept(AdvancedTail, 7, Load(Training), X) /\ Kept(AdvancedTail, 7, Hash(Training), X)
             /\ Kept(AdvancedTail, 7, Load(CatBoost), X)
             /\ Kept(AdvancedTail, 7, Op("hash", CatBoost, "tuned_on_training"), X)
  BY <1>1, <1>3, <1>4
<1>6. TailSupplied(AdvancedTail, 7)
  BY <1>2, <1>5, OthersDiffer DEF TailSupplied, ResultSupplied, Results
<1>7. \A p \in 1..6 : TailSupplied(AdvancedTail, p)
  BY <1>2 DEF TailSupplied
<1>8. \A p \in 1..Len(AdvancedTail) : p \in 1..6 \/ p = 7
  BY <1>1
<1>9. QED
  BY <1>6, <1>7, <1>8

LEMMA AssessmentSupplied ==
  \A p \in 1..Len(AssessmentTail) : TailSupplied(AssessmentTail, p)
<1>1. /\ Len(AssessmentTail) = 11
      /\ AssessmentTail[1] = Load(Training) /\ AssessmentTail[2] = Hash(Training)
      /\ AssessmentTail[3] = Load(Evaluation) /\ AssessmentTail[4] = Load(CatBoost)
      /\ AssessmentTail[5] = Op("load", Advanced, "one_training")
      /\ AssessmentTail[7] = Op("hash", Freeze, "freeze_of_evaluations")
      /\ AssessmentTail[8] = Op("hash", CatBoost, "tuning_of_advanced")
      /\ AssessmentTail[9] = Hash(Evaluation) /\ AssessmentTail[10] = Hash(Advanced)
      /\ AssessmentTail[11] = Op("publish", Assessment, "embedded")
  BY DEF AssessmentTail
<1>2. \A p \in 1..10 : AssessmentTail[p].op \in {"load", "hash"} /\ AssessmentTail[p].d \in Results
  <2>1. TAKE p \in 1..10
  <2>2. p \in 8..10 \/ p = 1 \/ p = 2 \/ p = 3 \/ p = 4 \/ p = 5 \/ p = 6 \/ p = 7
    OBVIOUS
  <2>3. QED
    BY <2>2, AssessmentOperations DEF Results
<1>3. \A X : \A g \in 1..10 : Kept(AssessmentTail, 11, AssessmentTail[g], X)
  <2>1. TAKE X
  <2>2. TAKE g \in 1..10
  <2>3. g \in 1..(11 - 1) /\ 11 \in Nat
        /\ \A x \in 1..(11 - 1) : ~(AssessmentTail[x].op = "publish" /\ AssessmentTail[x].d \in X)
    BY <1>2
  <2>4. QED
    BY ONLY <2>3, EarlierKept
<1>4. /\ 1 \in 1..10 /\ 2 \in 1..10 /\ 3 \in 1..10 /\ 4 \in 1..10 /\ 5 \in 1..10
      /\ 7 \in 1..10 /\ 8 \in 1..10 /\ 9 \in 1..10 /\ 10 \in 1..10
  OBVIOUS
<1>5. \A X : /\ Kept(AssessmentTail, 11, Load(Training), X)
             /\ Kept(AssessmentTail, 11, Hash(Training), X)
             /\ Kept(AssessmentTail, 11, Load(Evaluation), X)
             /\ Kept(AssessmentTail, 11, Load(CatBoost), X)
             /\ Kept(AssessmentTail, 11, Op("load", Advanced, "one_training"), X)
             /\ Kept(AssessmentTail, 11, Op("hash", Freeze, "freeze_of_evaluations"), X)
             /\ Kept(AssessmentTail, 11, Op("hash", CatBoost, "tuning_of_advanced"), X)
             /\ Kept(AssessmentTail, 11, Hash(Evaluation), X)
             /\ Kept(AssessmentTail, 11, Hash(Advanced), X)
  BY <1>1, <1>3, <1>4
<1>6. AssessmentTail[11].op = "publish" /\ AssessmentTail[11].d = Assessment
  BY <1>1, OpIs
<1>7. TailSupplied(AssessmentTail, 11)
  BY <1>5, <1>6, OthersDiffer DEF TailSupplied, ResultSupplied, Results
<1>8. \A p \in 1..10 : TailSupplied(AssessmentTail, p)
  BY <1>2 DEF TailSupplied
<1>9. \A p \in 1..Len(AssessmentTail) : p \in 1..10 \/ p = 11
  BY <1>1
<1>10. QED
  BY <1>7, <1>8, <1>9

\* The artifact reads results and publishes none.
LEMMA ArtifactReads ==
  /\ Len(ArtifactTail) = 13
  /\ \A p \in 1..13 : /\ ArtifactTail[p] \in Operations
                      /\ ArtifactTail[p].op # "publish" /\ ArtifactTail[p].d \in Results
<1> DEFINE Reading == {o \in Operations : o.op # "publish" /\ o.d \in Results}
<1>1. ASSUME NEW d \in Results
      PROVE  /\ Load(d) \in Reading /\ Hash(d) \in Reading
             /\ Op("hash", d, "provenance") \in Reading /\ Op("store", d, "none") \in Reading
  <2>1. \A op \in OpNames, check \in Checks : Op(op, d, check) \in Operations
    BY OtherOperationsExist DEF Results
  <2>2. {"load", "hash", "store"} \subseteq OpNames /\ {"none", "provenance"} \subseteq Checks
    BY DEF OpNames, Checks
  <2>3. /\ Op("load", d, "none") \in Reading /\ Op("hash", d, "none") \in Reading
        /\ Op("hash", d, "provenance") \in Reading /\ Op("store", d, "none") \in Reading
    BY <2>1, <2>2, OpIs
  <2>4. QED
    BY <2>3 DEF Load, Hash
<1>2. /\ Load(Training) \in Reading /\ Load(Evaluation) \in Reading /\ Load(CatBoost) \in Reading
      /\ Load(Advanced) \in Reading /\ Load(Assessment) \in Reading /\ Load(Freeze) \in Reading
      /\ Hash(Evaluation) \in Reading /\ Hash(CatBoost) \in Reading /\ Hash(Advanced) \in Reading
      /\ Hash(Assessment) \in Reading /\ Op("hash", Freeze, "provenance") \in Reading
      /\ Op("store", Assessment, "none") \in Reading
  BY <1>1 DEF Results
<1> HIDE DEF Reading
<1> DEFINE u == <<Load(Training)>>
           v == ArtifactInputs
           x == <<Load(CatBoost), Op("store", Assessment, "none")>>
<1>3. u \in Seq(Reading)
  BY <1>2, OneInSeq
<1>4. v \in Seq(Reading)
  BY <1>2, TenInSeq DEF ArtifactInputs
<1>5. x \in Seq(Reading)
  BY <1>2, TwoInSeq
<1>6. ArtifactTail = (u \o v) \o x
  BY DEF ArtifactTail
<1> HIDE DEF u, v, x
<1>7. u \o v \in Seq(Reading)
  BY <1>3, <1>4, Joined
<1>8. ArtifactTail \in Seq(Reading)
  BY <1>5, <1>6, <1>7, Joined
<1>9. Len(ArtifactTail) = 13
  BY Tails
<1>10. \A p \in 1..13 : ArtifactTail[p] \in Reading
  <2>1. \A p \in 1..Len(ArtifactTail) : ArtifactTail[p] \in Reading
    BY <1>8
  <2>2. QED
    BY <1>9, <2>1
<1>11. QED
  BY <1>9, <1>10 DEF Reading

LEMMA ArtifactSupplied ==
  \A p \in 1..Len(ArtifactTail) : TailSupplied(ArtifactTail, p)
BY ArtifactReads DEF TailSupplied

-----------------------------------------------------------------------------
(* The materializers, whoever runs them, and every command.                *)

\* What the materializers read and publish.
Data == {Canonical(s) : s \in Seasons} \cup {Features(s) : s \in Seasons} \cup {Training}

\* Operations that need no evaluation of another command.
Plain(o) ==
    /\ o.op \notin {"fetch", "store"}
    /\ o.op = "entry" => \E s \in Seasons : o.d = Canonical(s)
    /\ o.op \in {"load", "hash"} => o.check = "none" /\ o.d \in Data
    /\ o.op = "publish" => \/ o.check = "none"
                           \/ o.check = "embedded" /\ o.d \in {Evaluation, CatBoost}

LEMMA DataOperations ==
  /\ \A s \in Seasons : \A d \in {Canonical(s), Features(s), Training} :
        /\ d \in Data
        /\ \A o \in {Load(d), Hash(d), Publish(d)} : Plain(o) /\ o.d = d
  /\ \A s \in Seasons : LET o == Op("entry", Canonical(s), "none")
                        IN  Plain(o) /\ o.d \in Data
  /\ \A o \in {Listing, Inputs, Checksum} : Plain(o) /\ o.d \in Data
<1>1. \A s \in Seasons : Canonical(s) \in Data /\ Features(s) \in Data
  BY DEF Data
<1>2. Training \in Data
  BY DEF Data
<1>3. \A d \in Data : \A o \in {Load(d), Hash(d), Publish(d)} : Plain(o) /\ o.d = d
  BY DEF Plain, Load, Hash, Publish, Op
<1>4. \A s \in Seasons : Plain(Op("entry", Canonical(s), "none"))
                         /\ Op("entry", Canonical(s), "none").d = Canonical(s)
  BY DEF Plain, Op
<1>5. \A o \in {Listing, Inputs, Checksum} : Plain(o) /\ o.d = Training
  BY DEF Plain, Op, Listing, Inputs, Checksum
<1>6. QED
  BY <1>1, <1>2, <1>3, <1>4, <1>5

LEMMA FeaturesPlain ==
  ASSUME NEW f \in 1..(4 * N + 1)
  PROVE  Plain(FeatureSteps[f]) /\ FeatureSteps[f].d \in Data
<1>1. CASE f = 1
  BY <1>1, FeatureLayout, DataOperations DEF Listing
<1>2. CASE f # 1
  <2>1. PICK s \in Seasons : f \in {4 * s - 2, 4 * s - 1, 4 * s, 4 * s + 1}
    BY <1>2, FeatureLayout
  <2>2. /\ FeatureSteps[4 * s - 2] = Op("entry", Canonical(s), "none")
        /\ FeatureSteps[4 * s - 1] = Publish(Canonical(s))
        /\ FeatureSteps[4 * s] = Load(Canonical(s))
        /\ FeatureSteps[4 * s + 1] = Publish(Features(s))
    BY FeatureLayout
  <2>3. FeatureSteps[f] \in {Op("entry", Canonical(s), "none"), Publish(Canonical(s)),
                             Load(Canonical(s)), Publish(Features(s))}
    BY <2>1, <2>2
  <2>4. QED
    BY <2>3, DataOperations
<1>3. QED
  BY <1>1, <1>2

LEMMA TrainingPlain ==
  ASSUME NEW t \in 1..TrainingLength
  PROVE  Plain(TrainingSteps[t]) /\ TrainingSteps[t].d \in Data
<1>1. \/ t = 1 \/ t - 1 \in 1..(4 * N + 1)
      \/ \E s \in Seasons : t \in {4 * N + 2 * s + 1, 4 * N + 2 * s + 2}
      \/ t = 6 * N + 3 \/ t = 6 * N + 4
  BY TrainingLayout DEF TrainingLength
<1>7. 1 \in Seasons
  BY SeasonsAreNaturals
<1>2. CASE t = 1
  BY <1>2, TrainingLayout, DataOperations DEF Inputs
<1>3. CASE t - 1 \in 1..(4 * N + 1)
  <2>1. t \in Nat /\ (t - 1) + 1 = t
    BY SeasonsAreNaturals DEF TrainingLength
  <2>2. TrainingSteps[t] = FeatureSteps[t - 1]
    BY <1>3, <2>1, TrainingLayout
  <2>3. QED
    BY <1>3, <2>2, FeaturesPlain
<1>4. ASSUME NEW s \in Seasons, t \in {4 * N + 2 * s + 1, 4 * N + 2 * s + 2}
      PROVE  Plain(TrainingSteps[t]) /\ TrainingSteps[t].d \in Data
  <2>1. /\ TrainingSteps[4 * N + 2 * s + 1] = Load(Features(s))
        /\ TrainingSteps[4 * N + 2 * s + 2] = Hash(Features(s))
    BY TrainingLayout
  <2>2. TrainingSteps[t] \in {Load(Features(s)), Hash(Features(s))}
    BY <1>4, <2>1
  <2>3. QED
    BY <2>2, DataOperations
<1>5. CASE t = 6 * N + 3
  BY <1>5, TrainingLayout, DataOperations DEF Checksum
<1>6. CASE t = 6 * N + 4
  BY <1>6, <1>7, TrainingLayout, DataOperations
<1>8. QED
  BY <1>1, <1>2, <1>3, <1>4, <1>5, <1>6

LEMMA CanonicalLayout ==
  /\ \A s \in Seasons : /\ CanonicalSteps[2 * s - 1] = Op("entry", Canonical(s), "none")
                        /\ CanonicalSteps[2 * s] = Publish(Canonical(s))
  /\ \A i \in 1..(2 * N) : \E s \in Seasons : i = 2 * s - 1 \/ i = 2 * s
<1>1. CanonicalSteps =
        [i \in 1..(2 * N) |-> CanonicalBlock(1 + ((i - 1) \div 2))[1 + ((i - 1) % 2)]]
  BY DEF CanonicalSteps, EachSeason, CanonicalBlock
<1>2. ASSUME NEW s \in Seasons
      PROVE  /\ CanonicalSteps[2 * s - 1] = CanonicalBlock(s)[1]
             /\ CanonicalSteps[2 * s] = CanonicalBlock(s)[2]
  BY <1>1, InTwos
<1>3. QED
  BY <1>2, OutOfTwos DEF CanonicalBlock

LEMMA CanonicalSupplied ==
  ASSUME NEW i \in 1..Len(CanonicalSteps)
  PROVE  /\ Supplied(CanonicalSteps, i)
         /\ Plain(CanonicalSteps[i]) /\ CanonicalSteps[i].d \in Data
<1>1. i \in 1..(2 * N)
  BY CanonicalElsewhere
<1>2. PICK s \in Seasons : i = 2 * s - 1 \/ i = 2 * s
  BY <1>1, CanonicalLayout
<1>3. /\ CanonicalSteps[2 * s - 1] = Op("entry", Canonical(s), "none")
      /\ CanonicalSteps[2 * s] = Publish(Canonical(s))
  BY CanonicalLayout
<1>4. CASE i = 2 * s - 1
  <2>1. CanonicalSteps[i].op = "entry"
    BY <1>3, <1>4, OpIs
  <2>2. Supplied(CanonicalSteps, i)
    BY <2>1 DEF Supplied, SeasonSupplied
  <2>3. QED
    BY <1>3, <1>4, <2>2, DataOperations
<1>5. CASE i = 2 * s
  <2>1. CanonicalSteps[i].op = "publish" /\ CanonicalSteps[i].d = Canonical(s)
    BY <1>3, <1>5, OpIs
  <2>2. i > 1 /\ i - 1 = 2 * s - 1
    BY <1>5, SeasonsAreNaturals
  <2>3. \A t \in Seasons : SeasonSupplied(CanonicalSteps, i, t)
    BY <1>3, <2>1, <2>2, DatasetsDiffer DEF SeasonSupplied
  <2>4. Canonical(s) \notin {Training, Evaluation, Freeze, CatBoost, Advanced, Assessment}
    BY DatasetsDiffer
  <2>5. Supplied(CanonicalSteps, i)
    BY <2>1, <2>3, <2>4 DEF Supplied, ResultSupplied
  <2>6. QED
    BY <1>3, <1>5, <2>5, DataOperations
<1>6. QED
  BY <1>2, <1>4, <1>5

\* A download looks at no dataset.
LEMMA DownloadOperations ==
  ASSUME NEW i \in 1..Len(DownloadSteps)
  PROVE  DownloadSteps[i].op \in {"inputs", "fetch"}
<1> DEFINE Fetching == {o \in Operations : o.op \in {"inputs", "fetch"}}
           u == <<Op("inputs", Training, "none")>>
           v == [k \in 1..(1 * N) |-> DownloadBlock(1 + ((k - 1) \div 1))[1 + ((k - 1) % 1)]]
<1>1. DownloadSteps = u \o v
  BY DEF DownloadSteps, EachSeason, DownloadBlock
<1>2. u \in Seq(Fetching)
  <2>1. Op("inputs", Training, "none") \in Operations /\ Op("inputs", Training, "none").op = "inputs"
    BY OtherOperationsExist, OpIs DEF OpNames, Checks
  <2>2. Op("inputs", Training, "none") \in Fetching
    BY <2>1
  <2> HIDE DEF Fetching
  <2>3. QED
    BY <2>2, OneInSeq
<1>3. v \in Seq(Fetching)
  <2>1. ASSUME NEW k \in 1..(1 * N)
        PROVE  v[k] \in Fetching
    <3>1. k \in Seasons /\ 1 + ((k - 1) \div 1) = k /\ 1 + ((k - 1) % 1) = 1
      BY SeasonsAreNaturals
    <3>2. v[k] = DownloadBlock(k)[1]
      BY <3>1
    <3>3. v[k] = Op("fetch", Canonical(k), "none")
      BY <3>2 DEF DownloadBlock
    <3>4. Op("fetch", Canonical(k), "none") \in Operations
      BY <3>1, OperationsExist DEF Datasets, OpNames, Checks
    <3>5. QED
      BY <3>3, <3>4, OpIs
  <2>2. 1 * N \in Nat
    BY SeasonsAreNaturals
  <2>3. v = [k \in 1..(1 * N) |-> v[k]]
    OBVIOUS
  <2> HIDE DEF v, Fetching
  <2>4. QED
    BY <2>1, <2>2, <2>3
<1> HIDE DEF u, v, Fetching
<1>4. DownloadSteps \in Seq(Fetching)
  BY <1>1, <1>2, <1>3, Joined
<1>5. DownloadSteps[i] \in Fetching
  BY <1>4
<1>6. QED
  BY <1>5 DEF Fetching

LEMMA SuppliedJoined ==
  ASSUME NEW u \in Seq(Operations), NEW v \in Seq(Operations), NEW w, w = u \o v,
         \A i \in 1..Len(u) : Supplied(u, i), \A i \in 1..Len(v) : Supplied(v, i)
  PROVE  \A i \in 1..Len(w) : Supplied(w, i)
<1>1. /\ Len(w) = Len(u) + Len(v) /\ Len(u) \in Nat /\ Len(v) \in Nat
      /\ \A i \in 1..Len(u) : w[i] = u[i]
      /\ \A i \in 1..Len(v) : w[Len(u) + i] = v[i]
  BY Joined
<1>2. ASSUME NEW i \in 1..Len(u)
      PROVE  Supplied(w, i)
  <2>1. Supplied(u, i) /\ i \in Nat \ {0} /\ 0 \in Nat /\ 0 + i = i
        /\ \A x \in 1..i : w[0 + x] = u[x]
    BY <1>1
  <2>2. Supplied(w, 0 + i)
    BY ONLY <2>1, SuppliedWithin
  <2>3. QED
    BY <2>1, <2>2
<1>3. ASSUME NEW i \in 1..Len(v)
      PROVE  Supplied(w, Len(u) + i)
  <2>1. Supplied(v, i) /\ i \in Nat \ {0} /\ Len(u) \in Nat
        /\ \A x \in 1..i : w[Len(u) + x] = v[x]
    BY <1>1
  <2>2. QED
    BY ONLY <2>1, SuppliedWithin
<1>4. QED
  <2>1. TAKE i \in 1..Len(w)
  <2>2. i \in Nat /\ (i \in 1..Len(u) \/ i - Len(u) \in 1..Len(v))
    BY <1>1
  <2>3. CASE i \in 1..Len(u)
    BY <1>2, <2>3
  <2>4. CASE i - Len(u) \in 1..Len(v)
    <3>1. Len(u) + (i - Len(u)) = i
      BY <1>1, <2>2
    <3>2. QED
      BY <1>3, <2>4, <3>1
  <2>5. QED
    BY <2>2, <2>3, <2>4

\* The second half of the artifact command retrains and reads everything back.
LEMMA ArtifactHalves ==
  /\ Steps("artifact") = (TrainingSteps \o AssessmentTail) \o (TrainingSteps \o ArtifactTail)
  /\ TrainingSteps \o AssessmentTail \in Seq(Operations)
  /\ TrainingSteps \o ArtifactTail \in Seq(Operations)
  /\ Len(TrainingSteps \o AssessmentTail) = TrainingLength + 11
<1>1. /\ TrainingSteps \in Seq(Operations) /\ Len(TrainingSteps) = TrainingLength
      /\ AssessmentTail \in Seq(Operations) /\ Len(AssessmentTail) = 11
      /\ ArtifactTail \in Seq(Operations)
  BY TrainingLayout, Tails, ElsewhereSubset DEF TrainingLength
<1>2. /\ TrainingSteps \o AssessmentTail \in Seq(Operations)
      /\ TrainingSteps \o ArtifactTail \in Seq(Operations)
      /\ Len(TrainingSteps \o AssessmentTail) = TrainingLength + 11
  <2>1. PICK u : u = TrainingSteps \o AssessmentTail
    OBVIOUS
  <2>2. PICK v : v = TrainingSteps \o ArtifactTail
    OBVIOUS
  <2>3. u \in Seq(Operations) /\ Len(u) = Len(TrainingSteps) + Len(AssessmentTail)
    <3>1. /\ TrainingSteps \in Seq(Operations) /\ AssessmentTail \in Seq(Operations)
          /\ u = TrainingSteps \o AssessmentTail
      BY <1>1, <2>1
    <3>2. QED
      BY ONLY <3>1, Joined
  <2>4. v \in Seq(Operations)
    <3>1. /\ TrainingSteps \in Seq(Operations) /\ ArtifactTail \in Seq(Operations)
          /\ v = TrainingSteps \o ArtifactTail
      BY <1>1, <2>2
    <3>2. QED
      BY ONLY <3>1, Joined
  <2>5. Len(u) = TrainingLength + 11
    BY <1>1, <2>3
  <2>6. QED
    BY ONLY <2>1, <2>2, <2>3, <2>4, <2>5
<1>3. PICK u : u = TrainingSteps \o AssessmentTail
  OBVIOUS
<1>4. (u \o TrainingSteps) \o ArtifactTail = u \o (TrainingSteps \o ArtifactTail)
  <2>1. u \in Seq(Operations) /\ TrainingSteps \in Seq(Operations) /\ ArtifactTail \in Seq(Operations)
    BY <1>1, <1>2, <1>3
  <2>2. QED
    BY ONLY <2>1, ConcatAssociative
<1>5. QED
  BY <1>2, <1>3, <1>4, StepsAre

\* Every operation of every command has before it what it needs.
LEMMA CommandSupplied ==
  ASSUME NEW c \in AllCommands, NEW i \in 1..Len(Steps(c))
  PROVE  Supplied(Steps(c), i)
<1>1. /\ EvaluationTail \in Seq(Operations) /\ CatBoostTail \in Seq(Operations)
      /\ AdvancedTail \in Seq(Operations) /\ AssessmentTail \in Seq(Operations)
      /\ ArtifactTail \in Seq(Operations)
  BY Tails, ElsewhereSubset
<1>2. CASE c = "training"
  BY <1>2, TrainingIsSupplied, TrainingLayout, StepsAre
<1>3. CASE c = "features"
  BY <1>3, FeaturesSupplied, FeatureLayout, StepsAre
<1>4. CASE c = "canonical"
  BY <1>4, CanonicalSupplied, StepsAre
<1>5. CASE c = "download"
  <2>1. Steps(c)[i].op \in {"inputs", "fetch"}
    BY <1>5, DownloadOperations, StepsAre
  <2>2. QED
    BY <2>1 DEF Supplied, SeasonSupplied
<1>6. CASE c = "evaluation"
  BY <1>1, <1>6, StepsAre, EvaluationSupplied, AfterTraining
<1>7. CASE c = "catboost"
  BY <1>1, <1>7, StepsAre, CatBoostSupplied, AfterTraining
<1>8. CASE c = "advanced"
  BY <1>1, <1>8, StepsAre, AdvancedSupplied, AfterTraining
<1>9. CASE c = "assessment"
  BY <1>1, <1>9, StepsAre, AssessmentSupplied, AfterTraining
<1>10. CASE c = "artifact"
  <2>1. PICK u : u = TrainingSteps \o AssessmentTail
    OBVIOUS
  <2>2. PICK v : v = TrainingSteps \o ArtifactTail
    OBVIOUS
  <2>3. \A k \in 1..Len(u) : Supplied(u, k)
    BY <1>1, <2>1, AssessmentSupplied, AfterTraining
  <2>4. \A k \in 1..Len(v) : Supplied(v, k)
    BY <1>1, <2>2, ArtifactSupplied, AfterTraining
  <2>5. u \in Seq(Operations) /\ v \in Seq(Operations) /\ Steps(c) = u \o v
    BY <1>10, <2>1, <2>2, ArtifactHalves
  <2>6. PICK w : w = Steps(c)
    OBVIOUS
  <2>7. w = u \o v
    BY <2>5, <2>6
  <2>8. \A k \in 1..Len(w) : Supplied(w, k)
    BY ONLY <2>3, <2>4, <2>5, <2>7, SuppliedJoined
  <2>9. QED
    BY <2>6, <2>8
<1>11. QED
  BY <1>2, <1>3, <1>4, <1>5, <1>6, <1>7, <1>8, <1>9, <1>10 DEF AllCommands

-----------------------------------------------------------------------------
(* A command that reads what it publishes has published it before.         *)

\* The datasets a command publishes.
Own(c) ==
    {d \in Datasets : \E k \in 1..Len(Steps(c)) : Steps(c)[k].op = "publish" /\ Steps(c)[k].d = d}

\* An operation before place i publishes dataset d.
PublishedBefore(q, i, d) ==
    \E p : Kept(q, i, p, {}) /\ p.op = "publish" /\ p.d = d

\* What a command reads of its own after the training, it published before.
ReadsItsOwn(w) ==
    \A i, k \in 1..Len(w) :
        w[i].op \in {"load", "hash"} /\ w[k].op = "publish" /\ w[k].d = w[i].d =>
            w[i].d \in Data \/ k < i

LEMMA DataOrNot ==
  /\ Data \cap {Evaluation, Freeze, CatBoost, Advanced, Assessment} = {}
BY DatasetsDiffer, OthersDiffer DEF Data

LEMMA TailReadsItsOwn ==
  ASSUME NEW tail \in Seq(Operations), NEW w, w = TrainingSteps \o tail,
         \A p, k \in 1..Len(tail) :
            tail[p].op \in {"load", "hash"} /\ tail[k].op = "publish" => tail[k].d # tail[p].d
  PROVE  ReadsItsOwn(w)
<1>1. TrainingSteps \in Seq(Operations) /\ Len(TrainingSteps) = TrainingLength
      /\ TrainingLength \in Nat
  BY TrainingLayout, SeasonsAreNaturals DEF TrainingLength
<1>2. \A i \in 1..Len(w) : \/ w[i].d \in Data
                           \/ \E p \in 1..Len(tail) : w[i] = tail[p]
  <2>1. TAKE i \in 1..Len(w)
  <2>2. /\ i <= Len(TrainingSteps) => i \in 1..Len(TrainingSteps) /\ w[i] = TrainingSteps[i]
        /\ i > Len(TrainingSteps) => /\ i - Len(TrainingSteps) \in 1..Len(tail)
                                     /\ w[i] = tail[i - Len(TrainingSteps)]
    <3>1. TrainingSteps \in Seq(Operations) /\ tail \in Seq(Operations) /\ w = TrainingSteps \o tail
          /\ i \in 1..Len(w)
      BY <1>1
    <3>2. QED
      BY ONLY <3>1, AfterSeq
  <2>3. i \in Nat
    OBVIOUS
  <2>4. CASE i <= Len(TrainingSteps)
    BY <1>1, <2>2, <2>4, TrainingPlain
  <2>5. CASE i > Len(TrainingSteps)
    BY <2>2, <2>5
  <2>6. QED
    BY <1>1, <2>3, <2>4, <2>5
<1>3. ASSUME NEW i \in 1..Len(w), NEW k \in 1..Len(w), w[i].op \in {"load", "hash"},
             w[k].op = "publish", w[k].d = w[i].d, w[i].d \notin Data
      PROVE  FALSE
  <2>1. PICK p \in 1..Len(tail) : w[i] = tail[p]
    BY <1>2, <1>3
  <2>2. PICK m \in 1..Len(tail) : w[k] = tail[m]
    BY <1>2, <1>3
  <2>3. tail[p].op \in {"load", "hash"} /\ tail[m].op = "publish" /\ tail[m].d = tail[p].d
    BY <1>3, <2>1, <2>2
  <2>4. QED
    BY <2>3
<1>4. QED
  BY <1>3 DEF ReadsItsOwn

LEMMA ArtifactReadsItsOwn == ReadsItsOwn(Steps("artifact"))
<1>1. PICK u : u = TrainingSteps \o AssessmentTail
  OBVIOUS
<1>2. PICK v : v = TrainingSteps \o ArtifactTail
  OBVIOUS
<1>3. PICK w : w = Steps("artifact")
  OBVIOUS
<1>4. u \in Seq(Operations) /\ v \in Seq(Operations) /\ w = u \o v
  BY <1>1, <1>2, <1>3, ArtifactHalves
<1>5. /\ AssessmentTail \in Seq(Operations) /\ Len(AssessmentTail) = 11
      /\ ArtifactTail \in Seq(Operations) /\ Len(ArtifactTail) = 13
      /\ TrainingSteps \in Seq(Operations) /\ Len(TrainingSteps) = TrainingLength
  BY TrainingLayout, Tails, ElsewhereSubset DEF TrainingLength
<1>6. \A i \in 1..Len(u) : u[i].d \in Data \/ \E p \in 1..11 : u[i] = AssessmentTail[p]
  <2>1. TAKE i \in 1..Len(u)
  <2>2. /\ i <= Len(TrainingSteps) => i \in 1..Len(TrainingSteps) /\ u[i] = TrainingSteps[i]
        /\ i > Len(TrainingSteps) => /\ i - Len(TrainingSteps) \in 1..Len(AssessmentTail)
                                     /\ u[i] = AssessmentTail[i - Len(TrainingSteps)]
    <3>1. /\ TrainingSteps \in Seq(Operations) /\ AssessmentTail \in Seq(Operations)
          /\ u = TrainingSteps \o AssessmentTail /\ i \in 1..Len(u)
      BY <1>1, <1>5
    <3>2. QED
      BY ONLY <3>1, AfterSeq
  <2>3. i <= Len(TrainingSteps) \/ i > Len(TrainingSteps)
    BY <1>5, SeasonsAreNaturals DEF TrainingLength
  <2>4. QED
    BY <1>5, <2>2, <2>3, TrainingPlain
<1>7. \A i \in 1..Len(v) : v[i].d \in Data \/ v[i].op # "publish"
  <2>1. TAKE i \in 1..Len(v)
  <2>2. /\ i <= Len(TrainingSteps) => i \in 1..Len(TrainingSteps) /\ v[i] = TrainingSteps[i]
        /\ i > Len(TrainingSteps) => /\ i - Len(TrainingSteps) \in 1..Len(ArtifactTail)
                                     /\ v[i] = ArtifactTail[i - Len(TrainingSteps)]
    <3>1. /\ TrainingSteps \in Seq(Operations) /\ ArtifactTail \in Seq(Operations)
          /\ v = TrainingSteps \o ArtifactTail /\ i \in 1..Len(v)
      BY <1>2, <1>5
    <3>2. QED
      BY ONLY <3>1, AfterSeq
  <2>3. i <= Len(TrainingSteps) \/ i > Len(TrainingSteps)
    BY <1>5, SeasonsAreNaturals DEF TrainingLength
  <2>4. QED
    BY <1>5, <2>2, <2>3, TrainingPlain, ArtifactReads
<1>13. AssessmentTail[11].op = "publish" /\ AssessmentTail[11].d = Assessment
  BY Tails, OpIs
<1>8. ASSUME NEW i \in 1..Len(u), u[i].op = "publish", u[i].d \notin Data
      PROVE  u[i].d = Assessment
  <2>1. PICK p \in 1..11 : u[i] = AssessmentTail[p]
    BY <1>6, <1>8
  <2>2. p = 11 \/ p \in 1..10
    OBVIOUS
  <2>3. p \notin 1..10
    <3>1. p \in 8..10 \/ p = 1 \/ p = 2 \/ p = 3 \/ p = 4 \/ p = 5 \/ p = 6 \/ p = 7 \/ p = 11
      OBVIOUS
    <3>2. QED
      BY <1>8, <2>1, <3>1, AssessmentOperations
  <2>4. QED
    BY <1>13, <2>1, <2>2, <2>3
<1>9. ASSUME NEW i \in 1..Len(u), u[i].op \in {"load", "hash"}, u[i].d \notin Data
      PROVE  u[i].d # Assessment
  <2>1. PICK p \in 1..11 : u[i] = AssessmentTail[p]
    BY <1>6, <1>9
  <2>2. p # 11
    BY <1>9, <1>13, <2>1
  <2>3. p \in 1..10 /\ (p \in 8..10 \/ p = 1 \/ p = 2 \/ p = 3 \/ p = 4 \/ p = 5 \/ p = 6 \/ p = 7)
    BY <2>2
  <2>4. u[i].d \in {Training, Evaluation, CatBoost, Advanced, Freeze}
    BY <2>1, <2>3, AssessmentOperations
  <2>5. QED
    BY <2>4, OthersDiffer
<1>10. ASSUME NEW i \in 1..Len(w), NEW k \in 1..Len(w), w[i].op \in {"load", "hash"},
              w[k].op = "publish", w[k].d = w[i].d, w[i].d \notin Data
       PROVE  k < i
  <2>1. /\ i <= Len(u) => i \in 1..Len(u) /\ w[i] = u[i]
        /\ i > Len(u) => i - Len(u) \in 1..Len(v) /\ w[i] = v[i - Len(u)]
        /\ k <= Len(u) => k \in 1..Len(u) /\ w[k] = u[k]
        /\ k > Len(u) => k - Len(u) \in 1..Len(v) /\ w[k] = v[k - Len(u)]
    BY <1>4, AfterSeq
  <2>2. Len(u) \in Nat /\ i \in Nat /\ k \in Nat
    BY <1>4, Joined
  <2>3. k <= Len(u)
    BY <1>7, <1>10, <2>1, <2>2
  <2>4. w[k].d = Assessment
    BY <1>8, <1>10, <2>1, <2>3
  <2>5. ~(i <= Len(u))
    BY <1>9, <1>10, <2>1, <2>4
  <2>6. QED
    BY <2>2, <2>3, <2>5
<1>11. ReadsItsOwn(w)
  BY <1>10 DEF ReadsItsOwn
<1>12. QED
  BY <1>3, <1>11

LEMMA MaterializersReadTheirOwn ==
  ASSUME NEW w, \A i \in 1..Len(w) : w[i].d \in Data \/ w[i].op \notin {"load", "hash"}
  PROVE  ReadsItsOwn(w)
BY DEF ReadsItsOwn

LEMMA CommandReadsItsOwn ==
  ASSUME NEW c \in AllCommands
  PROVE  ReadsItsOwn(Steps(c))
<1>1. CASE c \in {"download", "canonical", "features", "training"}
  <2>1. Steps(c) \in {DownloadSteps, CanonicalSteps, FeatureSteps, TrainingSteps}
    BY <1>1, StepsAre
  <2>2. \A i \in 1..Len(DownloadSteps) : DownloadSteps[i].op \notin {"load", "hash"}
    BY DownloadOperations
  <2>3. \A i \in 1..Len(CanonicalSteps) : CanonicalSteps[i].d \in Data
    BY CanonicalSupplied
  <2>4. \A i \in 1..Len(FeatureSteps) : FeatureSteps[i].d \in Data
    BY FeaturesPlain, FeatureLayout
  <2>5. \A i \in 1..Len(TrainingSteps) : TrainingSteps[i].d \in Data
    BY TrainingPlain, TrainingLayout DEF TrainingLength
  <2>6. QED
    BY <2>1, <2>2, <2>3, <2>4, <2>5, MaterializersReadTheirOwn
<1>2. CASE c = "evaluation"
  <2>1. /\ Len(EvaluationTail) = 3
        /\ EvaluationTail[1] = Load(Training) /\ EvaluationTail[2] = Hash(Training)
        /\ EvaluationTail[3] = Op("publish", Evaluation, "embedded")
    BY DEF EvaluationTail
  <2>2. \A p \in 1..Len(EvaluationTail) : p = 1 \/ p = 2 \/ p = 3
    BY <2>1
  <2>3. \A p \in 1..Len(EvaluationTail) :
          \/ EvaluationTail[p].op \in {"load", "hash"} /\ EvaluationTail[p].d = Training
          \/ EvaluationTail[p].op = "publish" /\ EvaluationTail[p].d = Evaluation
    BY <2>1, <2>2, OpIs
  <2>4. EvaluationTail \in Seq(Operations) /\ Steps(c) = TrainingSteps \o EvaluationTail
    BY <1>2, Tails, ElsewhereSubset, StepsAre
  <2>5. QED
    BY <2>3, <2>4, TailReadsItsOwn, OthersDiffer
<1>3. CASE c = "catboost"
  <2>1. /\ Len(CatBoostTail) = 4
        /\ CatBoostTail[1] = Load(Training) /\ CatBoostTail[2] = Hash(Training)
        /\ CatBoostTail[3] = Publish(Freeze)
        /\ CatBoostTail[4] = Op("publish", CatBoost, "embedded")
    BY DEF CatBoostTail
  <2>2. \A p \in 1..Len(CatBoostTail) : p = 1 \/ p = 2 \/ p = 3 \/ p = 4
    BY <2>1
  <2>3. \A p \in 1..Len(CatBoostTail) :
          \/ CatBoostTail[p].op \in {"load", "hash"} /\ CatBoostTail[p].d = Training
          \/ CatBoostTail[p].op = "publish" /\ CatBoostTail[p].d \in {Freeze, CatBoost}
    BY <2>1, <2>2, OpIs
  <2>4. CatBoostTail \in Seq(Operations) /\ Steps(c) = TrainingSteps \o CatBoostTail
    BY <1>3, Tails, ElsewhereSubset, StepsAre
  <2>5. QED
    BY <2>3, <2>4, TailReadsItsOwn, OthersDiffer
<1>4. CASE c = "advanced"
  <2>1. /\ Len(AdvancedTail) = 7
        /\ AdvancedTail[1] = Load(Training) /\ AdvancedTail[2] = Hash(Training)
        /\ AdvancedTail[3] = Load(CatBoost)
        /\ AdvancedTail[4] = Op("hash", CatBoost, "tuned_on_training")
        /\ AdvancedTail[5] = Load(Freeze)
        /\ AdvancedTail[6] = Op("hash", Freeze, "freeze_of_tuning")
        /\ AdvancedTail[7] = Op("publish", Advanced, "embedded")
    BY DEF AdvancedTail
  <2>2. \A p \in 1..Len(AdvancedTail) : p = 1 \/ p = 2 \/ p = 3 \/ p = 4 \/ p = 5 \/ p = 6 \/ p = 7
    BY <2>1
  <2>3. \A p \in 1..Len(AdvancedTail) :
          \/ /\ AdvancedTail[p].op \in {"load", "hash"}
             /\ AdvancedTail[p].d \in {Training, CatBoost, Freeze}
          \/ AdvancedTail[p].op = "publish" /\ AdvancedTail[p].d = Advanced
    BY <2>1, <2>2, OpIs
  <2>4. AdvancedTail \in Seq(Operations) /\ Steps(c) = TrainingSteps \o AdvancedTail
    BY <1>4, Tails, ElsewhereSubset, StepsAre
  <2>5. QED
    BY <2>3, <2>4, TailReadsItsOwn, OthersDiffer
<1>5. CASE c = "assessment"
  <2>1. AssessmentTail \in Seq(Operations) /\ Steps(c) = TrainingSteps \o AssessmentTail
        /\ Len(AssessmentTail) = 11
    BY <1>5, Tails, StepsAre
  <2>2. \A p \in 1..10 : /\ AssessmentTail[p].op \in {"load", "hash"}
                         /\ AssessmentTail[p].d \in {Training, Evaluation, CatBoost, Advanced, Freeze}
    <3>1. TAKE p \in 1..10
    <3>2. p \in 8..10 \/ p = 1 \/ p = 2 \/ p = 3 \/ p = 4 \/ p = 5 \/ p = 6 \/ p = 7
      OBVIOUS
    <3>3. QED
      BY <3>2, AssessmentOperations
  <2>3. AssessmentTail[11].op = "publish" /\ AssessmentTail[11].d = Assessment
    BY Tails, OpIs
  <2>4. \A p, k \in 1..Len(AssessmentTail) :
          AssessmentTail[p].op \in {"load", "hash"} /\ AssessmentTail[k].op = "publish" =>
              AssessmentTail[k].d # AssessmentTail[p].d
    <3>1. \A p \in 1..Len(AssessmentTail) : p \in 1..10 \/ p = 11
      BY <2>1
    <3>2. QED
      BY <2>2, <2>3, <3>1, OthersDiffer
  <2>5. QED
    BY <2>1, <2>4, TailReadsItsOwn
<1>6. CASE c = "artifact"
  BY <1>6, ArtifactReadsItsOwn
<1>7. QED
  BY <1>1, <1>2, <1>3, <1>4, <1>5, <1>6 DEF AllCommands

LEMMA OwnIsPublished ==
  ASSUME NEW c \in AllCommands, NEW i \in 1..Len(Steps(c)), NEW o, o = Steps(c)[i],
         o.op \in {"load", "hash"}, o.d \in Own(c)
  PROVE  PublishedBefore(Steps(c), i, o.d)
<1>1. Supplied(Steps(c), i)
  BY CommandSupplied
<1>2. CASE o.d = Training
  <2>1. Kept(Steps(c), i, Publish(Training), {})
    BY <1>1, <1>2 DEF Supplied
  <2>2. QED
    BY <1>2, <2>1, OpIs DEF PublishedBefore
<1>3. ASSUME NEW s \in Seasons, o.d = Canonical(s) \/ o.d = Features(s)
      PROVE  PublishedBefore(Steps(c), i, o.d)
  <2>1. SeasonSupplied(Steps(c), i, s)
    BY <1>1 DEF Supplied
  <2>2. Kept(Steps(c), i, Publish(o.d), {})
    BY <1>3, <2>1 DEF SeasonSupplied
  <2>3. QED
    BY <2>2, OpIs DEF PublishedBefore
<1>4. CASE o.d \notin Data
  <2>1. PICK k \in 1..Len(Steps(c)) : Steps(c)[k].op = "publish" /\ Steps(c)[k].d = o.d
    BY DEF Own
  <2>2. k < i
    BY <1>4, <2>1, CommandReadsItsOwn DEF ReadsItsOwn
  <2>3. k \in 1..(i - 1)
    BY <2>2
  <2>4. Kept(Steps(c), i, Steps(c)[k], {})
    BY <2>3 DEF Kept
  <2>5. QED
    BY <2>1, <2>4 DEF PublishedBefore
<1>5. QED
  BY <1>2, <1>3, <1>4 DEF Data

\* The commands that need no evaluation of another one.
LEMMA SelfContainedPlain ==
  ASSUME NEW c \in SelfContained, NEW i \in 1..Len(Steps(c))
  PROVE  c \in AllCommands /\ Plain(Steps(c)[i])
<1>1. c \in AllCommands
  BY DEF SelfContained, AllCommands
<1>2. CASE c \in {"canonical", "features", "training"}
  <2>1. \A k \in 1..Len(FeatureSteps) : Plain(FeatureSteps[k])
    BY FeaturesPlain, FeatureLayout
  <2>2. \A k \in 1..Len(TrainingSteps) : Plain(TrainingSteps[k])
    BY TrainingPlain, TrainingLayout DEF TrainingLength
  <2>3. Steps(c) \in {CanonicalSteps, FeatureSteps, TrainingSteps}
    BY <1>2, StepsAre
  <2>4. QED
    BY <1>1, <2>1, <2>2, <2>3, CanonicalSupplied
<1>3. ASSUME NEW tail \in Seq(Operations), Steps(c) = TrainingSteps \o tail,
             \A p \in 1..Len(tail) : Plain(tail[p])
      PROVE  Plain(Steps(c)[i])
  <2>1. TrainingSteps \in Seq(Operations) /\ Len(TrainingSteps) = TrainingLength
        /\ TrainingLength \in Nat
    BY TrainingLayout, SeasonsAreNaturals DEF TrainingLength
  <2>2. PICK w : w = Steps(c)
    OBVIOUS
  <2>3. /\ i <= Len(TrainingSteps) => i \in 1..Len(TrainingSteps) /\ w[i] = TrainingSteps[i]
        /\ i > Len(TrainingSteps) => /\ i - Len(TrainingSteps) \in 1..Len(tail)
                                     /\ w[i] = tail[i - Len(TrainingSteps)]
    <3>1. TrainingSteps \in Seq(Operations) /\ tail \in Seq(Operations) /\ w = TrainingSteps \o tail
          /\ i \in 1..Len(w)
      BY <1>3, <2>1, <2>2
    <3>2. QED
      BY ONLY <3>1, AfterSeq
  <2>4. i <= Len(TrainingSteps) \/ i > Len(TrainingSteps)
    BY <2>1
  <2>5. QED
    BY <1>3, <2>1, <2>2, <2>3, <2>4, TrainingPlain
<1>4. \A d \in {Evaluation, CatBoost} : Plain(Op("publish", d, "embedded"))
  BY DEF Plain, Op
<1>5. Plain(Publish(Freeze))
  BY DEF Plain, Publish, Op
<1>6. 1 \in Seasons
  BY SeasonsAreNaturals
<1>7. Plain(Load(Training)) /\ Plain(Hash(Training))
  BY <1>6, DataOperations
<1>8. CASE c = "evaluation"
  <2>1. \A p \in 1..Len(EvaluationTail) : Plain(EvaluationTail[p])
    <3>1. /\ Len(EvaluationTail) = 3
          /\ EvaluationTail[1] = Load(Training) /\ EvaluationTail[2] = Hash(Training)
          /\ EvaluationTail[3] = Op("publish", Evaluation, "embedded")
      BY DEF EvaluationTail
    <3>2. \A p \in 1..Len(EvaluationTail) : p = 1 \/ p = 2 \/ p = 3
      BY <3>1
    <3>3. QED
      BY <1>4, <1>7, <3>1, <3>2
  <2>2. EvaluationTail \in Seq(Operations) /\ Steps(c) = TrainingSteps \o EvaluationTail
    BY <1>8, Tails, ElsewhereSubset, StepsAre
  <2>3. QED
    BY <1>1, <1>3, <2>1, <2>2
<1>9. CASE c = "catboost"
  <2>1. \A p \in 1..Len(CatBoostTail) : Plain(CatBoostTail[p])
    <3>1. /\ Len(CatBoostTail) = 4
          /\ CatBoostTail[1] = Load(Training) /\ CatBoostTail[2] = Hash(Training)
          /\ CatBoostTail[3] = Publish(Freeze)
          /\ CatBoostTail[4] = Op("publish", CatBoost, "embedded")
      BY DEF CatBoostTail
    <3>2. \A p \in 1..Len(CatBoostTail) : p = 1 \/ p = 2 \/ p = 3 \/ p = 4
      BY <3>1
    <3>3. QED
      BY <1>4, <1>5, <1>7, <3>1, <3>2
  <2>2. CatBoostTail \in Seq(Operations) /\ Steps(c) = TrainingSteps \o CatBoostTail
    BY <1>9, Tails, ElsewhereSubset, StepsAre
  <2>3. QED
    BY <1>1, <1>3, <2>1, <2>2
<1>10. QED
  BY <1>1, <1>2, <1>8, <1>9 DEF SelfContained

-----------------------------------------------------------------------------
(* What a command that nothing overlaps knows of the files.                *)

Evaluations == {Evaluation, CatBoost, Advanced}

\* What a check of loaded datasets says of the files they were loaded from.
Sees(check, files) ==
    /\ check = "tuned_on_training" =>
          files[CatBoost].manifest.training = files[Training].manifest
    /\ check = "one_training" =>
          \A d \in Evaluations : files[d].manifest.training = files[Training].manifest
    /\ check = "freeze_of_evaluations" =>
          /\ files[Freeze].manifest = files[CatBoost].manifest.test_freeze
          /\ files[Freeze].manifest = files[Advanced].manifest.test_freeze_manifest_sha256
    /\ check = "tuning_of_advanced" =>
          /\ files[Advanced].manifest.tuning_manifest_sha256 = files[CatBoost].manifest
          /\ files[Advanced].manifest.selected_predictions_sha256 = files[CatBoost].rows

\* What has been published stands, and what is held is what the files hold.
Holding(q, own, i, l, files, h) ==
    /\ \A p : Kept(q, i, p, {}) /\ p.op = "publish" =>
          p.d \in Datasets /\ files[p.d] = Ideal(h)[p.d]
    /\ \A d \in DOMAIN l.held :
          /\ d \in Datasets /\ l.held[d] = files[d]
          /\ d \in own => files[d] = Ideal(h)[d]
    /\ \A d \in DOMAIN l.sums :
          /\ d \in Datasets /\ l.sums[d] = files[d].manifest
          /\ d \in own => files[d] = Ideal(h)[d]

\* What has been read and not been dropped is held.
Remembering(q, i, l, h) ==
    /\ \A p : Kept(q, i, p, Closing) =>
          /\ p.op = "load" => p.d \in DOMAIN l.held
          /\ p.op = "listing" => l.listing = h
    /\ \A p : Kept(q, i, p, Ending) =>
          /\ p.op = "hash" => p.d \in DOMAIN l.sums
          /\ p.op = "inputs" => l.inputs = h
          /\ p.op = "checksum" => l.historical_sum = h

\* Since the last publication, loads and checks say what the files hold.
ReadBack(q, i, files) ==
    \A p : Kept(q, i, p, Datasets) =>
        /\ p.op = "load" /\ p.d \in Evaluations =>
              /\ files[p.d].manifest # None
              /\ files[p.d].rows = TrainingSha(files[p.d].manifest.training)
        /\ p.op \in {"load", "hash"} => Sees(p.check, files)

\* What a command that nothing overlaps knows at operation i.
Knowing(q, own, i, l, files, h) ==
    Holding(q, own, i, l, files, h) /\ Remembering(q, i, l, h) /\ ReadBack(q, i, files)

\* What is known at the beginning of an operation.
Fresh(q, own, i, l, files, h) ==
    /\ Knowing(q, own, i, l, files, h)
    /\ i > 1 /\ q[i - 1].op = "entry" => l.entry = h[q[i - 1].d[2]]

\* What stands before a check.
Checked(q, i) ==
    LET o == q[i]
    IN  o.op \in {"load", "hash"} =>
        /\ o.check = "tuned_on_training" =>
              Kept(q, i, Load(Training), Closing) /\ Kept(q, i, Load(CatBoost), Closing)
        /\ o.check = "one_training" =>
              /\ o.op = "load" /\ o.d = Advanced
              /\ Kept(q, i, Load(Training), Closing) /\ Kept(q, i, Load(Evaluation), Closing)
              /\ Kept(q, i, Load(CatBoost), Closing)
        /\ o.check \in {"freeze_of_evaluations", "tuning_of_advanced"} =>
              /\ o.op = "hash"
              /\ o.check = "freeze_of_evaluations" => o.d = Freeze
              /\ o.check = "tuning_of_advanced" => o.d = CatBoost
              /\ Kept(q, i, Load(CatBoost), Closing)
              /\ Kept(q, i, Op("load", Advanced, "one_training"), Closing)

\* Operation o, which publishes nothing, takes locals l to locals k.
Took(o, l, k, files, h) ==
    /\ o.op = "load" => /\ DOMAIN k.held = DOMAIN l.held \cup {o.d} /\ k.held[o.d] = files[o.d]
                        /\ \A x \in DOMAIN l.held : x # o.d => k.held[x] = l.held[x]
    /\ o.op # "load" => k.held = l.held
    /\ o.op = "hash" => /\ DOMAIN k.sums = DOMAIN l.sums \cup {o.d}
                        /\ k.sums[o.d] = files[o.d].manifest
                        /\ \A x \in DOMAIN l.sums : x # o.d => k.sums[x] = l.sums[x]
    /\ o.op # "hash" => k.sums = l.sums
    /\ k.inputs = (IF o.op = "inputs" THEN h ELSE l.inputs)
    /\ k.listing = (IF o.op = "listing" THEN h ELSE l.listing)
    /\ k.historical_sum = (IF o.op = "checksum" THEN h ELSE l.historical_sum)
    /\ o.op = "entry" => k.entry = h[o.d[2]]
    /\ o.op \in {"load", "hash"} => Passes(o.check, k)
    /\ o.op = "load" /\ o.d \in Evaluations =>
          /\ files[o.d].manifest # None
          /\ files[o.d].rows = TrainingSha(files[o.d].manifest.training)

LEMMA TookHolding ==
  ASSUME NEW q, NEW i \in Nat \ {0}, NEW o, o = q[i], o.op # "publish", o.d \in Datasets, NEW own,
         NEW l, NEW k, NEW files, NEW h, Took(o, l, k, files, h),
         Holding(q, own, i, l, files, h),
         o.op \in {"load", "hash"} /\ o.d \in own => PublishedBefore(q, i, o.d)
  PROVE  Holding(q, own, i + 1, k, files, h)
<1>1. ASSUME NEW p, Kept(q, i + 1, p, {}), p.op = "publish"
      PROVE  p.d \in Datasets /\ files[p.d] = Ideal(h)[p.d]
  <2>1. Kept(q, i, p, {})
    BY <1>1, KeptNext
  <2>2. QED
    BY <1>1, <2>1 DEF Holding
<1>2. o.op \in {"load", "hash"} /\ o.d \in own => files[o.d] = Ideal(h)[o.d]
  BY DEF PublishedBefore, Holding
<1>3. ASSUME NEW d \in DOMAIN k.held
      PROVE  /\ d \in Datasets /\ k.held[d] = files[d]
             /\ d \in own => files[d] = Ideal(h)[d]
  <2>1. CASE o.op = "load" /\ d = o.d
    BY <1>2, <2>1 DEF Took
  <2>2. CASE o.op # "load" \/ d # o.d
    <3>1. d \in DOMAIN l.held /\ k.held[d] = l.held[d]
      BY <1>3, <2>2 DEF Took
    <3>2. QED
      BY <3>1 DEF Holding
  <2>3. QED
    BY <2>1, <2>2
<1>4. ASSUME NEW d \in DOMAIN k.sums
      PROVE  /\ d \in Datasets /\ k.sums[d] = files[d].manifest
             /\ d \in own => files[d] = Ideal(h)[d]
  <2>1. CASE o.op = "hash" /\ d = o.d
    BY <1>2, <2>1 DEF Took
  <2>2. CASE o.op # "hash" \/ d # o.d
    <3>1. d \in DOMAIN l.sums /\ k.sums[d] = l.sums[d]
      BY <1>4, <2>2 DEF Took
    <3>2. QED
      BY <3>1 DEF Holding
  <2>3. QED
    BY <2>1, <2>2
<1>5. QED
  BY <1>1, <1>3, <1>4 DEF Holding

LEMMA TookRemembering ==
  ASSUME NEW q, NEW i \in Nat \ {0}, NEW o, o = q[i],
         NEW l, NEW k, NEW files, NEW h, Took(o, l, k, files, h), Remembering(q, i, l, h)
  PROVE  Remembering(q, i + 1, k, h)
<1>1. ASSUME NEW p, Kept(q, i + 1, p, Closing)
      PROVE  /\ p.op = "load" => p.d \in DOMAIN k.held
             /\ p.op = "listing" => k.listing = h
  <2>1. p = o \/ Kept(q, i, p, Closing)
    BY <1>1, KeptNext
  <2>2. CASE p = o
    BY <2>2 DEF Took
  <2>3. CASE Kept(q, i, p, Closing)
    <3>1. /\ p.op = "load" => p.d \in DOMAIN l.held
          /\ p.op = "listing" => l.listing = h
      BY <2>3 DEF Remembering
    <3>2. DOMAIN l.held \subseteq DOMAIN k.held /\ (k.listing = h \/ k.listing = l.listing)
      BY DEF Took
    <3>3. QED
      BY <3>1, <3>2
  <2>4. QED
    BY <2>1, <2>2, <2>3
<1>2. ASSUME NEW p, Kept(q, i + 1, p, Ending)
      PROVE  /\ p.op = "hash" => p.d \in DOMAIN k.sums
             /\ p.op = "inputs" => k.inputs = h
             /\ p.op = "checksum" => k.historical_sum = h
  <2>1. p = o \/ Kept(q, i, p, Ending)
    BY <1>2, KeptNext
  <2>2. CASE p = o
    BY <2>2 DEF Took
  <2>3. CASE Kept(q, i, p, Ending)
    <3>1. /\ p.op = "hash" => p.d \in DOMAIN l.sums
          /\ p.op = "inputs" => l.inputs = h
          /\ p.op = "checksum" => l.historical_sum = h
      BY <2>3 DEF Remembering
    <3>2. /\ DOMAIN l.sums \subseteq DOMAIN k.sums /\ (k.inputs = h \/ k.inputs = l.inputs)
          /\ k.historical_sum = h \/ k.historical_sum = l.historical_sum
      BY DEF Took
    <3>3. QED
      BY <3>1, <3>2
  <2>4. QED
    BY <2>1, <2>2, <2>3
<1>3. QED
  BY <1>1, <1>2 DEF Remembering

\* A check of what is held is a check of the files.
LEMMA PassesSees ==
  ASSUME NEW check, NEW k, NEW files, Passes(check, k),
         check \in {"tuned_on_training", "one_training", "freeze_of_evaluations", "tuning_of_advanced"},
         \A d \in DOMAIN k.held : k.held[d] = files[d],
         \A d \in DOMAIN k.sums : k.sums[d] = files[d].manifest,
         check \in {"tuned_on_training", "one_training"} => Training \in DOMAIN k.held,
         CatBoost \in DOMAIN k.held,
         check # "tuned_on_training" => Advanced \in DOMAIN k.held,
         check = "one_training" => Evaluation \in DOMAIN k.held,
         check = "freeze_of_evaluations" => Freeze \in DOMAIN k.sums,
         check = "tuning_of_advanced" => CatBoost \in DOMAIN k.sums
  PROVE  Sees(check, files)
<1>1. CASE check = "tuned_on_training"
  BY <1>1 DEF Sees, Passes, TunedOnTraining
<1>2. CASE check = "one_training"
  <2>1. OneTraining(k)
    BY <1>2 DEF Passes
  <2>2. \A d \in Evaluations : d \in DOMAIN k.held
    BY <1>2 DEF Evaluations
  <2>3. \A d \in Evaluations : files[d].manifest.training = files[Training].manifest
    BY <1>2, <2>1, <2>2 DEF OneTraining, Evaluations
  <2>4. QED
    BY <1>2, <2>3 DEF Sees
<1>3. CASE check = "freeze_of_evaluations"
  BY <1>3 DEF Sees, Passes, FreezeOfEvaluations, FreezeOfTuning
<1>4. CASE check = "tuning_of_advanced"
  BY <1>4 DEF Sees, Passes, TuningOfAdvanced
<1>5. QED
  BY <1>1, <1>2, <1>3, <1>4

LEMMA TookReadBack ==
  ASSUME NEW q, NEW i \in Nat \ {0}, NEW o, o = q[i], o.op # "publish", NEW own,
         NEW l, NEW k, NEW files, NEW h, Took(o, l, k, files, h),
         Remembering(q, i, l, h), ReadBack(q, i, files), Checked(q, i),
         Holding(q, own, i + 1, k, files, h)
  PROVE  ReadBack(q, i + 1, files)
<1>1. o.op \in {"load", "hash"} => Sees(o.check, files)
  <2>1. CASE o.check \notin {"tuned_on_training", "one_training", "freeze_of_evaluations",
                             "tuning_of_advanced"}
    BY <2>1 DEF Sees
  <2>2. ASSUME o.check \in {"tuned_on_training", "one_training", "freeze_of_evaluations",
                            "tuning_of_advanced"},
               o.op \in {"load", "hash"}
        PROVE  Sees(o.check, files)
    <3>1. DOMAIN l.held \subseteq DOMAIN k.held
      BY DEF Took
    <3>2. \A d : Kept(q, i, Load(d), Closing) => d \in DOMAIN k.held
      BY <3>1, OpIs DEF Remembering
    <3>3. Kept(q, i, Op("load", Advanced, "one_training"), Closing) => Advanced \in DOMAIN k.held
      BY <3>1, OpIs DEF Remembering
    <3>4. /\ o.op = "load" => o.d \in DOMAIN k.held
          /\ o.op = "hash" => o.d \in DOMAIN k.sums
      BY DEF Took
    <3>5. /\ o.check \in {"tuned_on_training", "one_training"} => Training \in DOMAIN k.held
          /\ CatBoost \in DOMAIN k.held
          /\ o.check # "tuned_on_training" => Advanced \in DOMAIN k.held
          /\ o.check = "one_training" => Evaluation \in DOMAIN k.held
          /\ o.check = "freeze_of_evaluations" => Freeze \in DOMAIN k.sums
          /\ o.check = "tuning_of_advanced" => CatBoost \in DOMAIN k.sums
      BY <2>2, <3>2, <3>3, <3>4 DEF Checked
    <3>6. /\ \A d \in DOMAIN k.held : k.held[d] = files[d]
          /\ \A d \in DOMAIN k.sums : k.sums[d] = files[d].manifest
          /\ Passes(o.check, k)
      BY <2>2 DEF Holding, Took
    <3>7. QED
      BY ONLY <2>2, <3>5, <3>6, PassesSees
  <2>3. QED
    BY <2>1, <2>2
<1>2. ASSUME NEW p, Kept(q, i + 1, p, Datasets)
      PROVE  /\ p.op = "load" /\ p.d \in Evaluations =>
                   /\ files[p.d].manifest # None
                   /\ files[p.d].rows = TrainingSha(files[p.d].manifest.training)
             /\ p.op \in {"load", "hash"} => Sees(p.check, files)
  <2>1. p = o \/ Kept(q, i, p, Datasets)
    BY <1>2, KeptNext
  <2>2. CASE p = o
    BY <1>1, <2>2 DEF Took
  <2>3. CASE Kept(q, i, p, Datasets)
    BY <2>3 DEF ReadBack
  <2>4. QED
    BY <2>1, <2>2, <2>3
<1>3. QED
  BY <1>2 DEF ReadBack

\* After an operation that publishes nothing.
LEMMA TookFresh ==
  ASSUME NEW q, NEW i \in Nat \ {0}, NEW o, o = q[i], o.op # "publish", o.d \in Datasets, NEW own,
         NEW l, NEW k, NEW files, NEW h, Took(o, l, k, files, h), Checked(q, i),
         Knowing(q, own, i, l, files, h),
         o.op \in {"load", "hash"} /\ o.d \in own => PublishedBefore(q, i, o.d)
  PROVE  Fresh(q, own, i + 1, k, files, h)
<1>1. Holding(q, own, i, l, files, h) /\ Remembering(q, i, l, h) /\ ReadBack(q, i, files)
  BY DEF Knowing
<1>2. Holding(q, own, i + 1, k, files, h)
  BY <1>1, TookHolding
<1>3. Remembering(q, i + 1, k, h)
  BY <1>1, TookRemembering
<1>4. ReadBack(q, i + 1, files)
  BY <1>1, <1>2, TookReadBack
<1>5. (i + 1) - 1 = i
  OBVIOUS
<1>6. q[(i + 1) - 1].op = "entry" => k.entry = h[q[(i + 1) - 1].d[2]]
  BY <1>5 DEF Took
<1>7. QED
  BY <1>2, <1>3, <1>4, <1>6 DEF Fresh, Knowing

\* After a publication.
LEMMA PublishedFresh ==
  ASSUME NEW q, NEW i \in Nat \ {0}, NEW o, o = q[i], o.op = "publish", o.d \in Datasets, NEW own,
         o.d \in own,
         NEW l, LocalsRecord(l), NEW files, NEW new, NEW h,
         Holding(q, own, i, l, files, h), Remembering(q, i, l, h),
         new[o.d] = Ideal(h)[o.d],
         \A d \in Datasets : d # o.d => new[d] = files[d]
  PROVE  Fresh(q, own, i + 1, Returned(o.d, l), new, h)
<1> DEFINE k == Returned(o.d, l)
<1>1. /\ \A d \in Datasets : files[d] = Ideal(h)[d] => new[d] = files[d]
      /\ k \in {NoLocals, l, [l EXCEPT !.entry = None],
                [l EXCEPT !.listing = None, !.held = [x \in {} |-> None]]}
  BY ReturnedIs
<1>2. /\ DOMAIN NoLocals.held = {} /\ DOMAIN NoLocals.sums = {}
  BY DEF NoLocals
<1>3. LET e == [l EXCEPT !.entry = None]
      IN  e.held = l.held /\ e.sums = l.sums /\ e.listing = l.listing /\ e.inputs = l.inputs
          /\ e.historical_sum = l.historical_sum
  BY DEF LocalsRecord
<1>4. LET e == [l EXCEPT !.listing = None, !.held = [x \in {} |-> None]]
      IN  /\ DOMAIN e.held = {} /\ e.sums = l.sums /\ e.inputs = l.inputs
          /\ e.historical_sum = l.historical_sum
  <2>1. [l EXCEPT !.listing = None, !.held = [x \in {} |-> None]]
          = [[l EXCEPT !.listing = None] EXCEPT !.held = [x \in {} |-> None]]
    OBVIOUS
  <2>2. PICK m : m = [l EXCEPT !.listing = None]
    OBVIOUS
  <2>3. /\ LocalsRecord(m) /\ m.sums = l.sums /\ m.inputs = l.inputs
        /\ m.historical_sum = l.historical_sum
    BY <2>2 DEF LocalsRecord
  <2>4. PICK e : e = [m EXCEPT !.held = [x \in {} |-> None]]
    OBVIOUS
  <2>5. /\ e.held = [x \in {} |-> None] /\ e.sums = m.sums /\ e.inputs = m.inputs
        /\ e.historical_sum = m.historical_sum
    BY <2>3, <2>4 DEF LocalsRecord
  <2>6. DOMAIN e.held = {}
    BY <2>5
  <2>7. QED
    BY <2>1, <2>2, <2>3, <2>4, <2>5, <2>6
<1>5. /\ \A d \in DOMAIN k.held : d \in DOMAIN l.held /\ k.held[d] = l.held[d]
      /\ \A d \in DOMAIN k.sums : d \in DOMAIN l.sums /\ k.sums[d] = l.sums[d]
  BY <1>1, <1>2, <1>3, <1>4
<1>6. o.d \notin Ending => /\ k.sums = l.sums /\ k.inputs = l.inputs
                           /\ k.historical_sum = l.historical_sum
  <2>1. o.d \notin Ending => o.d[1] \notin {"training", "assessment"}
    BY DEF Ending, Datasets, Canonical, Features, Training, Evaluation, Freeze, CatBoost, Advanced,
           Assessment
  <2>2. o.d \notin Ending => k \in {l, [l EXCEPT !.entry = None],
                [l EXCEPT !.listing = None, !.held = [x \in {} |-> None]]}
    BY <2>1, ReturnedIs
  <2>3. QED
    BY <1>3, <1>4, <2>2
<1>7. o.d \notin Closing => k.held = l.held /\ k.listing = l.listing
  <2>1. o.d \notin Closing => o.d[1] \notin {"training", "assessment"} /\ o.d # Features(N)
    BY DEF Closing, Datasets, Canonical, Features, Training, Evaluation, Freeze, CatBoost, Advanced,
           Assessment
  <2>2. o.d \notin Closing => k \in {l, [l EXCEPT !.entry = None]}
    BY <2>1, ReturnedIs
  <2>3. QED
    BY <1>3, <2>2
<1> HIDE DEF k
<1>8. Holding(q, own, i + 1, k, new, h)
  <2>1. ASSUME NEW p, Kept(q, i + 1, p, {}), p.op = "publish"
        PROVE  p.d \in Datasets /\ new[p.d] = Ideal(h)[p.d]
    <3>1. p = o \/ Kept(q, i, p, {})
      BY <2>1, KeptNext
    <3>2. CASE Kept(q, i, p, {})
      BY <1>1, <2>1, <3>2 DEF Holding
    <3>3. QED
      BY <3>1, <3>2
  <2>2. ASSUME NEW d \in DOMAIN k.held
        PROVE  /\ d \in Datasets /\ k.held[d] = new[d]
               /\ d \in own => new[d] = Ideal(h)[d]
    BY <1>1, <1>5 DEF Holding
  <2>3. ASSUME NEW d \in DOMAIN k.sums
        PROVE  /\ d \in Datasets /\ k.sums[d] = new[d].manifest
               /\ d \in own => new[d] = Ideal(h)[d]
    BY <1>1, <1>5 DEF Holding
  <2>4. QED
    BY <2>1, <2>2, <2>3 DEF Holding
<1>9. Remembering(q, i + 1, k, h)
  <2>1. ASSUME NEW p, Kept(q, i + 1, p, Closing), p.op # "publish"
        PROVE  /\ p.op = "load" => p.d \in DOMAIN k.held
               /\ p.op = "listing" => k.listing = h
    <3>1. Kept(q, i, p, Closing) /\ o.d \notin Closing
      BY <2>1, KeptNext
    <3>2. QED
      BY <1>7, <3>1 DEF Remembering
  <2>2. ASSUME NEW p, Kept(q, i + 1, p, Ending), p.op # "publish"
        PROVE  /\ p.op = "hash" => p.d \in DOMAIN k.sums
               /\ p.op = "inputs" => k.inputs = h
               /\ p.op = "checksum" => k.historical_sum = h
    <3>1. Kept(q, i, p, Ending) /\ o.d \notin Ending
      BY <2>2, KeptNext
    <3>2. QED
      BY <1>6, <3>1 DEF Remembering
  <2>3. QED
    BY <2>1, <2>2 DEF Remembering
<1>10. ReadBack(q, i + 1, new)
  <2>1. ASSUME NEW p, Kept(q, i + 1, p, Datasets)
        PROVE  p.op = "publish"
    BY <2>1, KeptNext
  <2>2. QED
    BY <2>1 DEF ReadBack
<1>11. (i + 1) - 1 = i
  OBVIOUS
<1>12. Fresh(q, own, i + 1, k, new, h)
  BY <1>8, <1>9, <1>10, <1>11 DEF Fresh, Knowing
<1>13. QED
  BY <1>12 DEF k

-----------------------------------------------------------------------------
(* Every check has before it the loads that it compares.                   *)

Comparing == {"tuned_on_training", "one_training", "freeze_of_evaluations", "tuning_of_advanced"}

LEMMA CheckedWithout ==
  ASSUME NEW q, NEW i, q[i].op \in {"load", "hash"} => q[i].check \notin Comparing
  PROVE  Checked(q, i)
BY DEF Checked, Comparing

LEMMA CheckedWithin ==
  ASSUME NEW q, NEW r, NEW n \in Nat, NEW i \in Nat \ {0}, \A x \in 1..i : r[n + x] = q[x],
         Checked(q, i)
  PROVE  Checked(r, n + i)
<1>1. \A o, X : Kept(q, i, o, X) => Kept(r, n + i, o, X)
  <2>1. \A x \in 1..(i - 1) : r[n + x] = q[x]
    OBVIOUS
  <2>2. QED
    BY <2>1, KeptWithin
<1>2. r[n + i] = q[i]
  OBVIOUS
<1>3. QED
  BY <1>1, <1>2 DEF Checked

LEMMA CheckedJoined ==
  ASSUME NEW u \in Seq(Operations), NEW v \in Seq(Operations), NEW w, w = u \o v,
         \A i \in 1..Len(u) : Checked(u, i), \A i \in 1..Len(v) : Checked(v, i)
  PROVE  \A i \in 1..Len(w) : Checked(w, i)
<1>1. /\ Len(w) = Len(u) + Len(v) /\ Len(u) \in Nat /\ Len(v) \in Nat
      /\ \A i \in 1..Len(u) : w[i] = u[i]
      /\ \A i \in 1..Len(v) : w[Len(u) + i] = v[i]
  BY Joined
<1>2. ASSUME NEW i \in 1..Len(u)
      PROVE  Checked(w, i)
  <2>1. Checked(u, i) /\ i \in Nat \ {0} /\ 0 \in Nat /\ 0 + i = i
        /\ \A x \in 1..i : w[0 + x] = u[x]
    BY <1>1
  <2>2. Checked(w, 0 + i)
    BY ONLY <2>1, CheckedWithin
  <2>3. QED
    BY <2>1, <2>2
<1>3. ASSUME NEW i \in 1..Len(v)
      PROVE  Checked(w, Len(u) + i)
  <2>1. Checked(v, i) /\ i \in Nat \ {0} /\ Len(u) \in Nat
        /\ \A x \in 1..i : w[Len(u) + x] = v[x]
    BY <1>1
  <2>2. QED
    BY ONLY <2>1, CheckedWithin
<1>4. QED
  <2>1. TAKE i \in 1..Len(w)
  <2>2. i \in Nat /\ (i \in 1..Len(u) \/ i - Len(u) \in 1..Len(v))
    BY <1>1
  <2>3. CASE i \in 1..Len(u)
    BY <1>2, <2>3
  <2>4. CASE i - Len(u) \in 1..Len(v)
    <3>1. Len(u) + (i - Len(u)) = i
      BY <1>1, <2>2
    <3>2. QED
      BY <1>3, <2>4, <3>1
  <2>5. QED
    BY <2>2, <2>3, <2>4

LEMMA TrainingIsChecked ==
  \A i \in 1..Len(TrainingSteps) : Checked(TrainingSteps, i)
<1>1. \A i \in 1..Len(TrainingSteps) :
        TrainingSteps[i].op \in {"load", "hash"} => TrainingSteps[i].check = "none"
  BY TrainingPlain, TrainingLayout DEF Plain, TrainingLength
<1>2. QED
  BY <1>1, CheckedWithout DEF Comparing

LEMMA AdvancedIsChecked ==
  \A p \in 1..Len(AdvancedTail) : Checked(AdvancedTail, p)
<1>1. /\ Len(AdvancedTail) = 7
      /\ AdvancedTail[1] = Load(Training) /\ AdvancedTail[2] = Hash(Training)
      /\ AdvancedTail[3] = Load(CatBoost)
      /\ AdvancedTail[4] = Op("hash", CatBoost, "tuned_on_training")
      /\ AdvancedTail[5] = Load(Freeze)
      /\ AdvancedTail[6] = Op("hash", Freeze, "freeze_of_tuning")
      /\ AdvancedTail[7] = Op("publish", Advanced, "embedded")
  BY DEF AdvancedTail
<1>2. \A p \in {1, 2, 3, 5, 6, 7} : AdvancedTail[p].check \notin Comparing
  BY <1>1 DEF Comparing, Op, Load, Hash
<1>3. \A x \in 1..3 : AdvancedTail[x].op # "publish"
  <2>1. \A x \in 1..3 : x = 1 \/ x = 2 \/ x = 3
    OBVIOUS
  <2>2. QED
    BY <1>1, <2>1, OpIs
<1>4. \A g \in 1..(4 - 1) : Kept(AdvancedTail, 4, AdvancedTail[g], Closing)
  <2>1. TAKE g \in 1..(4 - 1)
  <2>2. 4 \in Nat /\ g \in 1..(4 - 1)
        /\ \A x \in 1..(4 - 1) : ~(AdvancedTail[x].op = "publish" /\ AdvancedTail[x].d \in Closing)
    BY <1>3
  <2>3. QED
    BY ONLY <2>2, EarlierKept
<1>5. 1 \in 1..(4 - 1) /\ 3 \in 1..(4 - 1)
  OBVIOUS
<1>6. /\ Kept(AdvancedTail, 4, Load(Training), Closing)
      /\ Kept(AdvancedTail, 4, Load(CatBoost), Closing)
  BY <1>1, <1>4, <1>5
<1>7. AdvancedTail[4].check = "tuned_on_training"
  BY <1>1, OpIs
<1>8. Checked(AdvancedTail, 4)
  BY <1>6, <1>7 DEF Checked
<1>9. \A p \in 1..Len(AdvancedTail) : p \in {1, 2, 3, 5, 6, 7} \/ p = 4
  BY <1>1
<1>10. QED
  BY <1>2, <1>8, <1>9, CheckedWithout

LEMMA AssessmentIsChecked ==
  \A p \in 1..Len(AssessmentTail) : Checked(AssessmentTail, p)
<1>1. /\ Len(AssessmentTail) = 11
      /\ AssessmentTail[1] = Load(Training) /\ AssessmentTail[2] = Hash(Training)
      /\ AssessmentTail[3] = Load(Evaluation) /\ AssessmentTail[4] = Load(CatBoost)
      /\ AssessmentTail[5] = Op("load", Advanced, "one_training")
      /\ AssessmentTail[6] = Load(Freeze)
      /\ AssessmentTail[7] = Op("hash", Freeze, "freeze_of_evaluations")
      /\ AssessmentTail[8] = Op("hash", CatBoost, "tuning_of_advanced")
      /\ AssessmentTail[9] = Hash(Evaluation) /\ AssessmentTail[10] = Hash(Advanced)
      /\ AssessmentTail[11] = Op("publish", Assessment, "embedded")
  BY DEF AssessmentTail
<1>2. \A p \in {1, 2, 3, 4, 6, 9, 10, 11} : AssessmentTail[p].check \notin Comparing
  BY <1>1 DEF Comparing, Op, Load, Hash
<1>3. \A x \in 1..10 : AssessmentTail[x].op # "publish"
  <2>1. TAKE x \in 1..10
  <2>2. x \in 8..10 \/ x = 1 \/ x = 2 \/ x = 3 \/ x = 4 \/ x = 5 \/ x = 6 \/ x = 7
    OBVIOUS
  <2>3. QED
    BY <2>2, AssessmentOperations
<1>4. \A p \in {5, 7, 8} : \A g \in 1..(p - 1) : Kept(AssessmentTail, p, AssessmentTail[g], Closing)
  <2>1. TAKE p \in {5, 7, 8}
  <2>2. TAKE g \in 1..(p - 1)
  <2>3. p \in Nat /\ g \in 1..(p - 1) /\ \A x \in 1..(p - 1) : x \in 1..10
    OBVIOUS
  <2>4. p \in Nat /\ g \in 1..(p - 1)
        /\ \A x \in 1..(p - 1) : ~(AssessmentTail[x].op = "publish" /\ AssessmentTail[x].d \in Closing)
    BY <1>3, <2>3
  <2>5. QED
    BY ONLY <2>4, EarlierKept
<1>5. /\ 1 \in 1..(5 - 1) /\ 3 \in 1..(5 - 1) /\ 4 \in 1..(5 - 1)
      /\ \A p \in {7, 8} : 4 \in 1..(p - 1) /\ 5 \in 1..(p - 1)
  OBVIOUS
<1>6. /\ Kept(AssessmentTail, 5, Load(Training), Closing)
      /\ Kept(AssessmentTail, 5, Load(Evaluation), Closing)
      /\ Kept(AssessmentTail, 5, Load(CatBoost), Closing)
  BY <1>1, <1>4, <1>5
<1>7. \A p \in {7, 8} : /\ Kept(AssessmentTail, p, Load(CatBoost), Closing)
                        /\ Kept(AssessmentTail, p, Op("load", Advanced, "one_training"), Closing)
  BY <1>1, <1>4, <1>5
<1>8. /\ AssessmentTail[5].op = "load" /\ AssessmentTail[5].d = Advanced
      /\ AssessmentTail[5].check = "one_training"
      /\ AssessmentTail[7].op = "hash" /\ AssessmentTail[7].d = Freeze
      /\ AssessmentTail[7].check = "freeze_of_evaluations"
      /\ AssessmentTail[8].op = "hash" /\ AssessmentTail[8].d = CatBoost
      /\ AssessmentTail[8].check = "tuning_of_advanced"
  BY <1>1, OpIs
<1>9. Checked(AssessmentTail, 5)
  BY <1>6, <1>8 DEF Checked
<1>10. Checked(AssessmentTail, 7)
  BY <1>7, <1>8 DEF Checked
<1>11. Checked(AssessmentTail, 8)
  BY <1>7, <1>8 DEF Checked
<1>12. \A p \in 1..Len(AssessmentTail) : p \in {1, 2, 3, 4, 6, 9, 10, 11} \/ p = 5 \/ p = 7 \/ p = 8
  BY <1>1
<1>13. QED
  BY <1>2, <1>9, <1>10, <1>11, <1>12, CheckedWithout

LEMMA ArtifactIsChecked ==
  \A p \in 1..Len(ArtifactTail) : Checked(ArtifactTail, p)
<1> DEFINE Apart == {o \in Operations : o.check \notin Comparing}
<1>1. \A d \in Results, op \in OpNames : \A check \in {"none", "provenance"} : Op(op, d, check) \in Apart
  BY OtherOperationsExist, OpIs DEF Results, Checks, Comparing
<1>2. \A d \in Results : /\ Load(d) \in Apart /\ Hash(d) \in Apart
                         /\ Op("hash", d, "provenance") \in Apart
                         /\ Op("store", d, "none") \in Apart
  BY <1>1 DEF Load, Hash, OpNames
<1> HIDE DEF Apart
<1>3. /\ Load(Training) \in Apart /\ Load(Evaluation) \in Apart /\ Load(CatBoost) \in Apart
      /\ Load(Advanced) \in Apart /\ Load(Assessment) \in Apart /\ Load(Freeze) \in Apart
      /\ Hash(Evaluation) \in Apart /\ Hash(CatBoost) \in Apart /\ Hash(Advanced) \in Apart
      /\ Hash(Assessment) \in Apart /\ Op("hash", Freeze, "provenance") \in Apart
      /\ Op("store", Assessment, "none") \in Apart
  BY <1>2 DEF Results
<1> DEFINE u == <<Load(Training)>>
           v == ArtifactInputs
           x == <<Load(CatBoost), Op("store", Assessment, "none")>>
<1>4. u \in Seq(Apart)
  BY <1>3, OneInSeq
<1>5. v \in Seq(Apart)
  BY <1>3, TenInSeq DEF ArtifactInputs
<1>6. x \in Seq(Apart)
  BY <1>3, TwoInSeq
<1>7. ArtifactTail = (u \o v) \o x
  BY DEF ArtifactTail
<1> HIDE DEF u, v, x
<1>8. u \o v \in Seq(Apart)
  BY <1>4, <1>5, Joined
<1>9. ArtifactTail \in Seq(Apart)
  BY <1>6, <1>7, <1>8, Joined
<1>10. \A p \in 1..Len(ArtifactTail) : ArtifactTail[p] \in Apart
  BY <1>9
<1>11. QED
  BY <1>10, CheckedWithout DEF Apart

LEMMA CheckedAfterTraining ==
  ASSUME NEW tail \in Seq(Operations), NEW w, w = TrainingSteps \o tail,
         \A p \in 1..Len(tail) : Checked(tail, p)
  PROVE  \A i \in 1..Len(w) : Checked(w, i)
<1>1. TrainingSteps \in Seq(Operations)
  BY TrainingLayout
<1>2. QED
  BY <1>1, TrainingIsChecked, CheckedJoined

LEMMA CommandChecked ==
  ASSUME NEW c \in AllCommands, NEW i \in 1..Len(Steps(c))
  PROVE  Checked(Steps(c), i)
<1>1. CASE c \in SelfContained
  <2>1. Plain(Steps(c)[i])
    BY <1>1, SelfContainedPlain
  <2>2. Steps(c)[i].op \in {"load", "hash"} => Steps(c)[i].check \notin Comparing
    BY <2>1 DEF Plain, Comparing
  <2>3. QED
    BY <2>2, CheckedWithout
<1>2. CASE c = "download"
  <2>1. Steps(c)[i].op \in {"inputs", "fetch"}
    BY <1>2, DownloadOperations, StepsAre
  <2>2. QED
    BY <2>1, CheckedWithout
<1>3. CASE c = "advanced"
  <2>1. AdvancedTail \in Seq(Operations) /\ Steps(c) = TrainingSteps \o AdvancedTail
    BY <1>3, Tails, ElsewhereSubset, StepsAre
  <2>2. QED
    BY <2>1, AdvancedIsChecked, CheckedAfterTraining
<1>4. CASE c = "assessment"
  <2>1. AssessmentTail \in Seq(Operations) /\ Steps(c) = TrainingSteps \o AssessmentTail
    BY <1>4, Tails, ElsewhereSubset, StepsAre
  <2>2. QED
    BY <2>1, AssessmentIsChecked, CheckedAfterTraining
<1>5. CASE c = "artifact"
  <2>1. PICK u : u = TrainingSteps \o AssessmentTail
    OBVIOUS
  <2>2. PICK v : v = TrainingSteps \o ArtifactTail
    OBVIOUS
  <2>3. AssessmentTail \in Seq(Operations) /\ ArtifactTail \in Seq(Operations)
    BY Tails, ElsewhereSubset
  <2>4. \A k \in 1..Len(u) : Checked(u, k)
    BY <2>1, <2>3, AssessmentIsChecked, CheckedAfterTraining
  <2>5. \A k \in 1..Len(v) : Checked(v, k)
    BY <2>2, <2>3, ArtifactIsChecked, CheckedAfterTraining
  <2>6. u \in Seq(Operations) /\ v \in Seq(Operations) /\ Steps(c) = u \o v
    BY <1>5, <2>1, <2>2, ArtifactHalves
  <2>7. PICK w : w = Steps(c)
    OBVIOUS
  <2>8. w = u \o v
    BY <2>6, <2>7
  <2>9. \A k \in 1..Len(w) : Checked(w, k)
    BY ONLY <2>4, <2>5, <2>6, <2>8, CheckedJoined
  <2>10. QED
    BY <2>7, <2>9
<1>6. QED
  BY <1>1, <1>2, <1>3, <1>4, <1>5 DEF AllCommands, SelfContained

-----------------------------------------------------------------------------
(* What a command that nothing overlaps publishes.                         *)

\* The manifests of the evaluations have the fields of their kind.
Shapes(files) ==
    /\ LET m == files[Evaluation].manifest
       IN  m # None => m = [training |-> m.training]
    /\ LET m == files[CatBoost].manifest
       IN  m # None => m = [training |-> m.training, test_freeze |-> FreezeOf(m.training)]
    /\ LET m == files[Advanced].manifest
       IN  m # None => m = [training |-> m.training,
                            tuning_manifest_sha256 |-> m.tuning_manifest_sha256,
                            selected_predictions_sha256 |-> m.selected_predictions_sha256,
                            test_freeze_manifest_sha256 |-> m.test_freeze_manifest_sha256]

\* Job at operation i is about to publish, and knows what its files hold.
Publishing(q, own, i, l, files, h) ==
    /\ Fresh(q, own, i, l, files, h) /\ Supplied(q, i) /\ q[i].op = "publish" /\ Shapes(files)

LEMMA CanonicalPublishes ==
  ASSUME NEW q, NEW own, NEW i, NEW l, NEW files, NEW h, NEW s \in Seasons,
         Publishing(q, own, i, l, files, h), q[i].d = Canonical(s)
  PROVE  Content(Canonical(s), l) = Ideal(h)[Canonical(s)]
<1>1. i > 1 /\ q[i - 1] = Op("entry", Canonical(s), "none")
  BY DEF Publishing, Supplied, SeasonSupplied
<1>2. l.entry = h[q[i - 1].d[2]] /\ q[i - 1].d = Canonical(s)
  BY <1>1, OpIs DEF Publishing, Fresh
<1>3. l.entry = h[s]
  BY <1>2 DEF Canonical
<1>4. Content(Canonical(s), l) = CanonicalContent(l)
  BY DEF Content, Canonical
<1>5. CanonicalContent(l) = [rows |-> h[s].sha256, manifest |-> IdealLink(h, s)]
  BY <1>3 DEF CanonicalContent, CanonicalManifest, IdealLink
<1>6. Ideal(h)[Canonical(s)] = [rows |-> h[s].sha256, manifest |-> IdealLink(h, s)]
  BY ONLY IdealFiles
<1>7. QED
  BY <1>4, <1>5, <1>6

LEMMA FeaturesPublish ==
  ASSUME NEW q, NEW own, NEW i, NEW l, NEW files, NEW h, NEW s \in Seasons,
         Publishing(q, own, i, l, files, h), q[i].d = Features(s)
  PROVE  Content(Features(s), l) = Ideal(h)[Features(s)]
<1>1. /\ Kept(q, i, Listing, Closing)
      /\ \A t \in 1..s : /\ Kept(q, i, Publish(Canonical(t)), {})
                         /\ Kept(q, i, Load(Canonical(t)), Closing)
  BY DEF Publishing, Supplied, SeasonSupplied
<1>2. l.listing = h
  BY <1>1, OpIs DEF Publishing, Fresh, Knowing, Remembering, Listing
<1>3. ASSUME NEW t \in 1..s
      PROVE  Link(t, l) = IdealLink(h, t)
  <2>1. t \in Seasons
    BY SeasonsAreNaturals
  <2>2. files[Canonical(t)] = Ideal(h)[Canonical(t)]
    BY <1>1, OpIs DEF Publishing, Fresh, Knowing, Holding
  <2>3. Canonical(t) \in DOMAIN l.held
    BY <1>1, OpIs DEF Publishing, Fresh, Knowing, Remembering
  <2>4. l.held[Canonical(t)] = Ideal(h)[Canonical(t)]
    BY <2>2, <2>3 DEF Publishing, Fresh, Knowing, Holding
  <2>5. Ideal(h)[Canonical(t)].manifest = IdealLink(h, t)
    BY <2>1, IdealIs
  <2>6. IdealLink(h, t).fixtures_sha256 = h[t].sha256
    BY DEF IdealLink
  <2>7. l.held[Canonical(t)].manifest.fixtures_sha256 = h[t].sha256
    BY <2>4, <2>5, <2>6
  <2>8. QED
    BY <1>2, <2>7 DEF Link, IdealLink
<1>4. History(s, l) = [k \in 1..(s - 1) |-> IdealLink(h, k)]
  <2>1. \A k \in 1..(s - 1) : k \in 1..s
    BY SeasonsAreNaturals
  <2>2. \A k \in 1..(s - 1) : Link(k, l) = IdealLink(h, k)
    BY <1>3, <2>1
  <2>3. QED
    BY <2>2 DEF History
<1>5. Link(s, l) = IdealLink(h, s)
  <2>1. s \in 1..s
    BY SeasonsAreNaturals
  <2>2. QED
    BY <1>3, <2>1
<1>6. FeatureManifest(s, l) = IdealFeatures(h, s)
  BY <1>4, <1>5 DEF FeatureManifest, IdealFeatures
<1>7. Content(Features(s), l) = FeatureContent(s, l)
  BY DEF Content, Features
<1>8. FeatureContent(s, l) = [rows |-> IdealFeatures(h, s), manifest |-> IdealFeatures(h, s)]
  BY <1>6 DEF FeatureContent
<1>9. Ideal(h)[Features(s)] = [rows |-> IdealFeatures(h, s), manifest |-> IdealFeatures(h, s)]
  BY ONLY IdealFiles
<1>10. QED
  BY <1>7, <1>8, <1>9

LEMMA TrainingPublishes ==
  ASSUME NEW q, NEW own, NEW i, NEW l, NEW files, NEW h,
         Publishing(q, own, i, l, files, h), q[i].d = Training
  PROVE  Content(Training, l) = Ideal(h)[Training]
<1>1. /\ Kept(q, i, Checksum, Ending)
      /\ \A s \in Seasons : /\ Kept(q, i, Publish(Features(s)), {})
                            /\ Kept(q, i, Load(Features(s)), Closing)
                            /\ Kept(q, i, Hash(Features(s)), Ending)
  BY DEF Publishing, Supplied, TrainingSupplied
<1>2. l.historical_sum = h
  BY <1>1, OpIs DEF Publishing, Fresh, Knowing, Remembering, Checksum
<1>3. ASSUME NEW s \in Seasons
      PROVE  FeatureSource(s, l) = [features |-> IdealFeatures(h, s),
                                    feature_manifest_sha256 |-> IdealFeatures(h, s)]
  <2>1. files[Features(s)] = Ideal(h)[Features(s)]
    BY <1>1, OpIs DEF Publishing, Fresh, Knowing, Holding
  <2>2. Features(s) \in DOMAIN l.held /\ Features(s) \in DOMAIN l.sums
    BY <1>1, OpIs DEF Publishing, Fresh, Knowing, Remembering
  <2>3. /\ l.held[Features(s)] = Ideal(h)[Features(s)]
        /\ l.sums[Features(s)] = Ideal(h)[Features(s)].manifest
    BY <2>1, <2>2 DEF Publishing, Fresh, Knowing, Holding
  <2>4. Ideal(h)[Features(s)].manifest = IdealFeatures(h, s)
    BY IdealIs
  <2>5. QED
    BY <2>3, <2>4 DEF FeatureSource
<1>4. TrainingManifest(l) = IdealTraining(h)
  <2>1. [s \in Seasons |-> FeatureSource(s, l)]
          = [s \in Seasons |-> [features |-> IdealFeatures(h, s),
                                feature_manifest_sha256 |-> IdealFeatures(h, s)]]
    BY <1>3
  <2>2. QED
    BY <1>2, <2>1 DEF TrainingManifest, IdealTraining
<1>5. Content(Training, l) = TrainingContent(l)
  BY DEF Content, Training
<1>6. TrainingContent(l) = [rows |-> IdealRows(h), manifest |-> IdealTraining(h)]
  BY <1>4 DEF TrainingContent, IdealRows
<1>7. Ideal(h)[Training] = [rows |-> IdealRows(h), manifest |-> IdealTraining(h)]
  BY ONLY IdealFiles
<1>8. QED
  BY <1>5, <1>6, <1>7

\* What follows the training holds the training dataset of this revision.
LEMMA TrainingIsHeld ==
  ASSUME NEW q, NEW own, NEW i, NEW l, NEW files, NEW h, Publishing(q, own, i, l, files, h),
         q[i].d \in {Evaluation, Freeze, CatBoost, Advanced, Assessment}
  PROVE  /\ files[Training].manifest = IdealTraining(h)
         /\ l.held[Training].manifest = IdealTraining(h)
         /\ l.sums[Training] = IdealTraining(h)
<1>1. /\ Kept(q, i, Publish(Training), {})
      /\ Kept(q, i, Load(Training), Closing) /\ Kept(q, i, Hash(Training), Ending)
  BY DEF Publishing, Supplied, ResultSupplied
<1>2. files[Training] = Ideal(h)[Training]
  BY <1>1, OpIs DEF Publishing, Fresh, Knowing, Holding
<1>3. Training \in DOMAIN l.held /\ Training \in DOMAIN l.sums
  BY <1>1, OpIs DEF Publishing, Fresh, Knowing, Remembering
<1>4. /\ l.held[Training] = Ideal(h)[Training]
      /\ l.sums[Training] = Ideal(h)[Training].manifest
  BY <1>2, <1>3 DEF Publishing, Fresh, Knowing, Holding
<1>5. Ideal(h)[Training].manifest = IdealTraining(h)
  BY IdealIs
<1>6. QED
  BY <1>2, <1>4, <1>5

LEMMA ResultContents ==
  ASSUME NEW l
  PROVE  /\ Content(Evaluation, l) = EvaluationContent(l)
         /\ Content(Freeze, l) = FreezeContent(l)
         /\ Content(CatBoost, l) = CatBoostContent(l)
         /\ Content(Advanced, l) = AdvancedContent(l)
         /\ Content(Assessment, l) = AssessmentContent(l)
<1>1. Content(Evaluation, l) = EvaluationContent(l)
  BY DEF Content, Evaluation
<1>2. Content(Freeze, l) = FreezeContent(l)
  BY DEF Content, Freeze
<1>3. Content(CatBoost, l) = CatBoostContent(l)
  BY DEF Content, CatBoost
<1>4. Content(Advanced, l) = AdvancedContent(l)
  BY DEF Content, Advanced
<1>5. Content(Assessment, l) = AssessmentContent(l)
  BY DEF Content, Assessment
<1>6. QED
  BY <1>1, <1>2, <1>3, <1>4, <1>5

LEMMA FirstResultsPublish ==
  ASSUME NEW q, NEW own, NEW i, NEW l, NEW files, NEW h, Publishing(q, own, i, l, files, h),
         q[i].d \in {Evaluation, Freeze, CatBoost}
  PROVE  Content(q[i].d, l) = Ideal(h)[q[i].d]
<1>1. l.held[Training].manifest = IdealTraining(h) /\ l.sums[Training] = IdealTraining(h)
  BY TrainingIsHeld
<1>2. Predictions(l) = IdealRows(h)
  BY <1>1 DEF Predictions, IdealRows
<1>3. CASE q[i].d = Evaluation
  <2>1. EvaluationContent(l) = [rows |-> IdealRows(h), manifest |-> [training |-> IdealTraining(h)]]
    BY <1>1, <1>2 DEF EvaluationContent, EvaluationManifest
  <2>2. Ideal(h)[Evaluation] = [rows |-> IdealRows(h), manifest |-> [training |-> IdealTraining(h)]]
    BY ONLY IdealFiles
  <2>3. QED
    BY <1>3, <2>1, <2>2, ResultContents
<1>4. CASE q[i].d = Freeze
  <2>1. FreezeContent(l) = [rows |-> None, manifest |-> FreezeOf(IdealTraining(h))]
    BY <1>1 DEF FreezeContent, FreezeOf
  <2>2. Ideal(h)[Freeze] = [rows |-> None, manifest |-> FreezeOf(IdealTraining(h))]
    BY ONLY IdealFiles
  <2>3. QED
    BY <1>4, <2>1, <2>2, ResultContents
<1>5. CASE q[i].d = CatBoost
  <2>1. CatBoostContent(l) = [rows |-> IdealRows(h), manifest |-> IdealTuning(h)]
    BY <1>1, <1>2 DEF CatBoostContent, CatBoostManifest, IdealTuning
  <2>2. Ideal(h)[CatBoost] = [rows |-> IdealRows(h), manifest |-> IdealTuning(h)]
    BY ONLY IdealFiles
  <2>3. QED
    BY <1>5, <2>1, <2>2, ResultContents
<1>6. QED
  BY <1>3, <1>4, <1>5

LEMMA ClosingAreDatasets == Closing \subseteq Datasets /\ Ending \subseteq Datasets
BY SeasonsAreNaturals DEF Closing, Ending, Datasets

\* What was loaded or hashed since the last publication is held.
LEMMA KeptIsHeld ==
  ASSUME NEW q, NEW own, NEW i, NEW l, NEW files, NEW h, Fresh(q, own, i, l, files, h),
         NEW p, Kept(q, i, p, Datasets)
  PROVE  /\ p.op = "load" => p.d \in DOMAIN l.held /\ l.held[p.d] = files[p.d]
         /\ p.op = "hash" => p.d \in DOMAIN l.sums /\ l.sums[p.d] = files[p.d].manifest
<1>1. Kept(q, i, p, Closing) /\ Kept(q, i, p, Ending)
  BY KeptLess, ClosingAreDatasets
<1>2. /\ p.op = "load" => p.d \in DOMAIN l.held
      /\ p.op = "hash" => p.d \in DOMAIN l.sums
  BY <1>1 DEF Fresh, Knowing, Remembering
<1>3. QED
  BY <1>2 DEF Fresh, Knowing, Holding

\* A CatBoost evaluation of this training is the one of this revision.
LEMMA TuningIsIdeal ==
  ASSUME NEW files, NEW h, Shapes(files), files[CatBoost].manifest # None,
         files[CatBoost].rows = TrainingSha(files[CatBoost].manifest.training),
         files[CatBoost].manifest.training = IdealTraining(h)
  PROVE  files[CatBoost].manifest = IdealTuning(h) /\ files[CatBoost].rows = IdealRows(h)
         /\ files[CatBoost].manifest.test_freeze = FreezeOf(IdealTraining(h))
<1>1. files[CatBoost].manifest = IdealTuning(h)
  BY DEF Shapes, IdealTuning
<1>2. IdealTuning(h).test_freeze = FreezeOf(IdealTraining(h))
  BY DEF IdealTuning
<1>3. QED
  BY <1>1, <1>2 DEF IdealRows

LEMMA AdvancedPublishes ==
  ASSUME NEW q, NEW own, NEW i, NEW l, NEW files, NEW h,
         Publishing(q, own, i, l, files, h), q[i].d = Advanced
  PROVE  Content(Advanced, l) = Ideal(h)[Advanced]
<1>1. /\ files[Training].manifest = IdealTraining(h)
      /\ l.held[Training].manifest = IdealTraining(h)
  BY TrainingIsHeld
<1>2. /\ Kept(q, i, Load(CatBoost), Datasets)
      /\ Kept(q, i, Op("hash", CatBoost, "tuned_on_training"), Datasets)
  BY DEF Publishing, Supplied, ResultSupplied
<1>3. Fresh(q, own, i, l, files, h) /\ Shapes(files) /\ ReadBack(q, i, files)
  BY DEF Publishing, Fresh, Knowing
<1>4. /\ files[CatBoost].manifest # None
      /\ files[CatBoost].rows = TrainingSha(files[CatBoost].manifest.training)
  BY <1>2, <1>3, OpIs DEF ReadBack, Evaluations
<1>5. Sees("tuned_on_training", files)
  BY <1>2, <1>3, OpIs DEF ReadBack
<1>6. files[CatBoost].manifest.training = IdealTraining(h)
  BY <1>1, <1>5 DEF Sees
<1>7. /\ files[CatBoost].manifest = IdealTuning(h) /\ files[CatBoost].rows = IdealRows(h)
      /\ files[CatBoost].manifest.test_freeze = FreezeOf(IdealTraining(h))
  BY ONLY <1>3, <1>4, <1>6, TuningIsIdeal
<1>8. l.held[CatBoost] = files[CatBoost] /\ l.sums[CatBoost] = files[CatBoost].manifest
  BY <1>2, <1>3, KeptIsHeld, OpIs
<1>9. AdvancedManifest(l) = IdealAdvanced(h)
  BY <1>1, <1>7, <1>8 DEF AdvancedManifest, IdealAdvanced
<1>10. Predictions(l) = IdealRows(h)
  BY <1>1 DEF Predictions, IdealRows
<1>11. AdvancedContent(l) = [rows |-> IdealRows(h), manifest |-> IdealAdvanced(h)]
  BY <1>9, <1>10 DEF AdvancedContent
<1>12. Ideal(h)[Advanced] = [rows |-> IdealRows(h), manifest |-> IdealAdvanced(h)]
  BY ONLY IdealFiles
<1>13. QED
  BY <1>11, <1>12, ResultContents

LEMMA AssessmentPublishes ==
  ASSUME NEW q, NEW own, NEW i, NEW l, NEW files, NEW h,
         Publishing(q, own, i, l, files, h), q[i].d = Assessment
  PROVE  Content(Assessment, l) = Ideal(h)[Assessment]
<1>1. /\ files[Training].manifest = IdealTraining(h)
      /\ l.held[Training].manifest = IdealTraining(h)
  BY TrainingIsHeld
<1>2. /\ Kept(q, i, Load(Evaluation), Datasets) /\ Kept(q, i, Load(CatBoost), Datasets)
      /\ Kept(q, i, Op("load", Advanced, "one_training"), Datasets)
      /\ Kept(q, i, Op("hash", Freeze, "freeze_of_evaluations"), Datasets)
      /\ Kept(q, i, Op("hash", CatBoost, "tuning_of_advanced"), Datasets)
      /\ Kept(q, i, Hash(Evaluation), Datasets) /\ Kept(q, i, Hash(Advanced), Datasets)
  BY DEF Publishing, Supplied, ResultSupplied
<1>3. Fresh(q, own, i, l, files, h) /\ Shapes(files) /\ ReadBack(q, i, files)
  BY DEF Publishing, Fresh, Knowing
<1>4. \A d \in Evaluations : /\ files[d].manifest # None
                             /\ files[d].rows = TrainingSha(files[d].manifest.training)
  BY <1>2, <1>3, OpIs DEF ReadBack, Evaluations
<1>5. /\ Sees("one_training", files) /\ Sees("freeze_of_evaluations", files)
      /\ Sees("tuning_of_advanced", files)
  BY <1>2, <1>3, OpIs DEF ReadBack
<1>6. \A d \in Evaluations : files[d].manifest.training = IdealTraining(h)
  BY <1>1, <1>5 DEF Sees
<1>7. \A d \in Evaluations : files[d].rows = IdealRows(h)
  BY <1>4, <1>6 DEF IdealRows
<1>8. /\ files[CatBoost].manifest = IdealTuning(h)
      /\ files[CatBoost].manifest.test_freeze = FreezeOf(IdealTraining(h))
  <2>1. CatBoost \in Evaluations
    BY DEF Evaluations
  <2>2. /\ Shapes(files) /\ files[CatBoost].manifest # None
        /\ files[CatBoost].rows = TrainingSha(files[CatBoost].manifest.training)
        /\ files[CatBoost].manifest.training = IdealTraining(h)
    BY <1>3, <1>4, <1>6, <2>1
  <2>3. QED
    BY ONLY <2>2, TuningIsIdeal
<1>9. files[Freeze].manifest = FreezeOf(IdealTraining(h))
  BY <1>5, <1>8 DEF Sees
<1>10. files[Evaluation].manifest = [training |-> IdealTraining(h)]
  <2>1. Evaluation \in Evaluations
    BY DEF Evaluations
  <2>2. files[Evaluation].manifest # None /\ files[Evaluation].manifest.training = IdealTraining(h)
    BY <1>4, <1>6, <2>1
  <2>3. QED
    BY <1>3, <2>2 DEF Shapes
<1>11. files[Advanced].manifest = IdealAdvanced(h)
  <2>1. Advanced \in Evaluations /\ CatBoost \in Evaluations
    BY DEF Evaluations
  <2>2. /\ files[Advanced].manifest # None
        /\ files[Advanced].manifest.training = IdealTraining(h)
        /\ files[CatBoost].rows = IdealRows(h)
    BY <1>4, <1>6, <1>7, <2>1
  <2>3. /\ files[Advanced].manifest.tuning_manifest_sha256 = IdealTuning(h)
        /\ files[Advanced].manifest.selected_predictions_sha256 = IdealRows(h)
        /\ files[Advanced].manifest.test_freeze_manifest_sha256 = FreezeOf(IdealTraining(h))
    BY <1>5, <1>8, <1>9, <2>2 DEF Sees
  <2>4. QED
    BY <1>3, <2>2, <2>3 DEF Shapes, IdealAdvanced
<1>12. \A d \in Evaluations : l.held[d] = files[d]
  <2>1. \A p : Kept(q, i, p, Datasets) /\ p.op = "load" => l.held[p.d] = files[p.d]
    BY <1>3, KeptIsHeld
  <2>2. /\ l.held[Evaluation] = files[Evaluation] /\ l.held[CatBoost] = files[CatBoost]
        /\ l.held[Advanced] = files[Advanced]
    BY <1>2, <2>1, OpIs
  <2>3. QED
    BY <2>2 DEF Evaluations
<1>13. /\ \A d \in Evaluations : l.sums[d] = files[d].manifest
       /\ l.sums[Freeze] = files[Freeze].manifest
  BY <1>2, <1>3, KeptIsHeld, OpIs DEF Evaluations
<1>14. {l.held[d].manifest.training : d \in {Evaluation, CatBoost, Advanced}} = {IdealTraining(h)}
  BY <1>6, <1>12 DEF Evaluations
<1>15. [d \in {Evaluation, CatBoost, Advanced} |-> l.held[d].rows]
         = [d \in {Evaluation, CatBoost, Advanced} |-> IdealRows(h)]
  BY <1>7, <1>12 DEF Evaluations
<1>16. [d \in {Evaluation, CatBoost, Advanced} |-> l.sums[d]] = IdealManifests(h)
  <2>1. /\ l.sums[Evaluation] = [training |-> IdealTraining(h)]
        /\ l.sums[CatBoost] = IdealTuning(h) /\ l.sums[Advanced] = IdealAdvanced(h)
    BY <1>8, <1>10, <1>11, <1>13 DEF Evaluations
  <2>2. \A d \in {Evaluation, CatBoost, Advanced} :
          l.sums[d] = CASE d = Evaluation -> [training |-> IdealTraining(h)]
                        [] d = CatBoost -> IdealTuning(h) [] d = Advanced -> IdealAdvanced(h)
    BY <2>1, OthersDiffer
  <2>3. QED
    BY <2>2 DEF IdealManifests
<1>17. AssessmentManifest(l) = IdealAssessment(h)
  BY <1>1, <1>9, <1>13, <1>14, <1>15, <1>16 DEF AssessmentManifest, IdealAssessment
<1>18. AssessmentContent(l) = [rows |-> None, manifest |-> IdealAssessment(h)]
  BY <1>17 DEF AssessmentContent
<1>19. Ideal(h)[Assessment] = [rows |-> None, manifest |-> IdealAssessment(h)]
  BY ONLY IdealFiles
<1>20. QED
  BY <1>18, <1>19, ResultContents

\* What a command that nothing overlaps publishes is what its revision determines.
LEMMA PublishesIdeal ==
  ASSUME NEW q, NEW own, NEW i, NEW l, NEW files, NEW h, Publishing(q, own, i, l, files, h),
         q[i].d \in Datasets
  PROVE  Content(q[i].d, l) = Ideal(h)[q[i].d]
<1>1. CASE \E s \in Seasons : q[i].d = Canonical(s)
  BY <1>1, CanonicalPublishes
<1>2. CASE \E s \in Seasons : q[i].d = Features(s)
  BY <1>2, FeaturesPublish
<1>3. CASE q[i].d = Training
  BY <1>3, TrainingPublishes
<1>4. CASE q[i].d \in {Evaluation, Freeze, CatBoost}
  BY <1>4, FirstResultsPublish
<1>5. CASE q[i].d = Advanced
  BY <1>5, AdvancedPublishes
<1>6. CASE q[i].d = Assessment
  BY <1>6, AssessmentPublishes
<1>7. QED
  BY <1>1, <1>2, <1>3, <1>4, <1>5, <1>6 DEF Datasets

-----------------------------------------------------------------------------
(* The steps of a command that nothing overlaps.                           *)

\* A command at operation i leads the files h to what its revision determines.
Repairing(q, own, i, phase, l, files, h) ==
    LET o == q[i]
    IN  /\ Holding(q, own, i, l, files, h) /\ Remembering(q, i, l, h)
        /\ (phase = "begin" \/ o.op # "publish") => ReadBack(q, i, files)
        /\ (phase = "begin" /\ i > 1 /\ q[i - 1].op = "entry") => l.entry = h[q[i - 1].d[2]]
        /\ (phase # "begin" /\ o.op = "publish") => Content(o.d, l) = Ideal(h)[o.d]
        /\ (phase \in {"compare", "manifest"} /\ o.op = "publish") =>
              files[o.d].rows = Ideal(h)[o.d].rows
        /\ (phase # "begin" /\ o.op = "load") =>
              l.part = IF o.d[1] = "canonical" THEN files[o.d].rows ELSE files[o.d].manifest
        /\ (phase # "begin" /\ o.op = "entry") => l.entry = h[o.d[2]]

LEMMA FreshRepairs ==
  ASSUME NEW q, NEW own, NEW i, NEW l, NEW files, NEW h
  PROVE  Fresh(q, own, i, l, files, h) <=> Repairing(q, own, i, "begin", l, files, h)
BY DEF Fresh, Knowing, Repairing

LEMMA RepairingKnows ==
  ASSUME NEW q, NEW own, NEW i, NEW phase, NEW l, NEW files, NEW h,
         Repairing(q, own, i, phase, l, files, h), q[i].op # "publish"
  PROVE  Knowing(q, own, i, l, files, h)
BY DEF Knowing, Repairing

\* The locals that count in the middle of an operation.
LEMMA KnowingSame ==
  ASSUME NEW q, NEW own, NEW i, NEW l, NEW k, NEW files, NEW h, SameReads(l, k),
         k.historical_sum = l.historical_sum
  PROVE  /\ Holding(q, own, i, l, files, h) => Holding(q, own, i, k, files, h)
         /\ Remembering(q, i, l, h) => Remembering(q, i, k, h)
<1>1. /\ k.held = l.held /\ k.sums = l.sums /\ k.inputs = l.inputs /\ k.listing = l.listing
      /\ k.historical_sum = l.historical_sum
  BY DEF SameReads
<1>2. Holding(q, own, i, l, files, h) => Holding(q, own, i, k, files, h)
  BY <1>1 DEF Holding
<1>3. Remembering(q, i, l, h) => Remembering(q, i, k, h)
  BY <1>1 DEF Remembering
<1>4. QED
  BY <1>2, <1>3

\* A file that is written is led to what the revision determines.
LEMMA HoldingWritten ==
  ASSUME NEW q, NEW own, NEW i, NEW l, NEW files, NEW new, NEW h, NEW d \in own,
         Holding(q, own, i, l, files, h),
         files[d] = Ideal(h)[d] => new[d] = files[d],
         \A x \in Datasets : x # d => new[x] = files[x]
  PROVE  Holding(q, own, i, l, new, h)
<1>1. \A x \in Datasets : files[x] = Ideal(h)[x] => new[x] = files[x]
  OBVIOUS
<1>2. ASSUME NEW p, Kept(q, i, p, {}), p.op = "publish"
      PROVE  p.d \in Datasets /\ new[p.d] = Ideal(h)[p.d]
  BY <1>1, <1>2 DEF Holding
<1>3. ASSUME NEW x \in DOMAIN l.held
      PROVE  /\ x \in Datasets /\ l.held[x] = new[x]
             /\ x \in own => new[x] = Ideal(h)[x]
  BY <1>1 DEF Holding
<1>4. ASSUME NEW x \in DOMAIN l.sums
      PROVE  /\ x \in Datasets /\ l.sums[x] = new[x].manifest
             /\ x \in own => new[x] = Ideal(h)[x]
  BY <1>1 DEF Holding
<1>5. QED
  BY <1>2, <1>3, <1>4 DEF Holding

Repairs(j) ==
    Repairing(Steps(job[j].command), Own(job[j].command), job[j].pc, job[j].phase, job[j].l,
              disk, historical)

\* A step is refused, completes the command with all it publishes in place, or goes on.
Progress(j) ==
    LET q == Steps(job[j].command)
    IN  \/ Ended(j)
        \/ /\ job'[j] = Idle("done", job[j].command)
           /\ \A x \in 1..Len(q) : q[x].op = "publish" =>
                 disk'[q[x].d] = Ideal(historical)[q[x].d]
        \/ \E i, phase, l :
              /\ job'[j] = [status |-> job[j].status, command |-> job[j].command, pc |-> i,
                            phase |-> phase, l |-> l]
              /\ Repairing(q, Own(job[j].command), i, phase, l, disk', historical)

LEMMA StayedProgress ==
  ASSUME NEW j \in Jobs, NEW phase, NEW k, Stayed(j, phase, k),
         Repairing(Steps(job[j].command), Own(job[j].command), job[j].pc, phase, k,
                   disk', historical)
  PROVE  Progress(j)
BY DEF Progress, Stayed

LEMMA CompletedProgress ==
  ASSUME NEW j \in Jobs, job[j].pc \in Nat, NEW k, Completed(j, k),
         Fresh(Steps(job[j].command), Own(job[j].command), job[j].pc + 1, k, disk', historical)
  PROVE  Progress(j)
<1>1. PICK q, i, new : q = Steps(job[j].command) /\ i = job[j].pc /\ new = disk'
  OBVIOUS
<1>2. Fresh(q, Own(job[j].command), i + 1, k, new, historical) /\ i \in Nat
  BY <1>1
<1>3. CASE i = Len(q) /\ job'[j] = Idle("done", job[j].command)
  <2>1. ASSUME NEW x \in 1..Len(q), q[x].op = "publish"
        PROVE  new[q[x].d] = Ideal(historical)[q[x].d]
    <3>1. x \in 1..((i + 1) - 1)
      BY <1>2, <1>3
    <3>2. Kept(q, i + 1, q[x], {})
      BY <3>1 DEF Kept
    <3>3. QED
      BY <1>2, <2>1, <3>2 DEF Fresh, Knowing, Holding
  <2>2. QED
    BY <1>1, <1>3, <2>1 DEF Progress
<1>4. CASE Moved(j, k)
  <2>1. Repairing(q, Own(job[j].command), i + 1, "begin", k, new, historical)
    BY <1>2, FreshRepairs
  <2>2. QED
    BY <1>1, <1>4, <2>1 DEF Progress, Moved
<1>5. QED
  BY <1>1, <1>3, <1>4 DEF Completed

\* What is known of the operation a job is at.
LEMMA AtHand ==
  ASSUME NEW j \in Jobs, OnItsWay(j), Running(j),
         NEW q, q = Steps(job[j].command), NEW i, i = job[j].pc, NEW o, o = Current(j)
  PROVE  /\ job[j].command \in AllCommands /\ i \in Nat \ {0} /\ i \in 1..Len(q)
         /\ o = q[i] /\ o.d \in Datasets
         /\ Supplied(q, i) /\ Checked(q, i)
         /\ o.op \in {"load", "hash"} /\ o.d \in Own(job[j].command) => PublishedBefore(q, i, o.d)
         /\ o.op = "publish" => o.d \in Own(job[j].command)
<1>1. PICK c : c = job[j].command
  OBVIOUS
<1>2. c \in AllCommands /\ i \in 1..Len(Steps(c)) /\ q = Steps(c) /\ o = q[i]
  BY <1>1 DEF OnItsWay, Current
<1>3. i \in Nat \ {0}
  BY <1>2
<1>4. Supplied(q, i) /\ Checked(q, i)
  BY <1>2, CommandSupplied, CommandChecked
<1>5. o.d \in Datasets
  <2>1. Steps(c)[i] \in Operations
    BY <1>2, CommandLayout DEF Placed
  <2>2. QED
    BY <1>2, <2>1 DEF Operations
<1>6. o.op \in {"load", "hash"} /\ o.d \in Own(c) => PublishedBefore(q, i, o.d)
  BY <1>2, OwnIsPublished
<1>7. o.op = "publish" => o.d \in Own(c)
  BY <1>2, <1>5 DEF Own
<1>8. QED
  BY <1>1, <1>2, <1>3, <1>4, <1>5, <1>6, <1>7

\* An operation that publishes nothing is complete.
LEMMA TookProgress ==
  ASSUME NEW j \in Jobs, OnItsWay(j), Running(j), Repairs(j), Current(j).op # "publish",
         disk' = disk, NEW k, Completed(j, k), Took(Current(j), job[j].l, k, disk, historical)
  PROVE  Progress(j)
<1>1. PICK q, i, o, l, own : /\ q = Steps(job[j].command) /\ i = job[j].pc /\ o = Current(j)
                             /\ l = job[j].l /\ own = Own(job[j].command)
  OBVIOUS
<1>2. /\ i \in Nat \ {0} /\ o = q[i] /\ o.d \in Datasets /\ Checked(q, i)
      /\ o.op \in {"load", "hash"} /\ o.d \in own => PublishedBefore(q, i, o.d)
  BY <1>1, AtHand
<1>3. Repairing(q, own, i, job[j].phase, l, disk, historical)
  BY <1>1 DEF Repairs
<1>4. Knowing(q, own, i, l, disk, historical)
  BY <1>1, <1>2, <1>3, RepairingKnows
<1>5. Took(o, l, k, disk, historical) /\ o.op # "publish"
  BY <1>1
<1>6. Fresh(q, own, i + 1, k, disk, historical)
  BY ONLY <1>2, <1>4, <1>5, TookFresh
<1>7. QED
  BY <1>1, <1>2, <1>6, CompletedProgress

\* A phase of an operation that publishes nothing.
LEMMA WaitsProgress ==
  ASSUME NEW j \in Jobs, OnItsWay(j), Running(j), Repairs(j), Current(j).op # "publish",
         disk' = disk, NEW phase, phase # "begin", NEW k, Stayed(j, phase, k),
         SameReads(job[j].l, k), k.historical_sum = job[j].l.historical_sum,
         Current(j).op = "load" =>
            k.part = IF Current(j).d[1] = "canonical" THEN disk[Current(j).d].rows
                     ELSE disk[Current(j).d].manifest,
         Current(j).op = "entry" => k.entry = historical[Current(j).d[2]]
  PROVE  Progress(j)
<1>1. PICK q, i, o, l, own : /\ q = Steps(job[j].command) /\ i = job[j].pc /\ o = Current(j)
                             /\ l = job[j].l /\ own = Own(job[j].command)
  OBVIOUS
<1>2. o = q[i]
  BY <1>1 DEF Current
<1>3. Repairing(q, own, i, job[j].phase, l, disk, historical)
  BY <1>1 DEF Repairs
<1>4. Knowing(q, own, i, l, disk, historical)
  BY <1>1, <1>2, <1>3, RepairingKnows
<1>5. Holding(q, own, i, k, disk, historical) /\ Remembering(q, i, k, historical)
  BY <1>1, <1>4, KnowingSame DEF Knowing
<1>6. Repairing(q, own, i, phase, k, disk, historical)
  BY <1>1, <1>2, <1>4, <1>5 DEF Repairing, Knowing
<1>7. QED
  BY <1>1, <1>6, StayedProgress

-----------------------------------------------------------------------------
(* The effect of every step, by the operation it completes.                *)

\* One field of the locals changes and the others do not.
LEMMA OneField ==
  ASSUME NEW l, LocalsRecord(l), NEW v, NEW k
  PROVE  /\ k = [l EXCEPT !.inputs = v] =>
              /\ k.inputs = v /\ k.listing = l.listing /\ k.historical_sum = l.historical_sum
              /\ k.held = l.held /\ k.sums = l.sums
         /\ k = [l EXCEPT !.listing = v] =>
              /\ k.listing = v /\ k.inputs = l.inputs /\ k.historical_sum = l.historical_sum
              /\ k.held = l.held /\ k.sums = l.sums
         /\ k = [l EXCEPT !.historical_sum = v] =>
              /\ k.historical_sum = v /\ k.inputs = l.inputs /\ k.listing = l.listing
              /\ k.held = l.held /\ k.sums = l.sums
         /\ k = [l EXCEPT !.entry = v] =>
              /\ k.entry = v /\ SameReads(l, k) /\ k.historical_sum = l.historical_sum
         /\ k = [l EXCEPT !.part = v] =>
              /\ k.part = v /\ SameReads(l, k) /\ k.historical_sum = l.historical_sum
BY DEF LocalsRecord, SameReads

LEMMA ReadProgress ==
  ASSUME JobShapes, NEW j \in Jobs, OnItsWay(j), Running(j), Repairs(j), disk' = disk,
         ReadEffect(j)
  PROVE  Progress(j)
<1>1. PICK o, l, h : o = Current(j) /\ l = job[j].l /\ h = historical
  OBVIOUS
<1>2. LocalsRecord(l)
  BY <1>1, OwnLocals
<1>3. ASSUME o.op = "inputs", Completed(j, [l EXCEPT !.inputs = h]) PROVE Progress(j)
  <2>1. PICK k : k = [l EXCEPT !.inputs = h]
    OBVIOUS
  <2>2. /\ k.inputs = h /\ k.listing = l.listing /\ k.historical_sum = l.historical_sum
        /\ k.held = l.held /\ k.sums = l.sums
    BY <1>2, <2>1, OneField
  <2>3. Took(o, l, k, disk, h)
    BY <1>3, <2>2 DEF Took
  <2>4. QED
    BY <1>1, <1>3, <2>1, <2>3, TookProgress
<1>4. ASSUME o.op = "listing", Completed(j, [l EXCEPT !.listing = h]) PROVE Progress(j)
  <2>1. PICK k : k = [l EXCEPT !.listing = h]
    OBVIOUS
  <2>2. /\ k.listing = h /\ k.inputs = l.inputs /\ k.historical_sum = l.historical_sum
        /\ k.held = l.held /\ k.sums = l.sums
    BY <1>2, <2>1, OneField
  <2>3. Took(o, l, k, disk, h)
    BY <1>4, <2>2 DEF Took
  <2>4. QED
    BY <1>1, <1>4, <2>1, <2>3, TookProgress
<1>5. ASSUME o.op = "checksum", Completed(j, [l EXCEPT !.historical_sum = h]) PROVE Progress(j)
  <2>1. PICK k : k = [l EXCEPT !.historical_sum = h]
    OBVIOUS
  <2>2. /\ k.historical_sum = h /\ k.inputs = l.inputs /\ k.listing = l.listing
        /\ k.held = l.held /\ k.sums = l.sums
    BY <1>2, <2>1, OneField
  <2>3. Took(o, l, k, disk, h)
    BY <1>5, <2>2 DEF Took
  <2>4. QED
    BY <1>1, <1>5, <2>1, <2>3, TookProgress
<1>6. ASSUME o.op = "entry", Stayed(j, "parse", [l EXCEPT !.entry = h[o.d[2]]]) PROVE Progress(j)
  <2>1. PICK k : k = [l EXCEPT !.entry = h[o.d[2]]]
    OBVIOUS
  <2>2. k.entry = h[o.d[2]] /\ SameReads(l, k) /\ k.historical_sum = l.historical_sum
    BY <1>2, <2>1, OneField
  <2>3. QED
    BY <1>1, <1>6, <2>1, <2>2, WaitsProgress
<1>7. ASSUME o.op = "entry", job[j].phase = "parse", Completed(j, l) PROVE Progress(j)
  <2>1. l.entry = h[o.d[2]]
    BY <1>1, <1>7 DEF Repairs, Repairing, Current
  <2>2. Took(o, l, l, disk, h)
    BY <1>7, <2>1 DEF Took
  <2>3. QED
    BY <1>1, <1>7, <2>2, TookProgress
<1>8. QED
  BY <1>1, <1>3, <1>4, <1>5, <1>6, <1>7 DEF ReadEffect, At

LEMMA LoadedAs ==
  ASSUME NEW l, LocalsRecord(l), NEW d, NEW r, NEW m, NEW k, k = Loaded(l, d, r, m)
  PROVE  /\ k.inputs = l.inputs /\ k.listing = l.listing /\ k.sums = l.sums
         /\ k.historical_sum = l.historical_sum
         /\ DOMAIN k.held = DOMAIN l.held \cup {d}
         /\ k.held[d] = [rows |-> r, manifest |-> m]
         /\ \A x \in DOMAIN l.held : x # d => k.held[x] = l.held[x]
<1> DEFINE h == Put(l.held, d, [rows |-> r, manifest |-> m])
<1>1. k = [[l EXCEPT !.part = None] EXCEPT !.held = h]
  BY DEF Loaded
<1>2. /\ DOMAIN h = DOMAIN l.held \cup {d} /\ h[d] = [rows |-> r, manifest |-> m]
      /\ \A x \in DOMAIN l.held : x # d => h[x] = l.held[x]
  BY DEF Put
<1> HIDE DEF h
<1>3. /\ k.inputs = l.inputs /\ k.listing = l.listing /\ k.sums = l.sums /\ k.held = h
      /\ k.historical_sum = l.historical_sum
  BY <1>1 DEF LocalsRecord
<1>4. QED
  BY <1>2, <1>3

LEMMA HashedAs ==
  ASSUME NEW l, LocalsRecord(l), NEW d, NEW m, NEW k, k = Hashed(l, d, m)
  PROVE  /\ k.inputs = l.inputs /\ k.listing = l.listing /\ k.held = l.held
         /\ k.historical_sum = l.historical_sum
         /\ DOMAIN k.sums = DOMAIN l.sums \cup {d} /\ k.sums[d] = m
         /\ \A x \in DOMAIN l.sums : x # d => k.sums[x] = l.sums[x]
<1> DEFINE h == Put(l.sums, d, m)
<1>1. k = [l EXCEPT !.sums = h]
  BY DEF Hashed
<1>2. /\ DOMAIN h = DOMAIN l.sums \cup {d} /\ h[d] = m
      /\ \A x \in DOMAIN l.sums : x # d => h[x] = l.sums[x]
  BY DEF Put
<1> HIDE DEF h
<1>3. /\ k.inputs = l.inputs /\ k.listing = l.listing /\ k.held = l.held /\ k.sums = h
      /\ k.historical_sum = l.historical_sum
  BY <1>1 DEF LocalsRecord
<1>4. QED
  BY <1>2, <1>3

\* What the loaders of the evaluations compare.
LEMMA EvaluationLoad ==
  ASSUME NEW d \in Evaluations, NEW r, NEW m, NEW l, Loads(d, r, m, l)
  PROVE  r = TrainingSha(m.training)
<1>1. /\ Evaluation[1] = "evaluation" /\ CatBoost[1] = "catboost" /\ Advanced[1] = "advanced"
      /\ ~SingleFile(Evaluation) /\ ~SingleFile(CatBoost) /\ ~SingleFile(Advanced)
  BY OthersDiffer DEF Evaluation, CatBoost, Advanced, SingleFile
<1>2. CASE d = Evaluation
  BY <1>1, <1>2 DEF Loads, EvaluationLoads
<1>3. CASE d = CatBoost
  BY <1>1, <1>3 DEF Loads, CatBoostLoads
<1>4. CASE d = Advanced
  BY <1>1, <1>4 DEF Loads, AdvancedLoads
<1>5. QED
  BY <1>2, <1>3, <1>4 DEF Evaluations

LEMMA LoadProgress ==
  ASSUME JobShapes, DiskShape, NEW j \in Jobs, OnItsWay(j), Running(j), Repairs(j), disk' = disk,
         LoadEffect(j)
  PROVE  Progress(j)
<1>1. PICK o, l, h : o = Current(j) /\ l = job[j].l /\ h = historical
  OBVIOUS
<1>2. LocalsRecord(l)
  BY <1>1, OwnLocals
<1>3. o.d \in Datasets
  BY <1>1, AtHand
<1>4. disk[o.d] = [rows |-> disk[o.d].rows, manifest |-> disk[o.d].manifest]
  BY <1>3 DEF DiskShape
<1>5. ASSUME o.op = "load", NEW part, Stayed(j, "second", [l EXCEPT !.part = part]),
             part = IF o.d[1] = "canonical" THEN disk[o.d].rows ELSE disk[o.d].manifest
      PROVE  Progress(j)
  <2>1. PICK k : k = [l EXCEPT !.part = part]
    OBVIOUS
  <2>2. k.part = part /\ SameReads(l, k) /\ k.historical_sum = l.historical_sum
    BY <1>2, <2>1, OneField
  <2>3. QED
    BY <1>1, <1>5, <2>1, <2>2, WaitsProgress
<1>6. ASSUME o.op = "load", job[j].phase = "second", NEW r, NEW m, Loads(o.d, r, m, l), m # None,
             r = IF o.d[1] = "canonical" THEN l.part ELSE disk[o.d].rows,
             m = IF o.d[1] = "canonical" THEN disk[o.d].manifest ELSE l.part,
             Passes(o.check, Loaded(l, o.d, r, m)), Completed(j, Loaded(l, o.d, r, m))
      PROVE  Progress(j)
  <2>1. l.part = IF o.d[1] = "canonical" THEN disk[o.d].rows ELSE disk[o.d].manifest
    BY <1>1, <1>6 DEF Repairs, Repairing, Current
  <2>2. r = disk[o.d].rows /\ m = disk[o.d].manifest
    BY <1>6, <2>1
  <2>3. PICK k : k = Loaded(l, o.d, r, m)
    OBVIOUS
  <2>4. /\ k.inputs = l.inputs /\ k.listing = l.listing /\ k.sums = l.sums
        /\ k.historical_sum = l.historical_sum
        /\ DOMAIN k.held = DOMAIN l.held \cup {o.d}
        /\ k.held[o.d] = [rows |-> r, manifest |-> m]
        /\ \A x \in DOMAIN l.held : x # o.d => k.held[x] = l.held[x]
    BY <1>2, <2>3, LoadedAs
  <2>5. k.held[o.d] = disk[o.d]
    BY <1>4, <2>2, <2>4
  <2>6. o.d \in Evaluations => /\ disk[o.d].manifest # None
                               /\ disk[o.d].rows = TrainingSha(disk[o.d].manifest.training)
    BY <1>6, <2>2, EvaluationLoad
  <2>7. Took(o, l, k, disk, h)
    BY <1>6, <2>3, <2>4, <2>5, <2>6 DEF Took
  <2>8. QED
    BY <1>1, <1>6, <2>3, <2>7, TookProgress
<1>7. ASSUME o.op = "hash", Passes(o.check, Hashed(l, o.d, disk[o.d].manifest)),
             Completed(j, Hashed(l, o.d, disk[o.d].manifest))
      PROVE  Progress(j)
  <2>1. PICK k : k = Hashed(l, o.d, disk[o.d].manifest)
    OBVIOUS
  <2>2. /\ k.inputs = l.inputs /\ k.listing = l.listing /\ k.held = l.held
        /\ k.historical_sum = l.historical_sum
        /\ DOMAIN k.sums = DOMAIN l.sums \cup {o.d} /\ k.sums[o.d] = disk[o.d].manifest
        /\ \A x \in DOMAIN l.sums : x # o.d => k.sums[x] = l.sums[x]
    BY <1>2, <2>1, HashedAs
  <2>3. Took(o, l, k, disk, h)
    BY <1>7, <2>1, <2>2 DEF Took
  <2>4. QED
    BY <1>1, <1>7, <2>1, <2>3, TookProgress
<1>8. QED
  BY <1>1, <1>5, <1>6, <1>7 DEF LoadEffect, At

\* Downloads and the artifact store, which no property of the datasets is about.
LEMMA OtherProgress ==
  ASSUME NEW j \in Jobs, OnItsWay(j), Running(j), Repairs(j), disk' = disk,
         FetchStays(j) \/ StoreStays(j) \/ LinkEffect(j) \/ ComponentEffect(j)
  PROVE  Progress(j)
<1>1. PICK o, l : o = Current(j) /\ l = job[j].l
  OBVIOUS
<1>2. ASSUME o.op \in {"fetch", "store"}, Completed(j, l) PROVE Progress(j)
  <2>1. Took(o, l, l, disk, historical)
    BY <1>2 DEF Took
  <2>2. QED
    BY <1>1, <1>2, <2>1, TookProgress
<1>3. ASSUME o.op \in {"fetch", "store"}, NEW phase, phase # "begin", Stayed(j, phase, l)
      PROVE  Progress(j)
  <2>1. SameReads(l, l)
    BY DEF SameReads
  <2>2. QED
    BY <1>1, <1>3, <2>1, WaitsProgress
<1>4. \A i \in 1..3 : Files[i] # "begin" /\ Temporary[i] # "begin"
  <2>1. \A i \in 1..3 : i = 1 \/ i = 2 \/ i = 3
    OBVIOUS
  <2>2. QED
    BY <2>1 DEF Files, Temporary
<1>5. CASE FetchStays(j)
  BY <1>1, <1>2, <1>3, <1>5 DEF FetchStays, At
<1>6. CASE StoreStays(j)
  <2>1. o.op = "store"
    BY <1>1, <1>6 DEF StoreStays, At
  <2>2. \/ Completed(j, l)
        \/ \E phase : phase # "begin" /\ Stayed(j, phase, l)
    BY <1>1, <1>4, <1>6 DEF StoreStays
  <2>3. QED
    BY <1>2, <1>3, <2>1, <2>2
<1>7. CASE LinkEffect(j)
  BY <1>1, <1>2, <1>7 DEF LinkEffect, At
<1>8. CASE ComponentEffect(j)
  <2>1. PICK i \in 1..3 : At(j, "store", Temporary[i])
                          /\ Stayed(j, IF i = 3 THEN "reload" ELSE Files[i + 1], l)
    BY <1>1, <1>8 DEF ComponentEffect
  <2>2. i # 3 => i + 1 \in 1..3
    OBVIOUS
  <2>3. (IF i = 3 THEN "reload" ELSE Files[i + 1]) # "begin"
    BY <1>4, <2>2
  <2>4. o.op = "store"
    BY <1>1, <2>1 DEF At
  <2>5. QED
    BY <1>3, <2>1, <2>3, <2>4
<1>9. QED
  BY <1>5, <1>6, <1>7, <1>8

-----------------------------------------------------------------------------
(* Publications.                                                           *)

LEMMA OneFile ==
  ASSUME NEW files, DOMAIN files = Datasets, NEW d \in Datasets, NEW r, NEW m,
         files[d] = [rows |-> r, manifest |-> m], NEW v, NEW new
  PROVE  /\ new = [files EXCEPT ![d].rows = v] => new[d] = [rows |-> v, manifest |-> m]
         /\ new = [files EXCEPT ![d].manifest = v] => new[d] = [rows |-> r, manifest |-> v]
         /\ new = [files EXCEPT ![d].rows = v] \/ new = [files EXCEPT ![d].manifest = v] =>
               \A x \in Datasets : x # d => new[x] = files[x]
<1>1. ASSUME new = [files EXCEPT ![d].rows = v]
      PROVE  new[d] = [rows |-> v, manifest |-> m]
  <2>1. new[d] = [files[d] EXCEPT !.rows = v]
    BY <1>1
  <2>2. QED
    BY <2>1
<1>2. ASSUME new = [files EXCEPT ![d].manifest = v]
      PROVE  new[d] = [rows |-> r, manifest |-> v]
  <2>1. new[d] = [files[d] EXCEPT !.manifest = v]
    BY <1>2
  <2>2. QED
    BY <2>1
<1>3. ASSUME new = [files EXCEPT ![d].rows = v] \/ new = [files EXCEPT ![d].manifest = v]
      PROVE  \A x \in Datasets : x # d => new[x] = files[x]
  BY <1>3
<1>4. QED
  BY <1>1, <1>2, <1>3

LEMMA PublishProgress ==
  ASSUME JobShapes, DiskShape, NEW j \in Jobs, OnItsWay(j), Running(j), Repairs(j), Shapes(disk),
         \/ PublishStays(j) /\ disk' = disk
         \/ RowsEffect(j)
         \/ ManifestEffect(j)
  PROVE  Progress(j)
<1>1. PICK q, i, o, l, own, h : /\ q = Steps(job[j].command) /\ i = job[j].pc /\ o = Current(j)
                                /\ l = job[j].l /\ own = Own(job[j].command) /\ h = historical
  OBVIOUS
<1>2. LocalsRecord(l)
  BY <1>1, OwnLocals
<1>3. /\ i \in Nat \ {0} /\ o = q[i] /\ o.d \in Datasets /\ Supplied(q, i)
      /\ o.op = "publish" => o.d \in own
  BY <1>1, AtHand
<1>4. Repairing(q, own, i, job[j].phase, l, disk, h)
  BY <1>1 DEF Repairs
<1>5. o.op = "publish"
  BY <1>1 DEF PublishStays, RowsEffect, ManifestEffect, At
<1>6. Content(o.d, l) = Ideal(h)[o.d]
  <2>1. CASE job[j].phase = "begin"
    <3>1. Fresh(q, own, i, l, disk, h)
      BY <1>4, <2>1, FreshRepairs
    <3>2. Publishing(q, own, i, l, disk, h)
      BY <1>3, <1>5, <3>1 DEF Publishing
    <3>3. QED
      BY <1>3, <3>2, PublishesIdeal
  <2>2. CASE job[j].phase # "begin"
    BY <1>3, <1>4, <1>5, <2>2 DEF Repairing
  <2>3. QED
    BY <2>1, <2>2
<1>7. PICK r, m : Ideal(h)[o.d].rows = r /\ Ideal(h)[o.d].manifest = m
  OBVIOUS
<1>8. Ideal(h)[o.d] = [rows |-> r, manifest |-> m]
  <2>1. Ideal(h)[o.d] = [rows |-> Ideal(h)[o.d].rows, manifest |-> Ideal(h)[o.d].manifest]
    BY <1>3, IdealIs
  <2>2. QED
    BY <1>7, <2>1
<1>9. Holding(q, own, i, l, disk, h) /\ Remembering(q, i, l, h)
  BY <1>4 DEF Repairing
<1>10. DOMAIN disk = Datasets
       /\ disk[o.d] = [rows |-> disk[o.d].rows, manifest |-> disk[o.d].manifest]
  BY <1>3 DEF DiskShape
\* An operation that goes on with locals l.
<1>11. ASSUME NEW phase, phase # "begin", Stayed(j, phase, l), NEW new, new = disk',
              Holding(q, own, i, l, new, h),
              phase \in {"compare", "manifest"} => new[o.d].rows = Ideal(h)[o.d].rows
       PROVE  Progress(j)
  <2>1. Repairing(q, own, i, phase, l, new, h)
    BY <1>3, <1>5, <1>6, <1>9, <1>11 DEF Repairing
  <2>2. QED
    BY <1>1, <1>11, <2>1, StayedProgress
\* An operation that is complete.
<1>12. ASSUME Completed(j, Returned(o.d, l)), NEW new, new = disk', new[o.d] = Ideal(h)[o.d],
              \A d \in Datasets : d # o.d => new[d] = disk[d]
       PROVE  Progress(j)
  <2>1. Fresh(q, own, i + 1, Returned(o.d, l), new, h)
    BY <1>2, <1>3, <1>5, <1>9, <1>12, PublishedFresh
  <2>2. i \in Nat
    BY <1>3
  <2>3. QED
    BY <1>1, <1>12, <2>1, <2>2, CompletedProgress
<1>13. CASE PublishStays(j) /\ disk' = disk
  <2>1. CASE At(j, "publish", "begin")
    <3>1. \/ Stayed(j, "compare", l) /\ disk[o.d].rows = Content(o.d, l).rows
          \/ Stayed(j, "rows", l)
      BY <1>1, <1>13, <2>1 DEF PublishStays, At
    <3>2. QED
      BY <1>6, <1>9, <1>11, <1>13, <3>1
  <2>2. CASE At(j, "publish", "compare")
    <3>1. \/ Stayed(j, "manifest", l) \/ Stayed(j, "rows", l)
          \/ Completed(j, Returned(o.d, l)) /\ disk[o.d].manifest = Content(o.d, l).manifest
      BY <1>1, <1>13, <2>2 DEF PublishStays, At
    <3>2. disk[o.d].rows = Ideal(h)[o.d].rows
      BY <1>3, <1>4, <1>5, <2>2 DEF Repairing, At
    <3>3. CASE Stayed(j, "manifest", l) \/ Stayed(j, "rows", l)
      BY <1>9, <1>11, <1>13, <3>2, <3>3
    <3>4. CASE Completed(j, Returned(o.d, l)) /\ disk[o.d].manifest = Content(o.d, l).manifest
      <4>1. disk[o.d] = [rows |-> r, manifest |-> m]
        BY <1>6, <1>7, <1>10, <3>2, <3>4
      <4>2. QED
        BY <1>8, <1>12, <1>13, <3>4, <4>1
    <3>5. QED
      BY <3>1, <3>3, <3>4
  <2>3. QED
    BY <1>13, <2>1, <2>2 DEF PublishStays
<1>14. CASE RowsEffect(j)
  <2>1. PICK new : new = disk'
    OBVIOUS
  <2>2. Stayed(j, "manifest", l) /\ new = [disk EXCEPT ![o.d].rows = r]
    BY <1>1, <1>6, <1>7, <1>14, <2>1 DEF RowsEffect
  <2>3. /\ new[o.d] = [rows |-> r, manifest |-> disk[o.d].manifest]
        /\ \A x \in Datasets : x # o.d => new[x] = disk[x]
    BY ONLY <1>3, <1>10, <2>2, OneFile
  <2>4. disk[o.d] = Ideal(h)[o.d] => new[o.d] = disk[o.d]
    BY <1>8, <1>7, <2>3
  <2>5. Holding(q, own, i, l, new, h)
    BY <1>3, <1>5, <1>9, <2>3, <2>4, HoldingWritten
  <2>6. new[o.d].rows = Ideal(h)[o.d].rows
    BY <1>7, <2>3
  <2>7. QED
    BY <1>11, <2>1, <2>2, <2>5, <2>6
<1>15. CASE ManifestEffect(j)
  <2>1. PICK new : new = disk'
    OBVIOUS
  <2>2. /\ Completed(j, Returned(o.d, l)) /\ new = [disk EXCEPT ![o.d].manifest = m]
        /\ job[j].phase = "manifest"
    BY <1>1, <1>6, <1>7, <1>15, <2>1 DEF ManifestEffect, At
  <2>3. disk[o.d].rows = r
    BY <1>3, <1>4, <1>5, <1>7, <2>2 DEF Repairing
  <2>4. /\ new[o.d] = [rows |-> disk[o.d].rows, manifest |-> m]
        /\ \A x \in Datasets : x # o.d => new[x] = disk[x]
    BY ONLY <1>3, <1>10, <2>2, OneFile
  <2>5. new[o.d] = Ideal(h)[o.d]
    BY <1>8, <2>3, <2>4
  <2>6. QED
    BY <1>12, <2>1, <2>2, <2>4, <2>5
<1>16. QED
  BY <1>13, <1>14, <1>15

\* Every step of a command that nothing overlaps.
LEMMA StepProgress ==
  ASSUME JobShapes, DiskShape, NEW j \in Jobs, OnItsWay(j), Repairs(j), Shapes(disk), StepEffect(j)
  PROVE  Progress(j)
<1>1. Running(j)
  BY StepOutcome
<1>2. CASE QuietEffect(j)
  <2>1. disk' = disk
    BY <1>2 DEF QuietEffect, FilesUntouched
  <2>2. CASE Ended(j)
    BY <2>2 DEF Progress
  <2>3. QED
    BY <1>1, <1>2, <2>1, <2>2, ReadProgress, LoadProgress, PublishProgress, OtherProgress
    DEF QuietEffect
<1>3. CASE RowsEffect(j) \/ ManifestEffect(j)
  BY <1>1, <1>3, PublishProgress
<1>4. CASE LinkEffect(j) \/ ComponentEffect(j)
  <2>1. disk' = disk
    BY <1>4 DEF LinkEffect, ComponentEffect
  <2>2. QED
    BY <1>1, <1>4, <2>1, OtherProgress
<1>5. QED
  BY <1>2, <1>3, <1>4 DEF StepEffect

-----------------------------------------------------------------------------
(* The manifests of the evaluations.                                       *)

LEMMA ContentShapes ==
  ASSUME NEW l
  PROVE  /\ \A m \in {Content(Evaluation, l).manifest} : m = [training |-> m.training]
         /\ \A m \in {Content(CatBoost, l).manifest} :
               m = [training |-> m.training, test_freeze |-> FreezeOf(m.training)]
         /\ \A m \in {Content(Advanced, l).manifest} :
               m = [training |-> m.training,
                    tuning_manifest_sha256 |-> m.tuning_manifest_sha256,
                    selected_predictions_sha256 |-> m.selected_predictions_sha256,
                    test_freeze_manifest_sha256 |-> m.test_freeze_manifest_sha256]
<1>1. Content(Evaluation, l).manifest = EvaluationManifest(l)
  BY ResultContents DEF EvaluationContent
<1>2. Content(CatBoost, l).manifest = CatBoostManifest(l)
  BY ResultContents DEF CatBoostContent
<1>3. Content(Advanced, l).manifest = AdvancedManifest(l)
  BY ResultContents DEF AdvancedContent
<1>4. QED
  BY <1>1, <1>2, <1>3 DEF EvaluationManifest, CatBoostManifest, AdvancedManifest

LEMMA ShapesSame ==
  ASSUME NEW files, NEW new, Shapes(files),
         \A d \in Evaluations : \/ new[d].manifest = files[d].manifest
                                \/ \E l : new[d].manifest = Content(d, l).manifest
  PROVE  Shapes(new)
<1>1. Evaluation \in Evaluations /\ CatBoost \in Evaluations /\ Advanced \in Evaluations
  BY DEF Evaluations
<1>2. LET m == new[Evaluation].manifest
      IN  m # None => m = [training |-> m.training]
  BY <1>1, ContentShapes DEF Shapes
<1>3. LET m == new[CatBoost].manifest
      IN  m # None => m = [training |-> m.training, test_freeze |-> FreezeOf(m.training)]
  BY <1>1, ContentShapes DEF Shapes
<1>4. LET m == new[Advanced].manifest
      IN  m # None => m = [training |-> m.training,
                           tuning_manifest_sha256 |-> m.tuning_manifest_sha256,
                           selected_predictions_sha256 |-> m.selected_predictions_sha256,
                           test_freeze_manifest_sha256 |-> m.test_freeze_manifest_sha256]
  BY <1>1, ContentShapes DEF Shapes
<1>5. QED
  BY <1>2, <1>3, <1>4 DEF Shapes

LEMMA ShapesInit ==
  ASSUME NEW files, \A d \in Evaluations : \/ files[d] = [rows |-> None, manifest |-> None]
                                           \/ \E h \in Revisions : files[d] = Ideal(h)[d]
  PROVE  Shapes(files)
<1>1. \A d \in Evaluations : files[d].manifest # None => \E h \in Revisions : files[d] = Ideal(h)[d]
  OBVIOUS
<1>2. Evaluation \in Evaluations /\ CatBoost \in Evaluations /\ Advanced \in Evaluations
  BY DEF Evaluations
<1>3. ASSUME NEW m, m = files[Evaluation].manifest, m # None
      PROVE  m = [training |-> m.training]
  <2>1. PICK h \in Revisions : files[Evaluation] = Ideal(h)[Evaluation]
    BY <1>1, <1>2, <1>3
  <2>2. Ideal(h)[Evaluation] = [rows |-> IdealRows(h), manifest |-> [training |-> IdealTraining(h)]]
    BY ONLY IdealFiles
  <2>3. m = [training |-> IdealTraining(h)]
    BY <1>3, <2>1, <2>2
  <2>4. QED
    BY <2>3
<1>4. ASSUME NEW m, m = files[CatBoost].manifest, m # None
      PROVE  m = [training |-> m.training, test_freeze |-> FreezeOf(m.training)]
  <2>1. PICK h \in Revisions : files[CatBoost] = Ideal(h)[CatBoost]
    BY <1>1, <1>2, <1>4
  <2>2. Ideal(h)[CatBoost] = [rows |-> IdealRows(h), manifest |-> IdealTuning(h)]
    BY ONLY IdealFiles
  <2>3. m = IdealTuning(h)
    BY <1>4, <2>1, <2>2
  <2>4. QED
    BY <2>3 DEF IdealTuning
<1>5. ASSUME NEW m, m = files[Advanced].manifest, m # None
      PROVE  m = [training |-> m.training,
                  tuning_manifest_sha256 |-> m.tuning_manifest_sha256,
                  selected_predictions_sha256 |-> m.selected_predictions_sha256,
                  test_freeze_manifest_sha256 |-> m.test_freeze_manifest_sha256]
  <2>1. PICK h \in Revisions : files[Advanced] = Ideal(h)[Advanced]
    BY <1>1, <1>2, <1>5
  <2>2. Ideal(h)[Advanced] = [rows |-> IdealRows(h), manifest |-> IdealAdvanced(h)]
    BY ONLY IdealFiles
  <2>3. m = IdealAdvanced(h)
    BY <1>5, <2>1, <2>2
  <2>4. QED
    BY <2>3 DEF IdealAdvanced
<1>6. QED
  BY <1>3, <1>4, <1>5 DEF Shapes

-----------------------------------------------------------------------------
(* The commands that need no evaluation of another one are not refused.    *)

\* A job stays at its operation or completes it: it is not refused.
KeepsOn(j) == \E phase, k : Stayed(j, phase, k) \/ Completed(j, k)

LEMMA KeepsOnWith ==
  ASSUME JobShapes, NEW j \in Jobs, NEW k, LocalsRecord(k)
  PROVE  /\ \A phase : ToPhase(j, phase, k) => KeepsOn(j)
         /\ Advance(j, k) => KeepsOn(j)
<1>1. ASSUME NEW phase, ToPhase(j, phase, k) PROVE KeepsOn(j)
  BY <1>1, Goes DEF KeepsOn
<1>2. ASSUME Advance(j, k) PROVE KeepsOn(j)
  <2>1. Completed(j, k)
    BY <1>2, Goes
  <2>2. QED
    BY <2>1 DEF KeepsOn
<1>3. QED
  BY <1>1, <1>2

LEMMA KeepsOnStands ==
  ASSUME NEW j \in Jobs, Running(j), KeepsOn(j)
  PROVE  job'[j].status # "refused"
BY DEF Running, KeepsOn, Stayed, Completed, Moved, Idle

\* What a command that nothing overlaps reads back is there, and is what it published.
LEMMA ReadsIdeal ==
  ASSUME NEW j \in Jobs, OnItsWay(j), Running(j), Repairs(j), historical \in Revisions,
         Plain(Current(j)), Current(j).op \in {"load", "hash"}
  PROVE  /\ Current(j).d \in Data \cap Datasets
         /\ disk[Current(j).d] = Ideal(historical)[Current(j).d]
         /\ disk[Current(j).d].rows # None /\ disk[Current(j).d].manifest # None
<1>1. PICK q, i, o, l, own, h : /\ q = Steps(job[j].command) /\ i = job[j].pc /\ o = Current(j)
                                /\ l = job[j].l /\ own = Own(job[j].command) /\ h = historical
  OBVIOUS
<1>2. o = q[i] /\ o.d \in Datasets /\ Supplied(q, i)
  BY <1>1, AtHand
<1>3. o.d \in Data /\ o.op \in {"load", "hash"}
  BY <1>1 DEF Plain
<1>4. Holding(q, own, i, l, disk, h)
  BY <1>1 DEF Repairs, Repairing
<1>5. Kept(q, i, Publish(o.d), {})
  <2>1. CASE \E s \in Seasons : o.d = Canonical(s) \/ o.d = Features(s)
    BY <1>2, <1>3, <2>1 DEF Supplied, SeasonSupplied
  <2>2. CASE o.d = Training
    BY <1>2, <1>3, <2>2 DEF Supplied
  <2>3. QED
    BY <1>3, <2>1, <2>2 DEF Data
<1>6. disk[o.d] = Ideal(h)[o.d]
  BY <1>4, <1>5, OpIs DEF Holding
<1>7. ~SingleFile(o.d)
  BY <1>3, DatasetsDiffer, OthersDiffer DEF Data, SingleFile
<1>8. Ideal(h)[o.d].manifest # None /\ Ideal(h)[o.d].rows # None
  BY <1>1, <1>2, <1>7, NoneIsNoContent
<1>9. QED
  BY <1>1, <1>2, <1>3, <1>6, <1>8

\* The loaders accept the datasets of the revision the command has read.
LEMMA IdealLoads ==
  ASSUME NEW q, NEW i, NEW l, NEW h, Supplied(q, i), Remembering(q, i, l, h),
         q[i].op = "load", q[i].d \in Data, NEW r, r = Ideal(h)[q[i].d].rows,
         NEW m, m = Ideal(h)[q[i].d].manifest
  PROVE  Loads(q[i].d, r, m, l)
<1>1. ASSUME NEW s \in Seasons, q[i].d = Canonical(s) PROVE Loads(q[i].d, r, m, l)
  <2>1. Kept(q, i, Listing, Closing)
    BY <1>1 DEF Supplied, SeasonSupplied
  <2>2. l.listing = h
    BY <2>1, OpIs DEF Remembering, Listing
  <2>3. Ideal(h)[Canonical(s)] = [rows |-> h[s].sha256, manifest |-> IdealLink(h, s)]
    BY ONLY <1>1, IdealFiles
  <2>4. r = h[s].sha256 /\ m = IdealLink(h, s)
    BY <1>1, <2>3
  <2>5. CanonicalLoads(s, r, m, l)
    BY <2>2, <2>4 DEF CanonicalLoads, IdealLink
  <2>6. QED
    BY <1>1, <2>5, LoadsAre
<1>2. ASSUME NEW s \in Seasons, q[i].d = Features(s) PROVE Loads(q[i].d, r, m, l)
  <2>1. Kept(q, i, Inputs, Ending)
    BY <1>2 DEF Supplied, SeasonSupplied
  <2>2. l.inputs = h
    BY <2>1, OpIs DEF Remembering, Inputs
  <2>3. Ideal(h)[Features(s)] = [rows |-> IdealFeatures(h, s), manifest |-> IdealFeatures(h, s)]
    BY ONLY <1>2, IdealFiles
  <2>4. r = m /\ m = IdealFeatures(h, s)
    BY <1>2, <2>3
  <2>5. FeaturesLoad(s, r, m, l)
    BY <2>2, <2>4 DEF FeaturesLoad, IdealFeatures, IdealLink
  <2>6. QED
    BY <1>2, <2>5, LoadsAre
<1>3. CASE q[i].d = Training
  <2>1. Ideal(h)[Training] = [rows |-> IdealRows(h), manifest |-> IdealTraining(h)]
    BY ONLY IdealFiles
  <2>2. r = TrainingSha(m)
    BY <1>3, <2>1 DEF IdealRows
  <2>3. Training[1] = "training" /\ ~SingleFile(Training)
    BY OthersDiffer DEF Training, SingleFile
  <2>4. QED
    BY <1>3, <2>2, <2>3 DEF Loads, TrainingLoads
<1>4. QED
  BY <1>1, <1>2, <1>3 DEF Data

LEMMA NeverRefused ==
  ASSUME JobShapes, NEW j \in Jobs, OnItsWay(j), Running(j), Repairs(j), Shapes(disk),
         historical \in Revisions, job[j].command \in SelfContained, RawIsReviewed, Step(j)
  PROVE  KeepsOn(j)
<1>1. PICK q, i, o, l, own, h : /\ q = Steps(job[j].command) /\ i = job[j].pc /\ o = Current(j)
                                /\ l = job[j].l /\ own = Own(job[j].command) /\ h = historical
  OBVIOUS
<1>2. /\ o = q[i] /\ o.d \in Datasets /\ i \in 1..Len(q) /\ Supplied(q, i)
  BY <1>1, AtHand
<1>3. Plain(o)
  BY <1>1, <1>2, SelfContainedPlain
<1>4. LocalsRecord(l)
  BY <1>1, OwnLocals
<1>5. \A k : LocalsRecord(k) => /\ \A phase : ToPhase(j, phase, k) => KeepsOn(j)
                                /\ Advance(j, k) => KeepsOn(j)
  BY KeepsOnWith
<1>6. Repairing(q, own, i, job[j].phase, l, disk, h)
  BY <1>1 DEF Repairs
<1>7. CASE ReadInputs(j) \/ ReadListing(j) \/ HashHistorical(j) \/ LookUpEntry(j)
  <2>1. \A v : /\ LocalsRecord([l EXCEPT !.inputs = v]) /\ LocalsRecord([l EXCEPT !.listing = v])
               /\ LocalsRecord([l EXCEPT !.entry = v])
               /\ LocalsRecord([l EXCEPT !.historical_sum = v])
    BY <1>4, LocalsUpdated
  <2>2. QED
    BY <1>1, <1>5, <1>7, <2>1 DEF ReadInputs, ReadListing, HashHistorical, LookUpEntry
<1>8. CASE ParseRaw(j)
  <2>1. o.op = "entry" /\ job[j].phase = "parse"
    BY <1>1, <1>8 DEF ParseRaw, At
  <2>2. l.entry = h[o.d[2]]
    BY <1>2, <1>6, <2>1 DEF Repairing
  <2>3. PICK s \in Seasons : o.d = Canonical(s)
    BY <1>3, <2>1 DEF Plain
  <2>4. l.entry = h[s]
    BY <2>2, <2>3 DEF Canonical
  <2>5. raw[l.entry.destination] = l.entry.sha256
    BY <1>1, <2>4 DEF RawIsReviewed
  <2>6. QED
    BY <1>1, <1>4, <1>5, <1>8, <2>5 DEF ParseRaw
<1>9. CASE LoadFirst(j)
  <2>1. o.op = "load"
    BY <1>1, <1>9 DEF LoadFirst, At
  <2>2. disk[o.d].rows # None /\ disk[o.d].manifest # None
    BY <1>1, <1>3, <2>1, ReadsIdeal
  <2>3. \A v : LocalsRecord([l EXCEPT !.part = v])
    BY <1>4, LocalsUpdated
  <2>4. PICK file : file = IF o.d[1] = "canonical" THEN disk[o.d].rows ELSE disk[o.d].manifest
    OBVIOUS
  <2>5. ToPhase(j, "second", [l EXCEPT !.part = file])
    BY <1>1, <1>9, <2>2, <2>4 DEF LoadFirst
  <2>6. QED
    BY <1>5, <2>3, <2>5
<1>10. CASE LoadSecond(j)
  <2>1. o.op = "load" /\ job[j].phase = "second"
    BY <1>1, <1>10 DEF LoadSecond, At
  <2>2. /\ o.d \in Data /\ disk[o.d] = Ideal(h)[o.d]
        /\ disk[o.d].rows # None /\ disk[o.d].manifest # None
    BY <1>1, <1>3, <2>1, ReadsIdeal
  <2>3. l.part = IF o.d[1] = "canonical" THEN disk[o.d].rows ELSE disk[o.d].manifest
    BY <1>2, <1>6, <2>1 DEF Repairing
  <2>4. PICK r, m : r = disk[o.d].rows /\ m = disk[o.d].manifest
    OBVIOUS
  <2>5. /\ r = IF o.d[1] = "canonical" THEN l.part ELSE disk[o.d].rows
        /\ m = IF o.d[1] = "canonical" THEN disk[o.d].manifest ELSE l.part
    BY <2>3, <2>4
  <2>6. Loads(o.d, r, m, l)
    <3>1. Remembering(q, i, l, h)
      BY <1>6 DEF Repairing
    <3>2. /\ Supplied(q, i) /\ q[i].op = "load" /\ q[i].d \in Data
          /\ r = Ideal(h)[q[i].d].rows /\ m = Ideal(h)[q[i].d].manifest
      BY <1>2, <2>1, <2>2, <2>4
    <3>3. Loads(q[i].d, r, m, l)
      BY ONLY <3>1, <3>2, IdealLoads
    <3>4. QED
      BY <1>2, <3>3
  <2>7. PICK k : k = Loaded(l, o.d, r, m)
    OBVIOUS
  <2>8. LocalsRecord(k)
    BY <1>4, <2>7, LocalsUpdated
  <2>9. Passes(o.check, k) /\ m # None /\ r # None
    <3>1. o.check = "none"
      BY <1>3, <2>1 DEF Plain
    <3>2. QED
      BY <2>2, <2>4, <3>1 DEF Passes
  <2>10. Advance(j, k)
    BY <1>1, <1>10, <2>5, <2>6, <2>7, <2>9 DEF LoadSecond, Loaded
  <2>11. QED
    BY <1>5, <2>8, <2>10
<1>11. CASE HashManifest(j)
  <2>1. o.op = "hash"
    BY <1>1, <1>11 DEF HashManifest, At
  <2>2. disk[o.d].manifest # None
    BY <1>1, <1>3, <2>1, ReadsIdeal
  <2>3. PICK k : k = Hashed(l, o.d, disk[o.d].manifest)
    OBVIOUS
  <2>4. LocalsRecord(k)
    BY <1>4, <2>3, LocalsUpdated
  <2>5. Passes(o.check, k)
    <3>1. o.check = "none"
      BY <1>3, <2>1 DEF Plain
    <3>2. QED
      BY <3>1 DEF Passes
  <2>6. Advance(j, k)
    BY <1>1, <1>11, <2>2, <2>3, <2>5 DEF HashManifest, Hashed
  <2>7. QED
    BY <1>5, <2>4, <2>6
<1>12. CASE ChampionUnsupported(j)
  <2>1. o.op = "hash" /\ o.check = "provenance"
    BY <1>1, <1>12 DEF ChampionUnsupported, At
  <2>2. QED
    BY <1>3, <2>1 DEF Plain
<1>13. CASE CompareRows(j)
  <2>1. o.op = "publish" /\ job[j].phase = "begin"
    BY <1>1, <1>13 DEF CompareRows, At
  <2>2. Passes(o.check, l)
    <3>1. CASE o.check = "none"
      BY <3>1 DEF Passes
    <3>2. CASE o.check = "embedded" /\ o.d \in {Evaluation, CatBoost}
      <4>1. Fresh(q, own, i, l, disk, h)
        BY <1>6, <2>1, FreshRepairs
      <4>2. Publishing(q, own, i, l, disk, h)
        BY <1>2, <2>1, <4>1 DEF Publishing
      <4>3. q[i].d \in {Evaluation, Freeze, CatBoost, Advanced, Assessment}
        BY <1>2, <3>2
      <4>4. l.held[Training].manifest = l.sums[Training]
        BY <4>2, <4>3, TrainingIsHeld
      <4>5. QED
        BY <3>2, <4>4 DEF Passes, EmbeddedManifestMatches
    <3>3. QED
      BY <1>3, <2>1, <3>1, <3>2 DEF Plain
  <2>3. QED
    BY <1>1, <1>4, <1>5, <1>13, <2>2 DEF CompareRows
<1>14. CASE CompareManifest(j) \/ WriteRows(j) \/ WriteManifest(j)
  <2>1. LocalsRecord(Returned(o.d, l))
    BY <1>4, LocalsUpdated
  <2>2. QED
    BY <1>1, <1>4, <1>5, <1>14, <2>1 DEF CompareManifest, WriteRows, WriteManifest, Published
<1>15. CASE Fetch(j) \/ LinkRaw(j)
  BY <1>1, <1>3, <1>15 DEF Fetch, LinkRaw, At, Plain
<1>16. CASE CompareArtifact(j) \/ OpenTemporary(j) \/ ReplaceComponent(j) \/ ReloadArtifact(j)
  BY <1>1, <1>3, <1>16
  DEF CompareArtifact, OpenTemporary, ReplaceComponent, ReloadArtifact, At, Plain
<1>17. QED
  BY <1>7, <1>8, <1>9, <1>10, <1>11, <1>12, <1>13, <1>14, <1>15, <1>16 DEF Step

-----------------------------------------------------------------------------
(* Commands that nothing overlapped.                                       *)

LEMMA StepsDomain ==
  ASSUME NEW c \in AllCommands
  PROVE  DOMAIN Steps(c) = 1..Len(Steps(c))
<1>1. ASSUME NEW tail \in Seq(Operations)
      PROVE  TrainingSteps \o tail \in Seq(Operations)
  BY TrainingLayout, Joined
<1>2. /\ EvaluationTail \in Seq(Operations) /\ CatBoostTail \in Seq(Operations)
      /\ AdvancedTail \in Seq(Operations) /\ AssessmentTail \in Seq(Operations)
      /\ ArtifactTail \in Seq(Operations)
  BY Tails, ElsewhereSubset
<1>3. CASE c \in {"training", "evaluation", "catboost", "advanced", "assessment"}
  BY <1>1, <1>2, <1>3, TrainingLayout, StepsAre
<1>4. CASE c = "artifact"
  <2>1. PICK u : u = TrainingSteps \o AssessmentTail
    OBVIOUS
  <2>2. PICK v : v = TrainingSteps \o ArtifactTail
    OBVIOUS
  <2>3. u \in Seq(Operations) /\ v \in Seq(Operations) /\ Steps(c) = u \o v
    BY <1>4, <2>1, <2>2, ArtifactHalves
  <2>4. Steps(c) \in Seq(Operations)
    BY <2>3, Joined
  <2>5. QED
    BY <2>4
<1>5. CASE c \in {"features", "download", "canonical"}
  <2>1. /\ FeatureSteps \in Seq(Operations) /\ DownloadSteps \in Seq(Operations)
        /\ CanonicalSteps \in Seq(Operations)
    BY FeatureLayout, DownloadElsewhere, CanonicalElsewhere, ElsewhereSubset
  <2>2. QED
    BY <1>5, <2>1, StepsAre
<1>6. QED
  BY <1>3, <1>4, <1>5 DEF AllCommands

\* No other job runs.
Alone(j) == \A k \in Jobs \ {j} : ~Running(k)

\* Every dataset that command c publishes is what revision h determines.
InPlace(c, files, h) ==
    \A x \in DOMAIN Steps(c) :
        Steps(c)[x].op = "publish" => files[Steps(c)[x].d] = Ideal(h)[Steps(c)[x].d]

\* What holds of a job from its start on while nothing overlaps it.
Undisturbed(j) ==
    /\ j \in Jobs /\ Alone(j)
    /\ Running(j) => Repairs(j)
    /\ job[j].status = "done" => InPlace(job[j].command, disk, historical)
    /\ job[j].status = "refused" => ~(job[j].command \in SelfContained /\ RawIsReviewed)

RepairInv == Shapes(disk) /\ \A j \in undisturbed : Undisturbed(j)

LEMMA ShapesStep ==
  ASSUME DiskShape, Shapes(disk), NEW j \in Jobs, StepEffect(j)
  PROVE  Shapes(disk')
<1>1. PICK new : new = disk'
  OBVIOUS
<1>2. Evaluations \subseteq Datasets
  BY DEF Evaluations, Datasets
<1>3. \A d \in Evaluations : \/ new[d].manifest = disk[d].manifest
                             \/ \E l : new[d].manifest = Content(d, l).manifest
  BY <1>1, <1>2, FileWritten
<1>4. Shapes(new)
  BY <1>3, ShapesSame
<1>5. QED
  BY <1>1, <1>4

\* A job that begins has nothing to keep.
LEMMA BeginRepairs ==
  ASSUME NEW q, NEW own, NEW files, NEW h
  PROVE  Repairing(q, own, 1, "begin", NoLocals, files, h)
<1>1. DOMAIN NoLocals.held = {} /\ DOMAIN NoLocals.sums = {}
  BY DEF NoLocals
<1>2. \A o, X : ~Kept(q, 1, o, X)
  BY KeptFirst
<1>3. Holding(q, own, 1, NoLocals, files, h)
  BY <1>1, <1>2 DEF Holding
<1>4. Remembering(q, 1, NoLocals, h)
  BY <1>2 DEF Remembering
<1>5. ReadBack(q, 1, files)
  BY <1>2 DEF ReadBack
<1>6. QED
  BY <1>3, <1>4, <1>5 DEF Repairing

\* A step changes no file when it is refused.
LEMMA RefusedTouchesNothing ==
  ASSUME NEW j \in Jobs, StepEffect(j), Running(j), Ended(j)
  PROVE  FilesUntouched
<1>1. job[j].status # "refused" /\ job'[j].status = "refused"
  BY DEF Running, Ended, Idle
<1>2. ASSUME NEW k, Completed(j, k) PROVE FALSE
  BY <1>1, <1>2 DEF Completed, Moved, Idle
<1>3. ASSUME NEW phase, NEW k, Stayed(j, phase, k) PROVE FALSE
  BY <1>1, <1>3 DEF Stayed
<1>4. QED
  BY <1>2, <1>3
  DEF StepEffect, QuietEffect, RowsEffect, ManifestEffect, LinkEffect, ComponentEffect

LEMMA UndisturbedStep ==
  ASSUME ReadsInv, Shapes(disk), NEW j \in Jobs, Undisturbed(j), Step(j)
  PROVE  Undisturbed(j)'
<1>1. JobShapes' /\ OthersUntouched(j) /\ StepEffect(j)
  BY StepsHaveEffects DEF ReadsInv, JobFramed
<1>2. Running(j)
  BY <1>1, StepOutcome DEF ReadsInv
<1>3. Repairs(j) /\ Alone(j)
  BY <1>2 DEF Undisturbed
<1>4. historical' = historical
  BY <1>1, DiskOutcome
<1>5. Alone(j)'
  BY <1>1, <1>3 DEF Alone, OthersUntouched, Running
<1>6. Progress(j)
  BY <1>1, <1>3, StepProgress DEF ReadsInv
<1>7. CASE Ended(j)
  <2>1. raw' = raw
    BY <1>1, <1>2, <1>7, RefusedTouchesNothing DEF FilesUntouched
  <2>2. job'[j].status = "refused" /\ job'[j].command = job[j].command
    BY <1>7 DEF Ended, Idle
  <2>3. ~(job[j].command \in SelfContained /\ RawIsReviewed)
    BY <1>2, <1>3, <2>2, NeverRefused, KeepsOnStands DEF ReadsInv
  <2>4. ~(job'[j].command \in SelfContained /\ RawIsReviewed')
    BY <1>4, <2>1, <2>2, <2>3 DEF RawIsReviewed
  <2>5. QED
    BY <1>5, <2>2, <2>4 DEF Undisturbed, Running
<1>8. ASSUME job'[j] = Idle("done", job[j].command),
             \A x \in 1..Len(Steps(job[j].command)) : Steps(job[j].command)[x].op = "publish" =>
                disk'[Steps(job[j].command)[x].d] = Ideal(historical)[Steps(job[j].command)[x].d]
      PROVE  Undisturbed(j)'
  <2>1. job'[j].status = "done" /\ job'[j].command = job[j].command
    BY <1>8 DEF Idle
  <2>2. job[j].command \in AllCommands
    BY <1>2 DEF ReadsInv, OnItsWay
  <2>3. PICK c, new : c = job[j].command /\ new = disk'
    OBVIOUS
  <2>4. InPlace(c, new, historical)
    BY <1>8, <2>2, <2>3, StepsDomain DEF InPlace
  <2>5. QED
    BY <1>4, <1>5, <2>1, <2>3, <2>4 DEF Undisturbed, Running
<1>9. ASSUME NEW i, NEW phase, NEW l,
             job'[j] = [status |-> job[j].status, command |-> job[j].command, pc |-> i,
                        phase |-> phase, l |-> l],
             Repairing(Steps(job[j].command), Own(job[j].command), i, phase, l, disk', historical)
      PROVE  Undisturbed(j)'
  <2>1. /\ job'[j].status = "running" /\ job'[j].command = job[j].command
        /\ job'[j].pc = i /\ job'[j].phase = phase /\ job'[j].l = l
    BY <1>2, <1>9 DEF Running
  <2>2. Repairs(j)'
    BY <1>4, <1>9, <2>1 DEF Repairs
  <2>3. QED
    BY <1>5, <2>1, <2>2 DEF Undisturbed
<1>10. QED
  BY <1>6, <1>7, <1>8, <1>9 DEF Progress

LEMMA RepairInvInit ==
  ASSUME Init
  PROVE  RepairInv
<1>1. PICK e \in Earlier : disk = LeftBy(e)
  BY DEF Init
<1>2. \A d \in Datasets : e[Kind(d)] = None \/ e[Kind(d)] \in Revisions
  <2>1. \A d \in Datasets : Kind(d) \in {"data", "evaluation", "catboost", "advanced", "assessment"}
    BY DEF Datasets, Kind, Canonical, Features, Training, Evaluation, Freeze, CatBoost,
           Advanced, Assessment
  <2>2. e \in [{"data", "evaluation", "catboost", "advanced", "assessment"} -> Revisions \cup {None}]
    BY PipelineAssumption
  <2>3. QED
    BY <2>1, <2>2
<1>3. Evaluations \subseteq Datasets
  BY DEF Evaluations, Datasets
<1>4. \A d \in Evaluations : \/ disk[d] = [rows |-> None, manifest |-> None]
                             \/ \E h \in Revisions : disk[d] = Ideal(h)[d]
  BY <1>1, <1>2, <1>3 DEF LeftBy
<1>5. Shapes(disk)
  BY <1>4, ShapesInit
<1>6. undisturbed = {}
  BY DEF Init
<1>7. QED
  BY <1>5, <1>6 DEF RepairInv

LEMMA StepCounts ==
  ASSUME NEW j \in Jobs, Step(j)
  PROVE  undisturbed' = undisturbed
BY DEF Step, UnchangedCounts, ReadInputs, ReadListing, LookUpEntry, ParseRaw, LoadFirst, LoadSecond,
       HashManifest, HashHistorical, CompareRows, CompareManifest, WriteRows, WriteManifest, Fetch,
       LinkRaw, ChampionUnsupported, CompareArtifact, OpenTemporary, ReplaceComponent,
       ReloadArtifact

LEMMA RepairInvNext ==
  ASSUME ReadsInv, RepairInv, [Next]_vars
  PROVE  RepairInv'
<1>1. ASSUME UNCHANGED disk PROVE Shapes(disk)'
  BY <1>1 DEF RepairInv
\* Only the undisturbed job itself runs.
<1>2. ASSUME NEW k \in Jobs, Running(k), NEW j \in undisturbed PROVE j = k
  BY <1>2 DEF RepairInv, Undisturbed, Alone
<1>3. CASE Edit
  BY <1>1, <1>3 DEF Edit, RepairInv
<1>4. CASE UNCHANGED vars
  <2>1. UNCHANGED <<historical, raw, disk, job, undisturbed>>
    BY <1>4 DEF vars
  <2>2. \A j \in undisturbed : Undisturbed(j)'
    BY <2>1 DEF RepairInv, Undisturbed, Alone, Running, Repairs, RawIsReviewed
  <2>3. QED
    BY <1>1, <2>1, <2>2 DEF RepairInv
<1>5. ASSUME NEW k \in Jobs, Step(k) PROVE RepairInv'
  <2>1. StepEffect(k)
    BY <1>5, StepsHaveEffects DEF ReadsInv, JobFramed
  <2>2. Running(k)
    BY <2>1, StepOutcome DEF ReadsInv
  <2>3. Shapes(disk')
    BY <2>1, ShapesStep DEF ReadsInv, RepairInv
  <2>4. undisturbed' = undisturbed
    BY <1>5, StepCounts
  <2>5. \A j \in undisturbed : Undisturbed(j)'
    BY <1>2, <1>5, <2>2, UndisturbedStep DEF RepairInv
  <2>6. QED
    BY <2>3, <2>4, <2>5 DEF RepairInv
<1>6. ASSUME NEW k \in Jobs, Crash(k) PROVE RepairInv'
  <2>1. /\ Running(k) /\ UNCHANGED <<disk, undisturbed>>
        /\ job' = [job EXCEPT ![k] = Idle("crashed", job[k].command)]
    BY <1>6 DEF Crash
  <2>2. OthersUntouched(k) /\ job'[k] = Idle("crashed", job[k].command)
    BY <2>1, IdleEffect DEF ReadsInv
  <2>3. job'[k].status = "crashed"
    BY <2>2 DEF Idle
  <2>4. ASSUME NEW j \in undisturbed PROVE Undisturbed(j)'
    <3>1. j = k /\ Alone(j) /\ j \in Jobs
      BY <1>2, <2>1 DEF RepairInv, Undisturbed
    <3>2. Alone(j)'
      BY <2>2, <3>1 DEF Alone, OthersUntouched, Running
    <3>3. QED
      BY <2>3, <3>1, <3>2 DEF Undisturbed, Running
  <2>5. QED
    BY <1>1, <2>1, <2>4 DEF RepairInv
<1>7. ASSUME NEW k \in Jobs, NEW command \in Commands[k], Start(k, command) PROVE RepairInv'
  <2>1. /\ UNCHANGED disk /\ job' = [job EXCEPT ![k] = Idle("running", command)]
        /\ undisturbed' = IF \E j \in Jobs : Running(j) THEN {} ELSE {k}
    BY <1>7 DEF Start, UnchangedFiles
  <2>2. OthersUntouched(k) /\ job'[k] = Idle("running", command)
    BY <2>1, IdleEffect DEF ReadsInv
  <2>3. ASSUME \A j \in Jobs : ~Running(j) PROVE Undisturbed(k)'
    <3>1. /\ job'[k].status = "running" /\ job'[k].pc = 1 /\ job'[k].phase = "begin"
          /\ job'[k].l = NoLocals
      BY <2>2 DEF Idle
    <3>2. Alone(k)'
      BY <2>2, <2>3 DEF Alone, OthersUntouched, Running
    <3>3. Repairs(k)'
      BY <3>1, BeginRepairs DEF Repairs
    <3>4. QED
      BY <3>1, <3>2, <3>3 DEF Undisturbed
  <2>4. \A j \in undisturbed' : Undisturbed(j)'
    BY <2>1, <2>3
  <2>5. QED
    BY <1>1, <2>1, <2>4 DEF RepairInv
<1>8. QED
  BY <1>3, <1>4, <1>5, <1>6, <1>7 DEF Next

(* The inductive invariant of the reruns: a command that nothing overlaps  *)
(* knows at every operation what its files hold, all it has published is   *)
(* what the revision determines, and what it will publish is too.          *)
THEOREM RepairInvHolds == Spec => []RepairInv
<1>1. Init => RepairInv
  BY RepairInvInit
<1>2. ReadsInv /\ RepairInv /\ [Next]_vars => RepairInv'
  BY RepairInvNext
<1>3. QED
  BY <1>1, <1>2, ReadsInvHolds, PTL DEF Spec

(* A command that nothing overlapped leaves every dataset it publishes as  *)
(* the historical manifest determines it, whatever torn pairs and other    *)
(* revisions earlier commands left; the commands that need no evaluation   *)
(* of another one are not refused while the raw files are the reviewed.    *)
THEOREM RerunsRepair == Spec => []RerunRepairs
<1>1. RepairInv => RerunRepairs
  BY DEF RepairInv, Undisturbed, InPlace, RerunRepairs
<1>2. QED
  BY <1>1, RepairInvHolds, PTL

=============================================================================
