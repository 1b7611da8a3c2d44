--------------------------- MODULE DatasetPipeline ---------------------------
(***************************************************************************)
(* The offline pipeline: verified raw files, canonical fixtures, feature   *)
(* datasets, the training dataset, three evaluations, the untouched-test   *)
(* freeze, the assessment and the model artifact.  Every stage is a        *)
(* command of its own that first runs the stages before it, reads back     *)
(* what they wrote and publishes a pair of files, rows and manifest, with  *)
(* one atomic replacement each.  Nothing locks the directories: commands   *)
(* may overlap, the reviewed historical manifest may be edited while one   *)
(* runs, and a process may die between any two file operations.            *)
(*                                                                         *)
(* A file is modelled by what determines its bytes, so comparing checksums *)
(* is comparing contents.  One action is one file operation of one process.*)
(***************************************************************************)
EXTENDS Naturals, Sequences, FiniteSets

CONSTANTS Jobs,          \* processes that run commands
          Commands,      \* the commands each of them may be asked to run
          N,             \* seasons of the historical manifest; N is the test
          Checksums,     \* contents a raw file can have
          Captures,      \* captured_at values of raw files
          Paths,         \* destinations of raw files
          Revisions,     \* contents of the historical manifest
          Reviewed,      \* the ones it may have in the beginning
          RawStores,     \* raw files that earlier downloads may have left
          Earlier,       \* revisions of which earlier commands left each dataset
          None,
          MaxStarts, MaxEdits, MaxCrashes

Seasons == 1..N
Entries == [sha256 : Checksums, captured_at : Captures, destination : Paths]

AllCommands == {"download", "canonical", "features", "training", "evaluation",
                "catboost", "advanced", "assessment", "artifact"}

ASSUME PipelineAssumption ==
    /\ N \in Nat \ {0}
    /\ Commands \in [Jobs -> SUBSET AllCommands]
    /\ Revisions \subseteq [Seasons -> Entries]
    /\ Reviewed \subseteq Revisions
    /\ \A h \in Revisions : \A s, t \in Seasons :
          h[s].destination = h[t].destination => s = t
    /\ Earlier \subseteq [{"data", "evaluation", "catboost", "advanced", "assessment"} ->
                             Revisions \cup {None}]
    /\ None \notin Checksums
    /\ RawStores \subseteq [Paths -> Checksums \cup {None}]
    /\ \A r \in RawStores : \A x \in Paths : r[x] # None =>
          \E h \in Revisions, s \in Seasons : h[s].destination = x /\ h[s].sha256 = r[x]
    /\ MaxStarts \in Nat /\ MaxEdits \in Nat /\ MaxCrashes \in Nat

Canonical(s) == <<"canonical", s>>
Features(s) == <<"features", s>>
Training == <<"training", 0>>
Evaluation == <<"evaluation", 0>>
Freeze == <<"freeze", 0>>
CatBoost == <<"catboost", 0>>
Advanced == <<"advanced", 0>>
Assessment == <<"assessment", 0>>

Datasets == {Canonical(s) : s \in Seasons} \cup {Features(s) : s \in Seasons}
            \cup {Training, Evaluation, Freeze, CatBoost, Advanced, Assessment}

(* The freeze and the assessment are one file; the others have rows too.   *)
SingleFile(d) == d \in {Freeze, Assessment}

VARIABLES historical,    \* the historical manifest as it is on disk
          raw,           \* raw file at each destination
          disk,          \* rows and manifest file of every dataset
          artifacts,     \* <<artifact, file>> pairs in the artifact store
          litter,        \* artifact directories with a temporary file left over
          job,           \* what each process does
          undisturbed,   \* ghost: jobs no edit or other command has overlapped
          starts, edits, crashes

vars == <<historical, raw, disk, artifacts, litter, job, undisturbed, starts, edits, crashes>>

-----------------------------------------------------------------------------
(* Contents.  l is the local state of a command: held[d] what it loaded of *)
(* dataset d, sums[d] the manifest bytes it hashed in a read of their own, *)
(* inputs and listing two copies of the historical manifest (those of the  *)
(* training and of the feature materializer), entry the copy of one line   *)
(* that the canonical materializer looked up again.                        *)

Lineage(e) == [sha256 |-> e.sha256, captured_at |-> e.captured_at]

CanonicalManifest(l) ==
    [fixtures_sha256 |-> l.entry.sha256, source |-> Lineage(l.entry)]

CanonicalContent(l) == [rows |-> l.entry.sha256, manifest |-> CanonicalManifest(l)]

(* What one season adds to the checksum chain of the seasons after it.     *)
Link(s, l) ==
    [fixtures_sha256 |-> l.held[Canonical(s)].manifest.fixtures_sha256,
     source |-> Lineage(l.listing[s])]

(* The chain of all seasons before s, as this run loaded them.             *)
History(s, l) == [k \in 1..(s - 1) |-> Link(k, l)]

FeatureManifest(s, l) == [own |-> Link(s, l), history |-> History(s, l)]

(* The rows carry their whole provenance, so they determine the manifest.  *)
FeatureContent(s, l) == [rows |-> FeatureManifest(s, l), manifest |-> FeatureManifest(s, l)]

(* feature_manifest_sha256 is hashed from a second read of the manifest.   *)
FeatureSource(s, l) ==
    [features |-> l.held[Features(s)].manifest,
     feature_manifest_sha256 |-> l.sums[Features(s)]]

(* A training example names its feature row, whose identity is drawn from  *)
(* the canonical checksum and the history, but not from the capture.       *)
TrainingExamples(features) ==
    [fixtures_sha256 |-> features.own.fixtures_sha256, history |-> features.history]

TrainingSha(m) == [s \in Seasons |-> TrainingExamples(m.sources[s].features)]

TrainingManifest(l) ==
    [historical_manifest_sha256 |-> l.historical_sum,
     sources |-> [s \in Seasons |-> FeatureSource(s, l)]]

TrainingContent(l) == [rows |-> TrainingSha(TrainingManifest(l)), manifest |-> TrainingManifest(l)]

(* Every prediction names the training rows it was computed from.          *)
Predictions(l) == TrainingSha(l.held[Training].manifest)

EvaluationManifest(l) == [training |-> l.held[Training].manifest]

EvaluationContent(l) == [rows |-> Predictions(l), manifest |-> EvaluationManifest(l)]

UntouchedTestFreeze(m, sum) ==
    [source_training_sha256 |-> TrainingSha(m), source_training_manifest_sha256 |-> sum]

FreezeContent(l) ==
    [rows |-> None,
     manifest |-> UntouchedTestFreeze(l.held[Training].manifest, l.sums[Training])]

FreezeOf(m) == UntouchedTestFreeze(m, m)

CatBoostManifest(l) ==
    [training |-> l.held[Training].manifest,
     test_freeze |-> FreezeOf(l.held[Training].manifest)]

CatBoostContent(l) == [rows |-> Predictions(l), manifest |-> CatBoostManifest(l)]

AdvancedManifest(l) ==
    [training |-> l.held[Training].manifest,
     tuning_manifest_sha256 |-> l.sums[CatBoost],
     selected_predictions_sha256 |-> l.held[CatBoost].rows,
     test_freeze_manifest_sha256 |-> l.held[CatBoost].manifest.test_freeze]

AdvancedContent(l) == [rows |-> Predictions(l), manifest |-> AdvancedManifest(l)]

(* The acceptance report compares the metrics of the three evaluations.    *)
AssessmentManifest(l) ==
    [training |-> l.held[Training].manifest,
     acceptance |-> {l.held[d].manifest.training : d \in {Evaluation, CatBoost, Advanced}},
     predictions |-> [d \in {Evaluation, CatBoost, Advanced} |-> l.held[d].rows],
     manifests |-> [d \in {Evaluation, CatBoost, Advanced} |-> l.sums[d]],
     test_freeze_manifest_sha256 |-> l.sums[Freeze]]

AssessmentContent(l) == [rows |-> None, manifest |-> AssessmentManifest(l)]

Content(d, l) ==
    CASE d[1] = "canonical"  -> CanonicalContent(l)
      [] d[1] = "features"   -> FeatureContent(d[2], l)
      [] d[1] = "training"   -> TrainingContent(l)
      [] d[1] = "evaluation" -> EvaluationContent(l)
      [] d[1] = "freeze"     -> FreezeContent(l)
      [] d[1] = "catboost"   -> CatBoostContent(l)
      [] d[1] = "advanced"   -> AdvancedContent(l)
      [] d[1] = "assessment" -> AssessmentContent(l)

-----------------------------------------------------------------------------
(* Validation.                                                             *)

(* load_*: the checksum in the manifest is that of the rows read with it.  *)
(* The canonical loader and the training materializer also hold the raw    *)
(* lineage against their own copy of the historical manifest.              *)
(* Mutants: the checksum is compared and the lineage is not.               *)
AnyLineage(s, r, m, l) == r = m.fixtures_sha256

CanonicalLoads(s, r, m, l) ==
    /\ r = m.fixtures_sha256
    /\ m.source = Lineage(l.listing[s])

AnyFeatures(s, r, m, l) == r = m

FeaturesLoad(s, r, m, l) ==
    /\ r = m
    /\ m.own.source = Lineage(l.inputs[s])

(* A feature row repeats the lineage of its manifest, a prediction the     *)
(* checksum of the training rows.                                          *)
TrainingLoads(r, m) == r = TrainingSha(m)
EvaluationLoads(r, m) == r = TrainingSha(m.training)
CatBoostLoads(r, m) == r = TrainingSha(m.training)
AdvancedLoads(r, m) == r = TrainingSha(m.training)

Loads(d, r, m, l) ==
    CASE d[1] = "canonical"  -> CanonicalLoads(d[2], r, m, l)
      [] d[1] = "features"   -> FeaturesLoad(d[2], r, m, l)
      [] d[1] = "training"   -> TrainingLoads(r, m)
      [] d[1] = "evaluation" -> EvaluationLoads(r, m)
      [] d[1] = "catboost"   -> CatBoostLoads(r, m)
      [] d[1] = "advanced"   -> AdvancedLoads(r, m)
      [] SingleFile(d)       -> TRUE

(* Every manifest that embeds the training manifest refuses another        *)
(* checksum than that of the bytes it embeds.                              *)
EmbeddedManifestMatches(l) == l.held[Training].manifest = l.sums[Training]

TunedOnTraining(l) ==
    /\ l.held[CatBoost].manifest.training = l.held[Training].manifest
    /\ l.held[CatBoost].manifest.training = l.sums[Training]

FreezeOfTuning(l) ==
    /\ l.held[Freeze].manifest = l.held[CatBoost].manifest.test_freeze
    /\ l.sums[Freeze] = l.held[CatBoost].manifest.test_freeze

(* Examples are named by what they were computed from.                     *)
ComparablePopulations(l) ==
    \A d \in {CatBoost, Advanced} : l.held[d].rows = l.held[Evaluation].rows

(* Mutant: the populations are compared and the lineage is not.            *)
PopulationsOnly(l) == ComparablePopulations(l)

OneTraining(l) ==
    /\ \A d \in {Evaluation, CatBoost, Advanced} :
          /\ l.held[d].manifest.training = l.held[Training].manifest
          /\ l.held[d].manifest.training = l.sums[Training]
    /\ ComparablePopulations(l)

FreezeOfEvaluations(l) ==
    /\ FreezeOfTuning(l)
    /\ l.sums[Freeze] = l.held[Advanced].manifest.test_freeze_manifest_sha256

TuningOfAdvanced(l) ==
    LET advanced == l.held[Advanced].manifest
    IN  /\ advanced.tuning_manifest_sha256 = l.sums[CatBoost]
        /\ advanced.selected_predictions_sha256 = l.held[CatBoost].rows

(* ModelArtifactProvenance, then the comparison with the training manifest.*)
Provenance(l) ==
    LET a == l.held[Assessment].manifest
    IN  /\ a = l.sums[Assessment]
        /\ l.held[Freeze].manifest = l.sums[Freeze]
        /\ \A d \in {Evaluation, CatBoost, Advanced} :
              a.manifests[d] = l.sums[d] /\ a.predictions[d] = l.held[d].rows
        /\ a.test_freeze_manifest_sha256 = l.sums[Freeze]
        /\ l.held[Freeze].manifest = FreezeOf(a.training)
        /\ l.held[Training].manifest = a.training

Passes(check, l) ==
    CASE check = "none" -> TRUE
      [] check = "embedded" -> EmbeddedManifestMatches(l)
      [] check = "tuned_on_training" -> TunedOnTraining(l)
      [] check = "freeze_of_tuning" -> FreezeOfTuning(l)
      [] check = "one_training" -> OneTraining(l)
      [] check = "freeze_of_evaluations" -> FreezeOfEvaluations(l)
      [] check = "tuning_of_advanced" -> TuningOfAdvanced(l)
      [] check = "provenance" -> Provenance(l)

-----------------------------------------------------------------------------
(* Commands as sequences of operations, each with the check that follows   *)
(* it (of a publication: that precedes it).                                *)

Op(op, d, check) == [op |-> op, d |-> d, check |-> check]
Load(d) == Op("load", d, "none")
Hash(d) == Op("hash", d, "none")
Publish(d) == Op("publish", d, "none")

EachSeason(k, Block(_)) ==
    [i \in 1..(k * N) |-> Block(1 + ((i - 1) \div k))[1 + ((i - 1) % k)]]

DownloadSteps ==
    LET OneEntry(s) == <<Op("fetch", Canonical(s), "none")>>
    IN  <<Op("inputs", Training, "none")>> \o EachSeason(1, OneEntry)

CanonicalSteps ==
    LET OneEntry(s) == <<Op("entry", Canonical(s), "none"), Publish(Canonical(s))>>
    IN  EachSeason(2, OneEntry)

FeatureSteps ==
    LET OneEntry(s) == <<Op("entry", Canonical(s), "none"), Publish(Canonical(s)),
                         Load(Canonical(s)), Publish(Features(s))>>
    IN  <<Op("listing", Training, "none")>> \o EachSeason(4, OneEntry)

TrainingSteps ==
    LET OneSeason(s) == <<Load(Features(s)), Hash(Features(s))>>
    IN  <<Op("inputs", Training, "none")>> \o FeatureSteps \o EachSeason(2, OneSeason)
        \o <<Op("checksum", Training, "none"), Publish(Training)>>

EvaluationSteps ==
    TrainingSteps \o <<Load(Training), Hash(Training), Op("publish", Evaluation, "embedded")>>

CatBoostSteps ==
    TrainingSteps \o <<Load(Training), Hash(Training), Publish(Freeze),
                       Op("publish", CatBoost, "embedded")>>

AdvancedSteps ==
    TrainingSteps \o <<Load(Training), Hash(Training), Load(CatBoost),
                       Op("hash", CatBoost, "tuned_on_training"), Load(Freeze),
                       Op("hash", Freeze, "freeze_of_tuning"),
                       Op("publish", Advanced, "embedded")>>

AssessmentSteps ==
    TrainingSteps \o <<Load(Training), Hash(Training), Load(Evaluation), Load(CatBoost),
                       Op("load", Advanced, "one_training"), Load(Freeze),
                       Op("hash", Freeze, "freeze_of_evaluations"),
                       Op("hash", CatBoost, "tuning_of_advanced"),
                       Hash(Evaluation), Hash(Advanced),
                       Op("publish", Assessment, "embedded")>>

(* _provenance reads the five results back and hashes their manifests.     *)
ArtifactInputs ==
    <<Load(Evaluation), Load(CatBoost), Load(Advanced), Load(Assessment), Load(Freeze),
      Hash(Evaluation), Hash(CatBoost), Hash(Advanced), Hash(Assessment),
      Op("hash", Freeze, "provenance")>>

ArtifactSteps ==
    AssessmentSteps \o TrainingSteps \o <<Load(Training)>> \o ArtifactInputs
        \o <<Load(CatBoost), Op("store", Assessment, "none")>>

Steps(command) ==
    CASE command = "download"   -> DownloadSteps
      [] command = "canonical"  -> CanonicalSteps
      [] command = "features"   -> FeatureSteps
      [] command = "training"   -> TrainingSteps
      [] command = "evaluation" -> EvaluationSteps
      [] command = "catboost"   -> CatBoostSteps
      [] command = "advanced"   -> AdvancedSteps
      [] command = "assessment" -> AssessmentSteps
      [] command = "artifact"   -> ArtifactSteps

-----------------------------------------------------------------------------
(* Processes.                                                              *)

NoLocals == [inputs |-> None, listing |-> None, entry |-> None, part |-> None,
             historical_sum |-> None, held |-> [d \in {} |-> None],
             sums |-> [d \in {} |-> None]]

Idle(status, command) ==
    [status |-> status, command |-> command, pc |-> 1, phase |-> "begin", l |-> NoLocals]

Put(f, d, v) == [x \in DOMAIN f \cup {d} |-> IF x = d THEN v ELSE f[x]]

Running(j) == job[j].status = "running"

Current(j) == Steps(job[j].command)[job[j].pc]

At(j, op, phase) ==
    Running(j) /\ Current(j).op = op /\ job[j].phase = phase

(* What a function holds is gone when it returns: the canonical            *)
(* materializer, the feature materializer, then the stage itself.          *)
Returned(d, l) ==
    CASE d[1] = "canonical" -> [l EXCEPT !.entry = None]
      [] d = Features(N) -> [l EXCEPT !.listing = None,
                                      !.held = [x \in {} |-> None]]
      [] d[1] \in {"training", "assessment"} -> NoLocals
      [] OTHER -> l

ToPhase(j, phase, l) == job' = [job EXCEPT ![j].phase = phase, ![j].l = l]

Advance(j, l) ==
    LET v == job[j]
    IN  job' = [job EXCEPT ![j] =
            IF v.pc = Len(Steps(v.command)) THEN Idle("done", v.command)
            ELSE [v EXCEPT !.pc = v.pc + 1, !.phase = "begin", !.l = l]]

Refused(j) == job' = [job EXCEPT ![j] = Idle("refused", @.command)]

Published(d, j) == Advance(j, Returned(d, job[j].l))

UnchangedFiles == UNCHANGED <<historical, raw, disk, artifacts, litter>>
UnchangedCounts == UNCHANGED <<undisturbed, starts, edits, crashes>>

-----------------------------------------------------------------------------
(* One file operation each.                                                *)

ReadInputs(j) ==
    /\ At(j, "inputs", "begin")
    /\ Advance(j, [job[j].l EXCEPT !.inputs = historical])
    /\ UnchangedFiles /\ UnchangedCounts

ReadListing(j) ==
    /\ At(j, "listing", "begin")
    /\ Advance(j, [job[j].l EXCEPT !.listing = historical])
    /\ UnchangedFiles /\ UnchangedCounts

(* materialize_historical_entry loads the manifest once more by entry.     *)
LookUpEntry(j) ==
    /\ At(j, "entry", "begin")
    /\ ToPhase(j, "parse", [job[j].l EXCEPT !.entry = historical[Current(j).d[2]]])
    /\ UnchangedFiles /\ UnchangedCounts

(* The parser verifies the raw file against the entry before it reads it.  *)
ParseRaw(j) ==
    /\ At(j, "entry", "parse")
    /\ LET entry == job[j].l.entry
       IN  IF raw[entry.destination] = entry.sha256 THEN Advance(j, job[j].l)
                                                    ELSE Refused(j)
    /\ UnchangedFiles /\ UnchangedCounts

(* The canonical loader reads the rows first, all others the manifest.     *)
LoadFirst(j) ==
    /\ At(j, "load", "begin")
    /\ LET d == Current(j).d
           file == IF d[1] = "canonical" THEN disk[d].rows ELSE disk[d].manifest
       IN  IF file = None THEN Refused(j)
                          ELSE ToPhase(j, "second", [job[j].l EXCEPT !.part = file])
    /\ UnchangedFiles /\ UnchangedCounts

LoadSecond(j) ==
    /\ At(j, "load", "second")
    /\ LET d == Current(j).d
           l == job[j].l
           r == IF d[1] = "canonical" THEN l.part ELSE disk[d].rows
           m == IF d[1] = "canonical" THEN disk[d].manifest ELSE l.part
           loaded == [l EXCEPT !.part = None,
                               !.held = Put(@, d, [rows |-> r, manifest |-> m])]
       IN  IF /\ m # None
              /\ r # None \/ SingleFile(d)
              /\ Loads(d, r, m, l)
              /\ Passes(Current(j).check, loaded)
           THEN Advance(j, loaded) ELSE Refused(j)
    /\ UnchangedFiles /\ UnchangedCounts

HashManifest(j) ==
    /\ At(j, "hash", "begin")
    /\ LET d == Current(j).d
           hashed == [job[j].l EXCEPT !.sums = Put(@, d, disk[d].manifest)]
       IN  IF disk[d].manifest # None /\ Passes(Current(j).check, hashed)
           THEN Advance(j, hashed) ELSE Refused(j)
    /\ UnchangedFiles /\ UnchangedCounts

(* An assessment that selects anything but the supported CatBoost          *)
(* configuration has no artifact.                                          *)
ChampionUnsupported(j) ==
    /\ At(j, "hash", "begin")
    /\ Current(j).check = "provenance"
    /\ Refused(j)
    /\ UnchangedFiles /\ UnchangedCounts

(* The input checksums are taken when the examples are complete.           *)
HashHistorical(j) ==
    /\ At(j, "checksum", "begin")
    /\ Advance(j, [job[j].l EXCEPT !.historical_sum = historical])
    /\ UnchangedFiles /\ UnchangedCounts

(* write_*: build and validate the payloads, leave files that are current  *)
(* alone, and otherwise replace the rows and then the manifest.            *)
CompareRows(j) ==
    /\ At(j, "publish", "begin")
    /\ LET d == Current(j).d
           l == job[j].l
       IN  IF ~Passes(Current(j).check, l) THEN Refused(j)
           ELSE ToPhase(j, IF disk[d].rows = Content(d, l).rows THEN "compare" ELSE "rows", l)
    /\ UnchangedFiles /\ UnchangedCounts

(* Mutant: rows that are current make the pair current.                    *)
RowsAreEnough(j) ==
    /\ At(j, "publish", "compare")
    /\ Published(Current(j).d, j)
    /\ UnchangedFiles /\ UnchangedCounts

CompareManifest(j) ==
    /\ At(j, "publish", "compare")
    /\ LET d == Current(j).d
       IN  IF disk[d].manifest = Content(d, job[j].l).manifest THEN Published(d, j)
           ELSE ToPhase(j, IF SingleFile(d) THEN "manifest" ELSE "rows", job[j].l)
    /\ UnchangedFiles /\ UnchangedCounts

WriteRows(j) ==
    /\ At(j, "publish", "rows")
    /\ disk' = [disk EXCEPT ![Current(j).d].rows = Content(Current(j).d, job[j].l).rows]
    /\ ToPhase(j, "manifest", job[j].l)
    /\ UNCHANGED <<historical, raw, artifacts, litter>> /\ UnchangedCounts

WriteManifest(j) ==
    /\ At(j, "publish", "manifest")
    /\ disk' = [disk EXCEPT ![Current(j).d].manifest = Content(Current(j).d, job[j].l).manifest]
    /\ Published(Current(j).d, j)
    /\ UNCHANGED <<historical, raw, artifacts, litter>> /\ UnchangedCounts

(* download_manifest_entry: verify what is there, or fetch the payload and *)
(* link it to its destination, which fails if a file has appeared there.   *)
Entry(j) == job[j].l.inputs[Current(j).d[2]]

VerifyExisting(j) ==
    IF raw[Entry(j).destination] = Entry(j).sha256 THEN Advance(j, job[j].l) ELSE Refused(j)

Fetch(j) ==
    /\ At(j, "fetch", "begin")
    /\ IF raw[Entry(j).destination] # None THEN VerifyExisting(j)
       ELSE ToPhase(j, "fetched", job[j].l) \/ Refused(j)
    /\ UnchangedFiles /\ UnchangedCounts

(* Mutant: the payload replaces what has appeared at the destination.      *)
ReplaceRaw(j) ==
    /\ At(j, "fetch", "fetched")
    /\ raw' = [raw EXCEPT ![Entry(j).destination] = Entry(j).sha256]
    /\ Advance(j, job[j].l)
    /\ UNCHANGED <<historical, disk, artifacts, litter>> /\ UnchangedCounts

LinkRaw(j) ==
    /\ At(j, "fetch", "fetched")
    /\ IF raw[Entry(j).destination] # None THEN VerifyExisting(j) /\ UNCHANGED raw
       ELSE /\ raw' = [raw EXCEPT ![Entry(j).destination] = Entry(j).sha256]
            /\ Advance(j, job[j].l)
    /\ UNCHANGED <<historical, disk, artifacts, litter>> /\ UnchangedCounts

-----------------------------------------------------------------------------
(* The artifact store.  A directory is named by the identity of all its    *)
(* files, so what is written there never differs; its loader refuses any   *)
(* undeclared path, a temporary file too.                                  *)

(* Mutant: the manifest is published before the components it names.       *)
ManifestFirst == <<"manifest", "preprocessor", "classifier">>

Files == <<"preprocessor", "classifier", "manifest">>
Temporary == <<"preprocessor.tmp", "classifier.tmp", "manifest.tmp">>
InTemporary(j) == \E i \in 1..3 : job[j].phase = Temporary[i]

Artifact(j) == job[j].l.held[Assessment].manifest

Holds(a, files) == \A f \in files : <<a, f>> \in artifacts

CompareArtifact(j) ==
    /\ At(j, "store", "begin")
    /\ ToPhase(j, IF Holds(Artifact(j), {Files[i] : i \in 1..3}) THEN "reload" ELSE Files[1],
               job[j].l)
    /\ UnchangedFiles /\ UnchangedCounts

OpenTemporary(j) ==
    /\ \E i \in 1..3 : At(j, "store", Files[i]) /\ ToPhase(j, Temporary[i], job[j].l)
    /\ UnchangedFiles /\ UnchangedCounts

ReplaceComponent(j) ==
    /\ \E i \in 1..3 :
          /\ At(j, "store", Temporary[i])
          /\ artifacts' = artifacts \cup {<<Artifact(j), Files[i]>>}
          /\ ToPhase(j, IF i = 3 THEN "reload" ELSE Files[i + 1], job[j].l)
    /\ UNCHANGED <<historical, raw, disk, litter>> /\ UnchangedCounts

Undeclared(j) ==
    \/ Artifact(j) \in litter
    \/ \E k \in Jobs \ {j} : InTemporary(k) /\ Artifact(k) = Artifact(j)

ReloadArtifact(j) ==
    /\ At(j, "store", "reload")
    /\ IF Undeclared(j) THEN Refused(j) ELSE Advance(j, job[j].l)
    /\ UnchangedFiles /\ UnchangedCounts

-----------------------------------------------------------------------------
(* The environment.                                                        *)

Start(j, command) ==
    /\ ~Running(j) /\ starts < MaxStarts
    /\ job' = [job EXCEPT ![j] = Idle("running", command)]
    /\ starts' = starts + 1
    /\ undisturbed' = IF \E k \in Jobs : Running(k) THEN {} ELSE {j}
    /\ UNCHANGED <<edits, crashes>> /\ UnchangedFiles

(* A reviewer commits another historical manifest.                         *)
Edit ==
    /\ edits < MaxEdits
    /\ historical' \in Revisions \ {historical}
    /\ edits' = edits + 1
    /\ undisturbed' = {}
    /\ UNCHANGED <<raw, disk, artifacts, litter, job, starts, crashes>>

(* A killed process cannot unlink its temporary file.                      *)
Crash(j) ==
    /\ Running(j) /\ crashes < MaxCrashes
    /\ litter' = IF InTemporary(j) THEN litter \cup {Artifact(j)} ELSE litter
    /\ job' = [job EXCEPT ![j] = Idle("crashed", @.command)]
    /\ crashes' = crashes + 1
    /\ UNCHANGED <<historical, raw, disk, artifacts, undisturbed, starts, edits>>

-----------------------------------------------------------------------------
(* What the pipeline should leave on disk for one historical manifest,     *)
(* computed without files, locals or steps.                                *)

IdealLink(h, s) == [fixtures_sha256 |-> h[s].sha256, source |-> Lineage(h[s])]

IdealFeatures(h, s) == [own |-> IdealLink(h, s), history |-> [k \in 1..(s - 1) |-> IdealLink(h, k)]]

IdealTraining(h) ==
    [historical_manifest_sha256 |-> h,
     sources |-> [s \in Seasons |-> [features |-> IdealFeatures(h, s),
                                     feature_manifest_sha256 |-> IdealFeatures(h, s)]]]

Ideal(h) ==
    LET m == IdealTraining(h)
        rows == TrainingSha(m)
        tuning == [training |-> m, test_freeze |-> FreezeOf(m)]
        advanced == [training |-> m, tuning_manifest_sha256 |-> tuning,
                     selected_predictions_sha256 |-> rows,
                     test_freeze_manifest_sha256 |-> FreezeOf(m)]
        manifests == [d \in {Evaluation, CatBoost, Advanced} |->
            CASE d = Evaluation -> [training |-> m] [] d = CatBoost -> tuning [] d = Advanced -> advanced]
    IN  [d \in Datasets |->
          CASE d[1] = "canonical" -> [rows |-> h[d[2]].sha256, manifest |-> IdealLink(h, d[2])]
            [] d[1] = "features" -> [rows |-> IdealFeatures(h, d[2]), manifest |-> IdealFeatures(h, d[2])]
            [] d = Training -> [rows |-> rows, manifest |-> m]
            [] d = Freeze -> [rows |-> None, manifest |-> FreezeOf(m)]
            [] d = Assessment ->
                 [rows |-> None,
                  manifest |-> [training |-> m, acceptance |-> {m},
                                predictions |-> [x \in DOMAIN manifests |-> rows],
                                manifests |-> manifests,
                                test_freeze_manifest_sha256 |-> FreezeOf(m)]]
            [] OTHER -> [rows |-> rows, manifest |-> manifests[d]]]

(* None stands for a file that is not there, never for what a file holds.  *)
ASSUME NoneIsNoContent ==
    \A h \in Revisions : \A d \in Datasets :
        /\ Ideal(h)[d].manifest # None
        /\ SingleFile(d) \/ Ideal(h)[d].rows # None

(* Earlier commands ended at any revision each, or were not run yet.       *)
Kind(d) ==
    CASE d[1] \in {"canonical", "features", "training"} -> "data"
      [] d[1] = "freeze" -> "catboost"
      [] OTHER -> d[1]

LeftBy(earlier) ==
    [d \in Datasets |-> IF earlier[Kind(d)] = None THEN [rows |-> None, manifest |-> None]
                        ELSE Ideal(earlier[Kind(d)])[d]]

Init ==
    /\ historical \in Reviewed
    /\ raw \in RawStores
    /\ disk \in {LeftBy(e) : e \in Earlier}
    /\ artifacts = {} /\ litter = {}
    /\ job = [j \in Jobs |-> Idle("idle", "download")]
    /\ undisturbed = {}
    /\ starts = 0 /\ edits = 0 /\ crashes = 0

Step(j) ==
    \/ ReadInputs(j) \/ ReadListing(j) \/ LookUpEntry(j) \/ ParseRaw(j)
    \/ LoadFirst(j) \/ LoadSecond(j) \/ HashManifest(j) \/ HashHistorical(j)
    \/ CompareRows(j) \/ CompareManifest(j) \/ WriteRows(j) \/ WriteManifest(j)
    \/ Fetch(j) \/ LinkRaw(j) \/ ChampionUnsupported(j)
    \/ CompareArtifact(j) \/ OpenTemporary(j) \/ ReplaceComponent(j) \/ ReloadArtifact(j)

Next ==
    \/ Edit
    \/ \E j \in Jobs : \/ Step(j) \/ Crash(j)
                       \/ \E command \in Commands[j] : Start(j, command)

Spec == Init /\ [][Next]_vars

-----------------------------------------------------------------------------
(* Properties.                                                             *)

Intact(d) ==
    /\ disk[d].manifest # None
    /\ disk[d].rows # None \/ SingleFile(d)
    /\ d[1] = "features" => disk[d].rows = disk[d].manifest
    /\ d[1] = "training" => disk[d].rows = TrainingSha(disk[d].manifest)

(* An intact feature dataset was built from one revision of the historical *)
(* manifest: its own season and the whole chain of seasons before it.      *)
(* materialize_feature_entries reads the manifest once while the canonical *)
(* materializer reads it again for every entry, so this rests on the       *)
(* lineage check of _canonical_inputs.                                     *)
FeaturesFromOneRevision ==
    \A s \in Seasons : Intact(Features(s)) =>
        \E h \in Revisions : disk[Features(s)].manifest = IdealFeatures(h, s)

(* All seasons of an intact training dataset come from raw files of one    *)
(* revision, although the feature datasets were published one by one and   *)
(* another command may have replaced some before they were read back.      *)
TrainingFromOneRevision ==
    Intact(Training) =>
        \E h \in Revisions : \A s \in Seasons :
            disk[Training].manifest.sources[s].features.own.source = Lineage(h[s])

(* The acceptance report compares evaluations of one and the same training *)
(* manifest, with the test set sealed under that training, although its    *)
(* three inputs are whatever the last commands left on disk.               *)
ComparedOnOneTraining ==
    LET a == disk[Assessment].manifest
    IN  a # None => /\ a.acceptance = {a.training}
                    /\ a.test_freeze_manifest_sha256 = FreezeOf(a.training)

(* An artifact manifest is only visible with both components in place, at  *)
(* any moment another process or a crash may look at the directory.        *)
ArtifactsAreWhole ==
    \A p \in artifacts : p[2] = "manifest" => Holds(p[1], {"preprocessor", "classifier"})

(* A command that nothing overlapped leaves every dataset it publishes as  *)
(* the historical manifest determines it, whatever earlier commands left:  *)
(* torn pairs, other revisions, half of a chain.  The commands that need   *)
(* no evaluation of another command are not refused either, provided the   *)
(* raw files are the reviewed ones.                                        *)
SelfContained == {"canonical", "features", "training", "evaluation", "catboost"}

RawIsReviewed == \A s \in Seasons : raw[historical[s].destination] = historical[s].sha256

RerunRepairs ==
    \A j \in undisturbed :
        /\ job[j].status = "done" =>
              \A i \in DOMAIN Steps(job[j].command) :
                  LET step == Steps(job[j].command)[i]
                  IN  step.op = "publish" => disk[step.d] = Ideal(historical)[step.d]
        /\ job[j].status = "refused" =>
              ~(job[j].command \in SelfContained /\ RawIsReviewed)

(* A raw file is never replaced, by any command or race of downloads under *)
(* two revisions that give one destination different contents.             *)
RawIsImmutable ==
    [][\A p \in Paths : raw[p] # None => raw'[p] = raw[p]]_vars

=============================================================================
