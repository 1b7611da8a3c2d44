------------------------- MODULE CandidateRetraining -------------------------
(***************************************************************************)
(* How models are fitted and judged: point-in-time rows of the finished    *)
(* seasons, the walk-forward evaluation on them, candidates refitted with  *)
(* operational evidence, their comparison with the baseline on a later     *)
(* holdout, and the passive snapshot of a report.                          *)
(*                                                                         *)
(* Meanwhile the season goes on: the league moves kickoffs, the local copy *)
(* of the fixture list is only as fresh as its last synchronization, and   *)
(* the official result of a match may be retrieved more than once.  Every  *)
(* workflow is a pure function of the evidence its caller selects, so one  *)
(* action is one call with any selection.  A fitted model is modelled by   *)
(* the examples it was fitted on, a metric by whether it improved.         *)
(***************************************************************************)
EXTENDS Integers, FiniteSets

CONSTANTS
    Historical,        \* fixtures of the finished seasons; numbered
    Upcoming,          \* fixtures of the running season; numbered
    SeasonOf,          \* season_id of every fixture, as a number
    HistoricalKickoff, \* kickoff_at of the finished fixtures
    DateOnly,          \* finished fixtures of which only the date is known
    DayLength,
    LastDevelopment,   \* DEVELOPMENT_SEASONS is 1..LastDevelopment
    Sealed,            \* EXCLUDED_SEASONS
    HoldoutSeasons,    \* how many development seasons HOLDOUT_WINDOW evaluates
    InitialTraining,   \* WALK_FORWARD_INITIAL_TRAINING_SEASONS
    MinimumRows,       \* MINIMUM_COMPARISON_ROWS
    Slots,             \* kickoff times the league may choose
    FirstKickoff,      \* the ones it has chosen in the beginning
    Opening,           \* when the running season is opened
    MaxTime, MaxMoves, MaxPolls, MaxFeatures, MaxCandidates, MaxReports, MaxSnapshots

AllFixtures == Historical \cup Upcoming

ASSUME RetrainingAssumption ==
    /\ IsFiniteSet(AllFixtures) /\ AllFixtures \subseteq Nat
    /\ Historical \cap Upcoming = {}
    /\ SeasonOf \in [AllFixtures -> Nat \ {0}]
    /\ HistoricalKickoff \in [Historical -> Nat]
    /\ DateOnly \subseteq Historical /\ DayLength \in Nat \ {0}
    /\ LastDevelopment \in Nat /\ Sealed \subseteq Nat
    /\ \A s \in Sealed : s > LastDevelopment
    /\ \A f \in Historical : SeasonOf[f] \in (1..LastDevelopment) \cup Sealed
    /\ HoldoutSeasons \in 1..(LastDevelopment - 1)
    /\ InitialTraining \in 1..(LastDevelopment - 1)
    /\ Slots \subseteq Nat /\ FirstKickoff \in [Upcoming -> Slots]
    /\ \A f \in Historical : HistoricalKickoff[f] < Opening
    /\ \A k \in Slots : Opening < k
    /\ {Opening, MaxTime, MinimumRows} \subseteq Nat
    /\ {MaxMoves, MaxPolls, MaxFeatures, MaxCandidates, MaxReports, MaxSnapshots} \subseteq Nat

VARIABLES
    clock,
    kickoff,      \* external: when each upcoming fixture is played
    moves,
    synced,       \* the fixture list as it was last synchronized
    results,      \* official results retrieved
    features,     \* upcoming feature rows
    evaluation,   \* predictions of the development evaluation
    candidates,   \* candidate manifests
    reports,      \* comparison reports
    snapshots     \* operational snapshots

vars == <<clock, kickoff, moves, synced, results, features, evaluation, candidates,
          reports, snapshots>>

evidence == <<kickoff, moves, synced, results, features>>

-----------------------------------------------------------------------------
(* Rows of the finished seasons.  The engine takes the fixtures of a       *)
(* season in simultaneous batches; a row knows the batches before its own  *)
(* and, through opening priors and Elo carryover, the seasons before.      *)

Day(f) == HistoricalKickoff[f] \div DayLength

SameSeason(f) == {g \in Historical : SeasonOf[g] = SeasonOf[f]}

WholeDate(f) == \E g \in SameSeason(f) \cap DateOnly : Day(g) = Day(f)

BatchBefore(g, f) ==
    IF WholeDate(f) \/ WholeDate(g) THEN Day(g) < Day(f)
                                    ELSE HistoricalKickoff[g] < HistoricalKickoff[f]

BatchCutoff(f) ==
    IF WholeDate(f) THEN Day(f) * DayLength - 1 ELSE HistoricalKickoff[f]

Observed(f) == {g \in SameSeason(f) : BatchBefore(g, f)}

CarriedOver(f) == {g \in Historical : SeasonOf[g] < SeasonOf[f]}

(* Predictors: the team observations, the opening priors and the ratings.  *)
Knowledge(f) == Observed(f) \cup CarriedOver(f)

HistoricalRow(f) ==
    [fixture |-> f, kickoff |-> HistoricalKickoff[f], cutoff |-> BatchCutoff(f),
     known |-> Knowledge(f)]

-----------------------------------------------------------------------------
(* Walk-forward evaluation.                                                *)

DevelopmentSeasons == 1..LastDevelopment

Window(reference, evaluated) == [reference |-> reference, evaluated |-> evaluated]

HoldoutWindow ==
    Window(1..(LastDevelopment - HoldoutSeasons),
           (LastDevelopment - HoldoutSeasons + 1)..LastDevelopment)

WalkForwardWindows ==
    {Window(1..s, {s + 1}) : s \in InitialTraining..(LastDevelopment - 1)}

ExamplesForSeasons(seasons) ==
    {HistoricalRow(f) : f \in {g \in Historical : SeasonOf[g] \in seasons}}

CoversSeasons(fixtures, seasons) == {SeasonOf[f] : f \in fixtures} = seasons

PartitionAllowed(w) ==
    \A r \in ExamplesForSeasons(w.reference), e \in ExamplesForSeasons(w.evaluated) :
        r.kickoff < e.cutoff

(* A prediction: the row it is made for and the examples of its model.     *)
ModelPrediction(row, trained) == [row |-> row, trained |-> trained]

EvaluatePartition(w) ==
    {ModelPrediction(e, ExamplesForSeasons(w.reference)) : e \in ExamplesForSeasons(w.evaluated)}

Windows == {HoldoutWindow} \cup WalkForwardWindows

Evaluate ==
    /\ evaluation = {}
    /\ CoversSeasons(Historical, DevelopmentSeasons \cup Sealed)
    /\ \A w \in Windows : PartitionAllowed(w)
    /\ evaluation' = UNION {EvaluatePartition(w) : w \in Windows}
    /\ UNCHANGED <<clock, candidates, reports, snapshots>> /\ UNCHANGED evidence

-----------------------------------------------------------------------------
(* Operational evidence.                                                   *)

(* Of the results the caller passes, one per fixture, a row uses those that*)
(* were retrieved by its cutoff; they must be of earlier fixtures, and the *)
(* cutoff before the kickoff the fixture list names.                       *)
RelevantResults(k) == {r.fixture : r \in {x \in results : x.retrieved <= k}}

FeatureRow(f, k, known) ==
    [fixture |-> f, kickoff |-> synced[f], cutoff |-> k, known |-> known \cup Historical]

BuildFeature(f) ==
    /\ SeasonOf[f] \notin Sealed
    /\ clock < synced[f]
    /\ \E known \in SUBSET RelevantResults(clock) :
          /\ \A r \in results : r.fixture \in known => r.fixture # f /\ r.kickoff < synced[f]
          /\ features' = features \cup {FeatureRow(f, clock, known)}
    /\ Cardinality(features') <= MaxFeatures
    /\ UNCHANGED <<clock, kickoff, moves, synced, results, evaluation, candidates,
                   reports, snapshots>>

CompletedResult(f) == [fixture |-> f, kickoff |-> kickoff[f], retrieved |-> clock]

-----------------------------------------------------------------------------
(* Retraining.  The caller hands over features and results; they are       *)
(* matched by fixture, and refused when one repeats or lacks its partner.  *)

Pairs == {p \in [feature : features, result : results] : p.feature.fixture = p.result.fixture}

OneToOne(pairs) ==
    /\ pairs # {}
    /\ \A p, q \in pairs : p.feature.fixture = q.feature.fixture => p = q

(* Mutant: only the fixture identity is compared.                          *)
SameIdentity(p) == p.feature.fixture = p.result.fixture

DescribeOneFixture(p) ==
    /\ p.feature.fixture = p.result.fixture
    /\ p.feature.kickoff = p.result.kickoff

AfterKickoff(p) == p.result.retrieved >= p.feature.kickoff

Unsealed(pairs) == \A p \in pairs : SeasonOf[p.feature.fixture] \notin Sealed

(* The baseline examples a caller may pass.                                *)
BaselineAccepted(baseline) ==
    /\ baseline # {}
    /\ \A f \in baseline : SeasonOf[f] \notin Sealed
    /\ CoversSeasons(baseline, DevelopmentSeasons)

OperationalAccepted(pairs, baseline) ==
    /\ \A p \in pairs : /\ DescribeOneFixture(p) /\ AfterKickoff(p)
                        /\ SeasonOf[p.feature.fixture] > LastDevelopment
                        /\ p.feature.fixture \notin baseline

KnowledgeCutoff(c) ==
    CHOOSE t \in {p.result.retrieved : p \in c.operational} :
        \A p \in c.operational : p.result.retrieved <= t

Candidate(baseline, pairs) == [baseline |-> baseline, operational |-> pairs]

Retrain(baseline, pairs) ==
    /\ evaluation # {}
    /\ OneToOne(pairs) /\ Unsealed(pairs)
    /\ BaselineAccepted(baseline)
    /\ OperationalAccepted(pairs, baseline)
    /\ candidates' = candidates \cup {Candidate(baseline, pairs)}
    /\ Cardinality(candidates') <= MaxCandidates
    /\ UNCHANGED <<clock, evaluation, reports, snapshots>> /\ UNCHANGED evidence

-----------------------------------------------------------------------------
(* Comparison.                                                             *)

TrainedFixtures(c) == {p.feature.fixture : p \in c.operational}

(* Mutant: it is enough that the result is newer than the candidate.       *)
ResultFollows(p, c) ==
    AfterKickoff(p) /\ p.result.retrieved > KnowledgeCutoff(c)

FollowsKnowledge(p, c) ==
    /\ p.feature.cutoff > KnowledgeCutoff(c)
    /\ AfterKickoff(p)
    /\ p.result.retrieved > KnowledgeCutoff(c)

ComparisonCutoff(pairs) ==
    CHOOSE t \in {p.result.retrieved : p \in pairs} : \A p \in pairs : p.result.retrieved <= t

Decision(pairs, covered, improved) ==
    IF Cardinality(pairs) < MinimumRows \/ ~covered THEN "insufficient_evidence"
    ELSE IF improved THEN "candidate_review_recommended" ELSE "retain_baseline"

Report(c, pairs, decision) == [candidate |-> c, examples |-> pairs, decision |-> decision]

Comparable(c, pairs) ==
    /\ OneToOne(pairs) /\ Unsealed(pairs)
    /\ TrainedFixtures(c) \cap {p.feature.fixture : p \in pairs} = {}
    /\ \A p \in pairs : DescribeOneFixture(p) /\ FollowsKnowledge(p, c)

Compare(c, pairs) ==
    /\ Comparable(c, pairs)
    /\ \E covered, improved \in BOOLEAN :
          reports' = reports \cup {Report(c, pairs, Decision(pairs, covered, improved))}
    /\ Cardinality(reports') <= MaxReports
    /\ UNCHANGED <<clock, evaluation, candidates, snapshots>> /\ UNCHANGED evidence

-----------------------------------------------------------------------------
(* The operational snapshot of a report.                                   *)

Signal(decision) ==
    CASE decision = "insufficient_evidence" -> "comparison_evidence_incomplete"
      [] decision = "retain_baseline" -> "baseline_retained"
      [] decision = "candidate_review_recommended" -> "candidate_requires_human_review"

BuildSnapshot(report, at) ==
    /\ at >= ComparisonCutoff(report.examples)
    /\ snapshots' = snapshots \cup
          {[report |-> report, observed_at |-> at, signal |-> Signal(report.decision)]}
    /\ Cardinality(snapshots') <= MaxSnapshots
    /\ UNCHANGED <<clock, evaluation, candidates, reports>> /\ UNCHANGED evidence

-----------------------------------------------------------------------------
(* The season.                                                             *)

Init ==
    /\ clock = Opening
    /\ kickoff = FirstKickoff /\ synced = FirstKickoff
    /\ moves = 0
    /\ results = {} /\ features = {}
    /\ evaluation = {} /\ candidates = {} /\ reports = {} /\ snapshots = {}

Tick ==
    /\ clock < MaxTime
    /\ clock' = clock + 1
    /\ UNCHANGED <<evaluation, candidates, reports, snapshots>> /\ UNCHANGED evidence

Move(f) ==
    /\ clock < kickoff[f] /\ moves < MaxMoves
    /\ \E k \in Slots : clock < k /\ k # kickoff[f] /\ kickoff' = [kickoff EXCEPT ![f] = k]
    /\ moves' = moves + 1
    /\ UNCHANGED <<clock, synced, results, features, evaluation, candidates, reports, snapshots>>

(* The fixture list is synchronized as a whole.                            *)
SyncFixtures ==
    /\ synced # kickoff
    /\ synced' = kickoff
    /\ UNCHANGED <<clock, kickoff, moves, results, features, evaluation, candidates,
                   reports, snapshots>>

(* A played match has its official result; every poll that retrieves it is *)
(* an observation of its own.                                              *)
ObserveResult(f) ==
    /\ kickoff[f] < clock
    /\ Cardinality({r \in results : r.fixture = f}) < MaxPolls
    /\ results' = results \cup {CompletedResult(f)}
    /\ UNCHANGED <<clock, kickoff, moves, synced, features, evaluation, candidates,
                   reports, snapshots>>

Next ==
    \/ Tick \/ SyncFixtures \/ Evaluate
    \/ \E f \in Upcoming : Move(f) \/ BuildFeature(f) \/ ObserveResult(f)
    \/ \E pairs \in SUBSET Pairs, sealed \in SUBSET Sealed :
          Retrain({f \in Historical : SeasonOf[f] \in DevelopmentSeasons \cup sealed}, pairs)
    \/ \E c \in candidates, pairs \in SUBSET Pairs : Compare(c, pairs)
    \/ \E r \in reports : BuildSnapshot(r, clock)

Spec == Init /\ [][Next]_vars

-----------------------------------------------------------------------------
(* Properties.                                                             *)

CandidateExamples(c) ==
    {HistoricalRow(f) : f \in c.baseline} \cup {p.feature : p \in c.operational}

(* Every prediction a model was judged by: in the development evaluation   *)
(* and in a comparison, there with the candidate.                          *)
Judged ==
    evaluation \cup
        UNION {{ModelPrediction(p.feature, CandidateExamples(r.candidate)) : p \in r.examples}
                  : r \in reports}

(* What a model has learned of, as an example or in the features of one.   *)
Learned(trained) == {r.fixture : r \in trained} \cup UNION {r.known : r \in trained}

(* No model is judged by a match it has learned of: neither as one of its  *)
(* examples nor in the state their features were replayed from, although   *)
(* run only compares the fixtures of the operational examples, a result    *)
(* can be retrieved again long after others have built on it, and the      *)
(* sealed season is in nothing a model learns from or is judged by.        *)
NoModelKnowsItsHoldout ==
    \A p \in Judged :
        /\ p.row.fixture \notin Learned(p.trained)
        /\ SeasonOf[p.row.fixture] \notin Sealed
        /\ \A r \in p.trained : SeasonOf[r.fixture] \notin Sealed

(* Whatever the league moves and however stale the fixture list was, the   *)
(* features of every example a candidate is fitted on or judged by were    *)
(* computed before that match was in fact played.                          *)
ComputedBeforeKickoff ==
    /\ \A c \in candidates : \A p \in c.operational : p.feature.cutoff < kickoff[p.feature.fixture]
    /\ \A r \in reports : \A p \in r.examples : p.feature.cutoff < kickoff[p.feature.fixture]

=============================================================================
