-------------------------- MODULE RetrainingProofs --------------------------
(***************************************************************************)
(* Theorems about CandidateRetraining: for every calendar, every schedule  *)
(* of polls and moved kickoffs, and any selection of evidence a caller     *)
(* makes, no model is judged by a match it has learned of, and every       *)
(* feature a model is fitted on or judged by precedes the match it is for. *)
(***************************************************************************)
EXTENDS CandidateRetraining, WellFoundedInduction, TLAPS

-----------------------------------------------------------------------------
(* The inductive invariant.                                                *)

SeasonTypes ==
    /\ clock \in Nat
    /\ kickoff \in [Upcoming -> Slots]
    /\ synced \in [Upcoming -> Slots]

(* A result follows its match, whose kickoff is final by then.             *)
ResultPlayed(x) ==
    /\ x.fixture \in Upcoming
    /\ x.kickoff = kickoff[x.fixture] /\ x.kickoff \in Nat /\ x.retrieved \in Nat
    /\ x.kickoff < x.retrieved /\ x.retrieved <= clock

(* A feature precedes the kickoff it was told, and what it knows of the    *)
(* running season was retrieved by its cutoff.                             *)
FeatureTimely(h) ==
    /\ h.fixture \in Upcoming
    /\ h.kickoff \in Nat /\ h.cutoff \in Nat
    /\ h.cutoff < h.kickoff
    /\ \A g \in h.known \ Historical :
          \E x \in results : x.fixture = g /\ x.retrieved <= h.cutoff

PairSound(p) ==
    /\ p.feature \in features /\ p.result \in results
    /\ DescribeOneFixture(p) /\ AfterKickoff(p)
    /\ SeasonOf[p.feature.fixture] \notin Sealed

CandidateSound(c) ==
    /\ c.baseline \subseteq Historical
    /\ \A f \in c.baseline : SeasonOf[f] \notin Sealed
    /\ c.operational # {} /\ \A p \in c.operational : PairSound(p)

ReportSound(r) ==
    /\ r.candidate \in candidates
    /\ \A p \in r.examples :
          /\ PairSound(p)
          /\ p.feature.fixture \notin TrainedFixtures(r.candidate)
          /\ KnowledgeCutoff(r.candidate) < p.feature.cutoff

TInv ==
    /\ SeasonTypes
    /\ \A x \in results : ResultPlayed(x)
    /\ \A h \in features : FeatureTimely(h)
    /\ evaluation \subseteq UNION {EvaluatePartition(w) : w \in Windows}
    /\ \A c \in candidates : CandidateSound(c)
    /\ \A r \in reports : ReportSound(r)

-----------------------------------------------------------------------------
(* Times.                                                                  *)

\* A nonempty set of naturals has a least element.
LEMMA LeastNatural ==
  ASSUME NEW S \in SUBSET Nat, S # {}
  PROVE  \E x \in S : \A y \in S : x <= y
<1> DEFINE R == OpToRel(<, Nat)
<1>1. IsWellFoundedOn(R, Nat)
  BY NatLessThanWellFounded
<1>2. \A x, y \in Nat : x < y => <<x, y>> \in R
  BY DEF OpToRel
<1> HIDE DEF R
<1>3. PICK x \in S : \A y \in S : ~(<<y, x>> \in R)
  BY <1>1, WFMin
<1>4. \A y \in S : x <= y
  <2>1. \A y \in S : ~(y < x)
    BY <1>2, <1>3
  <2>2. QED
    BY <2>1
<1>5. QED
  BY <1>4

\* A nonempty set of times up to now has a latest one.
LEMMA LatestTime ==
  ASSUME NEW m \in Nat, NEW S \in SUBSET (0 .. m), S # {}
  PROVE  \E x \in S : \A y \in S : y <= x
<1> DEFINE T == {m - x : x \in S}
<1>1. T \in SUBSET Nat /\ T # {}
  <2>1. \A x \in S : m - x \in Nat
    OBVIOUS
  <2>2. QED
    BY <2>1
<1>2. PICK d \in T : \A e \in T : d <= e
  BY <1>1, LeastNatural
<1>3. PICK x \in S : d = m - x
  OBVIOUS
<1>4. \A y \in S : m - x <= m - y
  BY <1>2, <1>3
<1>5. \A y \in S : y <= x
  BY <1>4
<1>6. QED
  BY <1>5

\* The knowledge cutoff of a candidate is a time no earlier than any result it
\* was fitted on.
LEMMA KnowledgeCutoffIsLatest ==
  ASSUME SeasonTypes, \A x \in results : ResultPlayed(x),
         NEW c, CandidateSound(c)
  PROVE  /\ KnowledgeCutoff(c) \in Nat
         /\ \A p \in c.operational : p.result.retrieved <= KnowledgeCutoff(c)
<1> DEFINE S == {p.result.retrieved : p \in c.operational}
<1>1. S \in SUBSET (0 .. clock) /\ S # {} /\ clock \in Nat
  <2>1. \A p \in c.operational : p.result.retrieved \in 0 .. clock
    BY DEF CandidateSound, PairSound, ResultPlayed, SeasonTypes
  <2>2. QED
    BY <2>1 DEF CandidateSound, SeasonTypes
<1>2. PICK t \in S : \A u \in S : u <= t
  <2> HIDE DEF S
  <2>1. QED
    BY <1>1, LatestTime
<1>3. /\ KnowledgeCutoff(c) \in S
      /\ \A p \in c.operational : p.result.retrieved <= KnowledgeCutoff(c)
  BY <1>2 DEF KnowledgeCutoff
<1>4. QED
  BY <1>1, <1>3

-----------------------------------------------------------------------------
(* The finished seasons.                                                   *)

\* A row of a finished season knows no later season.
LEMMA KnowledgeLooksBack ==
  ASSUME NEW f \in Historical, NEW g \in Knowledge(f)
  PROVE  g \in Historical /\ SeasonOf[g] <= SeasonOf[f]
<1>1. SeasonOf[f] \in Nat
  BY RetrainingAssumption DEF AllFixtures
<1>2. CASE g \in Observed(f)
  BY <1>1, <1>2 DEF Observed, SameSeason
<1>3. CASE g \in CarriedOver(f)
  <2>1. g \in Historical /\ SeasonOf[g] < SeasonOf[f]
    BY <1>3 DEF CarriedOver
  <2>2. SeasonOf[g] \in Nat
    BY <2>1, RetrainingAssumption DEF AllFixtures
  <2>3. QED
    BY <1>1, <2>1, <2>2
<1>4. QED
  BY <1>2, <1>3 DEF Knowledge

\* A window is trained on seasons up to one and evaluated on later ones.
LEMMA WindowsAreOrdered ==
  ASSUME NEW w \in Windows
  PROVE  \E s \in Nat :
            /\ s < LastDevelopment
            /\ \A t \in w.reference : t \in Nat /\ t <= s
            /\ \A t \in w.evaluated : t \in Nat /\ s < t /\ t <= LastDevelopment
<1>1. LastDevelopment \in Nat /\ HoldoutSeasons \in 1..(LastDevelopment - 1)
      /\ InitialTraining \in 1..(LastDevelopment - 1)
  BY RetrainingAssumption
<1>2. CASE w = HoldoutWindow
  <2>1. w.reference = 1..(LastDevelopment - HoldoutSeasons)
        /\ w.evaluated = (LastDevelopment - HoldoutSeasons + 1)..LastDevelopment
    BY <1>2 DEF HoldoutWindow, Window
  <2>2. LastDevelopment - HoldoutSeasons \in Nat
        /\ LastDevelopment - HoldoutSeasons < LastDevelopment
    BY <1>1
  <2>3. QED
    BY <1>1, <2>1, <2>2
<1>3. CASE w \in WalkForwardWindows
  <2>1. PICK s \in InitialTraining..(LastDevelopment - 1) : w = Window(1..s, {s + 1})
    BY <1>3 DEF WalkForwardWindows
  <2>2. w.reference = 1..s /\ w.evaluated = {s + 1}
    BY <2>1 DEF Window
  <2>3. s \in Nat /\ s < LastDevelopment
    BY <1>1
  <2>4. QED
    BY <1>1, <2>2, <2>3
<1>4. QED
  BY <1>2, <1>3 DEF Windows

\* The development evaluation judges a model by seasons after all it learned of.
LEMMA EvaluationIsBlind ==
  ASSUME NEW w \in Windows, NEW p \in EvaluatePartition(w)
  PROVE  /\ p.row.fixture \notin Learned(p.trained)
         /\ SeasonOf[p.row.fixture] \notin Sealed
         /\ \A r \in p.trained : SeasonOf[r.fixture] \notin Sealed
<1>1. PICK e \in ExamplesForSeasons(w.evaluated) :
        p = ModelPrediction(e, ExamplesForSeasons(w.reference))
  BY DEF EvaluatePartition
<1>2. PICK f \in Historical : SeasonOf[f] \in w.evaluated /\ e = HistoricalRow(f)
  BY DEF ExamplesForSeasons
<1>3. p.row.fixture = f /\ p.trained = ExamplesForSeasons(w.reference)
  BY <1>1, <1>2 DEF ModelPrediction, HistoricalRow
<1>4. PICK s \in Nat :
        /\ s < LastDevelopment
        /\ \A t \in w.reference : t \in Nat /\ t <= s
        /\ \A t \in w.evaluated : t \in Nat /\ s < t /\ t <= LastDevelopment
  BY WindowsAreOrdered
<1>5. LastDevelopment \in Nat /\ \A t \in Sealed : t \in Nat /\ t > LastDevelopment
  BY RetrainingAssumption
<1>6. SeasonOf[f] \in Nat /\ s < SeasonOf[f] /\ SeasonOf[f] \notin Sealed
  BY <1>2, <1>4, <1>5
<1>7. ASSUME NEW r \in p.trained
      PROVE  r.fixture # f /\ f \notin r.known /\ SeasonOf[r.fixture] \notin Sealed
  <2>1. PICK g \in Historical : SeasonOf[g] \in w.reference /\ r = HistoricalRow(g)
    BY <1>3 DEF ExamplesForSeasons
  <2>2. r.fixture = g /\ r.known = Knowledge(g)
    BY <2>1 DEF HistoricalRow
  <2>3. SeasonOf[g] \in Nat /\ SeasonOf[g] <= s
    BY <1>4, <2>1
  <2>4. g # f /\ SeasonOf[g] \notin Sealed
    BY <1>4, <1>5, <1>6, <2>3
  <2>5. f \notin Knowledge(g)
    BY <1>6, <2>3, KnowledgeLooksBack
  <2>6. QED
    BY <2>2, <2>4, <2>5
<1>8. f \notin Learned(p.trained)
  BY <1>7 DEF Learned
<1>9. QED
  BY <1>3, <1>6, <1>7, <1>8

-----------------------------------------------------------------------------
(* Operational evidence.                                                   *)

\* An example of a candidate does not know a fixture the candidate is later
\* compared on: what it knows was played and retrieved before the knowledge
\* cutoff, the features of the compared fixture come after it, and the kickoff
\* of that fixture after them.
LEMMA ExamplesPrecedeComparison ==
  ASSUME TInv, NEW r \in reports, NEW p \in r.examples,
         NEW q \in r.candidate.operational
  PROVE  p.feature.fixture \notin q.feature.known
<1> DEFINE c == r.candidate
           g == p.feature.fixture
<1>1. SUFFICES ASSUME g \in q.feature.known
               PROVE  FALSE
  OBVIOUS
<1>2. CandidateSound(c) /\ PairSound(q) /\ PairSound(p)
      /\ KnowledgeCutoff(c) < p.feature.cutoff
  BY DEF TInv, ReportSound, CandidateSound
<1>3. /\ p.feature.kickoff = p.result.kickoff /\ p.result.fixture = g
      /\ FeatureTimely(p.feature) /\ ResultPlayed(p.result)
  BY <1>2 DEF TInv, PairSound, DescribeOneFixture
<1>4. g \in Upcoming /\ g \notin Historical
  BY <1>3, RetrainingAssumption DEF FeatureTimely
<1>5. /\ q.feature.kickoff <= q.result.retrieved
      /\ FeatureTimely(q.feature) /\ ResultPlayed(q.result)
  <2>1. q.feature.kickoff \in Nat /\ q.result.retrieved \in Nat
    BY <1>2 DEF TInv, PairSound, FeatureTimely, ResultPlayed
  <2>2. QED
    BY <1>2, <2>1 DEF TInv, PairSound, AfterKickoff
<1>6. PICK x \in results : x.fixture = g /\ x.retrieved <= q.feature.cutoff
  BY <1>1, <1>4, <1>5 DEF FeatureTimely
<1>7. /\ x.kickoff = kickoff[g] /\ x.kickoff < x.retrieved
      /\ x.kickoff \in Nat /\ x.retrieved \in Nat
  BY <1>6 DEF TInv, ResultPlayed
<1>8. p.feature.kickoff = kickoff[g]
  BY <1>3 DEF ResultPlayed
<1>9. KnowledgeCutoff(c) \in Nat /\ q.result.retrieved <= KnowledgeCutoff(c)
  BY <1>2, KnowledgeCutoffIsLatest DEF TInv
<1>10. /\ q.feature.cutoff \in Nat /\ q.feature.kickoff \in Nat
       /\ q.feature.cutoff < q.feature.kickoff /\ q.result.retrieved \in Nat
  BY <1>5 DEF FeatureTimely, ResultPlayed
<1>11. /\ p.feature.cutoff \in Nat /\ p.feature.kickoff \in Nat
       /\ p.feature.cutoff < p.feature.kickoff
  BY <1>3 DEF FeatureTimely
<1> HIDE DEF c, g
<1>12. QED
  BY <1>2, <1>5, <1>6, <1>7, <1>8, <1>9, <1>10, <1>11

\* A report judges its candidate by matches it has not learned of.
LEMMA ComparisonIsBlind ==
  ASSUME TInv, NEW r \in reports, NEW p \in r.examples
  PROVE  /\ p.feature.fixture \notin Learned(CandidateExamples(r.candidate))
         /\ SeasonOf[p.feature.fixture] \notin Sealed
         /\ \A e \in CandidateExamples(r.candidate) : SeasonOf[e.fixture] \notin Sealed
<1> DEFINE c == r.candidate
           g == p.feature.fixture
<1>1. CandidateSound(c) /\ PairSound(p) /\ g \notin TrainedFixtures(c)
  BY DEF TInv, ReportSound
<1>2. g \in Upcoming /\ g \notin Historical
  BY <1>1, RetrainingAssumption DEF TInv, PairSound, FeatureTimely
<1>3. ASSUME NEW e \in CandidateExamples(c)
      PROVE  e.fixture # g /\ g \notin e.known /\ SeasonOf[e.fixture] \notin Sealed
  <2>1. CASE \E f \in c.baseline : e = HistoricalRow(f)
    <3>1. PICK f \in c.baseline : e = HistoricalRow(f)
      BY <2>1
    <3>2. e.fixture = f /\ e.known = Knowledge(f)
      BY <3>1 DEF HistoricalRow
    <3>3. f \in Historical /\ SeasonOf[f] \notin Sealed
      BY <1>1 DEF CandidateSound
    <3>4. QED
      BY <1>2, <3>2, <3>3, KnowledgeLooksBack
  <2>2. CASE \E q \in c.operational : e = q.feature
    <3>1. PICK q \in c.operational : e = q.feature
      BY <2>2
    <3>2. e.fixture # g
      BY <1>1, <3>1 DEF TrainedFixtures
    <3>3. SeasonOf[e.fixture] \notin Sealed
      BY <1>1, <3>1 DEF CandidateSound, PairSound
    <3>4. g \notin e.known
      BY <3>1, ExamplesPrecedeComparison
    <3>5. QED
      BY <3>2, <3>3, <3>4
  <2>3. QED
    BY <2>1, <2>2 DEF CandidateExamples
<1>4. g \notin Learned(CandidateExamples(c))
  BY <1>3 DEF Learned
<1>5. QED
  BY <1>1, <1>3, <1>4 DEF PairSound

-----------------------------------------------------------------------------
(* The steps.                                                              *)

LEMMA TInvInit == Init => TInv
<1> SUFFICES ASSUME Init PROVE TInv
  OBVIOUS
<1>1. SeasonTypes
  BY RetrainingAssumption DEF Init, SeasonTypes
<1>2. QED
  BY <1>1 DEF Init, TInv

\* Candidates and reports stay sound as evidence is added.
LEMMA SoundnessGrows ==
  ASSUME TInv, features \subseteq features', results \subseteq results',
         candidates \subseteq candidates'
  PROVE  /\ \A p : PairSound(p) => PairSound(p)'
         /\ \A c \in candidates : CandidateSound(c)'
         /\ \A r \in reports : ReportSound(r)'
<1>1. \A p : PairSound(p) => PairSound(p)'
  BY DEF PairSound, DescribeOneFixture, AfterKickoff
<1>2. \A c \in candidates : CandidateSound(c)'
  BY <1>1 DEF TInv, CandidateSound
<1>3. \A r \in reports : ReportSound(r)'
  BY <1>1 DEF TInv, ReportSound, TrainedFixtures, KnowledgeCutoff
<1>4. QED
  BY <1>1, <1>2, <1>3

LEMMA TInvTick ==
  ASSUME TInv, Tick
  PROVE  TInv'
<1>1. UNCHANGED <<evaluation, candidates, reports, kickoff, synced, results, features>>
  BY DEF Tick, evidence
<1>2. SeasonTypes' /\ \A x \in results' : ResultPlayed(x)'
  <2>1. clock \in Nat /\ clock' = clock + 1
    BY DEF TInv, SeasonTypes, Tick
  <2>2. QED
    BY <1>1, <2>1 DEF TInv, SeasonTypes, ResultPlayed
<1>3. \A h \in features' : FeatureTimely(h)'
  BY <1>1 DEF TInv, FeatureTimely
<1>4. QED
  BY <1>1, <1>2, <1>3, SoundnessGrows DEF TInv

\* The league only moves matches whose kickoff has not come, so a match with a
\* result keeps its kickoff.
LEMMA TInvMove ==
  ASSUME TInv, NEW f \in Upcoming, Move(f)
  PROVE  TInv'
<1>1. UNCHANGED <<clock, synced, results, features, evaluation, candidates, reports>>
  BY DEF Move
<1>2. PICK k \in Slots : kickoff' = [kickoff EXCEPT ![f] = k]
  BY DEF Move
<1>3. SeasonTypes'
  BY <1>1, <1>2 DEF TInv, SeasonTypes
<1>4. ASSUME NEW x \in results
      PROVE  ResultPlayed(x)'
  <2>1. ResultPlayed(x) /\ clock \in Nat /\ kickoff[f] \in Nat /\ clock < kickoff[f]
    BY RetrainingAssumption DEF TInv, SeasonTypes, Move
  <2>2. x.fixture # f
    BY <2>1 DEF ResultPlayed
  <2>3. kickoff'[x.fixture] = kickoff[x.fixture]
    BY <1>2, <2>1, <2>2 DEF TInv, SeasonTypes, ResultPlayed
  <2>4. QED
    BY <1>1, <2>1, <2>3 DEF ResultPlayed
<1>5. \A h \in features' : FeatureTimely(h)'
  BY <1>1 DEF TInv, FeatureTimely
<1>6. QED
  BY <1>1, <1>3, <1>4, <1>5, SoundnessGrows DEF TInv

\* A step that changes neither the season nor the evidence keeps what is said
\* of them.
LEMMA EvidenceUnchanged ==
  ASSUME TInv, UNCHANGED <<clock, kickoff, synced, results, features>>
  PROVE  /\ SeasonTypes'
         /\ \A x \in results' : ResultPlayed(x)'
         /\ \A h \in features' : FeatureTimely(h)'
BY DEF TInv, SeasonTypes, ResultPlayed, FeatureTimely

LEMMA TInvSyncFixtures ==
  ASSUME TInv, SyncFixtures
  PROVE  TInv'
<1>1. /\ UNCHANGED <<clock, kickoff, results, features, evaluation, candidates, reports>>
      /\ synced' = kickoff
  BY DEF SyncFixtures
<1>2. SeasonTypes'
  BY <1>1 DEF TInv, SeasonTypes
<1>3. (\A x \in results' : ResultPlayed(x)') /\ \A h \in features' : FeatureTimely(h)'
  BY <1>1 DEF TInv, ResultPlayed, FeatureTimely
<1>4. QED
  BY <1>1, <1>2, <1>3, SoundnessGrows DEF TInv

LEMMA TInvObserveResult ==
  ASSUME TInv, NEW f \in Upcoming, ObserveResult(f)
  PROVE  TInv'
<1>1. /\ UNCHANGED <<clock, kickoff, synced, features, evaluation, candidates, reports>>
      /\ results' = results \cup {CompletedResult(f)}
      /\ kickoff[f] < clock
  BY DEF ObserveResult
<1>2. SeasonTypes' /\ clock \in Nat /\ kickoff[f] \in Nat
  BY <1>1, RetrainingAssumption DEF TInv, SeasonTypes
<1>3. ASSUME NEW x \in results'
      PROVE  ResultPlayed(x)'
  <2>1. CASE x \in results
    BY <1>1, <2>1 DEF TInv, ResultPlayed
  <2>2. CASE x = CompletedResult(f)
    <3>1. x.fixture = f /\ x.kickoff = kickoff[f] /\ x.retrieved = clock
      BY <2>2 DEF CompletedResult
    <3>2. QED
      BY <1>1, <1>2, <3>1 DEF ResultPlayed
  <2>3. QED
    BY <1>1, <2>1, <2>2
<1>4. \A h \in features' : FeatureTimely(h)'
  BY <1>1 DEF TInv, FeatureTimely
<1>5. QED
  BY <1>1, <1>2, <1>3, <1>4, SoundnessGrows DEF TInv

LEMMA TInvBuildFeature ==
  ASSUME TInv, NEW f \in Upcoming, BuildFeature(f)
  PROVE  TInv'
<1>1. UNCHANGED <<clock, kickoff, synced, results, evaluation, candidates, reports>>
      /\ clock < synced[f]
  BY DEF BuildFeature
<1>2. PICK known \in SUBSET RelevantResults(clock) :
        features' = features \cup {FeatureRow(f, clock, known)}
  BY DEF BuildFeature
<1>3. SeasonTypes' /\ clock \in Nat /\ synced[f] \in Nat
  BY <1>1, RetrainingAssumption DEF TInv, SeasonTypes
<1>4. \A x \in results' : ResultPlayed(x)'
  BY <1>1 DEF TInv, ResultPlayed
<1>5. ASSUME NEW h \in features'
      PROVE  FeatureTimely(h)'
  <2>1. CASE h \in features
    BY <1>1, <2>1 DEF TInv, FeatureTimely
  <2>2. CASE h = FeatureRow(f, clock, known)
    <3>1. /\ h.fixture = f /\ h.kickoff = synced[f] /\ h.cutoff = clock
          /\ h.known = known \cup Historical
      BY <2>2 DEF FeatureRow
    <3>2. \A g \in known : \E x \in results : x.fixture = g /\ x.retrieved <= clock
      BY <1>2 DEF RelevantResults
    <3>3. QED
      BY <1>1, <1>3, <3>1, <3>2 DEF FeatureTimely
  <2>3. QED
    BY <1>2, <2>1, <2>2
<1>6. QED
  BY <1>1, <1>2, <1>3, <1>4, <1>5, SoundnessGrows DEF TInv

LEMMA TInvEvaluate ==
  ASSUME TInv, Evaluate
  PROVE  TInv'
<1>1. /\ UNCHANGED <<clock, candidates, reports, kickoff, synced, results, features>>
      /\ evaluation' = UNION {EvaluatePartition(w) : w \in Windows}
  BY DEF Evaluate, evidence
<1>2. QED
  BY <1>1, EvidenceUnchanged, SoundnessGrows DEF TInv

LEMMA TInvRetrain ==
  ASSUME TInv, NEW pairs \in SUBSET Pairs, NEW baseline \in SUBSET Historical,
         Retrain(baseline, pairs)
  PROVE  TInv'
<1> DEFINE c == Candidate(baseline, pairs)
<1>1. /\ UNCHANGED <<clock, evaluation, reports, kickoff, synced, results, features>>
      /\ candidates' = candidates \cup {c}
      /\ OneToOne(pairs) /\ Unsealed(pairs)
      /\ BaselineAccepted(baseline) /\ OperationalAccepted(pairs, baseline)
  BY DEF Retrain, evidence
<1>2. \A p \in pairs : PairSound(p)
  BY <1>1 DEF Pairs, Unsealed, OperationalAccepted, PairSound
<1>3. CandidateSound(c)
  BY <1>1, <1>2 DEF Candidate, OneToOne, BaselineAccepted, CandidateSound
<1> HIDE DEF c
<1>4. CandidateSound(c)'
  BY <1>1, <1>3 DEF CandidateSound, PairSound, DescribeOneFixture, AfterKickoff
<1>5. \A d \in candidates' : CandidateSound(d)'
  BY <1>1, <1>4, SoundnessGrows
<1>6. \A r \in reports' : ReportSound(r)'
  BY <1>1, SoundnessGrows
<1>7. QED
  BY <1>1, <1>5, <1>6, EvidenceUnchanged DEF TInv

LEMMA TInvCompare ==
  ASSUME TInv, NEW c \in candidates, NEW pairs \in SUBSET Pairs, Compare(c, pairs)
  PROVE  TInv'
<1>1. /\ UNCHANGED <<clock, evaluation, candidates, kickoff, synced, results, features>>
      /\ Comparable(c, pairs)
  BY DEF Compare, evidence
<1>2. PICK d : reports' = reports \cup {Report(c, pairs, d)}
  BY DEF Compare
<1>3. ASSUME NEW p \in pairs
      PROVE  /\ PairSound(p) /\ p.feature.fixture \notin TrainedFixtures(c)
             /\ KnowledgeCutoff(c) < p.feature.cutoff
  <2>1. PairSound(p) /\ p.feature.fixture \notin TrainedFixtures(c)
        /\ p.feature.cutoff > KnowledgeCutoff(c)
    BY <1>1 DEF Comparable, Pairs, Unsealed, FollowsKnowledge, PairSound
  <2>2. KnowledgeCutoff(c) \in Nat
    BY KnowledgeCutoffIsLatest DEF TInv
  <2>3. p.feature.cutoff \in Nat
    BY <2>1 DEF TInv, PairSound, FeatureTimely
  <2>4. QED
    BY <2>1, <2>2, <2>3
<1>4. ReportSound(Report(c, pairs, d))
  BY <1>3 DEF Report, ReportSound
<1>5. ReportSound(Report(c, pairs, d))'
  BY <1>1, <1>4
  DEF ReportSound, PairSound, DescribeOneFixture, AfterKickoff, TrainedFixtures,
      KnowledgeCutoff
<1>6. \A r \in reports' : ReportSound(r)'
  BY <1>1, <1>2, <1>5, SoundnessGrows
<1>7. \A e \in candidates' : CandidateSound(e)'
  BY <1>1, SoundnessGrows
<1>8. QED
  BY <1>1, <1>6, <1>7, EvidenceUnchanged DEF TInv

LEMMA TInvNext ==
  ASSUME TInv, [Next]_vars
  PROVE  TInv'
<1>1. CASE UNCHANGED vars
  BY <1>1, EvidenceUnchanged, SoundnessGrows DEF TInv, vars
<1>2. CASE Tick \/ SyncFixtures \/ Evaluate
  BY <1>2, TInvTick, TInvSyncFixtures, TInvEvaluate
<1>3. CASE \E f \in Upcoming : Move(f) \/ BuildFeature(f) \/ ObserveResult(f)
  BY <1>3, TInvMove, TInvBuildFeature, TInvObserveResult
<1>4. CASE \E pairs \in SUBSET Pairs, sealed \in SUBSET Sealed :
             Retrain({f \in Historical : SeasonOf[f] \in DevelopmentSeasons \cup sealed},
                     pairs)
  <2>1. PICK pairs \in SUBSET Pairs, sealed \in SUBSET Sealed :
          Retrain({f \in Historical : SeasonOf[f] \in DevelopmentSeasons \cup sealed}, pairs)
    BY <1>4
  <2>2. {f \in Historical : SeasonOf[f] \in DevelopmentSeasons \cup sealed}
          \in SUBSET Historical
    OBVIOUS
  <2>3. QED
    BY <2>1, <2>2, TInvRetrain
<1>5. CASE \E c \in candidates, pairs \in SUBSET Pairs : Compare(c, pairs)
  BY <1>5, TInvCompare
<1>6. CASE \E r \in reports : BuildSnapshot(r, clock)
  <2>1. UNCHANGED <<clock, kickoff, synced, results, features, evaluation, candidates,
                    reports>>
    BY <1>6 DEF BuildSnapshot, evidence
  <2>2. QED
    BY <2>1, EvidenceUnchanged, SoundnessGrows DEF TInv
<1>7. QED
  BY <1>1, <1>2, <1>3, <1>4, <1>5, <1>6 DEF Next

\* The inductive invariant holds of every behaviour.
THEOREM TInvHolds == Spec => []TInv
<1>1. Init => TInv
  BY TInvInit
<1>2. TInv /\ [Next]_vars => TInv'
  BY TInvNext
<1>3. QED
  BY <1>1, <1>2, PTL DEF Spec

-----------------------------------------------------------------------------
\* For any calendar and number of seasons, windows, candidates and reports: a
\* prediction the development evaluation or a comparison judges a model by is
\* for a match that neither is an example of the model nor occurs in the state
\* an example was computed from, and nothing comes from the sealed season.
THEOREM HoldoutsAreUnknown == Spec => []NoModelKnowsItsHoldout
<1>1. ASSUME TInv, NEW p \in Judged
      PROVE  /\ p.row.fixture \notin Learned(p.trained)
             /\ SeasonOf[p.row.fixture] \notin Sealed
             /\ \A r \in p.trained : SeasonOf[r.fixture] \notin Sealed
  <2>1. CASE p \in evaluation
    <3>1. PICK w \in Windows : p \in EvaluatePartition(w)
      BY <1>1, <2>1 DEF TInv
    <3>2. QED
      BY <3>1, EvaluationIsBlind
  <2>2. CASE p \notin evaluation
    <3>1. PICK r \in reports : \E e \in r.examples :
            p = ModelPrediction(e.feature, CandidateExamples(r.candidate))
      BY <1>1, <2>2 DEF Judged
    <3>2. PICK e \in r.examples :
            p = ModelPrediction(e.feature, CandidateExamples(r.candidate))
      BY <3>1
    <3>3. p.row = e.feature /\ p.trained = CandidateExamples(r.candidate)
      BY <3>2 DEF ModelPrediction
    <3>4. QED
      BY <1>1, <3>3, ComparisonIsBlind
  <2>3. QED
    BY <2>1, <2>2
<1>2. TInv => NoModelKnowsItsHoldout
  BY <1>1 DEF NoModelKnowsItsHoldout
<1>3. QED
  BY <1>2, TInvHolds, PTL

\* The kickoff a result reports is final, and the features paired with it were
\* told the same one: they were computed before the match was in fact played,
\* wherever the league had moved it in between.
THEOREM FeaturesPrecedeTheirMatch == Spec => []ComputedBeforeKickoff
<1>1. ASSUME TInv, NEW p, PairSound(p)
      PROVE  p.feature.cutoff < kickoff[p.feature.fixture]
  <2>1. p.feature.cutoff < p.feature.kickoff /\ p.result.kickoff = kickoff[p.result.fixture]
    BY <1>1 DEF TInv, PairSound, FeatureTimely, ResultPlayed
  <2>2. QED
    BY <1>1, <2>1 DEF PairSound, DescribeOneFixture
<1>2. ASSUME TInv
      PROVE  ComputedBeforeKickoff
  <2>1. \A c \in candidates : \A p \in c.operational : PairSound(p)
    BY <1>2 DEF TInv, CandidateSound
  <2>2. \A r \in reports : \A p \in r.examples : PairSound(p)
    BY <1>2 DEF TInv, ReportSound
  <2>3. QED
    BY <1>1, <1>2, <2>1, <2>2 DEF ComputedBeforeKickoff
<1>3. QED
  BY <1>2, TInvHolds, PTL
=============================================================================
