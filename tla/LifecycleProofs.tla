-------------------------- MODULE LifecycleProofs --------------------------
(***************************************************************************)
(* Theorems about PredictionLifecycle: for every calendar, every schedule  *)
(* of snapshots and any number of polls of each result, no prediction      *)
(* looks ahead, what a replacement forgets was observed again after its    *)
(* cutoff, every replacement knows the batch that made its predecessor     *)
(* stale, and every ledger replays to the batches applied.                 *)
(***************************************************************************)
EXTENDS PredictionLifecycle, FiniteSetTheorems, WellFoundedInduction, TLAPS

\* What the properties rest on: every observation of a result follows its
\* kickoff, an advancement applies observations, and a prediction made ahead of
\* a batch rests on earlier batches only.
Stored ==
  /\ clock \in 0 .. MaxTime
  /\ observed \in SUBSET Evidence
  /\ predictions \in SUBSET PredictionType
  /\ applied \in Seq((SUBSET Evidence) \ {{}})

ResultsFollowKickoff == \A e \in observed : Kickoff[e.fixture] < e.at

BatchesAreObserved == \A i \in DOMAIN applied : applied[i] \subseteq observed

RegenerationType == [advancement : DOMAIN applied,
                     prior : predictions, replacement : predictions]

\* Replacing p, the prediction q, dated after advancement i, forgets only results
\* that an advancement before i applied by an observation after its cutoff.
Keeps(p, q, i) ==
  \A e \in p.known, d \in Ledger(i) :
    e.fixture = d.fixture =>
      \/ d \in q.known
      \/ \E j \in 1 .. i - 1 :
           /\ d \in applied[j] /\ e.at < d.at
           /\ AppliedAt(i) <= q.cutoff /\ q.cutoff < AppliedAt(j)

Supersessions ==
  /\ regenerated \in SUBSET RegenerationType
  /\ \A r \in regenerated :
       /\ Keeps(r.prior, r.replacement, r.advancement)
       /\ RegenerationValid(r)

LInv ==
  /\ Stored
  /\ ResultsFollowKickoff
  /\ BatchesAreObserved
  /\ NoLookahead
  /\ Supersessions

-----------------------------------------------------------------------------
\* A nonempty set of naturals has a least element.
LEMMA LeastNatural ==
  ASSUME NEW S \in SUBSET Nat, S # {}
  PROVE  \E x \in S : \A y \in S : x <= y
<1> DEFINE R == OpToRel(<, Nat)
<1>1. IsWellFoundedOn(R, Nat)
  BY NatLessThanWellFounded
<1>2. \A x, y \in Nat : x < y => <<x, y>> \in R
  BY DEF OpToRel
<1> HIDE DEF R
<1>3. PICK x \in S : \A y \in S : ~(<<y, x>> \in R)
  BY <1>1, WFMin
<1>4. \A y \in S : x <= y
  <2>1. \A y \in S : ~(y < x)
    BY <1>2, <1>3
  <2>2. QED
    BY <2>1
<1>5. QED
  BY <1>4

\* A nonempty set of times has a latest one.
LEMMA LatestTime ==
  ASSUME NEW m \in Nat, NEW S \in SUBSET (0 .. m), S # {}
  PROVE  \E x \in S : \A y \in S : y <= x
<1> DEFINE T == {m - x : x \in S}
<1>1. T \in SUBSET Nat /\ T # {}
  <2>1. \A x \in S : m - x \in Nat
    OBVIOUS
  <2>2. QED
    BY <2>1
<1>2. PICK d \in T : \A e \in T : d <= e
  BY <1>1, LeastNatural
<1>3. PICK x \in S : d = m - x
  OBVIOUS
<1>4. \A y \in S : m - x <= m - y
  BY <1>2, <1>3
<1>5. \A y \in S : y <= x
  BY <1>4
<1>6. QED
  BY <1>5

\* Evidence is a fixture and the time its result was retrieved.
LEMMA EvidenceFields ==
  ASSUME NEW e \in Evidence
  PROVE  /\ e.fixture \in Fixtures /\ e.at \in 0 .. MaxTime /\ e.at \in Nat
         /\ MaxTime \in Nat
BY Calendar DEF Evidence

\* The fixtures of a set of evidence.
LEMMA FixturesOfEvidence ==
  ASSUME NEW E \in SUBSET Evidence
  PROVE  FixturesOf(E) \in SUBSET Fixtures /\ (E # {} => FixturesOf(E) # {})
BY EvidenceFields DEF FixturesOf

\* Every result of a batch was retrieved by the time the advancement is dated.
LEMMA AppliedAtIsLatest ==
  ASSUME Stored, NEW i \in DOMAIN applied, NEW e \in applied[i]
  PROVE  AppliedAt(i) \in 0 .. MaxTime /\ e.at <= AppliedAt(i)
<1> DEFINE S == {d.at : d \in applied[i]}
<1>1. applied[i] \subseteq Evidence
  BY DEF Stored
<1>2. S \in SUBSET (0 .. MaxTime) /\ S # {} /\ MaxTime \in Nat
  BY <1>1, EvidenceFields
<1>3. PICK x \in S : \A y \in S : y <= x
  <2> HIDE DEF S
  <2>1. QED
    BY <1>2, LatestTime
<1>4. AppliedAt(i) \in S /\ \A d \in applied[i] : d.at <= AppliedAt(i)
  BY <1>3 DEF AppliedAt
<1>5. QED
  BY <1>2, <1>4

\* The ledger of an advancement holds its own batch, and only observations.
LEMMA LedgerHoldsBatch ==
  ASSUME Stored, BatchesAreObserved, NEW i \in DOMAIN applied
  PROVE  applied[i] \subseteq Ledger(i) /\ Ledger(i) \subseteq observed
<1>1. i \in Nat \ {0} /\ i <= Len(applied) /\ DOMAIN applied = 1 .. Len(applied)
  BY DEF Stored
<1>2. i \in 1 .. i
  BY <1>1
<1>3. \A j \in 1 .. i : applied[j] \subseteq observed
  <2>1. \A j \in 1 .. i : j \in DOMAIN applied
    BY <1>1 DEF Stored
  <2>2. QED
    BY <2>1 DEF BatchesAreObserved
<1>4. QED
  BY <1>2, <1>3 DEF Ledger

-----------------------------------------------------------------------------
\* A day starts no later than a kickoff on it.
LEMMA DayStartsFirst ==
  ASSUME NEW f \in Fixtures
  PROVE  Day(f) \in Nat /\ DayStart(f) \in Nat /\ DayStart(f) <= Kickoff[f]
<1>1. Kickoff[f] \in Nat /\ DayLength \in Nat \ {0}
  BY Calendar
<1>2. \A k \in Nat, d \in Nat \ {0} :
        k \div d \in Nat /\ (k \div d) * d \in Nat /\ (k \div d) * d <= k
  BY SMTT(30)
<1>3. QED
  BY <1>1, <1>2 DEF Day, DayStart

\* A request for a fixture that shares its day with a date-only fixture holds
\* a date-only fixture of that day.
LEMMA RequestsCoverDateOnly ==
  ASSUME NEW G \in Requests, NEW f \in G, NEW h \in DateOnly, Day(h) = Day(f)
  PROVE  \E d \in G \cap DateOnly : Day(d) = Day(f)
<1>1. PICK B \in FixtureBatches(Fixtures) : RequestOf(G, B)
  BY DEF Requests
<1>2. PICK e \in Fixtures : B = {g \in Fixtures : Simultaneous(e, g, Fixtures)}
  BY <1>1 DEF FixtureBatches
<1>3. h \in Fixtures /\ f \in Fixtures /\ f \in B /\ Day(f) = Day(e)
  BY <1>1, <1>2, Calendar DEF RequestOf, Simultaneous
<1>4. h \in B
  BY <1>2, <1>3 DEF Simultaneous
<1>5. PICK d \in G \cap DateOnly : TRUE
  BY <1>1, <1>4 DEF RequestOf
<1>6. Day(d) = Day(e)
  BY <1>1, <1>2, <1>5 DEF RequestOf, Simultaneous
<1>7. QED
  BY <1>3, <1>5, <1>6

\* Features that pass the guards rest only on batches before their own in the
\* calendar of the whole season, though the guards see the known fixtures only.
LEMMA AllowedFeaturesLookBack ==
  ASSUME Stored, ResultsFollowKickoff,
         NEW G \in Requests, NEW k \in Nat, NEW known \in SUBSET observed,
         \A e \in known : e.at <= k,
         FeaturesAllowed(G, k, known),
         NEW f \in G, NEW e \in known
  PROVE  StrictlyBefore(e.fixture, f, Fixtures)
<1> DEFINE g == e.fixture
<1>1. f \in Fixtures /\ g \in Fixtures /\ e.at \in Nat /\ e \in observed
  BY EvidenceFields DEF Requests, Stored
<1>2. /\ Kickoff[g] < Kickoff[f]
      /\ ~Simultaneous(g, f, FixturesOf(known) \cup {f})
  BY DEF FeaturesAllowed, StrictlyBefore, FixturesOf
<1>3. Kickoff[g] < e.at /\ e.at <= k
  BY <1>1 DEF ResultsFollowKickoff
<1> HIDE DEF g
<1>4. SUFFICES ASSUME Day(g) = Day(f), NEW h \in DateOnly, Day(h) = Day(f)
               PROVE  FALSE
  BY <1>1, <1>2, Calendar DEF StrictlyBefore, Simultaneous, g
<1>5. PICK d \in G \cap DateOnly : Day(d) = Day(f)
  BY <1>4, RequestsCoverDateOnly
<1>6. k < DayStart(d)
  BY <1>5 DEF FeaturesAllowed, BeforeKickoff
<1>7. DayStart(d) = DayStart(g)
  BY <1>4, <1>5 DEF DayStart
<1>8. DayStart(g) \in Nat /\ DayStart(g) <= Kickoff[g]
  BY <1>1, DayStartsFirst
<1>9. Kickoff[g] \in Nat
  BY <1>1, Calendar
<1>10. QED
  BY <1>1, <1>3, <1>6, <1>7, <1>8, <1>9

\* New predictions from guarded requests keep the store free of lookahead.
LEMMA NewPredictionsLookBack ==
  ASSUME Stored, ResultsFollowKickoff, NoLookahead,
         NEW G \in Requests, NEW k \in Nat, NEW known \in SUBSET observed,
         \A e \in known : e.at <= k,
         FeaturesAllowed(G, k, known),
         Store({Prediction(f, k, known) : f \in G}),
         UNCHANGED observed
  PROVE  predictions' \in SUBSET PredictionType /\ NoLookahead'
<1>1. G \subseteq Fixtures
  BY DEF Requests
<1>2. predictions' = predictions \cup {Prediction(f, k, known) : f \in G}
  BY DEF Store
<1>3. ASSUME NEW f \in G
      PROVE  /\ Prediction(f, k, known) \in PredictionType
             /\ k < Kickoff[f]
             /\ \A e \in known : StrictlyBefore(e.fixture, f, Fixtures)
  <2>1. Prediction(f, k, known) \in PredictionType
    <3>1. known \in SUBSET Evidence
      BY DEF Stored
    <3>2. QED
      BY <1>1, <3>1 DEF Prediction, PredictionType
  <2>2. k < Kickoff[f]
    BY DEF FeaturesAllowed, BeforeKickoff
  <2>3. \A e \in known : StrictlyBefore(e.fixture, f, Fixtures)
    BY AllowedFeaturesLookBack
  <2>4. QED
    BY <2>1, <2>2, <2>3
<1>4. predictions' \in SUBSET PredictionType
  BY <1>2, <1>3 DEF Stored
<1>5. NoLookahead'
  <2>1. SUFFICES ASSUME NEW p \in predictions'
                 PROVE  /\ p.cutoff < Kickoff[p.fixture]
                        /\ p.known \subseteq observed
                        /\ \A e \in p.known :
                             /\ e.at <= p.cutoff
                             /\ StrictlyBefore(e.fixture, p.fixture, Fixtures)
    BY DEF NoLookahead, StrictlyBefore, Simultaneous, Day
  <2>2. CASE p \in predictions
    BY <2>2 DEF NoLookahead
  <2>3. CASE \E f \in G : p = Prediction(f, k, known)
    <3>1. PICK f \in G : p = Prediction(f, k, known)
      BY <2>3
    <3>2. p.fixture = f /\ p.cutoff = k /\ p.known = known
      BY <3>1 DEF Prediction
    <3>3. QED
      BY <1>3, <3>2
  <2>4. QED
    BY <1>2, <2>2, <2>3
<1>6. QED
  BY <1>4, <1>5

-----------------------------------------------------------------------------
LEMMA LInvInit == Init => LInv
<1> SUFFICES ASSUME Init PROVE LInv
  OBVIOUS
<1>1. Stored
  <2>1. applied \in Seq((SUBSET Evidence) \ {{}})
    BY DEF Init
  <2>2. observed \in SUBSET Evidence /\ clock \in 0 .. MaxTime
    BY Calendar DEF Init
  <2>3. predictions \in SUBSET PredictionType
    BY DEF Init
  <2>4. QED
    BY <2>1, <2>2, <2>3 DEF Stored
<1>2. ResultsFollowKickoff /\ BatchesAreObserved /\ NoLookahead /\ Supersessions
  BY DEF Init, ResultsFollowKickoff, BatchesAreObserved, NoLookahead, Supersessions
<1>3. QED
  BY <1>1, <1>2 DEF LInv

\* A step that leaves the ledger and the supersession records alone, and
\* deletes no prediction, keeps what they say.
LEMMA SupersessionsUnchanged ==
  ASSUME Supersessions, UNCHANGED <<applied, regenerated>>,
         predictions \subseteq predictions'
  PROVE  Supersessions'
<1>1. \A i : Ledger(i)' = Ledger(i) /\ AppliedAt(i)' = AppliedAt(i)
  BY DEF Ledger, AppliedAt
<1>2. \A p, q, i : Keeps(p, q, i)' <=> Keeps(p, q, i)
  BY <1>1 DEF Keeps
<1>3. \A r \in regenerated : RegenerationValid(r)'
  BY DEF Supersessions, RegenerationValid, Knows, FixturesOf
<1>4. regenerated' \in SUBSET RegenerationType'
  BY DEF Supersessions, RegenerationType
<1>5. QED
  BY <1>2, <1>3, <1>4 DEF Supersessions

LEMMA LInvTick ==
  ASSUME LInv, Tick
  PROVE  LInv'
<1>1. /\ UNCHANGED <<observed, predictions, applied, regenerated>>
      /\ clock' \in 0 .. MaxTime
  BY Calendar DEF LInv, Stored, Tick
<1>2. Supersessions'
  BY <1>1, SupersessionsUnchanged DEF LInv
<1>3. NoLookahead'
  BY <1>1 DEF LInv, NoLookahead, StrictlyBefore, Simultaneous, Day
<1>4. QED
  BY <1>1, <1>2, <1>3
  DEF LInv, Stored, ResultsFollowKickoff, BatchesAreObserved

LEMMA LInvObserveResult ==
  ASSUME LInv, NEW f \in Fixtures, ObserveResult(f)
  PROVE  LInv'
<1> DEFINE e == [fixture |-> f, at |-> clock]
<1>1. /\ observed' = observed \cup {e} /\ Kickoff[f] < clock
      /\ UNCHANGED <<clock, predictions, applied, regenerated>>
  BY DEF ObserveResult
<1>2. e \in Evidence /\ Kickoff[e.fixture] < e.at
  BY <1>1 DEF LInv, Stored, Evidence
<1> HIDE DEF e
<1>3. Stored' /\ BatchesAreObserved'
  BY <1>1, <1>2 DEF LInv, Stored, BatchesAreObserved
<1>4. ResultsFollowKickoff'
  BY <1>1, <1>2 DEF LInv, ResultsFollowKickoff
<1>5. Supersessions'
  BY <1>1, SupersessionsUnchanged DEF LInv
<1>6. NoLookahead'
  <2>1. \A p \in predictions : p.known \subseteq observed'
    BY <1>1 DEF LInv, NoLookahead
  <2>2. QED
    BY <1>1, <2>1 DEF LInv, NoLookahead, StrictlyBefore, Simultaneous, Day
<1>7. QED
  BY <1>3, <1>4, <1>5, <1>6 DEF LInv

LEMMA LInvPredict ==
  ASSUME LInv, NEW G \in Requests, NEW k \in Snapshots,
         NEW known \in Selections(Relevant(observed, k)), Predict(G, k, known)
  PROVE  LInv'
<1>1. /\ FeaturesAllowed(G, k, known)
      /\ Store({Prediction(f, k, known) : f \in G})
      /\ UNCHANGED <<clock, observed, applied, regenerated>>
  BY DEF Predict
<1>2. /\ known \in SUBSET observed /\ k \in Nat
      /\ \A e \in known : e.at <= k
  BY Calendar DEF Relevant, Selections
<1>3. predictions' \in SUBSET PredictionType /\ NoLookahead'
  BY <1>1, <1>2, NewPredictionsLookBack DEF LInv
<1>4. Supersessions'
  BY <1>1, SupersessionsUnchanged DEF LInv, Store
<1>5. QED
  BY <1>1, <1>3, <1>4
  DEF LInv, Stored, ResultsFollowKickoff, BatchesAreObserved

\* An advancement leaves the ledgers of the advancements before it alone.
LEMMA LInvAdvance ==
  ASSUME LInv, NEW E \in Selections(observed), Advance(E)
  PROVE  LInv'
<1>1. /\ applied' = Append(applied, E) /\ E # {} /\ E \subseteq observed
      /\ applied \in Seq((SUBSET Evidence) \ {{}})
      /\ UNCHANGED <<clock, observed, predictions, regenerated>>
  BY DEF LInv, Stored, Advance, Selections
<1>2. Stored' /\ ResultsFollowKickoff' /\ BatchesAreObserved'
  <2>1. applied' \in Seq((SUBSET Evidence) \ {{}})
    BY <1>1 DEF LInv, Stored
  <2>2. \A i \in DOMAIN applied' :
          \/ i \in DOMAIN applied /\ applied'[i] = applied[i]
          \/ applied'[i] = E
    BY <1>1
  <2>3. QED
    BY <1>1, <2>1, <2>2
    DEF LInv, Stored, ResultsFollowKickoff, BatchesAreObserved
<1>3. NoLookahead'
  BY <1>1 DEF LInv, NoLookahead, StrictlyBefore, Simultaneous, Day
<1>4. ASSUME NEW i \in DOMAIN applied
      PROVE  /\ i \in DOMAIN applied' /\ applied'[i] = applied[i]
             /\ Ledger(i)' = Ledger(i)
             /\ \A j \in 1 .. i : applied'[j] = applied[j] /\ AppliedAt(j)' = AppliedAt(j)
  <2>1. i \in 1 .. Len(applied) /\ Len(applied) \in Nat
    BY <1>1
  <2>2. /\ i \in DOMAIN applied' /\ applied'[i] = applied[i]
        /\ \A j \in 1 .. i : applied'[j] = applied[j]
    BY <1>1, <2>1
  <2>3. QED
    BY <2>2 DEF Ledger, AppliedAt
<1>5. Supersessions'
  <2>1. \A i \in DOMAIN applied : \A p, q : Keeps(p, q, i) => Keeps(p, q, i)'
    <3>1. SUFFICES ASSUME NEW i \in DOMAIN applied, NEW p, NEW q, Keeps(p, q, i)
                   PROVE  Keeps(p, q, i)'
      OBVIOUS
    <3>2. /\ Ledger(i)' = Ledger(i)
          /\ \A j \in 1 .. i : applied'[j] = applied[j] /\ AppliedAt(j)' = AppliedAt(j)
          /\ i \in 1 .. i /\ i - 1 \in 0 .. i /\ \A j \in 1 .. i - 1 : j \in 1 .. i
      BY <1>1, <1>4
    <3>3. QED
      BY <3>1, <3>2 DEF Keeps
  <2>2. \A r \in regenerated : r.advancement \in DOMAIN applied
    BY DEF LInv, Supersessions, RegenerationType
  <2>3. \A r \in regenerated : RegenerationValid(r)'
    BY <1>4, <2>2 DEF LInv, Supersessions, RegenerationValid, Knows, FixturesOf
  <2>4. regenerated' \in SUBSET RegenerationType'
    <3>1. DOMAIN applied \subseteq DOMAIN applied'
      BY <1>4
    <3>2. QED
      BY <1>1, <3>1 DEF LInv, Supersessions, RegenerationType
  <2>5. QED
    BY <1>1, <2>1, <2>2, <2>3, <2>4 DEF LInv, Supersessions
<1>6. QED
  BY <1>2, <1>3, <1>5 DEF LInv

LEMMA LInvRegenerate ==
  ASSUME LInv, NEW i \in DOMAIN applied, NEW k \in Snapshots,
         NEW P \in SUBSET Stale(i, k), Regenerate(i, P, k)
  PROVE  LInv'
<1> DEFINE known == KnownInLedger(i, k)
           G == {p.fixture : p \in P}
           New(p) == Prediction(p.fixture, k, known)
<1>1. /\ G \in Requests
      /\ P \subseteq predictions /\ \A p \in P : Supersedes(i, p, k)
      /\ FeaturesAllowed(G, k, known)
      /\ Store({New(p) : p \in P})
      /\ regenerated' = regenerated \cup
           {[advancement |-> i, prior |-> p, replacement |-> New(p)] : p \in P}
      /\ UNCHANGED <<clock, observed, applied>>
  BY DEF Regenerate, Regeneration, Stale
<1>2. {New(p) : p \in P} = {Prediction(f, k, known) : f \in G}
  OBVIOUS
<1>3. Ledger(i) \subseteq observed /\ applied[i] \subseteq Ledger(i)
  BY LedgerHoldsBatch DEF LInv
<1>4. /\ known \in SUBSET observed /\ k \in Nat
      /\ \A e \in known : e.at <= k
  BY <1>3, Calendar DEF KnownInLedger, Relevant
<1>5. predictions' \in SUBSET PredictionType /\ NoLookahead'
  <2> HIDE DEF known, G, New
  <2>1. Store({Prediction(f, k, known) : f \in G})
    BY <1>1, <1>2
  <2>2. QED
    BY <1>1, <1>4, <2>1, NewPredictionsLookBack DEF LInv
<1>6. ASSUME NEW p \in P
      PROVE  /\ Keeps(p, New(p), i)
             /\ p.cutoff < New(p).cutoff
             /\ Knows(New(p), applied[i])
             /\ ~ Knows(p, applied[i])
  <2>1. p \in predictions /\ p.cutoff \in Nat /\ observed \subseteq Evidence
    BY <1>1 DEF LInv, Stored, PredictionType
  <2>2. p.cutoff < k /\ AppliedAt(i) <= k /\ ~ Knows(p, applied[i])
    BY <1>1 DEF Supersedes
  <2>3. \A e \in p.known : e \in Evidence /\ e.at <= p.cutoff
    BY <2>1 DEF LInv, NoLookahead
  <2>4. New(p).known = known /\ New(p).cutoff = k
    BY DEF Prediction
  <2>5. applied[i] \subseteq known
    <3>1. SUFFICES ASSUME NEW e \in applied[i]
                   PROVE  e \in Ledger(i) /\ e.at <= k
      BY DEF KnownInLedger, Relevant
    <3>2. e \in Ledger(i) /\ e \in Evidence
      BY <1>3, <2>1
    <3>3. AppliedAt(i) \in Nat /\ e.at <= AppliedAt(i)
      BY AppliedAtIsLatest DEF LInv
    <3>4. e.at \in Nat
      BY <3>2, EvidenceFields
    <3>5. QED
      BY <1>4, <2>2, <3>2, <3>3, <3>4
  <2>6. Keeps(p, New(p), i)
    <3>1. SUFFICES ASSUME NEW e \in p.known, NEW d \in Ledger(i), d \notin known
                   PROVE  \E j \in 1 .. i - 1 :
                            /\ d \in applied[j] /\ e.at < d.at
                            /\ AppliedAt(i) <= k /\ k < AppliedAt(j)
      BY <2>4 DEF Keeps
    <3>2. PICK j \in 1 .. i : d \in applied[j]
      BY DEF Ledger
    <3>3. j \in 1 .. i - 1 /\ j \in DOMAIN applied
      <4>1. i \in 1 .. Len(applied) /\ Len(applied) \in Nat
        BY DEF LInv, Stored
      <4>2. j # i
        BY <2>5, <3>1, <3>2
      <4>3. QED
        BY <4>1, <4>2
    <3>4. AppliedAt(j) \in Nat /\ d.at <= AppliedAt(j)
      BY <3>2, <3>3, AppliedAtIsLatest DEF LInv
    <3>5. d \in Evidence /\ ~ (d.at <= k)
      BY <1>3, <2>1, <3>1 DEF KnownInLedger, Relevant
    <3>6. d.at \in Nat /\ e.at \in Nat /\ e.at <= p.cutoff
      BY <2>3, <3>5, EvidenceFields
    <3>7. e.at < d.at /\ k < AppliedAt(j)
      BY <1>4, <2>1, <2>2, <3>4, <3>5, <3>6
    <3>8. QED
      BY <2>2, <3>2, <3>3, <3>7
  <2> HIDE DEF known, New
  <2>7. Knows(New(p), applied[i])
    BY <2>4, <2>5 DEF Knows, FixturesOf
  <2>8. QED
    BY <2>2, <2>4, <2>6, <2>7
<1>7. Supersessions'
  <2> HIDE DEF known, G, New
  <2>1. \A j : Ledger(j)' = Ledger(j) /\ AppliedAt(j)' = AppliedAt(j)
    BY <1>1 DEF Ledger, AppliedAt
  <2>2. predictions' = predictions \cup {New(p) : p \in P}
    BY <1>1 DEF Store
  <2>3. SUFFICES ASSUME NEW r \in regenerated'
                 PROVE  /\ r \in RegenerationType'
                        /\ Keeps(r.prior, r.replacement, r.advancement)
                        /\ RegenerationValid(r)
    BY <1>1, <2>1
    DEF Supersessions, RegenerationType, RegenerationValid, Keeps, Knows, FixturesOf
  <2>4. CASE r \in regenerated
    BY <1>1, <2>2, <2>4 DEF LInv, Supersessions, RegenerationType
  <2>5. CASE \E p \in P :
               r = [advancement |-> i, prior |-> p, replacement |-> New(p)]
    <3>1. PICK p \in P :
            r = [advancement |-> i, prior |-> p, replacement |-> New(p)]
      BY <2>5
    <3>2. r.advancement = i /\ r.prior = p /\ r.replacement = New(p)
      BY <3>1
    <3>3. r \in RegenerationType'
      BY <1>1, <2>2, <3>1 DEF RegenerationType
    <3>4. QED
      BY <1>6, <3>2, <3>3 DEF RegenerationValid
  <2>6. QED
    BY <1>1, <2>4, <2>5
<1>8. QED
  BY <1>1, <1>5, <1>7
  DEF LInv, Stored, ResultsFollowKickoff, BatchesAreObserved

LEMMA LInvNext ==
  ASSUME LInv, [Next]_vars
  PROVE  LInv'
<1>1. CASE UNCHANGED vars
  <2>1. Supersessions'
    BY <1>1, SupersessionsUnchanged DEF LInv, vars
  <2>2. NoLookahead'
    BY <1>1 DEF LInv, vars, NoLookahead, StrictlyBefore, Simultaneous, Day
  <2>3. QED
    BY <1>1, <2>1, <2>2
    DEF LInv, vars, Stored, ResultsFollowKickoff, BatchesAreObserved
<1>2. CASE Tick
  BY <1>2, LInvTick
<1>3. CASE \E f \in Fixtures : ObserveResult(f)
  BY <1>3, LInvObserveResult
<1>4. CASE \E k \in Snapshots : \E known \in Selections(Relevant(observed, k)) :
             \E G \in Requests : Predict(G, k, known)
  BY <1>4, LInvPredict
<1>5. CASE \E E \in Selections(observed) : Advance(E)
  BY <1>5, LInvAdvance
<1>6. CASE \E i \in DOMAIN applied, k \in Snapshots :
             \E P \in SUBSET Stale(i, k) : Regenerate(i, P, k)
  BY <1>6, LInvRegenerate
<1>7. QED
  BY <1>1, <1>2, <1>3, <1>4, <1>5, <1>6 DEF Next

\* The inductive invariant holds of every behaviour.
THEOREM LInvHolds == Spec => []LInv
<1>1. Init => LInv
  BY LInvInit
<1>2. LInv /\ [Next]_vars => LInv'
  BY LInvNext
<1>3. QED
  BY <1>1, <1>2, PTL DEF Spec

-----------------------------------------------------------------------------
(* The order of the batches.                                               *)

\* The batches applied are those of the ledger, in their order.
Ordered ==
  /\ \A i, j \in DOMAIN Batches : i < j => EarlierBatch(Batches[i], Batches[j])
  /\ FixtureBatches(AppliedFixtures) = {Batches[i] : i \in DOMAIN Batches}

\* A fixture of an earlier day kicks off earlier.
LEMMA KickoffFollowsDay ==
  ASSUME NEW f \in Fixtures, NEW g \in Fixtures, Day(f) # Day(g)
  PROVE  Kickoff[f] # Kickoff[g] /\ (Day(f) < Day(g) <=> Kickoff[f] < Kickoff[g])
<1>1. Kickoff[f] \in Nat /\ Kickoff[g] \in Nat /\ DayLength \in Nat \ {0}
  BY Calendar
<1>2. \A a, b \in Nat, d \in Nat \ {0} : a <= b => a \div d <= b \div d
  BY SMTT(30)
<1>3. Day(f) \in Nat /\ Day(g) \in Nat
  BY DayStartsFirst
<1>4. /\ Kickoff[f] <= Kickoff[g] => Day(f) <= Day(g)
      /\ Kickoff[g] <= Kickoff[f] => Day(g) <= Day(f)
  BY <1>1, <1>2 DEF Day
<1>5. QED
  BY <1>1, <1>3, <1>4

\* A batch is the class of each of its fixtures.
LEMMA BatchesAreClasses ==
  ASSUME NEW S \in SUBSET Fixtures, NEW B \in FixtureBatches(S)
  PROVE  /\ B # {} /\ B \subseteq S
         /\ \A f \in B : B = {g \in S : Simultaneous(f, g, S)}
<1>1. PICK e \in S : B = {g \in S : Simultaneous(e, g, S)}
  BY DEF FixtureBatches
<1>2. e \in B /\ B \subseteq S
  BY <1>1 DEF Simultaneous
<1>3. ASSUME NEW f \in B
      PROVE  B = {g \in S : Simultaneous(f, g, S)}
  BY <1>1, <1>3 DEF Simultaneous
<1>4. QED
  BY <1>2, <1>3

\* A fixture of two batches makes them one.
LEMMA BatchesAreDisjoint ==
  ASSUME NEW S \in SUBSET Fixtures, NEW B \in FixtureBatches(S),
         NEW C \in FixtureBatches(S), NEW f \in B, f \in C
  PROVE  B = C
<1>1. B = {g \in S : Simultaneous(f, g, S)}
  BY BatchesAreClasses
<1>2. C = {g \in S : Simultaneous(f, g, S)}
  BY BatchesAreClasses
<1>3. QED
  BY ONLY <1>1, <1>2

\* Of two batches one is earlier.
LEMMA BatchesAreOrdered ==
  ASSUME NEW S \in SUBSET Fixtures, NEW B \in FixtureBatches(S),
         NEW C \in FixtureBatches(S), B # C
  PROVE  EarlierBatch(B, C) \/ EarlierBatch(C, B)
<1>1. PICK f \in B, g \in C : TRUE
  BY BatchesAreClasses
<1>2. f \in Fixtures /\ g \in Fixtures /\ f \in S /\ g \in S
  BY BatchesAreClasses
<1>3. \A h \in B : h \in Fixtures /\ Simultaneous(f, h, S)
  BY BatchesAreClasses
<1>4. \A h \in C : h \in Fixtures /\ Simultaneous(g, h, S)
  BY BatchesAreClasses
<1>5. ~ Simultaneous(f, g, S)
  BY <1>2, BatchesAreClasses
<1>6. CASE Day(f) = Day(g)
  <2>1. \A h \in B : Kickoff[h] = Kickoff[f]
    BY <1>3, <1>5, <1>6 DEF Simultaneous
  <2>2. \A h \in C : Kickoff[h] = Kickoff[g]
    BY <1>4, <1>5, <1>6 DEF Simultaneous
  <2>3. Kickoff[f] # Kickoff[g] /\ Kickoff[f] \in Nat /\ Kickoff[g] \in Nat
    BY <1>2, <1>5, <1>6, Calendar DEF Simultaneous
  <2>4. QED
    BY <2>1, <2>2, <2>3 DEF EarlierBatch
<1>7. CASE Day(f) # Day(g)
  <2>1. \A b \in B, c \in C : Day(b) = Day(f) /\ Day(c) = Day(g)
    BY <1>3, <1>4 DEF Simultaneous
  <2>2. Day(f) \in Nat /\ Day(g) \in Nat
    BY <1>2, DayStartsFirst
  <2>3. CASE Day(f) < Day(g)
    <3>1. \A b \in B, c \in C : Kickoff[b] < Kickoff[c]
      BY <1>3, <1>4, <1>7, <2>1, <2>3, KickoffFollowsDay
    <3>2. QED
      BY <3>1 DEF EarlierBatch
  <2>4. CASE Day(g) < Day(f)
    <3>1. \A b \in B, c \in C : Kickoff[c] < Kickoff[b]
      BY <1>3, <1>4, <1>7, <2>1, <2>4, KickoffFollowsDay
    <3>2. QED
      BY <3>1 DEF EarlierBatch
  <2>5. QED
    BY <1>7, <2>2, <2>3, <2>4
<1>8. QED
  BY <1>6, <1>7

\* No batch is earlier than itself, and earlier is transitive.
LEMMA EarlierIsStrict ==
  ASSUME NEW S \in SUBSET Fixtures, NEW A \in FixtureBatches(S),
         NEW B \in FixtureBatches(S), NEW C \in FixtureBatches(S)
  PROVE  /\ ~ EarlierBatch(A, A)
         /\ EarlierBatch(A, B) /\ EarlierBatch(B, C) => EarlierBatch(A, C)
<1>1. A # {} /\ B # {} /\ A \subseteq Fixtures /\ B \subseteq Fixtures /\ C \subseteq Fixtures
  BY BatchesAreClasses
<1>2. \A f \in A \cup B \cup C : Kickoff[f] \in Nat
  BY <1>1, Calendar
<1>3. QED
  BY <1>1, <1>2 DEF EarlierBatch

\* Finitely many fixtures have finitely many batches.
LEMMA BatchesAreFinite ==
  ASSUME NEW S \in SUBSET Fixtures
  PROVE  IsFiniteSet(FixtureBatches(S)) /\ Cardinality(FixtureBatches(S)) \in Nat
<1>1. IsFiniteSet(S)
  BY Calendar, FS_Subset
<1>2. IsFiniteSet(SUBSET S)
  BY <1>1, FS_SUBSET
<1>3. FixtureBatches(S) \in SUBSET (SUBSET S)
  BY BatchesAreClasses
<1>4. IsFiniteSet(FixtureBatches(S))
  BY ONLY <1>2, <1>3, FS_Subset
<1>5. QED
  BY ONLY <1>4, FS_CardinalityType

\* The batches of S before B.
BatchesBefore(B, S) == {C \in FixtureBatches(S) : EarlierBatch(C, B)}

\* A batch with n - 1 others before it has all the others before it.
LEMMA AllBefore ==
  ASSUME NEW S \in SUBSET Fixtures, NEW B \in FixtureBatches(S),
         Cardinality(BatchesBefore(B, S)) + 1 = Cardinality(FixtureBatches(S)),
         NEW C \in FixtureBatches(S), C # B
  PROVE  EarlierBatch(C, B)
<1> DEFINE All == FixtureBatches(S)
           Others == All \ {B}
           Before == BatchesBefore(B, S)
<1>1. IsFiniteSet(All) /\ Cardinality(All) \in Nat
  BY BatchesAreFinite
<1>2. IsFiniteSet(Others) /\ Cardinality(Others) = Cardinality(All) - 1
  BY <1>1, FS_RemoveElement
<1>3. Before \in SUBSET Others
  BY EarlierIsStrict DEF BatchesBefore
<1> HIDE DEF All, Others, Before
<1>4. IsFiniteSet(Before)
  BY ONLY <1>2, <1>3, FS_Subset
<1>5. Cardinality(Before) \in Nat
  BY ONLY <1>4, FS_CardinalityType
<1>6. Cardinality(Others) = Cardinality(Before)
  BY <1>1, <1>2, <1>5 DEF All, Before
<1>7. Others = Before
  BY ONLY <1>2, <1>3, <1>6, FS_Subset
<1>8. QED
  BY <1>7 DEF All, Others, Before, BatchesBefore

\* Of the batches of a nonempty set one has all the others before it: the one
\* with the most batches before it.
LEMMA LatestBatchExists ==
  ASSUME NEW S \in SUBSET Fixtures, S # {}
  PROVE  \E B \in FixtureBatches(S) :
           Cardinality(BatchesBefore(B, S)) + 1 = Cardinality(FixtureBatches(S))
<1> DEFINE All == FixtureBatches(S)
           Count(B) == Cardinality(BatchesBefore(B, S))
           Counts == {Count(B) : B \in All}
<1>1. IsFiniteSet(All) /\ Cardinality(All) \in Nat
  BY BatchesAreFinite
<1>2. All # {}
  BY DEF FixtureBatches
<1>3. ASSUME NEW B \in All
      PROVE  /\ IsFiniteSet(BatchesBefore(B, S))
             /\ Count(B) \in 0 .. Cardinality(All)
  <2>1. BatchesBefore(B, S) \in SUBSET All
    BY DEF BatchesBefore
  <2> HIDE DEF All
  <2>2. /\ IsFiniteSet(BatchesBefore(B, S))
        /\ Cardinality(BatchesBefore(B, S)) <= Cardinality(All)
    BY ONLY <1>1, <2>1, FS_Subset
  <2>3. Cardinality(BatchesBefore(B, S)) \in Nat
    BY ONLY <2>2, FS_CardinalityType
  <2>4. QED
    BY <1>1, <2>2, <2>3
<1>4. Counts \in SUBSET (0 .. Cardinality(All)) /\ Counts # {}
  BY <1>2, <1>3
<1>5. PICK x \in Counts : \A y \in Counts : y <= x
  <2> HIDE DEF Counts, All
  <2>1. QED
    BY ONLY <1>1, <1>4, LatestTime
<1>6. PICK B \in All : \A C \in All : Count(C) <= Count(B)
  BY <1>5
<1>7. ASSUME NEW C \in All, C # B
      PROVE  EarlierBatch(C, B)
  <2>1. SUFFICES ASSUME EarlierBatch(B, C) PROVE FALSE
    BY <1>7, BatchesAreOrdered
  <2>2. B \notin BatchesBefore(B, S)
    BY EarlierIsStrict DEF BatchesBefore
  <2>3. BatchesBefore(B, S) \cup {B} \in SUBSET BatchesBefore(C, S)
    BY <2>1, EarlierIsStrict DEF BatchesBefore
  <2>4. IsFiniteSet(BatchesBefore(B, S)) /\ IsFiniteSet(BatchesBefore(C, S))
    BY <1>3
  <2>5. Cardinality(BatchesBefore(B, S) \cup {B}) = Count(B) + 1
    BY <2>2, <2>4, FS_AddElement
  <2>6. Cardinality(BatchesBefore(B, S) \cup {B}) <= Cardinality(BatchesBefore(C, S))
    BY ONLY <2>3, <2>4, FS_Subset
  <2>7. Count(B) \in Nat /\ Count(C) \in Nat /\ Count(C) <= Count(B)
    BY <1>3, <1>6
  <2>8. QED
    BY <2>5, <2>6, <2>7
<1>8. BatchesBefore(B, S) = All \ {B}
  BY <1>7, EarlierIsStrict DEF BatchesBefore
<1>9. Cardinality(All \ {B}) = Cardinality(All) - 1
  <2> HIDE DEF All
  <2>1. QED
    BY ONLY <1>1, <1>6, FS_RemoveElement
<1>10. Cardinality(BatchesBefore(B, S)) + 1 = Cardinality(All)
  BY <1>1, <1>8, <1>9
<1>11. QED
  BY <1>10

\* The last of the chronological batches has all the others before it.
LEMMA LastBatchIsLatest ==
  ASSUME NEW S \in SUBSET Fixtures, S # {},
         NEW B, B = Last(ChronologicalBatches(S))
  PROVE  /\ B \in FixtureBatches(S)
         /\ \A C \in FixtureBatches(S) : C # B => EarlierBatch(C, B)
<1> DEFINE n == Cardinality(FixtureBatches(S))
           Ranked(C) == Cardinality(BatchesBefore(C, S)) + 1 = n
<1>1. n \in Nat /\ IsFiniteSet(FixtureBatches(S))
  BY BatchesAreFinite
<1>2. FixtureBatches(S) # {}
  BY DEF FixtureBatches
<1>3. n # 0
  <2>1. QED
    BY <1>1, <1>2, FS_EmptySet
<1>4. ChronologicalBatches(S) =
        [i \in 1 .. n |-> CHOOSE C \in FixtureBatches(S) :
                            Cardinality(BatchesBefore(C, S)) + 1 = i]
  BY DEF ChronologicalBatches, BatchesBefore
<1>5. Len(ChronologicalBatches(S)) = n /\ n \in 1 .. n
  BY <1>1, <1>3, <1>4
<1>6. B = CHOOSE C \in FixtureBatches(S) : Ranked(C)
  BY <1>4, <1>5 DEF Last
<1>7. B \in FixtureBatches(S) /\ Ranked(B)
  <2>1. \E C \in FixtureBatches(S) : Ranked(C)
    BY LatestBatchExists
  <2> HIDE DEF Ranked
  <2>2. QED
    BY <1>6, <2>1
<1>8. QED
  BY <1>7, AllBefore

\* A batch later than the batches of L leaves them as they are.
LEMMA LaterBatchKeepsBatches ==
  ASSUME NEW L \in SUBSET Fixtures, NEW B \in SUBSET Fixtures,
         L \cap B = {}, B \in FixtureBatches(L \cup B)
  PROVE  FixtureBatches(L \cup B) = FixtureBatches(L) \cup {B}
<1> DEFINE S == L \cup B
           Class(f) == {g \in S : Simultaneous(f, g, S)}
<1>1. \A f \in S : Class(f) \in FixtureBatches(S) /\ f \in Class(f)
  BY DEF FixtureBatches, Simultaneous
<1>2. ASSUME NEW f \in L
      PROVE  Class(f) = {g \in L : Simultaneous(f, g, L)}
  <2>1. Class(f) \in FixtureBatches(S) /\ f \in Class(f) /\ f \notin B
    BY <1>1
  <2>2. S \in SUBSET Fixtures /\ B \in FixtureBatches(S)
    OBVIOUS
  <2>3. ASSUME NEW g \in Class(f) PROVE g \notin B
    <3>1. SUFFICES ASSUME g \in B PROVE FALSE
      OBVIOUS
    <3>2. B = Class(f)
      <4> HIDE DEF Class, S
      <4>1. QED
        BY <2>1, <2>2, <2>3, <3>1, BatchesAreDisjoint
    <3>3. QED
      BY <2>1, <3>2
  <2>4. \A h \in B \cap DateOnly : Day(h) # Day(f)
    <3>1. SUFFICES ASSUME NEW h \in B \cap DateOnly, Day(h) = Day(f)
                   PROVE  h \in Class(f)
      BY <2>3
    <3>2. QED
      BY <3>1 DEF Simultaneous
  <2>5. \A g \in L : Simultaneous(f, g, S) <=> Simultaneous(f, g, L)
    BY <2>4 DEF Simultaneous
  <2>6. QED
    BY <2>3, <2>5
<1>3. FixtureBatches(L) = {Class(f) : f \in L}
  BY <1>2 DEF FixtureBatches
<1>4. \A f \in B : Class(f) = B
  BY BatchesAreClasses
<1>5. B # {}
  BY BatchesAreClasses
<1>6. FixtureBatches(S) = {Class(f) : f \in S}
  BY DEF FixtureBatches
<1> HIDE DEF Class
<1>7. {Class(f) : f \in S} = {Class(f) : f \in L} \cup {B}
  BY <1>4, <1>5
<1>8. QED
  BY <1>3, <1>6, <1>7

\* The fixtures of a sequence of batches of evidence.
LEMMA FixturesOfBatches ==
  ASSUME NEW a, NEW S
  PROVE  FixturesOf(UNION {a[j] : j \in S}) = UNION {FixturesOf(a[j]) : j \in S}
BY DEF FixturesOf

\* The batches applied are nonempty sets of fixtures, and together the ledger's.
LEMMA BatchesOfLedger ==
  ASSUME Stored
  PROVE  /\ Batches \in Seq((SUBSET Fixtures) \ {{}})
         /\ Len(Batches) = Len(applied)
         /\ AppliedFixtures = UNION {Batches[j] : j \in 1 .. Len(applied)}
<1>1. /\ applied \in Seq((SUBSET Evidence) \ {{}})
      /\ Len(applied) \in Nat /\ DOMAIN applied = 1 .. Len(applied)
  BY DEF Stored
<1>2. ASSUME NEW i \in DOMAIN applied
      PROVE  Batches[i] = FixturesOf(applied[i]) /\ Batches[i] \in (SUBSET Fixtures) \ {{}}
  <2>1. applied[i] \in SUBSET Evidence /\ applied[i] # {}
    BY <1>1
  <2>2. Batches[i] = FixturesOf(applied[i])
    BY DEF Batches
  <2>3. QED
    BY <2>1, <2>2, FixturesOfEvidence
<1>3. Batches = [i \in 1 .. Len(applied) |-> Batches[i]]
  BY <1>1 DEF Batches
<1>4. Batches \in Seq((SUBSET Fixtures) \ {{}}) /\ Len(Batches) = Len(applied)
  <2>1. Batches \in [1 .. Len(applied) -> (SUBSET Fixtures) \ {{}}]
    BY <1>1, <1>2, <1>3
  <2>2. QED
    BY <1>1, <2>1
<1>5. {FixturesOf(applied[j]) : j \in 1 .. Len(applied)}
        = {Batches[j] : j \in 1 .. Len(applied)}
  BY <1>1, <1>2
<1>6. QED
  BY <1>4, <1>5, FixturesOfBatches DEF AppliedFixtures, CurrentLedger, Ledger

LEMMA OrderedInit == Init => Ordered
<1> SUFFICES ASSUME Init PROVE Ordered
  OBVIOUS
<1>1. DOMAIN applied = {} /\ Len(applied) = 0
  BY DEF Init
<1>2. DOMAIN Batches = {}
  BY <1>1 DEF Batches
<1>3. AppliedFixtures = {}
  BY <1>1 DEF AppliedFixtures, FixturesOf, CurrentLedger, Ledger
<1>4. QED
  BY <1>2, <1>3 DEF Ordered, FixtureBatches

LEMMA OrderedAdvance ==
  ASSUME Stored, Ordered, NEW E \in Selections(observed), Advance(E)
  PROVE  Ordered'
<1> DEFINE B == FixturesOf(E)
           L == AppliedFixtures
           n == Len(applied)
<1>1. /\ E \in SUBSET Evidence /\ E # {}
      /\ L \cap B = {}
      /\ B = Last(ChronologicalBatches(L \cup B))
      /\ applied' = Append(applied, E)
      /\ applied \in Seq((SUBSET Evidence) \ {{}})
  BY DEF Advance, Advances, Stored, Selections
<1>2. /\ B \in SUBSET Fixtures /\ B # {}
  BY <1>1, FixturesOfEvidence
<1>3. /\ n \in Nat /\ DOMAIN Batches = 1 .. n
      /\ Batches \in Seq((SUBSET Fixtures) \ {{}})
      /\ L = UNION {Batches[j] : j \in 1 .. n}
      /\ L \in SUBSET Fixtures
  <2>1. /\ Batches \in Seq((SUBSET Fixtures) \ {{}}) /\ Len(Batches) = n
        /\ L = UNION {Batches[j] : j \in 1 .. n}
    BY BatchesOfLedger
  <2>2. DOMAIN Batches = 1 .. n /\ n \in Nat
    BY <1>1, <2>1
  <2>3. \A j \in 1 .. n : Batches[j] \in SUBSET Fixtures
    BY <2>1, <2>2
  <2>4. QED
    BY <2>1, <2>2, <2>3
<1>4. /\ DOMAIN Batches' = 1 .. n + 1
      /\ \A i \in 1 .. n : Batches'[i] = Batches[i]
      /\ Batches'[n + 1] = B
  <2>1. /\ DOMAIN applied' = 1 .. n + 1 /\ DOMAIN applied = 1 .. n
        /\ \A i \in 1 .. n : applied'[i] = applied[i]
        /\ applied'[n + 1] = E
    BY <1>1
  <2>2. Batches' = [i \in 1 .. n + 1 |-> FixturesOf(applied'[i])]
    BY <2>1 DEF Batches, FixturesOf
  <2>3. Batches = [i \in 1 .. n |-> FixturesOf(applied[i])]
    BY <2>1 DEF Batches
  <2> HIDE DEF n
  <2>4. 1 .. n \subseteq 1 .. n + 1 /\ n + 1 \in 1 .. n + 1
    BY <1>3
  <2>5. QED
    BY <2>1, <2>2, <2>3, <2>4
<1>5. AppliedFixtures' = L \cup B
  <2>1. Len(applied') = n + 1
    BY <1>1
  <2>2. AppliedFixtures' = FixturesOf(UNION {applied'[j] : j \in 1 .. n + 1})
    BY <2>1 DEF AppliedFixtures, CurrentLedger, Ledger, FixturesOf
  <2>3. AppliedFixtures' = UNION {FixturesOf(applied'[j]) : j \in 1 .. n + 1}
    BY <2>2, FixturesOfBatches
  <2>4. \A j \in 1 .. n + 1 : FixturesOf(applied'[j]) = Batches'[j]
    <3>1. DOMAIN applied' = 1 .. n + 1
      BY <1>1
    <3>2. QED
      BY <3>1 DEF Batches, FixturesOf
  <2>5. AppliedFixtures' = UNION {Batches'[j] : j \in 1 .. n + 1}
    BY <2>3, <2>4
  <2>6. 1 .. n + 1 = (1 .. n) \cup {n + 1}
    BY <1>3
  <2>7. {Batches'[j] : j \in 1 .. n + 1} = {Batches[j] : j \in 1 .. n} \cup {B}
    BY <1>4, <2>6
  <2>8. QED
    BY <1>3, <2>5, <2>7
<1> HIDE DEF L, n, B
<1>6. /\ B \in FixtureBatches(L \cup B)
      /\ \A C \in FixtureBatches(L \cup B) : C # B => EarlierBatch(C, B)
  <2>1. L \cup B \in SUBSET Fixtures /\ L \cup B # {}
    BY <1>2, <1>3
  <2>2. QED
    BY ONLY <1>1, <2>1, LastBatchIsLatest
<1>7. FixtureBatches(L \cup B) = FixtureBatches(L) \cup {B}
  BY <1>1, <1>2, <1>3, <1>6, LaterBatchKeepsBatches
<1>8. FixtureBatches(L) = {Batches[i] : i \in 1 .. n}
  BY <1>3 DEF Ordered, L
<1>9. ASSUME NEW i \in 1 .. n
      PROVE  EarlierBatch(Batches[i], B)
  <2>1. Batches[i] \in FixtureBatches(L)
    BY <1>8
  <2>2. Batches[i] \subseteq L /\ Batches[i] # {}
    BY <1>3, <2>1, BatchesAreClasses
  <2>3. Batches[i] # B
    BY <1>1, <2>2
  <2>4. QED
    BY <1>6, <1>7, <2>1, <2>3
<1>10. \A i, j \in DOMAIN Batches' : i < j => EarlierBatch(Batches'[i], Batches'[j])
  <2>1. SUFFICES ASSUME NEW i \in 1 .. n + 1, NEW j \in 1 .. n + 1, i < j
                 PROVE  EarlierBatch(Batches'[i], Batches'[j])
    BY <1>4
  <2>2. i \in 1 .. n
    BY <1>3, <2>1
  <2>3. CASE j = n + 1
    BY <1>4, <1>9, <2>2, <2>3
  <2>4. CASE j \in 1 .. n
    BY <1>3, <1>4, <2>1, <2>2, <2>4 DEF Ordered
  <2>5. QED
    BY <1>3, <2>3, <2>4
<1>11. FixtureBatches(AppliedFixtures') = {Batches'[i] : i \in DOMAIN Batches'}
  <2>1. 1 .. n + 1 = (1 .. n) \cup {n + 1}
    BY <1>3
  <2>2. {Batches'[j] : j \in 1 .. n + 1} = {Batches[j] : j \in 1 .. n} \cup {B}
    BY <1>4, <2>1
  <2>3. QED
    BY <1>4, <1>5, <1>7, <1>8, <2>2
<1>12. QED
  BY <1>10, <1>11 DEF Ordered, EarlierBatch, FixtureBatches, Simultaneous, Day

LEMMA OrderedNext ==
  ASSUME LInv, Ordered, [Next]_vars
  PROVE  Ordered'
<1>1. ASSUME UNCHANGED applied PROVE Ordered'
  <2>1. applied' = applied
    BY <1>1
  <2>2. AppliedFixtures' = AppliedFixtures /\ Batches' = Batches
    BY <2>1 DEF AppliedFixtures, Batches, FixturesOf, CurrentLedger, Ledger
  <2>3. FixtureBatches(AppliedFixtures)' = FixtureBatches(AppliedFixtures)
    BY <2>2 DEF FixtureBatches, Simultaneous, Day
  <2>4. \A i, j : EarlierBatch(Batches[i], Batches[j])'
                    = EarlierBatch(Batches[i], Batches[j])
    BY <2>2 DEF EarlierBatch
  <2>5. QED
    BY <2>2, <2>3, <2>4 DEF Ordered
<1>2. CASE \E E \in Selections(observed) : Advance(E)
  BY <1>2, OrderedAdvance DEF LInv
<1>3. CASE ~ \E E \in Selections(observed) : Advance(E)
  <2>1. UNCHANGED applied
    BY <1>3 DEF Next, vars, Tick, ObserveResult, Predict, Regenerate
  <2>2. QED
    BY <1>1, <2>1
<1>4. QED
  BY <1>2, <1>3

\* As many terms as places, where no two terms are equal.
LEMMA DistinctTerms ==
  ASSUME NEW F, NEW m \in Nat,
         \A i, j \in 1 .. m : i < j => F[i] # F[j]
  PROVE  Cardinality({F[i] : i \in 1 .. m}) = m
<1> DEFINE T == {F[i] : i \in 1 .. m}
           M == [i \in 1 .. m |-> F[i]]
<1>1. \A i, j \in 1 .. m : i # j => F[i] # F[j]
  <2>1. SUFFICES ASSUME NEW i \in 1 .. m, NEW j \in 1 .. m, i # j
                 PROVE  F[i] # F[j]
    OBVIOUS
  <2>2. i < j \/ j < i
    BY <2>1
  <2>3. QED
    BY <2>2
<1>2. M \in [1 .. m -> T] /\ \A t \in T : \E i \in 1 .. m : M[i] = t
  OBVIOUS
<1>3. \A i, j \in 1 .. m : M[i] = M[j] => i = j
  BY <1>1
<1>4. M \in Bijection(1 .. m, T)
  <2> HIDE DEF M, T
  <2>1. QED
    BY <1>2, <1>3 DEF Bijection, Injection, Surjection, IsInjective
<1>5. IsFiniteSet(1 .. m) /\ Cardinality(1 .. m) = m
  BY FS_Interval
<1> HIDE DEF M, T
<1>6. ExistsBijection(1 .. m, T)
  BY <1>4 DEF ExistsBijection
<1>7. Cardinality(T) = Cardinality(1 .. m)
  BY ONLY <1>5, <1>6, FS_Bijection
<1>8. QED
  BY <1>5, <1>7 DEF T

\* Batches applied in their order are what the ledger replays to.
LEMMA OrderedReplays ==
  ASSUME Stored, Ordered
  PROVE  LedgerReplays
<1> DEFINE S == AppliedFixtures
           n == Len(applied)
<1>1. /\ Batches \in Seq((SUBSET Fixtures) \ {{}})
      /\ n \in Nat /\ DOMAIN Batches = 1 .. n
  BY BatchesOfLedger
<1>2. S \in SUBSET Fixtures
  <2>1. S = UNION {Batches[j] : j \in 1 .. n}
    BY BatchesOfLedger
  <2>2. \A j \in 1 .. n : Batches[j] \in SUBSET Fixtures
    BY <1>1
  <2>3. QED
    BY <2>1, <2>2
<1>3. /\ FixtureBatches(S) = {Batches[i] : i \in 1 .. n}
      /\ \A i, j \in 1 .. n : i < j => EarlierBatch(Batches[i], Batches[j])
  BY <1>1 DEF Ordered
<1> HIDE DEF S, n
<1>4. \A i, j \in 1 .. n : i < j => /\ Batches[i] # Batches[j]
                                  /\ ~ EarlierBatch(Batches[j], Batches[i])
  <2>1. SUFFICES ASSUME NEW i \in 1 .. n, NEW j \in 1 .. n, i < j
                 PROVE  /\ Batches[i] # Batches[j]
                        /\ ~ EarlierBatch(Batches[j], Batches[i])
    OBVIOUS
  <2>2. Batches[i] \in FixtureBatches(S) /\ Batches[j] \in FixtureBatches(S)
    BY <1>3
  <2>3. EarlierBatch(Batches[i], Batches[j])
    BY <1>3, <2>1
  <2>4. QED
    BY <1>2, <2>2, <2>3, EarlierIsStrict
<1>5. Cardinality(FixtureBatches(S)) = n
  <2>1. \A i, j \in 1 .. n : i < j => Batches[i] # Batches[j]
    BY <1>4
  <2>2. Cardinality({Batches[i] : i \in 1 .. n}) = n
    BY ONLY <1>1, <2>1, DistinctTerms
  <2>3. QED
    BY <1>3, <2>2
<1>6. ASSUME NEW i \in 1 .. n
      PROVE  Cardinality(BatchesBefore(Batches[i], S)) + 1 = i
  <2>1. i \in Nat /\ i - 1 \in Nat /\ 1 .. i - 1 \subseteq 1 .. n
    BY <1>1
  <2>2. ASSUME NEW j \in 1 .. n
        PROVE  EarlierBatch(Batches[j], Batches[i]) <=> j \in 1 .. i - 1
    <3>1. Batches[i] \in FixtureBatches(S)
      BY <1>3
    <3>2. ~ EarlierBatch(Batches[i], Batches[i])
      BY <1>2, <3>1, EarlierIsStrict
    <3>3. j < i \/ j = i \/ i < j
      BY <1>1
    <3>4. j \in 1 .. i - 1 <=> j < i
      BY <1>1
    <3>5. QED
      BY <1>3, <1>4, <3>2, <3>3, <3>4
  <2>3. BatchesBefore(Batches[i], S) = {Batches[j] : j \in 1 .. i - 1}
    BY <1>3, <2>1, <2>2 DEF BatchesBefore
  <2>4. \A j, k \in 1 .. i - 1 : j < k => Batches[j] # Batches[k]
    BY <1>4, <2>1
  <2>5. Cardinality({Batches[j] : j \in 1 .. i - 1}) = i - 1
    BY ONLY <2>1, <2>4, DistinctTerms
  <2>6. QED
    BY <2>1, <2>3, <2>5
<1>7. ChronologicalBatches(S) =
        [i \in 1 .. n |-> CHOOSE C \in FixtureBatches(S) :
                            Cardinality(BatchesBefore(C, S)) + 1 = i]
  BY <1>5 DEF ChronologicalBatches, BatchesBefore
<1>8. ASSUME NEW i \in 1 .. n
      PROVE  Batches[i] = CHOOSE C \in FixtureBatches(S) :
                            Cardinality(BatchesBefore(C, S)) + 1 = i
  <2>1. Batches[i] \in FixtureBatches(S)
    BY <1>3
  <2>2. ASSUME NEW C \in FixtureBatches(S),
               Cardinality(BatchesBefore(C, S)) + 1 = i
        PROVE  C = Batches[i]
    <3>1. PICK j \in 1 .. n : C = Batches[j]
      BY <1>3
    <3>2. j = i
      BY <1>6, <2>2, <3>1
    <3>3. QED
      BY <3>1, <3>2
  <2>3. QED
    BY <1>6, <2>1, <2>2
<1>9. Batches = [i \in 1 .. n |-> Batches[i]]
  BY <1>1
<1>10. ChronologicalBatches(S) = Batches
  BY <1>7, <1>8, <1>9
<1>11. QED
  BY <1>10 DEF LedgerReplays, S

-----------------------------------------------------------------------------
\* Every variable keeps its type: advancements apply nonempty batches, and both
\* predictions of a regeneration are stored.
THEOREM LifecycleTypeOK == Spec => []TypeOK
<1>1. LInv => TypeOK
  BY DEF LInv, Stored, Supersessions, RegenerationType, TypeOK
<1>2. QED
  BY <1>1, LInvHolds, PTL

\* For every calendar, mix of exact and date-only kickoffs and schedule of
\* snapshots, a prediction rests only on results retrieved by its cutoff, of
\* batches before its own: the point-in-time promise of
\* build_upcoming_feature_rows, for first predictions and replacements alike.
THEOREM PredictionsNeverLookAhead == Spec => []NoLookahead
<1>1. LInv => NoLookahead
  BY DEF LInv
<1>2. QED
  BY <1>1, LInvHolds, PTL

\* A replacement built by regenerate_future_predictions keeps every result of
\* the ledger its predecessor knew, in whatever order results were retrieved,
\* but those the ledger holds by an observation newer than its cutoff.
THEOREM ReplacementsKeepState == Spec => []SupersessionKeepsState
<1>1. LInv => SupersessionKeepsState
  BY DEF LInv, Supersessions, SupersessionKeepsState, Keeps
<1>2. QED
  BY <1>1, LInvHolds, PTL

\* What regenerate_future_predictions builds passes the deferred check of the
\* prediction store: a replacement is newer than its predecessor and knows the
\* whole batch its predecessor missed, for batches retrieved over any time.
THEOREM ReplacementsKnowTheirBatch == Spec => []ReplacementKnowsBatch
<1>1. LInv => ReplacementKnowsBatch
  BY DEF LInv, Supersessions, ReplacementKnowsBatch
<1>2. QED
  BY <1>1, LInvHolds, PTL

\* The ledger of an honest chain replays to the batches applied, for every
\* calendar: advance_team_state never turns away what it built, and a later
\* batch never regroups an earlier one, date-only days included.
THEOREM LedgersReplay == Spec => []LedgerReplays
<1>1. Init => Ordered
  BY OrderedInit
<1>2. LInv /\ Ordered /\ [Next]_vars => Ordered'
  BY OrderedNext
<1>3. LInv /\ Ordered => LedgerReplays
  BY OrderedReplays DEF LInv
<1>4. QED
  BY <1>1, <1>2, <1>3, LInvHolds, PTL DEF Spec
=============================================================================
