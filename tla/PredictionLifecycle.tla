------------------------ MODULE PredictionLifecycle ------------------------
(***************************************************************************)
(* The point-in-time core: upcoming feature rows and the predictions made  *)
(* from them, the chain of operational team states, and the regeneration   *)
(* of predictions an advancement makes stale.                              *)
(*                                                                         *)
(* Time is a natural number; a day of the Premier League calendar is       *)
(* DayLength units long.  A fixture has one official result, and every     *)
(* poll that retrieves it leaves an observation of its own: result         *)
(* evidence is a fixture and the instant its result was retrieved.  Elo    *)
(* ratings are what a sequence of result batches makes of the initial      *)
(* ratings, so two rating tables are compared as the batch sequences       *)
(* behind them.  Every caller may come late and with any selection of the  *)
(* evidence: evidence with cutoff k can be used at any moment from k on,   *)
(* kickoff or not.                                                         *)
(***************************************************************************)
EXTENDS Naturals, FiniteSets, Sequences, SequencesExt

CONSTANTS
  Fixtures,         \* the fixtures of the season; numbered, as fixture ids are ordered
  Kickoff,          \* Kickoff[f]: kickoff_at, midnight if only the date is known
  DateOnly,         \* the fixtures whose kickoff_precision is date_only
  DayLength,        \* units of time in a day
  Snapshots,        \* knowledge_available_at of the fixture snapshots retrieved
  Polls,            \* Polls[f]: when polls may retrieve the result of f
  MaxTime,          \* bound on the clock
  MaxPredictions    \* bound on the stored predictions

ASSUME Calendar ==
  /\ Fixtures \subseteq Nat /\ IsFiniteSet(Fixtures)
  /\ Kickoff \in [Fixtures -> Nat]
  /\ DateOnly \subseteq Fixtures
  /\ DayLength \in Nat \ {0}
  /\ Snapshots \subseteq Nat
  /\ Polls \in [Fixtures -> SUBSET Nat]
  /\ MaxTime \in Nat /\ MaxPredictions \in Nat

VARIABLES
  clock,         \* now
  observed,      \* the result evidence retrieved so far
  predictions,   \* the stored predictions, each with its feature row
  applied,       \* applied[i]: the result evidence the i-th advancement applied
  regenerated    \* the stored prediction regenerations

vars == <<clock, observed, predictions, applied, regenerated>>

Evidence == [fixture : Fixtures, at : 0 .. MaxTime]

FixturesOf(E) == {e.fixture : e \in E}

\* No fixture has two observations in E.
OneEach(E) == \A d, e \in E : d.fixture = e.fixture => d = e

\* What a caller may take from the evidence E: one observation per fixture.
Selections(E) == {S \in SUBSET E : OneEach(S)}

-----------------------------------------------------------------------------
(* Chronology: the simultaneous batches of a set of fixtures.              *)

Day(f) == Kickoff[f] \div DayLength
DayStart(f) == Day(f) * DayLength

\* A date with a date-only fixture in S is one batch; other dates are split
\* by kickoff.
Simultaneous(f, g, S) ==
  /\ Day(f) = Day(g)
  /\ Kickoff[f] = Kickoff[g] \/ \E h \in S \cap DateOnly : Day(h) = Day(f)

FixtureBatches(S) == {{g \in S : Simultaneous(f, g, S)} : f \in S}

\* g belongs to an earlier batch than f.
StrictlyBefore(g, f, S) == Kickoff[g] < Kickoff[f] /\ ~Simultaneous(g, f, S)

EarlierBatch(B, C) == \A g \in B, f \in C : Kickoff[g] < Kickoff[f]

\* The batches in their order: the place of a batch counts those before it.
ChronologicalBatches(S) ==
  LET batches  == FixtureBatches(S)
      Place(B) == Cardinality({C \in batches : EarlierBatch(C, B)}) + 1
  IN  [i \in 1 .. Cardinality(batches) |-> CHOOSE B \in batches : Place(B) = i]

-----------------------------------------------------------------------------
(* Upcoming features.                                                      *)

\* The fixtures of one feature request within one source batch: the source
\* numbers the members of a batch by fixture id, and the request must hold
\* the ordinals from 0 on and a date-only fixture if the batch has one.
RequestOf(G, B) ==
  /\ G # {} /\ G \subseteq B
  /\ \A f \in G, g \in B : g < f => g \in G
  /\ B \cap DateOnly # {} => G \cap DateOnly # {}

Requests == {G \in SUBSET Fixtures : \E B \in FixtureBatches(Fixtures) : RequestOf(G, B)}

\* Knowledge available at k is knowledge from before the fixtures of G.
BeforeKickoff(G, k) ==
  \A f \in G : k < Kickoff[f] /\ (f \in DateOnly => k < DayStart(f))

\* Mutated form: every result at hand is relevant.
RelevantStored(results, k) == results

\* The results known at k.
Relevant(results, k) == {e \in results : e.at <= k}

FeaturesAllowed(G, k, known) ==
  /\ BeforeKickoff(G, k)
  /\ \A f \in G, g \in FixturesOf(known) :
       g # f /\ StrictlyBefore(g, f, FixturesOf(known) \cup {f})

Prediction(f, k, known) == [fixture |-> f, cutoff |-> k, known |-> known]

\* Mutated form: a fixture has one prediction.
StoreOncePerFixture(made) ==
  /\ predictions' = predictions \cup
       {p \in made : \A q \in predictions : q.fixture # p.fixture}
  /\ Cardinality(predictions') <= MaxPredictions

\* Feature rows and predictions are inserted, never updated.
Store(made) ==
  /\ predictions' = predictions \cup made
  /\ Cardinality(predictions') <= MaxPredictions

-----------------------------------------------------------------------------
(* Operational team state.                                                 *)

\* The result ledger after the first i advancements.
Ledger(i) == UNION {applied[j] : j \in 1 .. i}
CurrentLedger == Ledger(Len(applied))

\* The fixtures of the batches applied, one by one and together.
Batches == [i \in DOMAIN applied |-> FixturesOf(applied[i])]
AppliedFixtures == FixturesOf(CurrentLedger)

\* The observation e decides the prediction p: it was retrieved after its cutoff.
Evaluates(e, p) == e.fixture = p.fixture /\ p.cutoff < e.at

\* Mutated form: a batch need not follow the state it is applied to.
AdvancesAnywhere(B) == B \cap AppliedFixtures = {}

Advances(B) ==
  /\ B \cap AppliedFixtures = {}
  /\ FixtureBatches(B) = {B}
  /\ B = Last(ChronologicalBatches(AppliedFixtures \cup B))

\* Mutated form: the advancement is dated by its first result.
AppliedAtFirst(i) ==
  CHOOSE t \in {e.at : e \in applied[i]} : \A e \in applied[i] : t <= e.at

\* applied_at: when the last result of the batch was retrieved.
AppliedAt(i) ==
  CHOOSE t \in {e.at : e \in applied[i]} : \A e \in applied[i] : e.at <= t

\* The prediction p knows the result of every fixture of E, by whatever observation.
Knows(p, E) == FixturesOf(E) \subseteq FixturesOf(p.known)

\* Advancement i makes p stale, and evidence of k may replace it.
Supersedes(i, p, k) ==
  /\ ~ Knows(p, applied[i])
  /\ AppliedAt(i) <= k
  /\ p.cutoff < k

\* What advancement i makes stale and evidence of k may replace.
Stale(i, k) == {p \in predictions : Supersedes(i, p, k)}

\* Mutated form: a replacement starts from the results of the batch alone.
KnownInBatch(i, k) == Relevant(applied[i], k)

\* What of the ledger of advancement i was known at k.
KnownInLedger(i, k) == Relevant(Ledger(i), k)

Regeneration(i, p, q) == [advancement |-> i, prior |-> p, replacement |-> q]

\* The keys of the store: one advancement supersedes a prediction once, and a
\* prediction replaces one prediction.
SupersededOnce(i, P, made) ==
  \A r \in regenerated :
    /\ r.advancement = i => r.prior \notin P
    /\ r.replacement \notin made

\* The deferred check of the store.
RegenerationValid(r) ==
  /\ r.prior.cutoff < r.replacement.cutoff
  /\ Knows(r.replacement, applied[r.advancement])
  /\ ~ Knows(r.prior, applied[r.advancement])

-----------------------------------------------------------------------------
Init ==
  /\ clock = 0
  /\ observed = {}
  /\ predictions = {}
  /\ applied = <<>>
  /\ regenerated = {}

Tick ==
  /\ clock < MaxTime
  /\ clock' = clock + 1
  /\ UNCHANGED <<observed, predictions, applied, regenerated>>

\* A poll retrieves the official result of a fixture that was played, the
\* first time or again.
ObserveResult(f) ==
  /\ Kickoff[f] < clock
  /\ clock \in Polls[f]
  /\ observed' = observed \cup {[fixture |-> f, at |-> clock]}
  /\ UNCHANGED <<clock, predictions, applied, regenerated>>

\* build_upcoming_feature_rows and generate_current_predictions over one source
\* batch; known is what the caller's selection of results holds that is relevant.
Predict(G, k, known) ==
  LET made == {Prediction(f, k, known) : f \in G}
  IN  /\ k <= clock
      /\ FeaturesAllowed(G, k, known)
      /\ Store(made)
      /\ UNCHANGED <<clock, observed, applied, regenerated>>

\* advance_team_state over the results E: the previous ratings are replayed
\* from the ledger, and every result needs an evaluation by that observation.
Advance(E) ==
  /\ E # {}
  /\ \A e \in E : \E p \in predictions : Evaluates(e, p)
  /\ Advances(FixturesOf(E))
  /\ ChronologicalBatches(AppliedFixtures) = Batches
  /\ applied' = Append(applied, E)
  /\ UNCHANGED <<clock, observed, predictions, regenerated>>

\* regenerate_future_predictions for the stale predictions P of one source
\* batch, from the ledger of advancement i.
Regenerate(i, P, k) ==
  LET known == KnownInLedger(i, k)
      New(p) == Prediction(p.fixture, k, known)
      made  == {New(p) : p \in P}
  IN  /\ k <= clock
      /\ {p.fixture : p \in P} \in Requests
      /\ \A p, q \in P : p.fixture = q.fixture => p = q
      /\ OneEach(Ledger(i))
      /\ FeaturesAllowed({p.fixture : p \in P}, k, known)
      /\ SupersededOnce(i, P, made)
      /\ Store(made)
      /\ regenerated' = regenerated \cup {Regeneration(i, p, New(p)) : p \in P}
      /\ UNCHANGED <<clock, observed, applied>>

Next ==
  \/ Tick
  \/ \E f \in Fixtures : ObserveResult(f)
  \/ \E k \in Snapshots : \E known \in Selections(Relevant(observed, k)) :
       \E G \in Requests : Predict(G, k, known)
  \/ \E E \in Selections(observed) : Advance(E)
  \/ \E i \in DOMAIN applied, k \in Snapshots :
       \E P \in SUBSET Stale(i, k) : Regenerate(i, P, k)

Spec == Init /\ [][Next]_vars

-----------------------------------------------------------------------------
(* Properties.                                                             *)

PredictionType == [fixture : Fixtures, cutoff : Nat, known : SUBSET Evidence]

\* Every variable keeps its type.
TypeOK ==
  /\ clock \in 0 .. MaxTime
  /\ observed \in SUBSET Evidence
  /\ predictions \in SUBSET PredictionType
  /\ applied \in Seq((SUBSET Evidence) \ {{}})
  /\ regenerated \in SUBSET [advancement : DOMAIN applied,
                             prior : predictions, replacement : predictions]

\* No prediction looks ahead: it rests only on results retrieved by its cutoff,
\* of fixtures whose batch comes before its own in the calendar of the whole
\* season, however late the request and whatever else is stored by then.
NoLookahead ==
  \A p \in predictions :
    /\ p.cutoff < Kickoff[p.fixture]
    /\ p.known \subseteq observed
    /\ \A e \in p.known :
         e.at <= p.cutoff /\ StrictlyBefore(e.fixture, p.fixture, Fixtures)

\* The ledger of every advancement replays to the batches that were applied, so
\* the check of the previous ratings never turns an honest chain away: no later
\* batch regroups an earlier one.
LedgerReplays == ChronologicalBatches(AppliedFixtures) = Batches

\* A replacement knows the whole batch that made its predecessor stale: the
\* deferred check of the store never refuses what regeneration built.
ReplacementKnowsBatch == \A r \in regenerated : RegenerationValid(r)

\* A replacement keeps what its predecessor knew of the state, by the observation
\* the state applied.  It forgets a result only if an earlier advancement applied a
\* later observation of it, retrieved after the replacement's cutoff although the
\* advancement that called for the replacement was dated by that cutoff: only if
\* advancements were applied out of retrieval order.
SupersessionKeepsState ==
  \A r \in regenerated :
    \A e \in r.prior.known, d \in Ledger(r.advancement) :
      e.fixture = d.fixture =>
        \/ d \in r.replacement.known
        \/ \E j \in 1 .. r.advancement - 1 :
             /\ d \in applied[j]
             /\ e.at < d.at
             /\ AppliedAt(r.advancement) <= r.replacement.cutoff
             /\ r.replacement.cutoff < AppliedAt(j)
=============================================================================
