------------------------------ MODULE CurrentSync ------------------------------
(***************************************************************************)
(* The current-season store: what a poll, a status poll, a result          *)
(* reconciliation and a standings synchronization persist of the responses *)
(* in the provider cache.  A response is retrieved at one instant and may  *)
(* be persisted at any later one, by jobs that know nothing of each other, *)
(* so that the rows need not arrive in the order of their retrieval.  Each *)
(* persist is one serializable transaction: rows that exist are compared,  *)
(* rows that do not are inserted, and the deferred triggers of f0005       *)
(* validate the inserted ones only; any failure leaves the store as it     *)
(* was.                                                                    *)
(***************************************************************************)
EXTENDS Integers, FiniteSets, FiniteSetsExt

CONSTANTS
  References,     \* the provider's fixture identifiers
  Fixtures,       \* canonical fixtures
  Home, Away,     \* the teams of a fixture
  Schedules,      \* contents a fixtures response may have
  Polls,          \* contents a fixture-status response may have
  ResultLists,    \* contents a completed-results response may have
  DayLength,      \* instants of a provider-local date
  MaxTime,        \* bound on the clock
  MaxResponses    \* bound on the responses retrieved

Statuses == {"scheduled", "postponed", "cancelled", "abandoned", "in_progress"}
Precisions == {"date_only", "exact"}

\* An instant of the past, or none.
Never == 0
Instants == 1 .. MaxTime
Stamps == Instants \cup {Never}

Entries == [ref : References, fixture : Fixtures, status : Statuses,
            precision : Precisions, kickoff : Nat, updated : Stamps]
StatusEntries == [ref : References, status : Statuses, updated : Stamps]
Scores == [home : Nat, away : Nat]
ResultEntries ==
  [ref : References, fixture : Fixtures, score : Scores, completed : Stamps]

ASSUME SyncInputs ==
  /\ DayLength \in Nat \ {0} /\ MaxTime \in Nat \ {0} /\ MaxResponses \in Nat
  /\ Schedules \subseteq SUBSET Entries
  /\ Polls \subseteq SUBSET StatusEntries
  /\ ResultLists \subseteq SUBSET ResultEntries

VARIABLES
  clock,          \* now
  responses,      \* the responses in the provider cache
  observations,   \* football.current_fixture_observation with its revision
  batches,        \* football.current_fixture_batch, as the set of its members
  official,       \* football.current_completed_result
  resultRows,     \* football.current_result_observation
  standings       \* football.current_standing_snapshot with its rows

tables == <<observations, batches, official, resultRows, standings>>
vars == <<clock, responses, observations, batches, official, resultRows, standings>>

-----------------------------------------------------------------------------
\* The league table that results R add up to.
Played(t, R) == {r \in R : t \in {Home[r.fixture], Away[r.fixture]}}
Goals(t, r) == IF t = Home[r.fixture] THEN r.score.home ELSE r.score.away
Conceded(t, r) == IF t = Home[r.fixture] THEN r.score.away ELSE r.score.home
Teams == {Home[f] : f \in Fixtures} \cup {Away[f] : f \in Fixtures}
Totals(R) ==
  [t \in Teams |->
     LET games == Played(t, R)
     IN  [played  |-> Cardinality(games),
          won     |-> Cardinality({r \in games : Goals(t, r) > Conceded(t, r)}),
          drawn   |-> Cardinality({r \in games : Goals(t, r) = Conceded(t, r)}),
          lost    |-> Cardinality({r \in games : Goals(t, r) < Conceded(t, r)}),
          scored  |-> MapThenSumSet(LAMBDA r : Goals(t, r), games),
          against |-> MapThenSumSet(LAMBDA r : Conceded(t, r), games)]]

\* The official score of a fixture, as a result row r reports it.
Official(r) == [fixture |-> r.fixture, score |-> r.score]

\* Official results that were known at instant t.
KnownBy(t) == {Official(r) : r \in {q \in resultRows : q.at <= t}}

-----------------------------------------------------------------------------
(* Retrieval                                                               *)

\* Mutated form: a response is stamped with the instant after its retrieval.
ResponseStampedLate(kind, content, t) ==
  [kind |-> kind, content |-> content, at |-> t + 1]

\* A response is cached under its request and its instant of retrieval.
Response(kind, content, t) == [kind |-> kind, content |-> content, at |-> t]

Retrieved(kind) == {c \in responses : c.kind = kind}

Retrieve(kind, content) ==
  /\ Cardinality(responses) < MaxResponses
  /\ \A c \in Retrieved(kind) : c.at # clock
  /\ responses' = responses \cup {Response(kind, content, clock)}
  /\ UNCHANGED <<clock, tables>>

Tick == clock < MaxTime /\ clock' = clock + 1 /\ UNCHANGED <<responses, tables>>

-----------------------------------------------------------------------------
(* Fixture observations                                                    *)

\* The observation rows of a fixtures response.
FixtureRow(e, kind, t) ==
  [ref |-> e.ref, fixture |-> e.fixture, status |-> e.status,
   precision |-> e.precision, kickoff |-> e.kickoff, updated |-> e.updated,
   kind |-> kind, at |-> t]
FixtureRows(c) == {FixtureRow(e, "fixtures", c.at) : e \in c.content}

\* A status response c only says how the fixtures of response b, which are
\* known under the same references, stand at c.at.
Restated(e, s) == [e EXCEPT !.status = s.status, !.updated = s.updated]
StatusRows(c, b) ==
  {FixtureRow(Restated(x[1], x[2]), "status", c.at) :
     x \in {y \in b.content \X c.content : y[1].ref = y[2].ref}}

\* The observation of reference ref known at instant t, among rows O.
Latest(ref, t, O) ==
  {p \in O : /\ p.ref = ref /\ p.at <= t
             /\ \A q \in O : q.ref = ref /\ q.at <= t => q.at <= p.at}

\* Observation o does not take back what observation p has established.
Follows(p, o) ==
  /\ p.status = "cancelled" => o.status = "cancelled"
  /\ p.status = "abandoned" => o.status = "abandoned"
  /\ p.status = "in_progress" => o.status \in {"in_progress", "abandoned"}
  /\ p.precision = "exact" => o.precision = "exact"
  /\ p.updated <= o.updated

\* Mutated form: a row that was retrieved before a stored one is admitted.
ChronologicalUnordered(n, O) == \A p \in Latest(n.ref, n.at, O) : Follows(p, n)

\* validate_current_fixture_observation: no stored row was retrieved later, and
\* the row follows the one known when it was retrieved.
Chronological(n, O) ==
  /\ \A p \in O : p.ref = n.ref => p.at <= n.at
  /\ \A p \in Latest(n.ref, n.at, O) : Follows(p, n)

\* The keys that rows O of observations leave for row n: a reference names one
\* fixture, and has one observation per instant.
Consistent(n, O) ==
  \A o \in O : o.ref = n.ref => o.fixture = n.fixture /\ (o.at = n.at => o = n)

\* Mutated form: only equal kickoffs are simultaneous.
SimultaneousByKickoff(m, n, N) == m.kickoff = n.kickoff

\* A date-only fixture makes all fixtures of its date simultaneous.
Date(n) == n.kickoff \div DayLength
Simultaneous(m, n, N) ==
  /\ Date(m) = Date(n)
  /\ \/ m.kickoff = n.kickoff
     \/ \E d \in N : d.precision = "date_only" /\ Date(d) = Date(n)

\* current_fixture_batches; status rows belong to no batch.
BatchesOf(N) ==
  LET S == {n \in N : n.kind = "fixtures"}
  IN  {{m \in S : Simultaneous(m, n, S)} : n \in S}

\* validate_current_fixture_batch: a batch with a date-only fixture holds every
\* fixture of its date that its responses, as stored in O, speak of.
ValidBatch(b, O) ==
  /\ \A m, n \in b : Date(m) = Date(n)
  /\ \/ \A m, n \in b : m.precision = "exact" /\ m.kickoff = n.kickoff
     \/ /\ \E d \in b : d.precision = "date_only"
        /\ \A m \in b, o \in O :
             (o.kind = m.kind /\ o.at = m.at /\ Date(o) = Date(m)) =>
               \E x \in b : x.fixture = o.fixture

\* Mutated form: rows that exist are validated like new ones.
FixturesStorableAnew(N) ==
  /\ \A m, n \in N : m.fixture = n.fixture => m = n
  /\ \A n \in N : n.updated <= n.at /\ Consistent(n, observations \cup N)
  /\ \A n \in N : Chronological(n, observations \ {n})
  /\ \A b \in BatchesOf(N) \ batches : ValidBatch(b, observations \cup N)

\* The transaction of a fixture synchronization commits.
FixturesStorable(N) ==
  /\ \A m, n \in N : m.fixture = n.fixture => m = n
  /\ \A n \in N : n.updated <= n.at /\ Consistent(n, observations \cup N)
  /\ \A n \in N \ observations : Chronological(n, observations)
  /\ \A b \in BatchesOf(N) \ batches : ValidBatch(b, observations \cup N)

PersistFixtures(N) ==
  /\ N # {}
  /\ \/ /\ FixturesStorable(N)
        /\ observations' = observations \cup N
        /\ batches' = batches \cup BatchesOf(N)
     \/ ~FixturesStorable(N) /\ UNCHANGED <<observations, batches>>
  /\ UNCHANGED <<clock, responses, official, resultRows, standings>>

\* A poll persists the fixtures of all pages of its read.
SyncFixtures ==
  \E P \in SUBSET Retrieved("fixtures") : PersistFixtures(UNION {FixtureRows(c) : c \in P})

\* A status poll names known references only.
SyncStatuses ==
  \E c \in Retrieved("status"), b \in Retrieved("fixtures") :
    /\ \A s \in c.content : \E e \in b.content : e.ref = s.ref
    /\ PersistFixtures(StatusRows(c, b))

-----------------------------------------------------------------------------
(* Official results                                                        *)

ResultRow(e, t) ==
  [ref |-> e.ref, fixture |-> e.fixture, score |-> e.score,
   completed |-> e.completed, at |-> t]
ResultRows(c) == {ResultRow(e, c.at) : e \in c.content}

\* Mutated form: a result needs no fixture observed before it.
PlayableUnseen(r) ==
  \A p \in Latest(r.ref, r.at, observations) :
    /\ p.fixture = r.fixture
    /\ p.status \notin {"cancelled", "abandoned"}
    /\ r.completed # Never => r.completed >= p.kickoff

\* validate_current_result_observation: the fixture was known when the result
\* was retrieved, and could be completed by then.
Playable(r) ==
  \E p \in Latest(r.ref, r.at, observations) :
    /\ p.fixture = r.fixture
    /\ p.status \notin {"cancelled", "abandoned"}
    /\ r.completed # Never => r.completed >= p.kickoff

\* Mutated form: a row that was not inserted is not compared.
AgreesNever(r) == r.completed <= r.at

\* Result r is the official one if there is one.
Agrees(r) ==
  /\ r.completed <= r.at
  /\ \A q \in official : q.fixture = r.fixture => q = Official(r)

ResultsStorable(N) ==
  /\ \A m, n \in N : m.fixture = n.fixture => m = n
  /\ \A n \in N :
       /\ Agrees(n)
       /\ \A o \in resultRows : o.ref = n.ref /\ o.at = n.at => o = n
  /\ \A n \in N \ resultRows : Playable(n)

PersistResults(N) ==
  /\ N # {}
  /\ \/ /\ ResultsStorable(N)
        /\ official' = official \cup {Official(n) : n \in N}
        /\ resultRows' = resultRows \cup N
     \/ ~ResultsStorable(N) /\ UNCHANGED <<official, resultRows>>
  /\ UNCHANGED <<clock, responses, observations, batches, standings>>

\* An empty result set opens no transaction.
ReconcileResults ==
  \E P \in SUBSET Retrieved("results") : PersistResults(UNION {ResultRows(c) : c \in P})

-----------------------------------------------------------------------------
(* Standings                                                               *)

Snapshot(c) == [table |-> c.content, at |-> c.at]

\* reconcile_standings_with_results, on the results N the caller holds.
Reconciled(c, N) ==
  /\ \A m, n \in N : m.fixture = n.fixture => m = n
  /\ Totals({Official(n) : n \in {q \in N : q.at <= c.at}}) = c.content

\* Mutated form: the caller's results are enough.
ReconciledInStoreNever(c) == TRUE

\* validate_current_standing_snapshot, on the results in the store.
ReconciledInStore(c) == Totals(KnownBy(c.at)) = c.content

StandingsStorable(c, N) ==
  Reconciled(c, N) /\ (Snapshot(c) \in standings \/ ReconciledInStore(c))

SyncStandings ==
  \E c \in Retrieved("standings"), P \in SUBSET Retrieved("results") :
    /\ standings' = IF StandingsStorable(c, UNION {ResultRows(d) : d \in P})
                    THEN standings \cup {Snapshot(c)} ELSE standings
    /\ UNCHANGED <<clock, responses, observations, batches, official, resultRows>>

-----------------------------------------------------------------------------
Init ==
  /\ clock = 1
  /\ responses = {}
  /\ observations = {} /\ batches = {} /\ official = {} /\ resultRows = {} /\ standings = {}

\* What a response says of a fixture cannot be newer than its retrieval.
NoneNewer(stamps) == \A t \in stamps : t <= clock

Retrieval ==
  \/ \E s \in Schedules : NoneNewer({e.updated : e \in s}) /\ Retrieve("fixtures", s)
  \/ \E s \in Polls : NoneNewer({e.updated : e \in s}) /\ Retrieve("status", s)
  \/ \E s \in ResultLists : NoneNewer({e.completed : e \in s}) /\ Retrieve("results", s)
  \/ \E s \in ResultLists \cup {{}} :
       Retrieve("standings", Totals({Official(r) : r \in s}))

Next ==
  \/ Tick
  \/ Retrieval
  \/ SyncFixtures
  \/ SyncStatuses
  \/ ReconcileResults
  \/ SyncStandings

Spec == Init /\ [][Next]_vars

-----------------------------------------------------------------------------
(* Properties                                                              *)

ObservationRows ==
  [ref : References, fixture : Fixtures, status : Statuses, precision : Precisions,
   kickoff : Nat, updated : Stamps, kind : {"fixtures", "status"}, at : Instants]
ResultRecords ==
  [ref : References, fixture : Fixtures, score : Scores, completed : Stamps,
   at : Instants]

\* The rows have the shape of their tables, nothing in the store was retrieved
\* after now, and official results and result observations are of each other.
TypeOK ==
  /\ clock \in Instants
  /\ \A c \in responses : c.at \in 1 .. clock
  /\ observations \subseteq ObservationRows
  /\ UNION batches \subseteq observations
  /\ resultRows \subseteq ResultRecords
  /\ \A s \in standings : s.at \in Instants
  /\ official = {Official(r) : r \in resultRows}
  /\ \A o \in observations \cup resultRows \cup standings : o.at <= clock

\* Whatever the order in which responses are persisted, the observations of a
\* provider reference are a history in the order of retrieval: one fixture, one
\* observation per instant, no way out of cancelled or abandoned, no way back
\* from play or from an exact kickoff, no update older than a known one.
HistoriesProgress ==
  \A p, o \in observations :
    p.ref = o.ref =>
      /\ p.fixture = o.fixture
      /\ p.at = o.at => p = o
      /\ p.at < o.at => Follows(p, o)

\* A fixture has at most one official score, and all observations of its result,
\* under whatever reference, agree with it.
OfficialScoresAgree ==
  \A q, r \in resultRows : q.fixture = r.fixture => q.score = r.score

\* Every result observation rests on a fixture observation of the same reference
\* and the same fixture that was retrieved no later and could be completed.
ResultsFollowFixtures ==
  \A r \in resultRows :
    \E o \in observations :
      /\ o.ref = r.ref /\ o.fixture = r.fixture /\ o.at <= r.at
      /\ o.status \notin {"cancelled", "abandoned"}
      /\ r.completed # Never => o.kickoff <= r.completed

\* A retry is idempotent: if anything of a fixtures or results response is
\* stored, all of it is, and persisting it again commits even though later
\* responses have been persisted since.
StoredResponsesReplay ==
  /\ \A c \in Retrieved("fixtures") :
       FixtureRows(c) \cap observations # {} =>
         FixtureRows(c) \subseteq observations /\ FixturesStorable(FixtureRows(c))
  /\ \A c \in Retrieved("results") :
       ResultRows(c) \cap resultRows # {} =>
         ResultRows(c) \subseteq resultRows /\ ResultsStorable(ResultRows(c))

\* The planner and the trigger agree on batches: whatever has been stored before,
\* no batch of whole responses is refused.
PlannedBatchesValidate ==
  \A P \in SUBSET Retrieved("fixtures") :
    LET N == UNION {FixtureRows(c) : c \in P}
    IN  \A b \in BatchesOf(N) : ValidBatch(b, observations \cup N)

\* A stored league table only ever adds up official results that were known when
\* it was retrieved, although results known by then may be stored after it.
TablesCountOfficialResults ==
  \A s \in standings : \E R \in SUBSET KnownBy(s.at) : Totals(R) = s.table

=============================================================================
