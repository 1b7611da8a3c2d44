--------------------------- MODULE CurrentSyncProofs ---------------------------
(***************************************************************************)
(* Theorems about CurrentSync, for all responses a provider may give and   *)
(* every order in which they are persisted: histories only progress, a     *)
(* result rests on a fixture and keeps its score, what is stored can be    *)
(* persisted again, and league tables count official results.              *)
(***************************************************************************)
EXTENDS CurrentSync, TLAPS

\* Responses hold what the provider may say, one per request and instant.
ResponsesKnown ==
  /\ \A c \in responses :
       /\ c.at \in Instants
       /\ c.kind = "fixtures" => c.content \in Schedules
       /\ c.kind = "status" => c.content \in Polls
       /\ c.kind = "results" => c.content \in ResultLists
  /\ \A c, d \in responses : c.kind = d.kind /\ c.at = d.at => c = d

\* A row was read from a response, and has its instant.
Provenance ==
  /\ \A o \in observations :
       /\ o.updated <= o.at
       /\ o.kind = "fixtures" => \E c \in Retrieved("fixtures") : o \in FixtureRows(c)
  /\ \A r \in resultRows :
       r.completed <= r.at /\ \E c \in Retrieved("results") : c.at = r.at

\* A reference that has observations has a newest one.
NewestExists ==
  \A o \in observations :
    \E l \in observations :
      l.ref = o.ref /\ \A p \in observations : p.ref = o.ref => p.at <= l.at

\* A reference has one result observation per instant.
ResultKeys ==
  \A q, r \in resultRows : q.ref = r.ref /\ q.at = r.at => q = r

SInv ==
  /\ TypeOK /\ ResponsesKnown /\ Provenance
  /\ NewestExists /\ HistoriesProgress
  /\ OfficialScoresAgree /\ ResultKeys /\ ResultsFollowFixtures
  /\ StoredResponsesReplay
  /\ TablesCountOfficialResults

-----------------------------------------------------------------------------
(* Lemmas about rows                                                       *)

\* Progress is transitive.
LEMMA FollowsTransitive ==
  ASSUME NEW o \in ObservationRows, NEW p \in ObservationRows,
         NEW q \in ObservationRows, Follows(o, p), Follows(p, q)
  PROVE  Follows(o, q)
BY SyncInputs DEF Follows, ObservationRows, Statuses, Precisions, Stamps, Instants, Never

\* The rows of a fixtures response have the shape of the table.
LEMMA FixtureRowsTyped ==
  ASSUME ResponsesKnown, NEW c \in Retrieved("fixtures"), NEW n \in FixtureRows(c)
  PROVE  n \in ObservationRows /\ n.kind = "fixtures" /\ n.at = c.at
<1>1. PICK e \in c.content : n = FixtureRow(e, "fixtures", c.at)
  BY DEF FixtureRows
<1>2. e \in Entries /\ c.at \in Instants
  BY SyncInputs DEF ResponsesKnown, Retrieved
<1>3. QED
  BY <1>1, <1>2 DEF FixtureRow, Entries, ObservationRows

\* So have the rows of a status response.
LEMMA StatusRowsTyped ==
  ASSUME ResponsesKnown, NEW c \in Retrieved("status"),
         NEW b \in Retrieved("fixtures"), NEW n \in StatusRows(c, b)
  PROVE  n \in ObservationRows /\ n.kind = "status" /\ n.at = c.at
<1>1. PICK x \in b.content \X c.content :
        n = FixtureRow(Restated(x[1], x[2]), "status", c.at)
  BY DEF StatusRows
<1>2. x[1] \in Entries /\ x[2] \in StatusEntries /\ c.at \in Instants
  BY SyncInputs DEF ResponsesKnown, Retrieved
<1>3. Restated(x[1], x[2]) \in Entries
  BY <1>2 DEF Restated, Entries, StatusEntries
<1>4. QED
  BY <1>1, <1>2, <1>3 DEF FixtureRow, Entries, ObservationRows

\* The rows of a results response have the shape of the table.
LEMMA ResultRowsTyped ==
  ASSUME ResponsesKnown, NEW c \in Retrieved("results"), NEW n \in ResultRows(c)
  PROVE  n \in ResultRecords /\ n.at = c.at
<1>1. PICK e \in c.content : n = ResultRow(e, c.at)
  BY DEF ResultRows
<1>2. e \in ResultEntries /\ c.at \in Instants
  BY SyncInputs DEF ResponsesKnown, Retrieved
<1>3. QED
  BY <1>1, <1>2 DEF ResultRow, ResultEntries, ResultRecords

-----------------------------------------------------------------------------
(* Lemmas about transactions                                               *)

\* The planner's batches of rows N pass the trigger if the rows that store O
\* holds of the same instants are among them.
LEMMA WholeBatches ==
  ASSUME NEW N, N \subseteq ObservationRows, \A n \in N : n.kind = "fixtures",
         NEW O, \A o \in O, n \in N : o.kind = n.kind /\ o.at = n.at => o \in N,
         NEW b \in BatchesOf(N)
  PROVE  ValidBatch(b, O \cup N)
<1>1. {n \in N : n.kind = "fixtures"} = N
  OBVIOUS
<1>2. PICK n \in N : b = {m \in N : Simultaneous(m, n, N)}
  BY <1>1 DEF BatchesOf
<1>3. b \subseteq N /\ \A m \in b : Date(m) = Date(n)
  BY <1>2 DEF Simultaneous
<1>4. CASE \E d \in N : d.precision = "date_only" /\ Date(d) = Date(n)
  <2>1. \A m \in N : Date(m) = Date(n) => m \in b
    BY <1>2, <1>4 DEF Simultaneous
  <2>2. \E d \in b : d.precision = "date_only"
    BY <1>4, <2>1
  <2>3. \A m \in b, o \in O \cup N :
          (o.kind = m.kind /\ o.at = m.at /\ Date(o) = Date(m)) =>
            \E x \in b : x.fixture = o.fixture
    BY <1>3, <2>1
  <2>4. QED
    BY <1>3, <2>2, <2>3 DEF ValidBatch
<1>5. CASE ~ \E d \in N : d.precision = "date_only" /\ Date(d) = Date(n)
  <2>1. \A m \in b : m.kickoff = n.kickoff
    BY <1>2, <1>5 DEF Simultaneous
  <2>2. \A m \in b : m.precision = "exact"
    BY <1>3, <1>5 DEF ObservationRows, Precisions
  <2>3. QED
    BY <1>3, <2>1, <2>2 DEF ValidBatch
<1>6. QED
  BY <1>4, <1>5

\* Rows of one request and instant were read from one response.
LEMMA SameResponse ==
  ASSUME ResponsesKnown, Provenance, NEW c \in Retrieved("fixtures"),
         NEW n \in FixtureRows(c),
         NEW o \in observations, o.kind = n.kind, o.at = n.at
  PROVE  o \in FixtureRows(c)
<1>1. n.kind = "fixtures" /\ n.at = c.at
  BY FixtureRowsTyped
<1>2. PICK d \in Retrieved("fixtures") : o \in FixtureRows(d)
  BY <1>1 DEF Provenance
<1>3. d.at = c.at
  BY <1>1, <1>2, FixtureRowsTyped
<1>4. d = c
  BY <1>3 DEF ResponsesKnown, Retrieved
<1>5. QED
  BY <1>2, <1>4

\* No batch of whole responses is refused.
LEMMA BatchesOfResponses ==
  ASSUME ResponsesKnown, Provenance
  PROVE  PlannedBatchesValidate
<1> SUFFICES ASSUME NEW P \in SUBSET Retrieved("fixtures")
             PROVE  LET N == UNION {FixtureRows(c) : c \in P}
                    IN  \A b \in BatchesOf(N) : ValidBatch(b, observations \cup N)
  BY DEF PlannedBatchesValidate
<1> DEFINE N == UNION {FixtureRows(c) : c \in P}
<1>1. \A n \in N : n \in ObservationRows /\ n.kind = "fixtures"
  BY FixtureRowsTyped
<1>2. \A o \in observations, n \in N : o.kind = n.kind /\ o.at = n.at => o \in N
  BY SameResponse
<1> HIDE DEF N
<1>3. \A b \in BatchesOf(N) : ValidBatch(b, observations \cup N)
  BY <1>1, <1>2, WholeBatches
<1>4. QED
  BY <1>3 DEF N

\* A new row that passes the trigger comes after every stored row of its
\* reference and takes back none of them.
LEMMA NewRowIsNewest ==
  ASSUME observations \subseteq ObservationRows, NewestExists, HistoriesProgress,
         NEW n \in ObservationRows, Chronological(n, observations),
         NEW p \in observations, p.ref = n.ref
  PROVE  p.at <= n.at /\ Follows(p, n)
<1>1. PICK l \in observations :
        l.ref = n.ref /\ \A q \in observations : q.ref = n.ref => q.at <= l.at
  BY DEF NewestExists
<1>2. l.at <= n.at /\ p.at <= n.at
  BY <1>1 DEF Chronological
<1>3. l \in Latest(n.ref, n.at, observations)
  BY <1>1, <1>2 DEF Latest
<1>4. Follows(l, n)
  BY <1>3 DEF Chronological
<1>5. p = l \/ p.at < l.at
  BY <1>1 DEF HistoriesProgress, ObservationRows, Instants
<1>6. p = l \/ Follows(p, l)
  BY <1>1, <1>5 DEF HistoriesProgress
<1>7. QED
  BY <1>1, <1>2, <1>4, <1>6, FollowsTransitive

\* A fixture synchronization that commits extends histories at their end.
LEMMA FixturesExtendHistories ==
  ASSUME observations \subseteq ObservationRows, NewestExists, HistoriesProgress,
         NEW N, N \subseteq ObservationRows, FixturesStorable(N),
         observations' = observations \cup N
  PROVE  NewestExists' /\ HistoriesProgress'
<1>1. \A n \in N, o \in observations \cup N :
        o.ref = n.ref => o.fixture = n.fixture /\ (o.at = n.at => o = n)
  BY DEF FixturesStorable, Consistent
<1>2. \A m, n \in N : m.ref = n.ref => m = n
  BY <1>1 DEF FixturesStorable
<1>3. \A n \in N \ observations, p \in observations :
        p.ref = n.ref => p.at <= n.at /\ Follows(p, n)
  BY NewRowIsNewest DEF FixturesStorable
<1>4. HistoriesProgress'
  <2> SUFFICES ASSUME NEW p \in observations \cup N, NEW o \in observations \cup N,
                      p.ref = o.ref
               PROVE  /\ p.fixture = o.fixture
                      /\ p.at = o.at => p = o
                      /\ p.at < o.at => Follows(p, o)
    BY DEF HistoriesProgress, Follows
  <2>1. CASE p \in observations /\ o \in observations
    BY <2>1 DEF HistoriesProgress
  <2>2. CASE p \in observations /\ o \in N \ observations
    BY <1>1, <1>3, <2>2
  <2>3. CASE p \in N \ observations /\ o \in observations
    <3>1. o.at <= p.at /\ p.at \in Int /\ o.at \in Int
      BY <1>3, <2>3 DEF ObservationRows, Instants
    <3>2. p.fixture = o.fixture /\ (p.at = o.at => p = o)
      BY <1>1, <2>3
    <3>3. QED
      BY <3>1, <3>2
  <2>4. CASE p \in N \ observations /\ o \in N \ observations
    <3>1. p = o /\ p.at \in Int
      BY <1>2, <2>4 DEF ObservationRows, Instants
    <3>2. QED
      BY <3>1
  <2>5. QED
    BY <2>1, <2>2, <2>3, <2>4
<1>5. NewestExists'
  <2> SUFFICES ASSUME NEW o \in observations \cup N
               PROVE  \E l \in observations \cup N :
                        /\ l.ref = o.ref
                        /\ \A p \in observations \cup N : p.ref = o.ref => p.at <= l.at
    BY DEF NewestExists
  <2>1. CASE \E n \in N \ observations : n.ref = o.ref
    <3>1. PICK n \in N \ observations : n.ref = o.ref
      BY <2>1
    <3>2. \A p \in observations \cup N : p.ref = o.ref => p.at <= n.at
      BY <1>2, <1>3, <3>1 DEF ObservationRows, Instants
    <3>3. QED
      BY <3>1, <3>2
  <2>2. CASE \A n \in N \ observations : n.ref # o.ref
    BY <2>2 DEF NewestExists
  <2>3. QED
    BY <2>1, <2>2
<1>6. QED
  BY <1>4, <1>5

\* Rows of a fixtures response that are stored with their histories can be
\* persisted again: they are not new, so no trigger looks at them.
LEMMA FixturesReplay ==
  ASSUME HistoriesProgress', Provenance', NEW N, N \subseteq observations',
         \A m, n \in N : m.fixture = n.fixture => m = n,
         N \subseteq ObservationRows, \A n \in N : n.kind = "fixtures",
         \A o \in observations', n \in N : o.kind = n.kind /\ o.at = n.at => o \in N
  PROVE  FixturesStorable(N)'
<1>1. \A n \in N : n.updated <= n.at
  BY DEF Provenance
<1>2. \A n \in N, o \in observations' \cup N :
        o.ref = n.ref => o.fixture = n.fixture /\ (o.at = n.at => o = n)
  BY DEF HistoriesProgress
<1>3. N \ observations' = {}
  OBVIOUS
<1>4. \A b \in BatchesOf(N) : ValidBatch(b, observations' \cup N)
  BY WholeBatches
<1>5. QED
  BY <1>1, <1>2, <1>3, <1>4 DEF FixturesStorable, Consistent

\* The same of a results response.
LEMMA ResultsReplay ==
  ASSUME official' = {Official(r) : r \in resultRows'},
         OfficialScoresAgree', ResultKeys', Provenance',
         NEW N, N \subseteq resultRows',
         \A m, n \in N : m.fixture = n.fixture => m = n
  PROVE  ResultsStorable(N)'
<1>1. \A n \in N : n.completed <= n.at
  BY DEF Provenance
<1>2. \A n \in N, q \in official' : q.fixture = n.fixture => q = Official(n)
  BY DEF OfficialScoresAgree, Official
<1>3. \A n \in N, o \in resultRows' : o.ref = n.ref /\ o.at = n.at => o = n
  BY DEF ResultKeys
<1>4. N \ resultRows' = {}
  OBVIOUS
<1>5. QED
  BY <1>1, <1>2, <1>3, <1>4 DEF ResultsStorable, Agrees

-----------------------------------------------------------------------------
(* The inductive step, action by action                                    *)

\* Nothing but the clock is read from outside of the store and the cache.
LEMMA SameStore ==
  ASSUME SInv, TypeOK', UNCHANGED <<responses, tables>>
  PROVE  SInv'
<1>1. /\ responses' = responses /\ observations' = observations
      /\ batches' = batches /\ official' = official /\ resultRows' = resultRows /\ standings' = standings
  BY DEF tables
<1>2. ResponsesKnown' /\ Provenance'
  BY <1>1 DEF SInv, ResponsesKnown, Provenance, Retrieved
<1>3. NewestExists' /\ HistoriesProgress'
  BY <1>1 DEF SInv, NewestExists, HistoriesProgress
<1>4. OfficialScoresAgree' /\ ResultKeys' /\ ResultsFollowFixtures'
  BY <1>1 DEF SInv, OfficialScoresAgree, ResultKeys, ResultsFollowFixtures
<1>5. StoredResponsesReplay'
  BY <1>1 DEF SInv, StoredResponsesReplay, Retrieved, FixturesStorable, Consistent,
              Chronological, Latest, ResultsStorable, Agrees, Playable
<1>6. TablesCountOfficialResults'
  BY <1>1 DEF SInv, TablesCountOfficialResults, KnownBy
<1>7. QED
  BY <1>2, <1>3, <1>4, <1>5, <1>6 DEF SInv

\* What a failed transaction leaves is what it found.
LEMMA StutterStep ==
  ASSUME SInv, UNCHANGED vars
  PROVE  SInv'
<1>1. TypeOK'
  BY DEF SInv, vars, TypeOK
<1>2. QED
  BY <1>1, SameStore DEF vars, tables

\* Time passes over the store.
LEMMA TickStep ==
  ASSUME SInv, Tick
  PROVE  SInv'
<1>1. clock \in Instants /\ clock' \in Instants /\ clock <= clock'
  BY SyncInputs DEF SInv, TypeOK, Tick, Instants
<1>2. \A c \in responses : c.at \in 1 .. clock'
  BY <1>1 DEF SInv, TypeOK, Instants
<1>3. \A o \in observations \cup resultRows \cup standings : o.at \in Nat
  BY DEF SInv, TypeOK, Instants, ObservationRows, ResultRecords
<1>4. \A o \in observations \cup resultRows \cup standings : o.at <= clock'
  BY <1>1, <1>3 DEF SInv, TypeOK, Instants
<1>5. TypeOK'
  BY <1>1, <1>2, <1>4 DEF SInv, TypeOK, Tick, tables
<1>6. QED
  BY <1>5, SameStore DEF Tick

\* A response that is retrieved now is no part of what is stored.
LEMMA RetrieveStep ==
  ASSUME SInv, NEW kind, NEW content, Retrieve(kind, content),
         kind = "fixtures" => content \in Schedules,
         kind = "status" => content \in Polls,
         kind = "results" => content \in ResultLists
  PROVE  SInv'
<1> DEFINE new == Response(kind, content, clock)
<1>1. /\ clock' = clock /\ observations' = observations /\ batches' = batches
      /\ official' = official /\ resultRows' = resultRows /\ standings' = standings
      /\ responses' = responses \cup {new}
  BY DEF Retrieve, tables
<1>2. new.kind = kind /\ new.content = content /\ new.at = clock
  BY DEF Response
<1>3. \A c \in responses : c.kind = kind => c.at # clock
  BY DEF Retrieve, Retrieved
<1>4. clock \in Instants /\ clock \in 1 .. clock
  BY DEF SInv, TypeOK, Instants
<1>5. TypeOK'
  BY <1>1, <1>2, <1>4 DEF SInv, TypeOK
<1>6. ResponsesKnown'
  BY <1>1, <1>2, <1>3, <1>4 DEF SInv, ResponsesKnown
<1>7. Provenance'
  BY <1>1 DEF SInv, Provenance, Retrieved
<1>8. NewestExists' /\ HistoriesProgress'
  BY <1>1 DEF SInv, NewestExists, HistoriesProgress
<1>9. OfficialScoresAgree' /\ ResultKeys' /\ ResultsFollowFixtures'
  BY <1>1 DEF SInv, OfficialScoresAgree, ResultKeys, ResultsFollowFixtures
<1>10. TablesCountOfficialResults'
  BY <1>1 DEF SInv, TablesCountOfficialResults, KnownBy
<1>11. kind = "fixtures" => FixtureRows(new) \cap observations = {}
  <2> SUFFICES ASSUME kind = "fixtures", NEW o \in FixtureRows(new), o \in observations
               PROVE  FALSE
    OBVIOUS
  <2>1. o.kind = "fixtures" /\ o.at = clock
    BY <1>2 DEF FixtureRows, FixtureRow
  <2>2. PICK c \in Retrieved("fixtures") : o \in FixtureRows(c)
    BY <2>1 DEF SInv, Provenance
  <2>3. c.at = clock
    BY <2>1, <2>2, FixtureRowsTyped DEF SInv
  <2>4. QED
    BY <1>3, <2>3 DEF Retrieved
<1>12. kind = "results" => ResultRows(new) \cap resultRows = {}
  <2> SUFFICES ASSUME kind = "results", NEW o \in ResultRows(new), o \in resultRows
               PROVE  FALSE
    OBVIOUS
  <2>1. o.at = clock
    BY <1>2 DEF ResultRows, ResultRow
  <2>2. \E c \in Retrieved("results") : c.at = clock
    BY <2>1 DEF SInv, Provenance
  <2>3. QED
    BY <1>3, <2>2 DEF Retrieved
<1>13. StoredResponsesReplay'
  <2>1. \A N : FixturesStorable(N)' <=> FixturesStorable(N)
    BY <1>1 DEF FixturesStorable, Consistent, Chronological, Latest
  <2>2. \A N : ResultsStorable(N)' <=> ResultsStorable(N)
    BY <1>1 DEF ResultsStorable, Agrees, Playable, Latest
  <2>3. \A k : Retrieved(k)' \subseteq Retrieved(k) \cup {new}
    BY <1>1 DEF Retrieved
  <2>4. \A k : new \in Retrieved(k)' => k = kind
    BY <1>2 DEF Retrieved
  <2>5. QED
    BY <1>1, <1>11, <1>12, <2>1, <2>2, <2>3, <2>4 DEF SInv, StoredResponsesReplay
<1>14. QED
  BY <1>5, <1>6, <1>7, <1>8, <1>9, <1>10, <1>13 DEF SInv

\* A transaction of observation rows, whole responses where they are of a
\* fixtures response.
LEMMA FixturesStep ==
  ASSUME SInv, NEW N, PersistFixtures(N), N \subseteq ObservationRows,
         \A n \in N : n.at <= clock,
         \A n \in N : n.kind = "fixtures" =>
           \E c \in Retrieved("fixtures") : n \in FixtureRows(c) /\ FixtureRows(c) \subseteq N
  PROVE  SInv'
<1>1. CASE ~FixturesStorable(N)
  BY <1>1, StutterStep DEF PersistFixtures, vars
<1>2. CASE FixturesStorable(N)
  <2>1. /\ clock' = clock /\ responses' = responses /\ official' = official
        /\ resultRows' = resultRows /\ standings' = standings
        /\ observations' = observations \cup N /\ batches' = batches \cup BatchesOf(N)
    BY <1>2 DEF PersistFixtures
  <2>2. TypeOK'
    <3>1. \A b \in BatchesOf(N) : b \subseteq N
      BY DEF BatchesOf
    <3>2. UNION batches' \subseteq observations'
      BY <2>1, <3>1 DEF SInv, TypeOK
    <3>3. QED
      BY <2>1, <3>2 DEF SInv, TypeOK
  <2>3. ResponsesKnown'
    BY <2>1 DEF SInv, ResponsesKnown
  <2>4. NewestExists' /\ HistoriesProgress'
    BY <1>2, <2>1, FixturesExtendHistories DEF SInv, TypeOK
  <2>5. OfficialScoresAgree' /\ ResultKeys'
    BY <2>1 DEF SInv, OfficialScoresAgree, ResultKeys
  <2>6. ResultsFollowFixtures'
    BY <2>1 DEF SInv, ResultsFollowFixtures
  <2>7. TablesCountOfficialResults'
    BY <2>1 DEF SInv, TablesCountOfficialResults, KnownBy
  <2>8. Provenance'
    <3>1. \A n \in N : n.updated <= n.at
      BY <1>2 DEF FixturesStorable
    <3>2. QED
      BY <2>1, <3>1 DEF SInv, Provenance, Retrieved
  <2>9. Retrieved("fixtures")' = Retrieved("fixtures")
        /\ Retrieved("results")' = Retrieved("results")
    BY <2>1 DEF Retrieved
  <2>10. ASSUME NEW c \in Retrieved("fixtures"),
                FixtureRows(c) \cap observations' # {}
         PROVE  FixtureRows(c) \subseteq observations' /\ FixturesStorable(FixtureRows(c))'
    <3> /\ FixtureRows(c) \subseteq ObservationRows
        /\ \A n \in FixtureRows(c) : n.kind = "fixtures" /\ n.at = c.at
      BY FixtureRowsTyped DEF SInv
    <3>0. \A o \in observations', n \in FixtureRows(c) :
            o.kind = n.kind /\ o.at = n.at => o \in FixtureRows(c)
      <4> SUFFICES ASSUME NEW o \in observations', NEW n \in FixtureRows(c),
                          o.kind = n.kind, o.at = n.at
                   PROVE  o \in FixtureRows(c)
        OBVIOUS
      <4>1. PICK d \in Retrieved("fixtures") : o \in FixtureRows(d)
        BY <2>8, <2>9 DEF Provenance
      <4>2. d.at = c.at
        BY <4>1, FixtureRowsTyped DEF SInv
      <4>3. d = c
        BY <4>2 DEF SInv, ResponsesKnown, Retrieved
      <4>4. QED
        BY <4>1, <4>3
    <3>1. \/ FixtureRows(c) \cap observations # {}
          \/ \E n \in N : n \in FixtureRows(c)
      BY <2>1, <2>10
    <3>2. CASE FixtureRows(c) \cap observations # {}
      <4>1. FixtureRows(c) \subseteq observations /\ FixturesStorable(FixtureRows(c))
        BY <3>2 DEF SInv, StoredResponsesReplay
      <4>2. \A m, n \in FixtureRows(c) : m.fixture = n.fixture => m = n
        BY <4>1 DEF FixturesStorable
      <4>3. QED
        BY <2>1, <2>4, <2>8, <3>0, <4>1, <4>2, FixturesReplay
    <3>3. CASE \E n \in N : n \in FixtureRows(c)
      <4>1. PICK n \in N : n \in FixtureRows(c)
        BY <3>3
      <4>2. n.kind = "fixtures" /\ n.at = c.at
        BY <4>1, FixtureRowsTyped DEF SInv
      <4>3. PICK d \in Retrieved("fixtures") :
              n \in FixtureRows(d) /\ FixtureRows(d) \subseteq N
        BY <4>2
      <4>4. d.at = c.at
        BY <4>2, <4>3, FixtureRowsTyped DEF SInv
      <4>5. d = c
        BY <4>4 DEF SInv, ResponsesKnown, Retrieved
      <4>6. FixtureRows(c) \subseteq N
        BY <4>3, <4>5
      <4>7. \A m, o \in FixtureRows(c) : m.fixture = o.fixture => m = o
        BY <1>2, <4>6 DEF FixturesStorable
      <4>8. QED
        BY <2>1, <2>4, <2>8, <3>0, <4>6, <4>7, FixturesReplay
    <3>4. QED
      BY <3>1, <3>2, <3>3
  <2>11. ASSUME NEW c \in Retrieved("results"), ResultRows(c) \cap resultRows' # {}
         PROVE  ResultRows(c) \subseteq resultRows' /\ ResultsStorable(ResultRows(c))'
    <3>1. ResultRows(c) \subseteq resultRows /\ ResultsStorable(ResultRows(c))
      BY <2>1, <2>11 DEF SInv, StoredResponsesReplay
    <3>2. \A m, n \in ResultRows(c) : m.fixture = n.fixture => m = n
      BY <3>1 DEF ResultsStorable
    <3>3. official' = {Official(r) : r \in resultRows'}
      BY <2>2 DEF TypeOK
    <3>4. QED
      BY <2>1, <2>5, <2>8, <3>1, <3>2, <3>3, ResultsReplay
  <2>12. StoredResponsesReplay'
    BY <2>9, <2>10, <2>11 DEF StoredResponsesReplay
  <2>13. QED
    BY <2>2, <2>3, <2>4, <2>5, <2>6, <2>7, <2>8, <2>12 DEF SInv
<1>3. QED
  BY <1>1, <1>2

\* A poll.
LEMMA SyncFixturesStep ==
  ASSUME SInv, SyncFixtures
  PROVE  SInv'
<1>1. PICK P \in SUBSET Retrieved("fixtures") :
        PersistFixtures(UNION {FixtureRows(c) : c \in P})
  BY DEF SyncFixtures
<1> DEFINE N == UNION {FixtureRows(c) : c \in P}
<1>2. \A n \in N : \E c \in Retrieved("fixtures") : n \in FixtureRows(c) /\ FixtureRows(c) \subseteq N
  OBVIOUS
<1>3. \A n \in N : n \in ObservationRows /\ n.at <= clock
  <2> SUFFICES ASSUME NEW n \in N PROVE n \in ObservationRows /\ n.at <= clock
    OBVIOUS
  <2>1. PICK c \in Retrieved("fixtures") : n \in FixtureRows(c)
    BY <1>2
  <2>2. n \in ObservationRows /\ n.at = c.at
    BY <2>1, FixtureRowsTyped DEF SInv
  <2>3. c.at <= clock
    BY <2>1 DEF SInv, TypeOK, Retrieved, Instants
  <2>4. QED
    BY <2>2, <2>3
<1>4. QED
  BY <1>1, <1>2, <1>3, FixturesStep

\* A status poll.
LEMMA SyncStatusesStep ==
  ASSUME SInv, SyncStatuses
  PROVE  SInv'
<1>1. PICK c \in Retrieved("status"), b \in Retrieved("fixtures") :
        PersistFixtures(StatusRows(c, b))
  BY DEF SyncStatuses
<1>2. \A n \in StatusRows(c, b) : n \in ObservationRows /\ n.kind = "status" /\ n.at = c.at
  BY StatusRowsTyped DEF SInv
<1>3. c.at <= clock
  BY DEF SInv, TypeOK, Retrieved, Instants
<1>4. QED
  BY <1>1, <1>2, <1>3, FixturesStep

\* A reconciliation of results, of whole responses.
LEMMA ResultsStep ==
  ASSUME SInv, NEW N, PersistResults(N), N \subseteq ResultRecords,
         \A n \in N : n.at <= clock,
         \A n \in N :
           \E c \in Retrieved("results") : n \in ResultRows(c) /\ ResultRows(c) \subseteq N
  PROVE  SInv'
<1>1. CASE ~ResultsStorable(N)
  BY <1>1, StutterStep DEF PersistResults, vars
<1>2. CASE ResultsStorable(N)
  <2>1. /\ clock' = clock /\ responses' = responses /\ observations' = observations
        /\ standings' = standings /\ batches' = batches
        /\ official' = official \cup {Official(n) : n \in N}
        /\ resultRows' = resultRows \cup N
    BY <1>2 DEF PersistResults
  <2>2. official = {Official(r) : r \in resultRows}
    BY DEF SInv, TypeOK
  <2>3. official' = {Official(r) : r \in resultRows'}
    BY <2>1, <2>2
  <2>4. TypeOK'
    BY <2>1, <2>3 DEF SInv, TypeOK
  <2>5. ResponsesKnown' /\ NewestExists' /\ HistoriesProgress'
    BY <2>1 DEF SInv, ResponsesKnown, NewestExists, HistoriesProgress
  <2>6. \A m, n \in N : m.fixture = n.fixture => m = n
    BY <1>2 DEF ResultsStorable
  <2>7. \A n \in N : n.completed <= n.at
    BY <1>2 DEF ResultsStorable, Agrees
  <2>8. \A n \in N \ resultRows : Playable(n)
    BY <1>2 DEF ResultsStorable
  <2>9. OfficialScoresAgree'
    <3>1. \A n \in N, q \in resultRows : q.fixture = n.fixture => q.score = n.score
      <4> SUFFICES ASSUME NEW n \in N, NEW q \in resultRows, q.fixture = n.fixture
                   PROVE  q.score = n.score
        OBVIOUS
      <4>1. Official(q) \in official /\ Official(q).fixture = n.fixture
        BY <2>2 DEF Official
      <4>2. Official(q) = Official(n)
        BY <1>2, <4>1 DEF ResultsStorable, Agrees
      <4>3. QED
        BY <4>2 DEF Official
    <3>2. QED
      BY <2>1, <2>6, <3>1 DEF SInv, OfficialScoresAgree
  <2>10. ResultKeys'
    <3>1. \A n \in N, o \in resultRows : o.ref = n.ref /\ o.at = n.at => o = n
      BY <1>2 DEF ResultsStorable
    <3>2. \A m, n \in N \ resultRows : m.ref = n.ref /\ m.at = n.at => m = n
      <4> SUFFICES ASSUME NEW m \in N \ resultRows, NEW n \in N \ resultRows,
                          m.ref = n.ref, m.at = n.at
                   PROVE  m = n
        OBVIOUS
      <4>1. PICK p \in Latest(m.ref, m.at, observations) : p.fixture = m.fixture
        BY <2>8 DEF Playable
      <4>2. PICK q \in Latest(n.ref, n.at, observations) : q.fixture = n.fixture
        BY <2>8 DEF Playable
      <4>3. p.fixture = q.fixture
        BY <4>1, <4>2 DEF Latest, SInv, HistoriesProgress
      <4>4. QED
        BY <2>6, <4>1, <4>2, <4>3
    <3>3. QED
      BY <2>1, <3>1, <3>2 DEF SInv, ResultKeys
  <2>11. ResultsFollowFixtures'
    <3>1. \A n \in N \ resultRows :
            \E o \in observations :
              /\ o.ref = n.ref /\ o.fixture = n.fixture /\ o.at <= n.at
              /\ o.status \notin {"cancelled", "abandoned"}
              /\ n.completed # Never => n.completed >= o.kickoff
      BY <2>8 DEF Playable, Latest
    <3>2. \A n \in N, o \in observations : n.completed \in Int /\ o.kickoff \in Int
      BY SyncInputs DEF SInv, TypeOK, ResultRecords, ObservationRows, Stamps, Instants, Never
    <3>3. QED
      BY <2>1, <3>1, <3>2 DEF SInv, ResultsFollowFixtures
  <2>12. TablesCountOfficialResults'
    <3>1. \A t : KnownBy(t) \subseteq KnownBy(t)'
      BY <2>1 DEF KnownBy
    <3>2. QED
      BY <2>1, <3>1 DEF SInv, TablesCountOfficialResults
  <2>13. Provenance'
    <3>1. \A n \in N : \E c \in Retrieved("results") : c.at = n.at
      BY ResultRowsTyped DEF SInv
    <3>2. QED
      BY <2>1, <2>7, <3>1 DEF SInv, Provenance, Retrieved
  <2>14. ASSUME NEW c \in Retrieved("results"), ResultRows(c) \cap resultRows' # {}
         PROVE  ResultRows(c) \subseteq resultRows' /\ ResultsStorable(ResultRows(c))'
    <3>1. \/ ResultRows(c) \cap resultRows # {}
          \/ \E n \in N : n \in ResultRows(c)
      BY <2>1, <2>14
    <3>2. CASE ResultRows(c) \cap resultRows # {}
      <4>1. ResultRows(c) \subseteq resultRows /\ ResultsStorable(ResultRows(c))
        BY <3>2 DEF SInv, StoredResponsesReplay
      <4>2. \A m, n \in ResultRows(c) : m.fixture = n.fixture => m = n
        BY <4>1 DEF ResultsStorable
      <4>3. QED
        BY <2>1, <2>3, <2>9, <2>10, <2>13, <4>1, <4>2, ResultsReplay
    <3>3. CASE \E n \in N : n \in ResultRows(c)
      <4>1. PICK n \in N : n \in ResultRows(c)
        BY <3>3
      <4>2. PICK d \in Retrieved("results") :
              n \in ResultRows(d) /\ ResultRows(d) \subseteq N
        OBVIOUS
      <4>3. d.at = c.at
        BY <4>1, <4>2, ResultRowsTyped DEF SInv
      <4>4. d = c
        BY <4>3 DEF SInv, ResponsesKnown, Retrieved
      <4>5. ResultRows(c) \subseteq N
        BY <4>2, <4>4
      <4>6. QED
        BY <2>1, <2>3, <2>6, <2>9, <2>10, <2>13, <4>5, ResultsReplay
    <3>4. QED
      BY <3>1, <3>2, <3>3
  <2>15. \A c \in Retrieved("fixtures") :
           FixtureRows(c) \cap observations' # {} =>
             FixtureRows(c) \subseteq observations' /\ FixturesStorable(FixtureRows(c))'
    BY <2>1 DEF SInv, StoredResponsesReplay, FixturesStorable, Consistent,
                Chronological, Latest
  <2>16. StoredResponsesReplay'
    <3>1. Retrieved("fixtures")' = Retrieved("fixtures")
          /\ Retrieved("results")' = Retrieved("results")
      BY <2>1 DEF Retrieved
    <3>2. QED
      BY <2>14, <2>15, <3>1 DEF StoredResponsesReplay
  <2>17. QED
    BY <2>4, <2>5, <2>9, <2>10, <2>11, <2>12, <2>13, <2>16 DEF SInv
<1>3. QED
  BY <1>1, <1>2

\* A reconciliation reads whole responses.
LEMMA ReconcileResultsStep ==
  ASSUME SInv, ReconcileResults
  PROVE  SInv'
<1>1. PICK P \in SUBSET Retrieved("results") :
        PersistResults(UNION {ResultRows(c) : c \in P})
  BY DEF ReconcileResults
<1> DEFINE N == UNION {ResultRows(c) : c \in P}
<1>2. \A n \in N : \E c \in Retrieved("results") : n \in ResultRows(c) /\ ResultRows(c) \subseteq N
  OBVIOUS
<1>3. \A n \in N : n \in ResultRecords /\ n.at <= clock
  <2> SUFFICES ASSUME NEW n \in N PROVE n \in ResultRecords /\ n.at <= clock
    OBVIOUS
  <2>1. PICK c \in Retrieved("results") : n \in ResultRows(c)
    BY <1>2
  <2>2. n \in ResultRecords /\ n.at = c.at
    BY <2>1, ResultRowsTyped DEF SInv
  <2>3. c.at <= clock
    BY <2>1 DEF SInv, TypeOK, Retrieved, Instants
  <2>4. QED
    BY <2>2, <2>3
<1>4. QED
  BY <1>1, <1>2, <1>3, ResultsStep

\* A table is stored when it adds up the results in the store.
LEMMA SyncStandingsStep ==
  ASSUME SInv, SyncStandings
  PROVE  SInv'
<1>1. PICK c \in Retrieved("standings"), P \in SUBSET Retrieved("results") :
        /\ standings' = IF StandingsStorable(c, UNION {ResultRows(d) : d \in P})
                        THEN standings \cup {Snapshot(c)} ELSE standings
        /\ UNCHANGED <<clock, responses, observations, batches, official, resultRows>>
  BY DEF SyncStandings
<1>2. CASE standings' = standings
  BY <1>1, <1>2, StutterStep DEF vars
<1>3. CASE standings' # standings
  <2>1. standings' = standings \cup {Snapshot(c)} /\ ReconciledInStore(c)
    BY <1>1, <1>3 DEF StandingsStorable
  <2>2. Snapshot(c).at = c.at /\ Snapshot(c).table = c.content
    BY DEF Snapshot
  <2>3. c.at \in Instants /\ c.at <= clock
    BY DEF SInv, ResponsesKnown, TypeOK, Retrieved, Instants
  <2>4. TypeOK'
    BY <1>1, <2>1, <2>2, <2>3 DEF SInv, TypeOK
  <2>5. TablesCountOfficialResults'
    <3>1. \A t : KnownBy(t)' = KnownBy(t)
      BY <1>1 DEF KnownBy
    <3>2. Totals(KnownBy(c.at)) = c.content
      BY <2>1 DEF ReconciledInStore
    <3>3. QED
      BY <2>1, <2>2, <3>1, <3>2 DEF SInv, TablesCountOfficialResults
  <2>6. ResponsesKnown' /\ Provenance' /\ NewestExists' /\ HistoriesProgress'
    BY <1>1 DEF SInv, ResponsesKnown, Provenance, NewestExists, HistoriesProgress, Retrieved
  <2>7. OfficialScoresAgree' /\ ResultKeys' /\ ResultsFollowFixtures'
    BY <1>1 DEF SInv, OfficialScoresAgree, ResultKeys, ResultsFollowFixtures
  <2>8. StoredResponsesReplay'
    <3>1. \A N : FixturesStorable(N)' = FixturesStorable(N)
      BY <1>1 DEF FixturesStorable, Consistent, Chronological, Latest
    <3>2. \A N : ResultsStorable(N)' = ResultsStorable(N)
      BY <1>1 DEF ResultsStorable, Agrees, Playable, Latest
    <3>3. \A k : Retrieved(k)' = Retrieved(k)
      BY <1>1 DEF Retrieved
    <3>4. QED
      BY <1>1, <3>1, <3>2, <3>3 DEF SInv, StoredResponsesReplay
  <2>9. QED
    BY <2>4, <2>5, <2>6, <2>7, <2>8 DEF SInv
<1>4. QED
  BY <1>2, <1>3

-----------------------------------------------------------------------------
\* An empty store in an empty cache.
LEMMA InitialStore ==
  ASSUME Init
  PROVE  SInv
BY SyncInputs DEF Init, SInv, TypeOK, ResponsesKnown, Provenance, NewestExists,
   HistoriesProgress, OfficialScoresAgree, ResultKeys, ResultsFollowFixtures,
   StoredResponsesReplay, TablesCountOfficialResults, Retrieved, Instants

\* SInv is inductive: persist in any order, and it holds.
THEOREM StoreInvariant == Spec => []SInv
<1>1. Init => SInv
  BY SyncInputs, InitialStore
<1>2. SInv /\ [Next]_vars => SInv'
  <2> SUFFICES ASSUME SInv, [Next]_vars
               PROVE  SInv'
    OBVIOUS
  <2>1. CASE Tick
    BY <2>1, TickStep
  <2>2. CASE Retrieval
    <3>1. ASSUME NEW s \in Schedules, Retrieve("fixtures", s)
          PROVE  SInv'
      BY <3>1, RetrieveStep
    <3>2. ASSUME NEW s \in Polls, Retrieve("status", s)
          PROVE  SInv'
      BY <3>2, RetrieveStep
    <3>3. ASSUME NEW s \in ResultLists, Retrieve("results", s)
          PROVE  SInv'
      BY <3>3, RetrieveStep
    <3>4. ASSUME NEW t, Retrieve("standings", t)
          PROVE  SInv'
      BY <3>4, RetrieveStep
    <3>5. QED
      BY <2>2, <3>1, <3>2, <3>3, <3>4 DEF Retrieval
  <2>3. CASE SyncFixtures
    BY <2>3, SyncFixturesStep
  <2>4. CASE SyncStatuses
    BY <2>4, SyncStatusesStep
  <2>5. CASE ReconcileResults
    BY <2>5, ReconcileResultsStep
  <2>6. CASE SyncStandings
    BY <2>6, SyncStandingsStep
  <2>7. CASE UNCHANGED vars
    BY <2>7, StutterStep
  <2>8. QED
    BY <2>1, <2>2, <2>3, <2>4, <2>5, <2>6, <2>7 DEF Next
<1>3. QED
  BY <1>1, <1>2, PTL DEF Spec

\* The observations of a provider reference (f0005's fixture trigger) only
\* progress, in whatever order polls and status polls are persisted.
THEOREM HistoriesAlwaysProgress == Spec => []HistoriesProgress
<1>1. SInv => HistoriesProgress
  BY DEF SInv
<1>2. QED
  BY <1>1, StoreInvariant, PTL

\* Every variable keeps its type, and no row is dated after the present.
THEOREM SyncTypeOK == Spec => []TypeOK
<1>1. SInv => TypeOK
  BY DEF SInv
<1>2. QED
  BY <1>1, StoreInvariant, PTL

\* Result reconciliation keeps one score per fixture, under all references.
THEOREM ResultsStand == Spec => []OfficialScoresAgree
<1>1. SInv => OfficialScoresAgree
  BY DEF SInv
<1>2. QED
  BY <1>1, StoreInvariant, PTL

\* A result rests on an observation of its fixture that was retrieved first and
\* does not contradict it, in whatever order the responses are persisted.
THEOREM ResultsRestOnFixtures == Spec => []ResultsFollowFixtures
<1>1. SInv => ResultsFollowFixtures
  BY DEF SInv
<1>2. QED
  BY <1>1, StoreInvariant, PTL

\* A retry of a persisted response commits, however late, and adds no
\* observation.
THEOREM RetriesAreIdempotent == Spec => []StoredResponsesReplay
<1>1. SInv => StoredResponsesReplay
  BY DEF SInv
<1>2. QED
  BY <1>1, StoreInvariant, PTL

\* What current_fixture_batches plans, validate_current_fixture_batch accepts.
THEOREM PlannerAndTriggerAgree == Spec => []PlannedBatchesValidate
<1>1. SInv => PlannedBatchesValidate
  BY BatchesOfResponses DEF SInv
<1>2. QED
  BY <1>1, StoreInvariant, PTL

\* Standings synchronization only stores tables of official results.
THEOREM TablesAreOfficial == Spec => []TablesCountOfficialResults
<1>1. SInv => TablesCountOfficialResults
  BY DEF SInv
<1>2. QED
  BY <1>1, StoreInvariant, PTL

=============================================================================
