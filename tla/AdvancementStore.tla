--------------------------- MODULE AdvancementStore ---------------------------
(***************************************************************************)
(* store_advancement against the tables of migration f0008: the rows of    *)
(* one advancement are inserted in the order of PersistenceTable, each     *)
(* insert queues the constraint trigger of its table, and SET CONSTRAINTS  *)
(* ALL IMMEDIATE runs the queue.  A validator is a PL/pgSQL function whose *)
(* NEW is the row that was inserted: reading a column that the table does  *)
(* not have raises an error, and an error rolls the transaction back.      *)
(***************************************************************************)
EXTENDS Integers, FiniteSets, Sequences

CONSTANTS
  Fixtures,   \* fixtures of a first batch, as numbers in the order of their ids
  Kickoff,    \* Kickoff[f]: when f starts (one date-only batch may mix times)
  Teams       \* the teams of the season, as numbers in the order of their ids

VARIABLES
  batch,    \* the fixtures whose results the advancement applies
  plan,     \* the rows of the write plan that are still to insert
  rows,     \* rows inserted in the open transaction
  queue,    \* rows whose deferred trigger has not run
  outcome   \* "open", "committed" or "rolled_back"

vars == <<batch, plan, rows, queue, outcome>>

Tables == <<"operational_team_state", "operational_team_state_result",
            "operational_team_state_rating", "team_state_advancement",
            "team_state_advancement_result">>

Rank(table) == CHOOSE i \in DOMAIN Tables : Tables[i] = table

\* Position of x in S when S is sorted by key[y], then by identity.
Position(x, S, key) ==
  Cardinality({y \in S : key[y] < key[x] \/ (key[y] = key[x] /\ y < x)})

Equal == [x \in Fixtures \cup Teams |-> 0]

Row(table, owner, ordinal, member) ==
  [table |-> table, owner |-> owner, ordinal |-> ordinal, member |-> member]

\* The rows of the empty pre-state, of the post-state and of the advancement.
\* Results and applied results are numbered in the order (kickoff_at, fixture.id).
WritePlan(B) ==
  {Row("operational_team_state", o, 0, 0) : o \in {"pre", "post"}}
    \cup {Row("operational_team_state_result", "post",
              Position(f, B, Kickoff), f) : f \in B}
    \cup {Row("operational_team_state_rating", o, Position(t, Teams, Equal), t) :
            o \in {"pre", "post"}, t \in Teams}
    \cup {Row("team_state_advancement", "advancement", 0, 0)}
    \cup {Row("team_state_advancement_result", "advancement",
              Position(f, B, Kickoff), f) : f \in B}

\* The plan is sorted by table; within a table the pre-state comes first.
Before(p, q) ==
  \/ Rank(p.table) < Rank(q.table)
  \/ p.table = q.table /\ p.owner = "pre" /\ q.owner = "post"
  \/ p.table = q.table /\ p.owner = q.owner /\ p.ordinal < q.ordinal

\* The columns of a table that the validators read, of those it has.
Columns(table) ==
  CASE table = "operational_team_state" ->
         {"state_id", "season_id", "completed_result_count"}
    [] table \in {"operational_team_state_result", "operational_team_state_rating"} ->
         {"state_id"}
    [] table = "team_state_advancement" ->
         {"advancement_id", "pre_state_id", "post_state_id",
          "applied_result_count", "applied_at", "prior_advancement_id"}
    [] table = "team_state_advancement_result" -> {"advancement_id"}

\* The columns of NEW that the validator bound to a table reads.  The tables of
\* a state share one validator, those of an advancement another.
ReadsOfNew(table) ==
  IF table \in {"team_state_advancement", "team_state_advancement_result"}
    THEN Columns("team_state_advancement")
    ELSE Columns("operational_team_state")

Of(table, owner) == {r \in rows : r.table = table /\ r.owner = owner}

\* What the validators demand: as many results as the state declares, in
\* unbroken order, a rating for every team, and applied results in the order
\* of their fixture identities.
StateValid(owner) ==
  LET results == Of("operational_team_state_result", owner)
  IN  /\ {r.ordinal : r \in results} = 0 .. Cardinality(results) - 1
      /\ Cardinality(results) = (IF owner = "post" THEN Cardinality(batch) ELSE 0)
      /\ {r.member : r \in Of("operational_team_state_rating", owner)} = Teams

AdvancementValid ==
  LET applied == Of("team_state_advancement_result", "advancement")
  IN  /\ {r.member : r \in applied} = batch
      /\ \A r \in applied : r.ordinal = Position(r.member, batch, Equal)

Valid(r) ==
  IF r.owner = "advancement" THEN AdvancementValid ELSE StateValid(r.owner)

Init ==
  /\ batch \in (SUBSET Fixtures) \ {{}}
  /\ plan = WritePlan(batch)
  /\ rows = {}
  /\ queue = <<>>
  /\ outcome = "open"

InsertRow ==
  /\ outcome = "open"
  /\ \E r \in plan :
       /\ \A q \in plan \ {r} : Before(r, q)
       /\ rows' = rows \cup {r}
       /\ queue' = Append(queue, r)
       /\ plan' = plan \ {r}
  /\ UNCHANGED <<batch, outcome>>

\* One deferred trigger: it returns, or it raises and the transaction is over.
RunTrigger ==
  /\ outcome = "open"
  /\ plan = {}
  /\ queue # <<>>
  /\ queue' = Tail(queue)
  /\ outcome' = IF /\ ReadsOfNew(Head(queue).table) \subseteq Columns(Head(queue).table)
                   /\ Valid(Head(queue))
                  THEN "open" ELSE "rolled_back"
  /\ rows' = IF outcome' = "open" THEN rows ELSE {}
  /\ UNCHANGED <<batch, plan>>

Commit ==
  /\ outcome = "open"
  /\ plan = {}
  /\ queue = <<>>
  /\ outcome' = "committed"
  /\ UNCHANGED <<batch, plan, rows, queue>>

Next == InsertRow \/ RunTrigger \/ Commit

Spec == Init /\ [][Next]_vars

-----------------------------------------------------------------------------
\* The database accepts the rows the repository writes for an advancement it
\* has validated, so that a retry can ever get past this stage.
CanonicalRowsAccepted == outcome # "rolled_back"
=============================================================================
