------------------------------- MODULE LiveRead -------------------------------
(***************************************************************************)
(* The cache-aware readers of current fixtures and of completed results:   *)
(* a read follows the provider's cursors from the first page, satisfies    *)
(* each page from the exact-response cache or from the provider, and hands *)
(* the fixtures of all pages to one persisting transaction.  Cached pages  *)
(* expire one by one, while the provider is free to lay its fixtures out   *)
(* over the pages anew.                                                    *)
(***************************************************************************)
EXTENDS Naturals, FiniteSets

CONSTANTS
  Readers,    \* jobs that read the same request
  Fixtures,   \* the fixtures the provider may list
  Cursors,    \* page cursors, First among them
  First,      \* the first page, which has no cursor
  End,        \* the next cursor of a last page
  Layouts,    \* Layouts: each maps a cursor to its page
  TTL,        \* cache_ttl
  MaxTime     \* bound on the clock

ASSUME ReadInputs ==
  /\ First \in Cursors /\ End \notin Cursors
  /\ TTL \in Nat \ {0} /\ MaxTime \in Nat
  /\ \A l \in Layouts, c \in Cursors :
       l[c].fixtures \subseteq Fixtures /\ l[c].next \in Cursors \cup {End}

VARIABLES
  clock,      \* now
  layout,     \* how the provider lays the fixtures out now
  cache,      \* the stored exact responses
  pc,         \* where reader r is in its read
  at,         \* the evaluation time the read of r was called with
  cursor,     \* the page r needs
  seen,       \* seen_cursors
  response,   \* the response r has fetched and not stored yet
  pages,      \* the responses r has collected
  synced      \* the collection persisted last, [at, pages], if any

shared == <<clock, layout, cache, synced>>
vars == <<clock, layout, cache, pc, at, cursor, seen, response, pages, synced>>

\* The exact response to the request for page c, as retrieved at time t.
Response(c, l, t) == [cursor |-> c, layout |-> l, fetched |-> t]
Responses == [cursor : Cursors, layout : Layouts, fetched : 0 .. MaxTime]
NoResponse == [cursor |-> End]

Page(e) == e.layout[e.cursor]
FixturesOf(P) == UNION {Page(e).fixtures : e \in P}

\* C holds the first page of layout l and every page after one of its pages.
ClosedUnder(l, C) == First \in C /\ \A c \in C : l[c].next \in C \cup {End}

\* What the provider lists in layout l: the fixtures its cursors lead to.
Listed(l) ==
  {f \in Fixtures : \A C \in SUBSET Cursors :
     ClosedUnder(l, C) => f \in UNION {l[c].fixtures : c \in C}}

\* Mutated form: an entry is still fresh when it expires.
FreshAtExpiry(e, t) == e.fetched <= t /\ t <= e.fetched + TTL

Fresh(e, t) == e.fetched <= t /\ t < e.fetched + TTL

\* The latest response for page c known at t, if any.
Latest(c, t) ==
  {e \in cache :
     /\ e.cursor = c /\ e.fetched <= t
     /\ \A d \in cache : d.cursor = c /\ d.fetched <= t => d.fetched <= e.fetched}

-----------------------------------------------------------------------------
Init ==
  /\ clock = 0
  /\ layout \in Layouts
  /\ cache = {}
  /\ pc = [r \in Readers |-> "idle"]
  /\ at = [r \in Readers |-> 0]
  /\ cursor = [r \in Readers |-> First]
  /\ seen = [r \in Readers |-> {}]
  /\ response = [r \in Readers |-> NoResponse]
  /\ pages = [r \in Readers |-> {}]
  /\ synced = {}

GoTo(r, label) == pc' = [pc EXCEPT ![r] = label]

\* The read is over, by return or by exception, and its locals are gone.
Leave(r) ==
  /\ GoTo(r, "idle")
  /\ at' = [at EXCEPT ![r] = 0]
  /\ cursor' = [cursor EXCEPT ![r] = First]
  /\ seen' = [seen EXCEPT ![r] = {}]
  /\ response' = [response EXCEPT ![r] = NoResponse]
  /\ pages' = [pages EXCEPT ![r] = {}]

Start(r) ==
  /\ pc[r] = "idle"
  /\ GoTo(r, "page")
  /\ at' = [at EXCEPT ![r] = clock]
  /\ UNCHANGED <<shared, cursor, seen, response, pages>>

\* Mutated form: only a page that repeats the whole collection is refused.
RepeatsAll(r, e) == Page(e).fixtures # {} /\ Page(e).fixtures = FixturesOf(pages[r])

\* The page repeats a fixture of an earlier one.
Repeats(r, e) == Page(e).fixtures \cap FixturesOf(pages[r]) # {}

\* Mutated form: the collection is complete after its first page.
JoinOnce(r, e) ==
  /\ pages' = [pages EXCEPT ![r] = @ \cup {e}]
  /\ seen' = [seen EXCEPT ![r] = @ \cup {cursor[r]}]
  /\ response' = [response EXCEPT ![r] = NoResponse]
  /\ GoTo(r, "sync")
  /\ UNCHANGED <<at, cursor>>

\* A page joins the collection and the read goes on to the page after it, unless
\* the page repeats a fixture: that ends the read.
Join(r, e) ==
  \/ /\ ~Repeats(r, e)
     /\ pages' = [pages EXCEPT ![r] = @ \cup {e}]
     /\ seen' = [seen EXCEPT ![r] = @ \cup {cursor[r]}]
     /\ response' = [response EXCEPT ![r] = NoResponse]
     /\ \/ Page(e).next = End /\ GoTo(r, "sync") /\ UNCHANGED cursor
        \/ /\ Page(e).next # End
           /\ GoTo(r, "page")
           /\ cursor' = [cursor EXCEPT ![r] = Page(e).next]
     /\ UNCHANGED at
  \/ Repeats(r, e) /\ Leave(r)

\* Mutated form: a page may be asked for again.
RepeatedCursorForgiven(r) == FALSE

RepeatedCursor(r) == cursor[r] \in seen[r]

\* A cursor the read has seen already ends it.
RefuseCursor(r) ==
  /\ pc[r] = "page"
  /\ RepeatedCursor(r)
  /\ Leave(r)
  /\ UNCHANGED shared

\* A fresh entry is decoded.
UseCache(r) ==
  /\ pc[r] = "page"
  /\ ~RepeatedCursor(r)
  /\ \E e \in Latest(cursor[r], at[r]) : Fresh(e, at[r]) /\ Join(r, e)
  /\ UNCHANGED shared

\* A stale or missing entry sends the read to the provider.
MissCache(r) ==
  /\ pc[r] = "page"
  /\ ~RepeatedCursor(r)
  /\ \A e \in Latest(cursor[r], at[r]) : ~Fresh(e, at[r])
  /\ GoTo(r, "fetch")
  /\ UNCHANGED <<shared, at, cursor, seen, response, pages>>

\* The provider answers; the response is dated by its retrieval.
Fetch(r) ==
  /\ pc[r] = "fetch"
  /\ response' = [response EXCEPT ![r] = Response(cursor[r], layout, clock)]
  /\ GoTo(r, "store")
  /\ UNCHANGED <<shared, at, cursor, seen, pages>>

\* Mutated form: a second response under a stored key is stored beside the first.
NoConflict(e) == FALSE

\* The key of an entry is its request and its retrieval time: other content
\* under a stored key is a conflict.
Conflict(e) ==
  \E d \in cache : d.cursor = e.cursor /\ d.fetched = e.fetched /\ d # e

\* Mutated form: a fetched response is used and not stored.
StoreNothing(r) ==
  /\ pc[r] = "store"
  /\ Join(r, response[r])
  /\ UNCHANGED shared

Store(r) ==
  /\ pc[r] = "store"
  /\ \/ ~Conflict(response[r]) /\ cache' = cache \cup {response[r]} /\ Join(r, response[r])
     \/ Conflict(response[r]) /\ UNCHANGED cache /\ Leave(r)
  /\ UNCHANGED <<clock, layout, synced>>

\* The one write of the read; an empty collection is not written.
Sync(r) ==
  /\ pc[r] = "sync"
  /\ \/ FixturesOf(pages[r]) = {} /\ UNCHANGED synced
     \/ FixturesOf(pages[r]) # {} /\ synced' = {[at |-> at[r], pages |-> pages[r]]}
  /\ Leave(r)
  /\ UNCHANGED <<clock, layout, cache>>

\* The provider, the cache, the database or the process fails.
Fail(r) ==
  /\ pc[r] # "idle"
  /\ Leave(r)
  /\ UNCHANGED shared

Tick ==
  /\ clock < MaxTime
  /\ clock' = clock + 1
  /\ UNCHANGED <<layout, cache, pc, at, cursor, seen, response, pages, synced>>

\* The provider moves fixtures between pages, say when a kickoff is changed.
Relayout ==
  /\ layout' \in Layouts \ {layout}
  /\ UNCHANGED <<clock, cache, pc, at, cursor, seen, response, pages, synced>>

Step(r) ==
  \/ RefuseCursor(r) \/ UseCache(r) \/ MissCache(r) \/ Fetch(r) \/ Store(r) \/ Sync(r)

Next ==
  \/ Tick \/ Relayout
  \/ \E r \in Readers : Start(r) \/ Step(r) \/ Fail(r)

Spec == Init /\ [][Next]_vars

\* A read that has begun keeps running: requests have time limits and a bounded
\* number of attempts.
FairSpec == Spec /\ \A r \in Readers : WF_vars(Step(r))

-----------------------------------------------------------------------------
(* Properties.                                                             *)

Labels == {"idle", "page", "fetch", "store", "sync"}

\* Every variable keeps its type; one key never has two responses.
TypeOK ==
  /\ clock \in 0 .. MaxTime
  /\ layout \in Layouts
  /\ cache \in SUBSET Responses
  /\ \A d, e \in cache : d.cursor = e.cursor /\ d.fetched = e.fetched => d = e
  /\ pc \in [Readers -> Labels]
  /\ at \in [Readers -> 0 .. MaxTime]
  /\ cursor \in [Readers -> Cursors]
  /\ seen \in [Readers -> SUBSET Cursors]
  /\ response \in [Readers -> Responses \cup {NoResponse}]
  /\ pages \in [Readers -> SUBSET Responses]
  /\ synced \in SUBSET [at : 0 .. MaxTime, pages : SUBSET Responses]

\* Whatever a persisted collection took from the cache had not expired when the
\* read was called, even if it expires while the read waits for other pages.
NothingExpiredIsSynced ==
  \A s \in synced : \A e \in s.pages : s.at < e.fetched + TTL

\* Every page behind a persisted collection is in the cache, so the cache key
\* its rows refer to exists whatever failed or expired in between.
SyncedPagesAreCached == \A s \in synced : s.pages \subseteq cache

\* Each persisted fixture has one page: no collection is built of two pages
\* that disagree about where a fixture is.
OnePagePerFixture ==
  \A s \in synced : \A d, e \in s.pages :
    d # e => Page(d).fixtures \cap Page(e).fixtures = {}

\* A collection whose pages all come from one layout is complete: neither
\* failures, nor retries over a half filled cache, nor other readers lose a page.
SettledReadsAreComplete ==
  \A s \in synced, l \in Layouts :
    (\A e \in s.pages : e.layout = l) => FixturesOf(s.pages) = Listed(l)

\* A read ends, even if the pages it meets lead back to each other.
ReadsEnd == \A r \in Readers : pc[r] # "idle" ~> pc[r] = "idle"
=============================================================================
