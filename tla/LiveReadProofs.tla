---------------------------- MODULE LiveReadProofs ----------------------------
(***************************************************************************)
(* Theorems about LiveRead: for every number of readers, pages, layouts    *)
(* and expiry times, a persisted collection was fresh when its read was    *)
(* called, its pages are cached, it has every fixture on one page, and it  *)
(* is complete whenever its pages come from one layout.                    *)
(***************************************************************************)
EXTENDS LiveRead, TLAPS

-----------------------------------------------------------------------------
(* The inductive invariant.                                                *)

\* What a collection P of a read called at t keeps while it grows.
Collected(t, P) ==
  /\ P \subseteq cache
  /\ \A e \in P : t < e.fetched + TTL
  /\ \A d, e \in P : d # e => Page(d).fixtures \cap Page(e).fixtures = {}

CursorsOf(P) == {e.cursor : e \in P}

\* In layout l the first page leads to all cursors in S.
LeadsTo(l, S) ==
  \A C \in SUBSET Cursors : ClosedUnder(l, C) => S \subseteq C

\* The next cursors of P stay in S, or end the list.
FollowedIn(P, S) == \A e \in P : Page(e).next \in S

OneLayout(P, l) == \A e \in P : e.layout = l

\* A collection that has been followed from the first page to the last.
Whole(P) ==
  /\ First \in CursorsOf(P)
  /\ FollowedIn(P, CursorsOf(P) \cup {End})
  /\ \A l \in Layouts : OneLayout(P, l) => LeadsTo(l, CursorsOf(P))

\* A collection that is followed up to the page c.
FollowedTo(P, c) ==
  /\ First \in CursorsOf(P) \cup {c}
  /\ FollowedIn(P, CursorsOf(P) \cup {c})
  /\ \A l \in Layouts : OneLayout(P, l) => LeadsTo(l, CursorsOf(P) \cup {c})

ReaderInv(r) ==
  /\ at[r] <= clock
  /\ seen[r] = CursorsOf(pages[r])
  /\ Collected(at[r], pages[r])
  /\ pc[r] = "idle" => cursor[r] = First /\ pages[r] = {}
  /\ pc[r] # "sync" => FollowedTo(pages[r], cursor[r])
  /\ pc[r] = "sync" => Whole(pages[r])
  /\ pc[r] = "store" =>
       /\ response[r] \in Responses
       /\ response[r].cursor = cursor[r]
       /\ at[r] <= response[r].fetched

SyncedInv == \A s \in synced : Collected(s.at, s.pages) /\ Whole(s.pages)

ReadInv == TypeOK /\ SyncedInv /\ \A r \in Readers : ReaderInv(r)

-----------------------------------------------------------------------------
(* Collections.                                                            *)

LEMMA ResponseFields ==
  ASSUME NEW e \in Responses
  PROVE  /\ e.cursor \in Cursors /\ e.layout \in Layouts /\ e.fetched \in Nat
         /\ Page(e).fixtures \subseteq Fixtures
         /\ Page(e).next \in Cursors \cup {End}
BY ReadInputs DEF Responses, Page

\* The empty collection is followed to the first page.
LEMMA NothingFollowed == FollowedTo({}, First)
BY DEF FollowedTo, FollowedIn, LeadsTo, ClosedUnder, CursorsOf

\* With page e a collection followed to e is followed to the page after e.
LEMMA FollowOn ==
  ASSUME NEW P \in SUBSET Responses, NEW e \in Responses,
         FollowedTo(P, e.cursor), Page(e).next # End
  PROVE  FollowedTo(P \cup {e}, Page(e).next)
<1> DEFINE Q == P \cup {e}
<1>1. CursorsOf(Q) = CursorsOf(P) \cup {e.cursor}
  BY DEF CursorsOf
<1>2. FollowedIn(Q, CursorsOf(Q) \cup {Page(e).next})
  BY <1>1 DEF FollowedTo, FollowedIn
<1>3. ASSUME NEW l \in Layouts, OneLayout(Q, l)
      PROVE  LeadsTo(l, CursorsOf(Q) \cup {Page(e).next})
  <2>1. SUFFICES ASSUME NEW C \in SUBSET Cursors, ClosedUnder(l, C)
                 PROVE  CursorsOf(Q) \subseteq C /\ Page(e).next \in C
    BY DEF LeadsTo
  <2>2. OneLayout(P, l) /\ e.layout = l
    BY <1>3 DEF OneLayout
  <2>3. CursorsOf(Q) \subseteq C
    BY <1>1, <2>1, <2>2 DEF FollowedTo, LeadsTo
  <2>4. e.cursor \in C
    BY <1>1, <2>3
  <2>5. Page(e).next \in C \cup {End}
    BY <2>1, <2>2, <2>4 DEF ClosedUnder, Page
  <2>6. QED
    BY <2>3, <2>5
<1>4. QED
  BY <1>1, <1>2, <1>3 DEF FollowedTo

\* With its last page e a collection followed to e is whole.
LEMMA FollowToEnd ==
  ASSUME NEW P \in SUBSET Responses, NEW e \in Responses,
         FollowedTo(P, e.cursor), Page(e).next = End
  PROVE  Whole(P \cup {e})
<1> DEFINE Q == P \cup {e}
<1>1. CursorsOf(Q) = CursorsOf(P) \cup {e.cursor}
  BY DEF CursorsOf
<1>2. FollowedIn(Q, CursorsOf(Q) \cup {End})
  BY <1>1 DEF FollowedTo, FollowedIn
<1>3. \A l \in Layouts : OneLayout(Q, l) => LeadsTo(l, CursorsOf(Q))
  BY <1>1 DEF FollowedTo, OneLayout
<1>4. QED
  BY <1>1, <1>2, <1>3 DEF Whole, FollowedTo

\* The pages of one layout that make a whole collection list what it lists.
LEMMA WholeIsComplete ==
  ASSUME NEW P \in SUBSET Responses, Whole(P),
         NEW l \in Layouts, OneLayout(P, l)
  PROVE  FixturesOf(P) = Listed(l)
<1> DEFINE S == CursorsOf(P)
<1>1. S \in SUBSET Cursors
  BY ResponseFields DEF CursorsOf
<1>2. ClosedUnder(l, S)
  <2>1. \A c \in S : l[c].next \in S \cup {End}
    BY DEF Whole, FollowedIn, OneLayout, CursorsOf, Page
  <2>2. QED
    BY <2>1 DEF ClosedUnder, Whole
<1>3. UNION {l[c].fixtures : c \in S} = FixturesOf(P)
  <2>1. \A e \in P : Page(e).fixtures = l[e.cursor].fixtures
    BY DEF OneLayout, Page
  <2>2. QED
    BY <2>1 DEF CursorsOf, FixturesOf
<1>4. ASSUME NEW f \in Listed(l)
      PROVE  f \in FixturesOf(P)
  <2>1. f \in UNION {l[c].fixtures : c \in S}
    BY <1>1, <1>2 DEF Listed
  <2>2. QED
    BY <1>3, <2>1
<1>5. ASSUME NEW f \in FixturesOf(P)
      PROVE  f \in Listed(l)
  <2>1. PICK e \in P : f \in Page(e).fixtures
    BY DEF FixturesOf
  <2>2. e.cursor \in S /\ f \in l[e.cursor].fixtures /\ f \in Fixtures
    BY <2>1, ResponseFields DEF CursorsOf, OneLayout, Page
  <2>3. ASSUME NEW C \in SUBSET Cursors, ClosedUnder(l, C)
        PROVE  f \in UNION {l[c].fixtures : c \in C}
    <3>1. e.cursor \in C
      BY <2>2, <2>3 DEF Whole, LeadsTo
    <3>2. QED
      BY <2>2, <3>1
  <2>4. QED
    BY <2>2, <2>3 DEF Listed
<1>6. QED
  BY <1>4, <1>5

-----------------------------------------------------------------------------
(* What a step does to the reader that takes it, and to the others.        *)

LocalTypes ==
  /\ pc \in [Readers -> Labels]
  /\ at \in [Readers -> 0 .. MaxTime]
  /\ cursor \in [Readers -> Cursors]
  /\ seen \in [Readers -> SUBSET Cursors]
  /\ response \in [Readers -> Responses \cup {NoResponse}]
  /\ pages \in [Readers -> SUBSET Responses]

SharedTypes ==
  /\ clock \in 0 .. MaxTime
  /\ layout \in Layouts
  /\ cache \in SUBSET Responses
  /\ \A d, e \in cache : d.cursor = e.cursor /\ d.fetched = e.fetched => d = e
  /\ synced \in SUBSET [at : 0 .. MaxTime, pages : SUBSET Responses]

\* The locals of reader q are left alone.
Untouched(q) ==
  /\ pc'[q] = pc[q] /\ at'[q] = at[q] /\ cursor'[q] = cursor[q]
  /\ seen'[q] = seen[q] /\ response'[q] = response[q] /\ pages'[q] = pages[q]

\* No entry leaves the cache and time does not go back.
Grows == cache \subseteq cache' /\ clock <= clock'

\* What other readers store only adds to what a reader relies on.
LEMMA UntouchedReader ==
  ASSUME TypeOK, Grows, clock' \in Nat,
         NEW q \in Readers, ReaderInv(q), Untouched(q)
  PROVE  ReaderInv(q)'
<1>1. at[q] \in Nat /\ clock \in Nat
  BY DEF TypeOK
<1>2. at'[q] <= clock'
  BY <1>1 DEF ReaderInv, Untouched, Grows
<1>3. Collected(at[q], pages[q])'
  BY DEF ReaderInv, Untouched, Grows, Collected
<1>4. QED
  BY <1>2, <1>3 DEF ReaderInv, Untouched

LEMMA SyncedKept ==
  ASSUME SyncedInv, Grows, UNCHANGED synced
  PROVE  SyncedInv'
BY DEF SyncedInv, Grows, Collected

\* A step of reader r that keeps its own invariant and the shared state keeps
\* the whole invariant.
LEMMA ReaderStep ==
  ASSUME ReadInv, NEW r \in Readers, Grows, SharedTypes', LocalTypes',
         \A q \in Readers \ {r} : Untouched(q),
         ReaderInv(r)', SyncedInv'
  PROVE  ReadInv'
<1>1. ASSUME NEW q \in Readers
      PROVE  ReaderInv(q)'
  <2>1. CASE q = r
    BY <2>1
  <2>2. CASE q # r
    <3>1. clock' \in Nat
      BY DEF SharedTypes
    <3>2. QED
      BY <2>2, <3>1, UntouchedReader DEF ReadInv
  <2>3. QED
    BY <2>1, <2>2
<1>2. TypeOK'
  BY DEF SharedTypes, LocalTypes, TypeOK
<1>3. QED
  BY <1>1, <1>2 DEF ReadInv

LEMMA LeaveKeeps ==
  ASSUME TypeOK, NEW r \in Readers, Leave(r), clock' \in Nat
  PROVE  /\ LocalTypes' /\ ReaderInv(r)'
         /\ \A q \in Readers \ {r} : Untouched(q)
<1>1. LocalTypes'
  BY ReadInputs DEF TypeOK, Leave, GoTo, LocalTypes, Labels
<1>2. \A q \in Readers \ {r} : Untouched(q)
  BY DEF TypeOK, Leave, GoTo, Untouched
<1>3. /\ pc'[r] = "idle" /\ at'[r] = 0 /\ cursor'[r] = First
      /\ seen'[r] = {} /\ pages'[r] = {}
  BY DEF TypeOK, Leave, GoTo
<1>4. ReaderInv(r)'
  BY <1>3, NothingFollowed DEF ReaderInv, Collected, CursorsOf
<1>5. QED
  BY <1>1, <1>2, <1>4

\* A page that joins keeps the collection fresh, cached and disjoint, and
\* follows it one page further or to its end.
LEMMA JoinKeeps ==
  ASSUME TypeOK, NEW r \in Readers, ReaderInv(r), pc[r] # "sync",
         Grows, clock' \in Nat,
         NEW e \in Responses, e.cursor = cursor[r], e \in cache',
         at[r] < e.fetched + TTL, Join(r, e)
  PROVE  /\ LocalTypes' /\ ReaderInv(r)'
         /\ \A q \in Readers \ {r} : Untouched(q)
<1>1. CASE Repeats(r, e)
  <2>1. Leave(r)
    BY <1>1 DEF Join
  <2>2. QED
    BY <2>1, LeaveKeeps
<1>2. CASE ~Repeats(r, e)
  <2> DEFINE Q == pages[r] \cup {e}
  <2>1. /\ pages' = [pages EXCEPT ![r] = Q]
        /\ seen' = [seen EXCEPT ![r] = @ \cup {e.cursor}]
        /\ response' = [response EXCEPT ![r] = NoResponse]
        /\ UNCHANGED at
    BY <1>2 DEF Join
  <2>2. \/ /\ Page(e).next = End
           /\ pc' = [pc EXCEPT ![r] = "sync"] /\ UNCHANGED cursor
        \/ /\ Page(e).next # End
           /\ pc' = [pc EXCEPT ![r] = "page"]
           /\ cursor' = [cursor EXCEPT ![r] = Page(e).next]
    BY <1>2 DEF Join, GoTo
  <2>3. pages[r] \in SUBSET Responses /\ e.cursor \in Cursors
        /\ Page(e).next \in Cursors \cup {End}
    BY ResponseFields DEF TypeOK
  <2>4. LocalTypes'
    BY <2>1, <2>2, <2>3 DEF TypeOK, LocalTypes, Labels
  <2>5. \A q \in Readers \ {r} : Untouched(q)
    BY <2>1, <2>2 DEF TypeOK, Untouched
  <2>6. /\ pages'[r] = Q /\ seen'[r] = seen[r] \cup {e.cursor} /\ at'[r] = at[r]
        /\ pc'[r] = IF Page(e).next = End THEN "sync" ELSE "page"
        /\ Page(e).next # End => cursor'[r] = Page(e).next
    BY <2>1, <2>2 DEF TypeOK
  <2>7. at'[r] <= clock'
    BY <2>6 DEF TypeOK, ReaderInv, Grows
  <2>8. seen'[r] = CursorsOf(pages'[r])
    BY <2>6 DEF ReaderInv, CursorsOf
  <2>9. Collected(at[r], pages[r])'
    <3>1. Q \subseteq cache'
      BY DEF ReaderInv, Collected, Grows
    <3>2. \A d \in Q : at[r] < d.fetched + TTL
      BY DEF ReaderInv, Collected
    <3>3. \A d \in pages[r] : Page(d).fixtures \cap Page(e).fixtures = {}
      BY <1>2 DEF Repeats, FixturesOf
    <3>4. \A c, d \in Q : c # d => Page(c).fixtures \cap Page(d).fixtures = {}
      BY <3>3 DEF ReaderInv, Collected
    <3>5. QED
      BY <2>6, <3>1, <3>2, <3>4 DEF Collected
  <2>10. FollowedTo(pages[r], e.cursor)
    BY DEF ReaderInv
  <2>11. pc'[r] # "sync" => FollowedTo(pages'[r], cursor'[r])
    BY <2>3, <2>6, <2>10, FollowOn
  <2>12. pc'[r] = "sync" => Whole(pages'[r])
    BY <2>3, <2>6, <2>10, FollowToEnd
  <2>13. pc'[r] \notin {"idle", "store"}
    BY <2>6
  <2>14. ReaderInv(r)'
    BY <2>7, <2>8, <2>9, <2>11, <2>12, <2>13 DEF ReaderInv
  <2>15. QED
    BY <2>4, <2>5, <2>14
<1>3. QED
  BY <1>1, <1>2

-----------------------------------------------------------------------------
(* The steps.                                                              *)

LEMMA ReadInvInit == Init => ReadInv
<1> SUFFICES ASSUME Init PROVE ReadInv
  OBVIOUS
<1>1. TypeOK
  BY ReadInputs DEF Init, TypeOK, Labels
<1>2. SyncedInv
  BY DEF Init, SyncedInv
<1>3. ASSUME NEW r \in Readers
      PROVE  ReaderInv(r)
  BY NothingFollowed DEF Init, ReaderInv, Collected, CursorsOf
<1>4. QED
  BY <1>1, <1>2, <1>3 DEF ReadInv

\* A step that changes the clock or the layout only.
LEMMA SharedStep ==
  ASSUME ReadInv, SharedTypes', Grows, UNCHANGED synced,
         UNCHANGED <<pc, at, cursor, seen, response, pages>>
  PROVE  ReadInv'
<1>1. \A q \in Readers : Untouched(q)
  BY DEF Untouched
<1>2. \A q \in Readers : ReaderInv(q)'
  <2>1. clock' \in Nat
    BY DEF SharedTypes
  <2>2. QED
    BY <1>1, <2>1, UntouchedReader DEF ReadInv
<1>3. SyncedInv'
  BY SyncedKept DEF ReadInv
<1>4. TypeOK'
  BY DEF ReadInv, TypeOK, SharedTypes
<1>5. QED
  BY <1>2, <1>3, <1>4 DEF ReadInv

LEMMA TickStep ==
  ASSUME ReadInv, Tick
  PROVE  ReadInv'
<1>1. SharedTypes' /\ Grows /\ UNCHANGED synced
  BY ReadInputs DEF ReadInv, TypeOK, SharedTypes, Grows, Tick
<1>2. QED
  BY <1>1, SharedStep DEF Tick

LEMMA RelayoutStep ==
  ASSUME ReadInv, Relayout
  PROVE  ReadInv'
<1>1. SharedTypes' /\ Grows /\ UNCHANGED synced
  BY DEF ReadInv, TypeOK, SharedTypes, Grows, Relayout
<1>2. QED
  BY <1>1, SharedStep DEF Relayout

\* A step that leaves the shared state alone keeps it typed.
LEMMA SharedUnchanged ==
  ASSUME ReadInv, UNCHANGED shared
  PROVE  SharedTypes' /\ Grows /\ SyncedInv' /\ clock' \in Nat
<1>1. SharedTypes' /\ Grows /\ UNCHANGED synced /\ clock' \in Nat
  BY DEF ReadInv, TypeOK, SharedTypes, Grows, shared
<1>2. QED
  BY <1>1, SyncedKept DEF ReadInv

LEMMA StartStep ==
  ASSUME ReadInv, NEW r \in Readers, Start(r)
  PROVE  ReadInv'
<1>1. SharedTypes' /\ Grows /\ SyncedInv'
  BY SharedUnchanged DEF Start
<1>2. LocalTypes'
  BY DEF ReadInv, TypeOK, Start, GoTo, LocalTypes, Labels
<1>3. \A q \in Readers \ {r} : Untouched(q)
  BY DEF ReadInv, TypeOK, Start, GoTo, Untouched
<1>4. /\ pc[r] = "idle" /\ pc'[r] = "page" /\ at'[r] = clock /\ clock' = clock
      /\ cursor'[r] = cursor[r] /\ seen'[r] = seen[r] /\ pages'[r] = pages[r]
  BY DEF ReadInv, TypeOK, Start, GoTo, shared
<1>5. ReaderInv(r)'
  <2>1. ReaderInv(r) /\ clock \in Nat
    BY DEF ReadInv, TypeOK
  <2>2. pages'[r] = {} /\ cursor'[r] = First
    BY <1>4, <2>1 DEF ReaderInv
  <2>3. seen'[r] = CursorsOf(pages'[r]) /\ Collected(at[r], pages[r])'
    BY <1>4, <2>1, <2>2 DEF ReaderInv, Collected
  <2>4. QED
    BY <1>4, <2>1, <2>2, <2>3, NothingFollowed DEF ReaderInv
<1>6. QED
  BY <1>1, <1>2, <1>3, <1>5, ReaderStep

\* A read that ends leaves the shared state alone.
LEMMA LeaveStep ==
  ASSUME ReadInv, NEW r \in Readers, Leave(r), UNCHANGED shared
  PROVE  ReadInv'
<1>1. SharedTypes' /\ Grows /\ SyncedInv' /\ clock' \in Nat
  BY SharedUnchanged
<1>2. QED
  BY <1>1, LeaveKeeps, ReaderStep DEF ReadInv

LEMMA UseCacheStep ==
  ASSUME ReadInv, NEW r \in Readers, UseCache(r)
  PROVE  ReadInv'
<1>1. SharedTypes' /\ Grows /\ SyncedInv' /\ clock' \in Nat
  BY SharedUnchanged DEF UseCache
<1>2. PICK e \in Latest(cursor[r], at[r]) : Fresh(e, at[r]) /\ Join(r, e)
  BY DEF UseCache
<1>3. e \in cache /\ e.cursor = cursor[r] /\ at[r] < e.fetched + TTL
  BY <1>2 DEF Latest, Fresh
<1>4. e \in Responses /\ e \in cache'
  BY <1>1, <1>3 DEF ReadInv, TypeOK, Grows
<1>5. TypeOK /\ ReaderInv(r) /\ pc[r] # "sync"
  BY DEF ReadInv, UseCache
<1>6. QED
  BY <1>1, <1>2, <1>3, <1>4, <1>5, JoinKeeps, ReaderStep

LEMMA MissCacheStep ==
  ASSUME ReadInv, NEW r \in Readers, MissCache(r)
  PROVE  ReadInv'
<1>1. SharedTypes' /\ Grows /\ SyncedInv'
  BY SharedUnchanged DEF MissCache
<1>2. LocalTypes' /\ \A q \in Readers \ {r} : Untouched(q)
  BY DEF ReadInv, TypeOK, MissCache, GoTo, LocalTypes, Labels, Untouched
<1>3. pc[r] = "page" /\ pc'[r] = "fetch"
  BY DEF ReadInv, TypeOK, MissCache, GoTo
<1>4. ReaderInv(r)'
  BY <1>3 DEF ReadInv, MissCache, shared, ReaderInv, Collected
<1>5. QED
  BY <1>1, <1>2, <1>4, ReaderStep

LEMMA FetchStep ==
  ASSUME ReadInv, NEW r \in Readers, Fetch(r)
  PROVE  ReadInv'
<1> DEFINE e == Response(cursor[r], layout, clock)
<1>1. SharedTypes' /\ Grows /\ SyncedInv'
  BY SharedUnchanged DEF Fetch
<1>2. e \in Responses /\ e.cursor = cursor[r] /\ e.fetched = clock
  BY DEF ReadInv, TypeOK, Response, Responses
<1>3. /\ pc[r] = "fetch" /\ pc' = [pc EXCEPT ![r] = "store"]
      /\ response' = [response EXCEPT ![r] = e]
      /\ UNCHANGED <<shared, at, cursor, seen, pages>>
  BY DEF Fetch, GoTo
<1> HIDE DEF e
<1>4. LocalTypes' /\ \A q \in Readers \ {r} : Untouched(q)
  BY <1>2, <1>3 DEF ReadInv, TypeOK, LocalTypes, Labels, Untouched
<1>5. pc'[r] = "store" /\ response'[r] = e
  BY <1>3 DEF ReadInv, TypeOK
<1>6. ReaderInv(r)'
  BY <1>2, <1>3, <1>5 DEF ReadInv, shared, ReaderInv, Collected
<1>7. QED
  BY <1>1, <1>4, <1>6, ReaderStep

LEMMA StoreStep ==
  ASSUME ReadInv, NEW r \in Readers, Store(r)
  PROVE  ReadInv'
<1>1. CASE Conflict(response[r])
  BY <1>1, LeaveStep DEF Store, shared
<1>2. CASE ~Conflict(response[r])
  <2>1. /\ cache' = cache \cup {response[r]} /\ Join(r, response[r])
        /\ UNCHANGED <<clock, layout, synced>> /\ pc[r] = "store"
    BY <1>2 DEF Store
  <2>2. /\ response[r] \in Responses /\ response[r].cursor = cursor[r]
        /\ at[r] <= response[r].fetched
    BY <2>1 DEF ReadInv, ReaderInv
  <2>3. at[r] < response[r].fetched + TTL
    <3>1. at[r] \in Nat /\ response[r].fetched \in Nat /\ TTL \in Nat \ {0}
      BY <2>2, ReadInputs, ResponseFields DEF ReadInv, TypeOK
    <3>2. QED
      BY <2>2, <3>1
  <2>4. SharedTypes' /\ Grows /\ clock' \in Nat
    BY <1>2, <2>1, <2>2 DEF ReadInv, TypeOK, SharedTypes, Grows, Conflict
  <2>5. SyncedInv'
    BY <2>1, <2>4, SyncedKept DEF ReadInv
  <2>6. response[r] \in cache'
    BY <2>1
  <2>7. TypeOK /\ ReaderInv(r) /\ pc[r] # "sync"
    BY <2>1 DEF ReadInv
  <2>8. QED
    BY <2>1, <2>2, <2>3, <2>4, <2>5, <2>6, <2>7, JoinKeeps, ReaderStep
<1>3. QED
  BY <1>1, <1>2

LEMMA SyncStep ==
  ASSUME ReadInv, NEW r \in Readers, Sync(r)
  PROVE  ReadInv'
<1>1. Leave(r) /\ UNCHANGED <<clock, layout, cache>> /\ pc[r] = "sync"
  BY DEF Sync
<1>2. CASE UNCHANGED synced
  BY <1>1, <1>2, LeaveStep DEF shared
<1>3. CASE synced' = {[at |-> at[r], pages |-> pages[r]]}
  <2>1. at[r] \in 0 .. MaxTime /\ pages[r] \in SUBSET Responses
    BY DEF ReadInv, TypeOK
  <2>2. SharedTypes' /\ Grows /\ clock' \in Nat
    BY <1>1, <1>3, <2>1 DEF ReadInv, TypeOK, SharedTypes, Grows
  <2>3. Collected(at[r], pages[r]) /\ Whole(pages[r])
    BY <1>1 DEF ReadInv, ReaderInv
  <2>4. SyncedInv'
    BY <1>1, <1>3, <2>3 DEF SyncedInv, Collected
  <2>5. TypeOK
    BY DEF ReadInv
  <2>6. QED
    BY <1>1, <2>2, <2>4, <2>5, LeaveKeeps, ReaderStep
<1>4. QED
  BY <1>2, <1>3 DEF Sync

LEMMA ReadInvNext ==
  ASSUME ReadInv, [Next]_vars
  PROVE  ReadInv'
<1>1. CASE UNCHANGED vars
  <2>1. SharedTypes' /\ Grows /\ UNCHANGED synced
    BY <1>1 DEF ReadInv, TypeOK, SharedTypes, Grows, vars
  <2>2. QED
    BY <1>1, <2>1, SharedStep DEF vars
<1>2. CASE Tick
  BY <1>2, TickStep
<1>3. CASE Relayout
  BY <1>3, RelayoutStep
<1>4. CASE \E r \in Readers : Start(r) \/ Step(r) \/ Fail(r)
  <2>1. PICK r \in Readers : Start(r) \/ Step(r) \/ Fail(r)
    BY <1>4
  <2>2. CASE Start(r)
    BY <2>2, StartStep
  <2>3. CASE Step(r)
    <3>1. CASE RefuseCursor(r)
      BY <3>1, LeaveStep DEF RefuseCursor
    <3>2. CASE UseCache(r)
      BY <3>2, UseCacheStep
    <3>3. CASE MissCache(r)
      BY <3>3, MissCacheStep
    <3>4. CASE Fetch(r)
      BY <3>4, FetchStep
    <3>5. CASE Store(r)
      BY <3>5, StoreStep
    <3>6. CASE Sync(r)
      BY <3>6, SyncStep
    <3>7. QED
      BY <2>3, <3>1, <3>2, <3>3, <3>4, <3>5, <3>6 DEF Step
  <2>4. CASE Fail(r)
    BY <2>4, LeaveStep DEF Fail
  <2>5. QED
    BY <2>1, <2>2, <2>3, <2>4
<1>5. QED
  BY <1>1, <1>2, <1>3, <1>4 DEF Next

\* The inductive invariant holds of every behaviour.
THEOREM ReadInvHolds == Spec => []ReadInv
<1>1. Init => ReadInv
  BY ReadInvInit
<1>2. ReadInv /\ [Next]_vars => ReadInv'
  BY ReadInvNext
<1>3. QED
  BY <1>1, <1>2, PTL DEF Spec

-----------------------------------------------------------------------------
\* Every variable keeps its type, and no request is stored twice for one moment
\* with different responses, whichever readers race for it.
THEOREM ReadTypeOK == Spec => []TypeOK
<1>1. ReadInv => TypeOK
  BY DEF ReadInv
<1>2. QED
  BY <1>1, ReadInvHolds, PTL

\* A page taken from the cache was fresh when the read was called: the expiry
\* is judged once, at the evaluation time of the read.
THEOREM SyncedPagesWereFresh == Spec => []NothingExpiredIsSynced
<1>1. ReadInv => NothingExpiredIsSynced
  BY DEF ReadInv, SyncedInv, Collected, NothingExpiredIsSynced
<1>2. QED
  BY <1>1, ReadInvHolds, PTL

\* The store of a response precedes its use, so every persisted row can name a
\* cache entry, also when several readers store and fail in any order.
THEOREM SyncedPagesExist == Spec => []SyncedPagesAreCached
<1>1. ReadInv => SyncedPagesAreCached
  BY DEF ReadInv, SyncedInv, Collected, SyncedPagesAreCached
<1>2. QED
  BY <1>1, ReadInvHolds, PTL

\* However the provider moves fixtures between its pages during a read, a
\* persisted collection has no fixture on two pages.
THEOREM FixturesHaveOnePage == Spec => []OnePagePerFixture
<1>1. ReadInv => OnePagePerFixture
  BY DEF ReadInv, SyncedInv, Collected, OnePagePerFixture
<1>2. QED
  BY <1>1, ReadInvHolds, PTL

\* For layouts of any length and shape: a persisted collection whose pages come
\* from one layout, cached or fetched, holds exactly what that layout lists.
THEOREM SettledReadsComplete == Spec => []SettledReadsAreComplete
<1>1. ASSUME ReadInv PROVE SettledReadsAreComplete
  <2>1. SUFFICES ASSUME NEW s \in synced, NEW l \in Layouts, OneLayout(s.pages, l)
                 PROVE  FixturesOf(s.pages) = Listed(l)
    BY DEF SettledReadsAreComplete, OneLayout
  <2>2. s.pages \in SUBSET Responses /\ Whole(s.pages)
    BY <1>1 DEF ReadInv, TypeOK, SyncedInv
  <2>3. QED
    BY <2>1, <2>2, WholeIsComplete
<1>2. QED
  BY <1>1, ReadInvHolds, PTL
=============================================================================
