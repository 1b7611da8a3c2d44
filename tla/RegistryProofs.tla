---------------------------- MODULE RegistryProofs ----------------------------
(***************************************************************************)
(* Proofs about the model registry, for every set of processes and every   *)
(* set of rejection reasons.                                               *)
(***************************************************************************)
EXTENDS ModelRegistry, SequenceTheorems, TLAPS

-----------------------------------------------------------------------------
(* The inductive invariant.                                                *)

Writing == {"exists", "replace"}

\* What the locals of a process say stays true while others add files.
WriterKnows(p) ==
  /\ pc[p] = "idle" => head[p] = <<>> /\ ~wrote[p]
  /\ pc[p] \notin Writing \cup {"idle"} => writing[p] = "events"
  /\ pc[p] \in Writing =>
       /\ call[p] \in Allowed(head[p])
       /\ Past(head[p]) \subseteq files
       /\ writing[p] = "events" => entry
  /\ wrote[p] => call[p] \in Allowed(head[p]) /\ Event(p) \in files

\* A reported history is on disk for good.
ReportsAreFiled == \A r \in reported : r.history \in files

RInv ==
  /\ TypeOK
  /\ EventsKeepTheirPast
  /\ \A p \in Processes : WriterKnows(p)
  /\ ReportsAreFiled
  /\ ReportsAgree
  /\ OwnEventReported

-----------------------------------------------------------------------------
(* Histories.                                                              *)

LEMMA HistoriesAreSequences ==
  ASSUME NEW h \in Histories \cup {<<>>}
  PROVE  h \in Seq(Calls)
<1>1. "register" \in Calls /\ "accept" \in Calls /\ Reasons \subseteq Calls
  BY DEF Calls
<1>2. CASE h = <<>>
  BY <1>2
<1>3. CASE h = <<"register">>
  BY <1>1, <1>3
<1>4. CASE h = <<"register", "accept">>
  BY <1>1, <1>4
<1>5. ASSUME NEW r \in Reasons, h = <<"register", r>>
      PROVE  h \in Seq(Calls)
  BY <1>1, <1>5
<1>6. ASSUME NEW r \in Reasons, h = <<"register", "accept", r>>
      PROVE  h \in Seq(Calls)
  BY <1>1, <1>6
<1> QED
  BY <1>2, <1>3, <1>4, <1>5, <1>6 DEF Histories

\* The provers need to be told how a tuple grows.
LEMMA PairFromOne ==
  ASSUME NEW S, NEW b \in S, NEW a \in S
  PROVE  Append(<<b>>, a) = <<b, a>>
<1> DEFINE s == Append(<<b>>, a)
           t == <<b, a>>
<1>1. <<b>> \in Seq(S) /\ Len(<<b>>) = 1 /\ <<b>>[1] = b
  OBVIOUS
<1>2. s \in Seq(S) /\ Len(s) = 2 /\ s[1] = b /\ s[2] = a
  BY <1>1, AppendProperties
<1>3. t \in Seq(S) /\ Len(t) = 2 /\ t[1] = b /\ t[2] = a
  OBVIOUS
<1> HIDE DEF s, t
<1>4. s = t
  BY <1>2, <1>3, SeqEqual
<1> QED
  BY <1>4 DEF s, t

LEMMA TripleFromPair ==
  ASSUME NEW S, NEW b \in S, NEW c \in S, NEW a \in S
  PROVE  Append(<<b, c>>, a) = <<b, c, a>>
<1> DEFINE s == Append(<<b, c>>, a)
           t == <<b, c, a>>
<1>1. <<b, c>> \in Seq(S) /\ Len(<<b, c>>) = 2 /\ <<b, c>>[1] = b /\ <<b, c>>[2] = c
  OBVIOUS
<1>2. s \in Seq(S) /\ Len(s) = 3 /\ s[1] = b /\ s[2] = c /\ s[3] = a
  BY <1>1, AppendProperties
<1>3. t \in Seq(S) /\ Len(t) = 3 /\ t[1] = b /\ t[2] = c /\ t[3] = a
  OBVIOUS
<1> HIDE DEF s, t
<1>4. s = t
  BY <1>2, <1>3, SeqEqual
<1> QED
  BY <1>4 DEF s, t

LEMMA FirstIsRegistration == Allowed(<<>>) = {"register"} /\ Past(<<>>) = {}
<1>1. <<>> # <<"register">> /\ <<>> # <<"register", "accept">> /\ Len(<<>>) = 0
  OBVIOUS
<1>2. Allowed(<<>>) = {"register"}
  BY <1>1 DEF Allowed
<1>3. Past(<<>>) = {}
  BY <1>1 DEF Past
<1> QED
  BY <1>2, <1>3

\* What may follow a history makes it a longer one.
LEMMA HistoryExtends ==
  ASSUME NEW h \in Histories \cup {<<>>}, NEW a \in Allowed(h)
  PROVE  a \in Calls /\ Append(h, a) \in Histories
<1>1. CASE h = <<>>
  <2>1. a = "register" /\ Append(h, a) = <<"register">>
    BY <1>1, FirstIsRegistration
  <2> QED
    BY <2>1 DEF Histories, Calls
<1>2. CASE h = <<"register">>
  <2>1. h # <<>> /\ h # <<"register", "accept">>
    BY <1>2
  <2>2. a \in {"accept"} \cup Reasons
    BY <1>2, <2>1 DEF Allowed
  <2>3. Append(<<"register">>, a) = <<"register", a>>
    <3>1. "register" \in Calls /\ "accept" \in Calls /\ a \in Calls
      BY <2>2 DEF Calls
    <3> QED
      BY <3>1, PairFromOne
  <2>4. Append(h, a) = <<"register", a>>
    BY <2>3, <1>2
  <2> QED
    BY <2>2, <2>4 DEF Histories, Calls
<1>3. CASE h = <<"register", "accept">>
  <2>1. h # <<>> /\ h # <<"register">>
    BY <1>3
  <2>2. a \in Reasons
    BY <1>3, <2>1 DEF Allowed
  <2>3. Append(<<"register", "accept">>, a) = <<"register", "accept", a>>
    <3>1. "register" \in Calls /\ "accept" \in Calls /\ a \in Calls
      BY <2>2 DEF Calls
    <3> QED
      BY <3>1, TripleFromPair
  <2>4. Append(h, a) = <<"register", "accept", a>>
    BY <2>3, <1>3
  <2> QED
    BY <2>2, <2>4 DEF Histories, Calls
<1>4. ASSUME NEW r \in Reasons, h = <<"register", r>>
      PROVE  FALSE
  <2>1. h # <<>> /\ h # <<"register">> /\ h # <<"register", "accept">>
    BY <1>4, RegistryInputs
  <2> QED
    BY <2>1 DEF Allowed
<1>5. ASSUME NEW r \in Reasons, h = <<"register", "accept", r>>
      PROVE  FALSE
  <2>1. h # <<>> /\ h # <<"register">> /\ h # <<"register", "accept">>
    BY <1>5
  <2> QED
    BY <2>1 DEF Allowed
<1> QED
  BY <1>1, <1>2, <1>3, <1>4, <1>5 DEF Histories

LEMMA PastOfAppend ==
  ASSUME NEW h \in Seq(Calls), NEW a \in Calls
  PROVE  Past(Append(h, a)) = Past(h) \cup {Append(h, a)}
<1> DEFINE g == Append(h, a)
<1>1. g \in Seq(Calls) /\ Len(g) = Len(h) + 1 /\ Len(h) \in Nat
  OBVIOUS
<1>2. SubSeq(g, 1, Len(g)) = g
  BY <1>1, SubSeqFull
<1>3. ASSUME NEW n \in 1 .. Len(h)
      PROVE  SubSeq(g, 1, n) = SubSeq(h, 1, n)
  BY <1>1, <1>3
<1>4. 1 .. Len(g) = (1 .. Len(h)) \cup {Len(g)}
  BY <1>1
<1> QED
  BY <1>2, <1>3, <1>4 DEF Past

LEMMA PastEndsInItself ==
  ASSUME NEW h \in Histories
  PROVE  h \in Past(h)
<1>1. h \in Seq(Calls) /\ h # <<>>
  BY HistoriesAreSequences DEF Histories
<1>2. SubSeq(h, 1, Len(h)) = h /\ Len(h) \in 1 .. Len(h)
  BY <1>1, SubSeqFull
<1> QED
  BY <1>2 DEF Past

-----------------------------------------------------------------------------
(* The invariant is inductive.                                             *)

LEMMA RInvInit == Init => RInv
<1> SUFFICES ASSUME Init
             PROVE  RInv
  OBVIOUS
<1>1. TypeOK
  BY DEF Init, TypeOK, Directories, Calls
<1>2. EventsKeepTheirPast /\ ReportsAreFiled /\ ReportsAgree /\ OwnEventReported
  BY DEF Init, EventsKeepTheirPast, ReportsAreFiled, ReportsAgree, OwnEventReported
<1>3. ASSUME NEW p \in Processes
      PROVE  WriterKnows(p)
  BY DEF Init, WriterKnows, Writing
<1> QED
  BY <1>1, <1>2, <1>3 DEF RInv

\* A call that loads a history and returns it reports the truth.
LEMMA ReturnReportsTruth ==
  ASSUME RInv, NEW p \in Processes, Loadable, Return(p, History), UNCHANGED store
  PROVE  /\ reported' \in SUBSET [event : Histories \cup {<<>>}, history : Histories]
         /\ ReportsAreFiled' /\ ReportsAgree' /\ OwnEventReported'
<1> DEFINE h == History
           e == IF wrote[p] THEN Event(p) ELSE <<>>
<1>1. h \in files /\ files = Past(h) /\ h \in Histories
  BY DEF Loadable, History, IsHistory, RInv, TypeOK
<1>2. wrote[p] => e \in files
  BY DEF RInv, WriterKnows
<1>3. e \in Histories \cup {<<>>}
  BY <1>2 DEF RInv, TypeOK
<1>4. reported' = reported \cup {[event |-> e, history |-> h]} /\ files' = files
  BY DEF Return, store
<1> HIDE DEF h, e
<1>5. reported' \in SUBSET [event : Histories \cup {<<>>}, history : Histories]
  <2>1. [event |-> e, history |-> h] \in [event : Histories \cup {<<>>}, history : Histories]
    BY <1>1, <1>3
  <2>2. reported \in SUBSET [event : Histories \cup {<<>>}, history : Histories]
    BY DEF RInv, TypeOK
  <2> QED
    BY <1>4, <2>1, <2>2
<1>6. ReportsAreFiled'
  BY <1>1, <1>4 DEF RInv, ReportsAreFiled
<1>7. ReportsAgree'
  <2> SUFFICES ASSUME NEW r \in reported', NEW s \in reported'
               PROVE  r.history \in Past(s.history) \/ s.history \in Past(r.history)
    BY DEF ReportsAgree
  <2>1. CASE r \in reported /\ s \in reported
    BY <2>1 DEF RInv, ReportsAgree
  <2>2. CASE s.history = h
    BY <2>2, <1>1, <1>4, <1>6 DEF ReportsAreFiled
  <2>3. CASE r.history = h
    BY <2>3, <1>1, <1>4, <1>6 DEF ReportsAreFiled
  <2> QED
    BY <1>4, <2>1, <2>2, <2>3
<1>8. OwnEventReported'
  <2>1. e # <<>> => e \in Past(h)
    BY <1>1, <1>2 DEF e
  <2> QED
    BY <2>1, <1>4 DEF RInv, OwnEventReported
<1> QED
  BY <1>5, <1>6, <1>7, <1>8

\* Steps that leave the files and the reports alone need only keep the types
\* and what their process knows.
LEMMA QuietStep ==
  ASSUME RInv, NEW p \in Processes,
         UNCHANGED <<entry, files, reported>>,
         TypeOK', WriterKnows(p)',
         \A q \in Processes \ {p} :
           /\ pc'[q] = pc[q] /\ call'[q] = call[q] /\ writing'[q] = writing[q]
           /\ wrote'[q] = wrote[q] /\ head'[q] = head[q]
  PROVE  RInv'
<1>1. ASSUME NEW q \in Processes \ {p}
      PROVE  WriterKnows(q)'
  BY <1>1 DEF RInv, WriterKnows, Event
<1>2. EventsKeepTheirPast' /\ ReportsAreFiled' /\ ReportsAgree' /\ OwnEventReported'
  BY DEF RInv, EventsKeepTheirPast, ReportsAreFiled, ReportsAgree, OwnEventReported
<1> QED
  BY <1>1, <1>2 DEF RInv

\* A call that ends leaves nothing behind in its locals.
LEMMA LeaveForgets ==
  ASSUME TypeOK, NEW p \in Processes, Leave(p)
  PROVE  /\ WriterKnows(p)'
         /\ pc' \in [Processes ->
              {"idle", "exists", "replace", "load entry", "load directory", "load events"}]
         /\ call' \in [Processes -> Calls]
         /\ writing' \in [Processes -> Directories]
         /\ wrote' \in [Processes -> BOOLEAN]
         /\ head' \in [Processes -> Histories \cup {<<>>}]
         /\ \A q \in Processes \ {p} :
              /\ pc'[q] = pc[q] /\ call'[q] = call[q] /\ writing'[q] = writing[q]
              /\ wrote'[q] = wrote[q] /\ head'[q] = head[q]
  BY DEF TypeOK, Leave, GoTo, WriterKnows, Writing, Calls, Directories

LEMMA RaiseKeepsRInv ==
  ASSUME RInv, NEW p \in Processes, Raise(p), UNCHANGED store,
         temps' \in [Processes -> Directories \cup {"none"}],
         litter' \in SUBSET Directories
  PROVE  RInv'
<1>1. TypeOK
  BY DEF RInv
<1>2. WriterKnows(p)' /\ TypeOK'
  BY <1>1, LeaveForgets DEF Raise, store, TypeOK
<1> QED
  BY <1>1, <1>2, LeaveForgets, QuietStep DEF Raise, store

LEMMA StartKeepsRInv ==
  ASSUME RInv, NEW p \in Processes, NEW c \in Calls, Start(p, c)
  PROVE  RInv'
<1>1. TypeOK'
  BY DEF RInv, TypeOK, Start, GoTo, store, Directories
<1>2. WriterKnows(p)'
  BY FirstIsRegistration DEF RInv, TypeOK, WriterKnows, Writing, Start, GoTo, store
<1> QED
  BY <1>1, <1>2, QuietStep DEF RInv, TypeOK, Start, GoTo, store

\* After a file of p is in place, p goes on.
LEMMA WrittenKeepsRInv ==
  ASSUME RInv, NEW p \in Processes, pc[p] \in Writing, Written(p),
         temps' \in [Processes -> Directories \cup {"none"}],
         UNCHANGED litter,
         entry' = (entry \/ writing[p] = "entry"),
         files' = files \cup (IF writing[p] = "events" THEN {Event(p)} ELSE {})
  PROVE  RInv'
<1> USE DEF RInv
<1>1. call[p] \in Allowed(head[p]) /\ head[p] \in Histories \cup {<<>>}
  BY DEF WriterKnows, TypeOK
<1>2. Event(p) \in Histories /\ Past(Event(p)) = Past(head[p]) \cup {Event(p)}
  BY <1>1, HistoryExtends, HistoriesAreSequences, PastOfAppend DEF Event
<1>3. call' = call /\ head' = head /\ reported' = reported /\ Event(p)' = Event(p)
  BY DEF Written, Event
<1>4. TypeOK'
  <2>1. pc' \in [Processes ->
          {"idle", "exists", "replace", "load entry", "load directory", "load events"}]
    BY DEF TypeOK, Written, GoTo
  <2>2. writing' \in [Processes -> Directories] /\ wrote' \in [Processes -> BOOLEAN]
    BY DEF TypeOK, Written, Directories
  <2>3. files' \in SUBSET Histories
    BY <1>2 DEF TypeOK
  <2>4. entry' \in BOOLEAN
    OBVIOUS
  <2>5. /\ litter' \in SUBSET Directories
        /\ temps' \in [Processes -> Directories \cup {"none"}]
        /\ call' \in [Processes -> Calls] /\ head' \in [Processes -> Histories \cup {<<>>}]
        /\ reported' \in SUBSET [event : Histories \cup {<<>>}, history : Histories]
    BY <1>3 DEF TypeOK
  <2> QED
    BY ONLY <2>1, <2>2, <2>3, <2>4, <2>5 DEF TypeOK
<1>5. EventsKeepTheirPast'
  <2>1. files' # {} => entry'
    BY DEF EventsKeepTheirPast, WriterKnows, TypeOK, Directories
  <2>2. writing[p] = "events" => Past(Event(p)) \subseteq files'
    BY <1>2 DEF WriterKnows
  <2>3. ASSUME NEW h \in files'
        PROVE  Past(h) \subseteq files'
    BY <2>2 DEF EventsKeepTheirPast
  <2> QED
    BY <2>1, <2>3 DEF EventsKeepTheirPast
<1>6. WriterKnows(p)'
  <2>1. CASE writing[p] = "entry"
    <3>1. /\ pc'[p] = "exists" /\ writing'[p] = "events" /\ wrote'[p] = wrote[p]
          /\ entry' /\ files' = files
      BY <2>1 DEF Written, GoTo, TypeOK
    <3>2. /\ call[p] \in Allowed(head[p]) /\ Past(head[p]) \subseteq files
          /\ wrote[p] => Event(p) \in files
      BY <1>1 DEF WriterKnows
    <3> QED
      BY <1>3, <3>1, <3>2 DEF WriterKnows, Writing
  <2>2. CASE writing[p] = "events"
    BY <2>2, <1>1, <1>3 DEF Written, GoTo, WriterKnows, TypeOK, Writing
  <2> QED
    BY <2>1, <2>2 DEF TypeOK, Directories
<1>7. ASSUME NEW q \in Processes \ {p}
      PROVE  WriterKnows(q)'
  <2>1. /\ pc'[q] = pc[q] /\ writing'[q] = writing[q] /\ wrote'[q] = wrote[q]
        /\ Event(q)' = Event(q) /\ call'[q] = call[q] /\ head'[q] = head[q]
    BY <1>3 DEF Written, GoTo, TypeOK, Event
  <2> QED
    BY <2>1 DEF WriterKnows
<1>8. ReportsAreFiled' /\ ReportsAgree' /\ OwnEventReported'
  BY <1>3 DEF ReportsAreFiled, ReportsAgree, OwnEventReported
<1> QED
  BY <1>4, <1>5, <1>6, <1>7, <1>8

LEMMA LoadEventsKeepsRInv ==
  ASSUME RInv, NEW p \in Processes, LoadEvents(p)
  PROVE  RInv'
<1>0. TypeOK
  BY DEF RInv
<1>1. CASE Raise(p)
  BY <1>0, <1>1, RaiseKeepsRInv DEF LoadEvents, store, TypeOK
<1>2. CASE Loadable /\ Return(p, History)
  <2>1. /\ reported' \in SUBSET [event : Histories \cup {<<>>}, history : Histories]
        /\ ReportsAreFiled' /\ ReportsAgree' /\ OwnEventReported'
    BY <1>2, ReturnReportsTruth DEF LoadEvents
  <2>2. TypeOK'
    BY <1>0, <1>2, <2>1, LeaveForgets DEF Return, LoadEvents, store, TypeOK
  <2>3. EventsKeepTheirPast'
    BY DEF RInv, EventsKeepTheirPast, LoadEvents, store
  <2>4. ASSUME NEW q \in Processes
        PROVE  WriterKnows(q)'
    <3>1. CASE q = p
      BY <3>1, <1>0, <1>2, LeaveForgets DEF Return
    <3>2. CASE q # p
      <4>1. /\ pc'[q] = pc[q] /\ call'[q] = call[q] /\ writing'[q] = writing[q]
            /\ wrote'[q] = wrote[q] /\ head'[q] = head[q]
        BY <3>2, <1>0, <1>2, LeaveForgets DEF Return
      <4> QED
        BY <4>1 DEF RInv, WriterKnows, Event, LoadEvents, store
    <3> QED
      BY <3>1, <3>2
  <2> QED
    BY <2>1, <2>2, <2>3, <2>4 DEF RInv
<1>3. CASE /\ Loadable /\ call[p] \in Allowed(History) /\ ~wrote[p]
           /\ head' = [head EXCEPT ![p] = History]
           /\ GoTo(p, "exists")
           /\ UNCHANGED <<call, writing, wrote, reported>>
  <2>1. History \in files /\ files = Past(History) /\ History \in Histories
    BY <1>0, <1>3 DEF Loadable, History, IsHistory, TypeOK
  <2>2. TypeOK'
    BY <1>0, <1>3, <2>1 DEF TypeOK, LoadEvents, GoTo, store
  <2>3. WriterKnows(p)'
    BY <1>0, <1>3, <2>1 DEF RInv, WriterKnows, Writing, EventsKeepTheirPast, TypeOK,
       LoadEvents, GoTo, store
  <2> QED
    BY <1>0, <1>3, <2>2, <2>3, QuietStep DEF TypeOK, LoadEvents, GoTo, store
<1> QED
  BY <1>0, <1>1, <1>2, <1>3 DEF LoadEvents, Answered, TypeOK

LEMMA RInvStep == RInv /\ [Next]_vars => RInv'
<1> SUFFICES ASSUME RInv, [Next]_vars
             PROVE  RInv'
  OBVIOUS
<1>0. TypeOK
  BY DEF RInv
<1>1. CASE UNCHANGED vars
  BY <1>1 DEF vars, RInv, TypeOK, EventsKeepTheirPast, WriterKnows, Event,
     ReportsAreFiled, ReportsAgree, OwnEventReported
<1>2. ASSUME NEW p \in Processes, NEW c \in Calls, Start(p, c)
      PROVE  RInv'
  BY <1>2, StartKeepsRInv
<1>3. ASSUME NEW p \in Processes, FindFile(p)
      PROVE  RInv'
  <2>1. pc[p] \in Writing /\ writing[p] \in {"entry", "events"}
    BY <1>0, <1>3 DEF FindFile, Writing, TypeOK, Directories
  <2>2. /\ entry' = (entry \/ writing[p] = "entry")
        /\ files' = files \cup (IF writing[p] = "events" THEN {Event(p)} ELSE {})
    BY <1>0, <1>3, <2>1 DEF FindFile, Present, store, TypeOK
  <2> QED
    BY <1>0, <1>3, <2>1, <2>2, WrittenKeepsRInv DEF FindFile, TypeOK
<1>4. ASSUME NEW p \in Processes, OpenTemporary(p)
      PROVE  RInv'
  <2>1. TypeOK'
    BY <1>0, <1>4 DEF TypeOK, OpenTemporary, GoTo, store, locals
  <2>2. WriterKnows(p)'
    BY <1>0, <1>4 DEF RInv, WriterKnows, Writing, TypeOK, OpenTemporary, GoTo, store,
       locals, Event
  <2> QED
    BY <1>0, <1>4, <2>1, <2>2, QuietStep DEF TypeOK, OpenTemporary, GoTo, store, locals
<1>5. ASSUME NEW p \in Processes, Replace(p)
      PROVE  RInv'
  <2>1. pc[p] \in Writing /\ writing[p] \in {"entry", "events"}
    BY <1>0, <1>5 DEF Replace, Writing, TypeOK, Directories
  <2>2. /\ entry' = (entry \/ writing[p] = "entry")
        /\ files' = files \cup (IF writing[p] = "events" THEN {Event(p)} ELSE {})
        /\ temps' \in [Processes -> Directories \cup {"none"}]
    BY <1>0, <1>5, <2>1 DEF Replace, store, TypeOK
  <2> QED
    BY <1>5, <2>1, <2>2, WrittenKeepsRInv DEF Replace
<1>6. ASSUME NEW p \in Processes, ReplaceFails(p)
      PROVE  RInv'
  BY <1>0, <1>6, RaiseKeepsRInv DEF ReplaceFails, store, TypeOK
<1>7. ASSUME NEW p \in Processes, LeaveLitter(p)
      PROVE  RInv'
  <2>1. /\ temps' \in [Processes -> Directories \cup {"none"}]
        /\ litter' \in SUBSET Directories
    BY <1>0, <1>7 DEF LeaveLitter, TypeOK
  <2> QED
    BY <1>7, <2>1, RaiseKeepsRInv DEF LeaveLitter
<1>8. ASSUME NEW p \in Processes, LoadEntry(p) \/ LoadDirectory(p)
      PROVE  RInv'
  <2>1. CASE Raise(p)
    BY <1>0, <1>8, <2>1, RaiseKeepsRInv DEF LoadEntry, LoadDirectory, store, TypeOK
  <2>2. CASE /\ GoTo(p, "load directory") \/ GoTo(p, "load events")
             /\ UNCHANGED <<call, locals, reported>>
    <3>1. TypeOK'
      BY <1>0, <1>8, <2>2 DEF TypeOK, LoadEntry, LoadDirectory, GoTo, store, locals
    <3>2. WriterKnows(p)'
      BY <1>0, <1>8, <2>2 DEF RInv, WriterKnows, Writing, TypeOK, LoadEntry,
         LoadDirectory, GoTo, store, locals, Event
    <3> QED
      BY <1>0, <1>8, <2>2, <3>1, <3>2, QuietStep
         DEF TypeOK, LoadEntry, LoadDirectory, GoTo, store, locals
  <2> QED
    BY <1>8, <2>1, <2>2 DEF LoadEntry, LoadDirectory
<1>9. ASSUME NEW p \in Processes, LoadEvents(p)
      PROVE  RInv'
  BY <1>9, LoadEventsKeepsRInv
<1>10. ASSUME NEW p \in Processes, Abort(p)
       PROVE  RInv'
  BY <1>0, <1>10, RaiseKeepsRInv DEF Abort, store, TypeOK
<1> QED
  BY <1>1, <1>2, <1>3, <1>4, <1>5, <1>6, <1>7, <1>8, <1>9, <1>10 DEF Next

-----------------------------------------------------------------------------
(* The theorems.                                                           *)

\* The inductive invariant holds of every behaviour of the registry.
THEOREM RInvHolds == Spec => []RInv
<1>1. Init => RInv
  BY RInvInit
<1>2. RInv /\ [Next]_vars => RInv'
  BY RInvStep
<1> QED
  BY <1>1, <1>2, PTL DEF Spec

\* No event file ever loses the events before it, and none stands without its
\* entry.
THEOREM EventsStayGrounded == Spec => []EventsKeepTheirPast
<1>1. RInv => EventsKeepTheirPast
  BY DEF RInv
<1> QED
  BY <1>1, RInvHolds, PTL

\* Every variable keeps its type; in particular a writer never files a history
\* the state machine of the registry forbids.
THEOREM RegistryTypeOK == Spec => []TypeOK
<1>1. RInv => TypeOK
  BY DEF RInv
<1> QED
  BY <1>1, RInvHolds, PTL

\* Any two histories the registry ever returned are one history and a
\* continuation of it, so a reported rejection is final.
THEOREM HistoriesReportedAgree == Spec => []ReportsAgree
<1>1. RInv => ReportsAgree
  BY DEF RInv
<1> QED
  BY <1>1, RInvHolds, PTL

\* A mutation that returns is in the history it returns.
THEOREM MutationsReportThemselves == Spec => []OwnEventReported
<1>1. RInv => OwnEventReported
  BY DEF RInv
<1> QED
  BY <1>1, RInvHolds, PTL
=============================================================================
