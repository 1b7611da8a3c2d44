---------------------------- MODULE ModelRegistry ----------------------------
(***************************************************************************)
(* One entry of the filesystem model registry: entry.json and a directory  *)
(* of event files, written by processes that share nothing but the file    *)
(* system.  An event pins the checksum of the event before it, so an event *)
(* file stands for the whole history of actions that leads to it, and two  *)
(* files of one sequence number are two histories of one length.           *)
(* The final-test evidence that activation asks for does not exist, so     *)
(* request_active_promotion only loads.                                    *)
(***************************************************************************)
EXTENDS Naturals, Sequences

CONSTANTS
  Processes,   \* processes that call the registry
  Reasons      \* rejection reasons; a reason stands for the rejection it gives

ASSUME RegistryInputs ==
  /\ Reasons \cap {"register", "accept", "read"} = {}

VARIABLES
  entry,      \* is entry.json there?
  files,      \* the event files, each as the history it pins
  temps,      \* temps[p]: the directory with p's open temporary file, or "none"
  litter,     \* the directories with a temporary file nobody will remove
  pc,         \* where p is in its call
  call,       \* what p was called for
  writing,    \* the file p has to write, "entry" or "events" by its directory
  wrote,      \* has p written its event, or found it written?
  head,       \* the history p loaded before it writes
  reported    \* what calls have returned: the event they stood for, the history

store  == <<entry, files>>
locals == <<writing, wrote, head>>
vars == <<entry, files, temps, litter, pc, call, writing, wrote, head, reported>>

Directories == {"entry", "events"}
Calls == {"register", "accept", "read"} \cup Reasons

-----------------------------------------------------------------------------
(* Histories.                                                              *)

\* Mutated form: a rejection may follow a rejection.
AllowedRepeatedly(h) ==
  CASE h = <<>>              -> {"register"}
    [] h = <<"register">>    -> {"accept"} \cup Reasons
    [] OTHER                 -> Reasons

\* The actions that may follow a history; a rejection is terminal.
Allowed(h) ==
  CASE h = <<>>                       -> {"register"}
    [] h = <<"register">>             -> {"accept"} \cup Reasons
    [] h = <<"register", "accept">>   -> Reasons
    [] OTHER                          -> {}

Histories ==
  {<<"register">>, <<"register", "accept">>}
    \cup {<<"register", r>> : r \in Reasons}
    \cup {<<"register", "accept", r>> : r \in Reasons}

\* The event files of a history.
Past(h) == {SubSeq(h, 1, n) : n \in 1 .. Len(h)}

\* Mutated form: the latest event is taken without its chain.
IsHistoryLatest(h) == h \in files /\ \A g \in files : Len(g) <= Len(h)

\* The event files, in the order of their names, are one chain that ends in h.
IsHistory(h) == h \in files /\ files = Past(h)

Loadable == \E h \in files : IsHistory(h)
History == CHOOSE h \in files : IsHistory(h)

\* Is a temporary file in the way of a load?
Cluttered(d) == d \in litter \/ \E p \in Processes : temps[p] = d

\* The event p writes.
Event(p) == Append(head[p], call[p])

-----------------------------------------------------------------------------
Init ==
  /\ entry = FALSE
  /\ files = {}
  /\ temps = [p \in Processes |-> "none"]
  /\ litter = {}
  /\ pc = [p \in Processes |-> "idle"]
  /\ call = [p \in Processes |-> "read"]
  /\ writing = [p \in Processes |-> "entry"]
  /\ wrote = [p \in Processes |-> FALSE]
  /\ head = [p \in Processes |-> <<>>]
  /\ reported = {}

GoTo(p, label) == pc' = [pc EXCEPT ![p] = label]

\* The call is over and its locals are gone.
Leave(p) ==
  /\ GoTo(p, "idle")
  /\ call' = [call EXCEPT ![p] = "read"]
  /\ writing' = [writing EXCEPT ![p] = "entry"]
  /\ wrote' = [wrote EXCEPT ![p] = FALSE]
  /\ head' = [head EXCEPT ![p] = <<>>]

Raise(p) == Leave(p) /\ UNCHANGED reported

Return(p, h) ==
  /\ Leave(p)
  /\ reported' = reported \cup {[event |-> IF wrote[p] THEN Event(p) ELSE <<>>, history |-> h]}

\* Mutated form: registration starts with the event.
StartEventFirst(p, c) ==
  /\ pc[p] = "idle"
  /\ call' = [call EXCEPT ![p] = c]
  /\ GoTo(p, IF c = "register" THEN "exists" ELSE "load entry")
  /\ writing' = [writing EXCEPT ![p] = "events"]
  /\ UNCHANGED <<store, temps, litter, wrote, head, reported>>

\* register_model_artifact starts to write; all other calls load first.
Start(p, c) ==
  /\ pc[p] = "idle"
  /\ call' = [call EXCEPT ![p] = c]
  /\ GoTo(p, IF c = "register" THEN "exists" ELSE "load entry")
  /\ writing' = [writing EXCEPT ![p] = IF c = "register" THEN "entry" ELSE "events"]
  /\ UNCHANGED <<store, temps, litter, wrote, head, reported>>

-----------------------------------------------------------------------------
(* _atomic_write_new.                                                      *)

\* Registration goes on with its event; after its event a call loads.
WrittenUnloaded(p) ==
  IF writing[p] = "entry"
    THEN /\ GoTo(p, "exists")
         /\ writing' = [writing EXCEPT ![p] = "events"]
         /\ UNCHANGED <<call, wrote, head, reported>>
    ELSE /\ Leave(p)
         /\ reported' = reported \cup {[event |-> Event(p), history |-> head[p]]}

Written(p) ==
  /\ IF writing[p] = "entry"
       THEN /\ GoTo(p, "exists")
            /\ writing' = [writing EXCEPT ![p] = "events"]
            /\ UNCHANGED wrote
       ELSE /\ GoTo(p, "load entry")
            /\ wrote' = [wrote EXCEPT ![p] = TRUE]
            /\ UNCHANGED writing
  /\ UNCHANGED <<call, head, reported>>

\* A file of that name has that content: names are checksums.
Present(p) ==
  \/ writing[p] = "entry" /\ entry
  \/ writing[p] = "events" /\ Event(p) \in files

FindFile(p) ==
  /\ pc[p] = "exists"
  /\ Present(p)
  /\ Written(p)
  /\ UNCHANGED <<store, temps, litter>>

OpenTemporary(p) ==
  /\ pc[p] = "exists"
  /\ ~Present(p)
  /\ temps' = [temps EXCEPT ![p] = writing[p]]
  /\ GoTo(p, "replace")
  /\ UNCHANGED <<store, litter, call, locals, reported>>

\* os.replace puts the temporary file in its place.
Replace(p) ==
  /\ pc[p] = "replace"
  /\ IF writing[p] = "entry"
       THEN entry' = TRUE /\ UNCHANGED files
       ELSE files' = files \cup {Event(p)} /\ UNCHANGED entry
  /\ temps' = [temps EXCEPT ![p] = "none"]
  /\ Written(p)
  /\ UNCHANGED litter

\* os.replace fails: the temporary file is unlinked.
ReplaceFails(p) ==
  /\ pc[p] = "replace"
  /\ temps' = [temps EXCEPT ![p] = "none"]
  /\ Raise(p)
  /\ UNCHANGED <<store, litter>>

\* A write, a flush or an fsync fails before temporary_path is assigned, or the
\* process dies: the temporary file stays.
LeaveLitter(p) ==
  /\ pc[p] = "replace"
  /\ temps' = [temps EXCEPT ![p] = "none"]
  /\ litter' = litter \cup {writing[p]}
  /\ Raise(p)
  /\ UNCHANGED store

-----------------------------------------------------------------------------
(* load_registry_entry.                                                    *)

LoadEntry(p) ==
  /\ pc[p] = "load entry"
  /\ \/ /\ entry /\ ~Cluttered("entry")
        /\ GoTo(p, "load directory")
        /\ UNCHANGED <<call, locals, reported>>
     \/ (~entry \/ Cluttered("entry")) /\ Raise(p)
  /\ UNCHANGED <<store, temps, litter>>

LoadDirectory(p) ==
  /\ pc[p] = "load directory"
  /\ \/ Cluttered("events") /\ Raise(p)
     \/ /\ ~Cluttered("events")
        /\ GoTo(p, "load events")
        /\ UNCHANGED <<call, locals, reported>>
  /\ UNCHANGED <<store, temps, litter>>

\* A call that has written, and a reader, return what they load; an accepted
\* entry need not be accepted again.
Answered(p, h) ==
  \/ wrote[p]
  \/ call[p] = "read"
  \/ call[p] = "accept" /\ h = <<"register", "accept">>

LoadEvents(p) ==
  /\ pc[p] = "load events"
  /\ \/ Loadable /\ Answered(p, History) /\ Return(p, History)
     \/ /\ Loadable /\ ~Answered(p, History) /\ call[p] \in Allowed(History)
        /\ head' = [head EXCEPT ![p] = History]
        /\ GoTo(p, "exists")
        /\ UNCHANGED <<call, writing, wrote, reported>>
     \/ /\ Loadable => ~Answered(p, History) /\ call[p] \notin Allowed(History)
        /\ Raise(p)
  /\ UNCHANGED <<store, temps, litter>>

\* A file cannot be read, the artifact does not verify, or the process dies
\* while it has no temporary file.
Abort(p) ==
  /\ pc[p] \notin {"idle", "replace"}
  /\ Raise(p)
  /\ UNCHANGED <<store, temps, litter>>

-----------------------------------------------------------------------------
Next ==
  \E p \in Processes :
    \/ \E c \in Calls : Start(p, c)
    \/ FindFile(p) \/ OpenTemporary(p) \/ Replace(p) \/ ReplaceFails(p) \/ LeaveLitter(p)
    \/ LoadEntry(p) \/ LoadDirectory(p) \/ LoadEvents(p)
    \/ Abort(p)

Spec == Init /\ [][Next]_vars

-----------------------------------------------------------------------------
(* Properties.                                                             *)

\* Every variable keeps its type, and no file pins a forbidden history.
TypeOK ==
  /\ entry \in BOOLEAN
  /\ files \in SUBSET Histories
  /\ temps \in [Processes -> Directories \cup {"none"}]
  /\ litter \in SUBSET Directories
  /\ pc \in [Processes ->
       {"idle", "exists", "replace", "load entry", "load directory", "load events"}]
  /\ call \in [Processes -> Calls]
  /\ writing \in [Processes -> Directories]
  /\ wrote \in [Processes -> BOOLEAN]
  /\ head \in [Processes -> Histories \cup {<<>>}]
  /\ reported \in SUBSET [event : Histories \cup {<<>>}, history : Histories]

\* An event file never stands without the events before it or without its
\* entry, whatever was interrupted: competing writers can only add branches.
EventsKeepTheirPast ==
  /\ files # {} => entry
  /\ \A h \in files : Past(h) \subseteq files

\* What callers were told never contradicts: of any two histories returned, one
\* continues the other.  So a rejection somebody was told of is final for every
\* later caller, forks and leftovers or not.
ReportsAgree ==
  \A r, s \in reported :
    r.history \in Past(s.history) \/ s.history \in Past(r.history)

\* A mutation that returns has its own event in the history it returns.
OwnEventReported ==
  \A r \in reported : r.event # <<>> => r.event \in Past(r.history)

\* The event files are one gap-free chain.
HistoryIsAChain == files # {} => \E h \in files : files = Past(h)
=============================================================================
