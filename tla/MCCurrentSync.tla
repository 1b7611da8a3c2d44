----------------------------- MODULE MCCurrentSync -----------------------------
(* Two fixtures of two teams, each with a provider reference of its own,     *)
(* and a schedule in which the provider reuses a reference.                  *)
EXTENDS CurrentSync, TLC

MCHome == "f" :> "X" @@ "g" :> "Y"
MCAway == "f" :> "Y" @@ "g" :> "X"

Entry(r, f, s, p, k, u) ==
  [ref |-> r, fixture |-> f, status |-> s, precision |-> p, kickoff |-> k, updated |-> u]
MCSchedules ==
  {{Entry("a", "f", "scheduled", "date_only", 2, Never),
    Entry("b", "g", "postponed", "exact", 1, 1)},
   {Entry("a", "f", "abandoned", "exact", 1, 2)},
   {Entry("b", "g", "scheduled", "exact", 3, 2)},
   {Entry("b", "f", "scheduled", "exact", 2, 2)}}

Poll(r, s, u) == [ref |-> r, status |-> s, updated |-> u]
MCPolls == {{Poll("a", "in_progress", 1), Poll("b", "cancelled", 1)}}

Result(r, f, h, a, t) ==
  [ref |-> r, fixture |-> f, score |-> [home |-> h, away |-> a], completed |-> t]
MCResultLists ==
  {{Result("a", "f", 1, 0, 2)},
   {Result("a", "f", 1, 1, Never), Result("b", "g", 0, 2, 2)},
   {Result("b", "g", 0, 2, 1)}}
===============================================================================
