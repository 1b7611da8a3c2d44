SPECIFICATION Spec
CONSTANTS
  first = first
  again = again
  second = second
  rival = rival
  opening = opening
  next = next
  fork = fork
  p = p
  q = q
  Workflows = {first, second, rival}
  Advancements = {opening, next, fork}
  Initial = none
  Prior <- MCPrior
  Pre <- MCPre
  Applied <- MCApplied
  AdvancementOf <- MCAdvancementOf
  Regenerations <- MCRegenerations
  SimulationOf <- MCSimulationOf
  Given <- MCGiven
  Runners = {r1, r2}
  MaxFaults = 1
  ShippedTriggers = FALSE
SYMMETRY RunnerSymmetry
INVARIANTS
  TypeOK
  JournalIsPrefix
  CheckpointBacked
  ChildrenFollowCheckpoints
  OperationalStateNeverForks
  CompletionIsDurable
PROPERTIES
  ImplementsLedger
