SPECIFICATION Spec
CONSTANTS
  p1 = p1
  p2 = p2
  worse = worse
  late = late
  Processes = {p1, p2}
  Reasons = {worse, late}
SYMMETRY RegistrySymmetry
INVARIANTS
  TypeOK
  EventsKeepTheirPast
  ReportsAgree
  OwnEventReported
