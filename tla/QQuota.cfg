SPECIFICATION Spec
CONSTANTS
  Rules = {r1, r2}
  Values = {v1, v2}
  Hosts = {h1, h2}
  NoRule = NoRule
SYMMETRY QuotaSymmetry
\* A call that is done takes no further step.
CHECK_DEADLOCK FALSE
INVARIANTS
  ReportIsFiltered
  RulesComplete
  RefsReleased
PROPERTY
  ImplementsReport
