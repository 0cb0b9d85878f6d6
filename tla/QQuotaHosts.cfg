SPECIFICATION Spec
CONSTANTS
  Rules = {r1}
  Values = {v1}
  Hosts = {h1, h2}
  NoRule = NoRule
CHECK_DEADLOCK FALSE
INVARIANT HostsResolved
