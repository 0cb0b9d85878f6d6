SPECIFICATION CallSpec
CONSTANTS
  Queues = {q1, q2}
  Jobs = {j1, j2}
  NoQueue = NoQueue
  NoJob = NoJob
  Names = {n1, n2}
  MaxAsked = 2
  ClusterQueues = {c1, c2}
SYMMETRY QstatSymmetry
\* A call that is done takes no further step.
CHECK_DEADLOCK FALSE
INVARIANTS
  JobsWhereReported
  QueuesComplete
  NormalReturnIsComplete
  OptionsApplied
  NothingHalfBuilt
  EnvFailureIsThrown
PROPERTIES
  ImplementsReport
  ImplementsClusterReport
