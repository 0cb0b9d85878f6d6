SPECIFICATION Spec
CONSTANTS
  Objects = {o1, o2, o3, o4}
  Names = {n1, n2}
  None = None
  NULL = NULL
  NoneOthers = 2
  MaxCalls = 4
  MaxHeld = 2
SYMMETRY PySymmetry
\* A series of calls may end, and with Py_None the interpreter does.
CHECK_DEADLOCK FALSE
INVARIANTS
  RefsCounted
  NoneShort
  ContextsClosed
  ListsComplete
PROPERTY
  FreedForGood
