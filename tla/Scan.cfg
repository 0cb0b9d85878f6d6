CONSTANTS
  t1 = t1
  c1 = c1
  c2 = c2
  e1 = e1
  e2 = e2
  Threads = {t1}
  Clients = {c1,c2}
  Internal = {c1,c2}
  Events = {e1,e2}
  ExitEvents = {}
  MaxEvc = 2
  NoThread = NoThread
  NoClient = NoClient
SPECIFICATION StartupSpec
SYMMETRY BothSymmetry
INVARIANT MissedMeansDestroyed
INVARIANT SlotsNotLeaked
