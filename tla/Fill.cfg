CONSTANTS
  t1 = t1
  t2 = t2
  c1 = c1
  e1 = e1
  e2 = e2
  Threads = {t1, t2}
  Clients = {c1}
  Internal = {c1}
  Events = {e1, e2}
  ExitEvents = {e2}
  MaxEvc = 1
  NoThread = NoThread
  NoClient = NoClient
SPECIFICATION FairSpec
PROPERTY WaiterReleased
