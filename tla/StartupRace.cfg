CONSTANTS
  t1 = t1
  t2 = t2
  c1 = c1
  c2 = c2
  Threads = {t1,t2}
  Clients = {c1,c2}
  Internal = {c1,c2}
  Events = {}
  ExitEvents = {}
  MaxEvc = 2
  NoThread = NoThread
  NoClient = NoClient
SPECIFICATION StartupSpec
INVARIANT RefusedMeansClosed
