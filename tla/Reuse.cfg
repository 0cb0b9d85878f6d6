CONSTANTS
  t1 = t1
  t2 = t2
  c1 = c1
  c2 = c2
  e1 = e1
  Threads = {t1, t2}
  Clients = {c1, c2}
  Internal = {c1}
  Events = {e1}
  ExitEvents = {}
  MaxEvc = 1
  NoThread = NoThread
  NoClient = NoClient
SPECIFICATION Spec
SYMMETRY ThreadSymmetry
INVARIANT TypeOK
INVARIANT OpenClientOwnsSlot
INVARIANT RefusedMeansClosed
INVARIANT NoLostWakeup
INVARIANT WokenNotAtNull
INVARIANT GlobalMutexHeldInside
INVARIANT NoCircularWait
INVARIANT EventsAccounted
INVARIANT ForeignEventsMeanDestroyed
PROPERTY DestroyedUntouched
PROPERTY RefusedUnlessReused
PROPERTY ImplementsMailbox
