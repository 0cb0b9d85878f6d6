SPECIFICATION Spec
CONSTANTS
  t1 = t1
  t2 = t2
  t3 = t3
  Threads = {t1, t2, t3}
  Levels = {1}
  LoggerLevel = 4
  Null = Null
  Global = Global
SYMMETRY ThreadSymmetry
INVARIANTS
  ClassRefAlive
  LevelObjectUsable
  RefsBounded
  PendingIsThrown
