SPECIFICATION Spec
CONSTANTS
  t1 = t1
  t2 = t2
  Threads = {t1, t2}
  Levels = {4}
  LoggerLevel = 4
  Null = Null
  Global = Global
INVARIANT LevelClassUsable
