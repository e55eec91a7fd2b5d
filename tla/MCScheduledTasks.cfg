\* Two tasks, two overlapping ticks, four edits, and two failures: stops of
\* the Backend or errors of the database.
SPECIFICATION FairTasksSpec
CONSTANTS
  t1 = t1  t2 = t2  s1 = s1  s2 = s2
  Tasks = {t1, t2}
  Servers = {s1, s2}
  ServerOf <- MCServerOf
  Ticks = {k1, k2}
  MaxPeriod = 2
  MaxEdits = 4
  MaxFailures = 2
  None = None
INVARIANTS SchedulerInv
PROPERTIES NoneSkipped DueServed
