CONSTANTS
  NJobs = 1
  NFrames = 1
  Comps = {c1, c2}
  Tasks = {t1}
  Subs = {s1}
  s1 = s1
  s2 = s2
  n1 = n1
  n2 = n2
  Names = {n1, n2}
  NameOf <- MCNameOf
  DependOf <- MCNoDepend
  AutoDelete = {}
  AutoRequeue = {s1}
  MaxCpus <- MCNoLimit
  MaxCpusComp <- MCNoLimit
  Allowed <- MCAllowed
  MaxRequeues = 1
  Handlers = {h1, h2}
  Ops = {"STOPJOB", "CONTJOB"}
  Faults = {"signal", "lost", "taskcrash"}
  MaxDisturb = 2
  NoJob = NoJob
  NoComp = NoComp
  NoTask = NoTask
  NoSub = NoSub
  NoName = NoName
SPECIFICATION HSpec
CHECK_DEADLOCK FALSE
SYMMETRY MCSymmetry
PROPERTIES ImplementsFarm
