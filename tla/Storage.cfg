CONSTANTS
  Names = {n1, n2}
  NSegs = 4
  Gone = Gone
  NJobs = 2
  Children = {p1, p2}
  MaxChildren = 2
  Kinds = {"hosts", "variables", "pools"}
  MaxRequests = 2
  Faults = {"calls", "disk", "peer", "checker", "kill", "reboot", "group"}
  MaxFaults = 1
SPECIFICATION Spec
CHECK_DEADLOCK FALSE
INVARIANTS TypeOK ListIsValid QueueKept NewMasterAnswers
PROPERTIES OneEntryChanges RestartIsSnapshot ServiceContinues StopEnds
