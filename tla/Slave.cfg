SPECIFICATION Spec
CONSTANTS
  NSlots = 2
  NTasks = 2
  NCpus = 1
  MaxChanges = 1
  Faults = {"fork", "link", "signal"}
INVARIANTS
  TypeOK
  CpusSuffice
  
  NobodyLeftBehind
CHECK_DEADLOCK FALSE
PROPERTIES
  SlotComesFree
  IdleAsks
