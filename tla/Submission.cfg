CONSTANTS
  first = first
  second = second
  s1 = s1
  s2 = s2
  Clients = {first, second}
  Workloads <- MCWorkloads
  Slots = {s1, s2}
  Systems = {"LINUX", "WINDOWS"}
  Width = 3
  LastSecond = 2
  MaxFrames = 3
  MaxRequeues = 1
  MaxUpdates = 1
SPECIFICATION Spec
CHECK_DEADLOCK FALSE
INVARIANTS TypeOK ExitZeroIsRendered RenderedAsAsked RenderedOnce NamesAreSet 
PROPERTIES JobEnds
