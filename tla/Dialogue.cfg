CONSTANTS
  MaxItems = 1
  Requests <- AllRequests
  Faults = {"break", "silence", "size", "alarm"}
SPECIFICATION Spec
INVARIANTS
  NothingIsMisread NobodyWaitsForEver NothingIsLeft  ReleasedByHolder
  SlavesCallUnlocked
PROPERTIES ChangedUnderSemaphore DialogueEnds
