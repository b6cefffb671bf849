CONSTANTS
  N = 3
  Askers = {a1, a2}
  Priorities = {100, 500}
  DefaultPri = 500
  MaxChanges = 1
SPECIFICATION Spec
INVARIANTS TypeOK NoJobIsTrue
