SPECIFICATION Spec
CONSTANTS
  Sessions = {s1, s2}
  First = s1
  MaxSaid = 5
  MaxFaults = 1
  MaxEvents = 5
INVARIANTS ResumeSame
CHECK_DEADLOCK FALSE
