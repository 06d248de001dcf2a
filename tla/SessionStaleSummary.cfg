SPECIFICATION Spec
CONSTANTS
  Sessions = {s1, s2}
  First = s1
  MaxSaid = 6
  MaxFaults = 0
  MaxEvents = 6
INVARIANTS ResumeExact
CHECK_DEADLOCK FALSE
