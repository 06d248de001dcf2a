SPECIFICATION MCSpec
CONSTANTS
  Windows = {w1, w2}
  Steps = {s1, s2}
  MaxPlans = 2
  MaxActs = 3
  MaxFaults = 1
  Sessions = {a1, a2}
  Loops = {1}
  Limit = 3
  MaxMoves = 4
  MaxBreaks = 1
INVARIANTS SharedStateKnown LoopKept
PROPERTIES MarksKept ApprovalRespectsToggle RecordFollows InStep
SYMMETRY MCSymmetry
CHECK_DEADLOCK FALSE
