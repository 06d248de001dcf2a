SPECIFICATION Spec
CONSTANTS
  Callers = {c1, c2}
  Messages = {m1, m2, m3}
  NoThread = NoThread
  SteeringMode = "one"
  FollowUpMode = "one"
  EditKinds <- AllEdits
  PanicSites <- HookPanic
  MaxCalls = 1
  MaxToolTurns = 1
  MaxAborts = 0
  MaxEdits = 1
  MaxPanics = 1
SYMMETRY Symmetric
INVARIANTS ExactlyOnce SteeringInOrder OneWriter
PROPERTY RecorderFollows
