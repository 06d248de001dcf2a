SPECIFICATION Spec
CONSTANTS
  Callers = {c1}
  Messages = {m1, m2}
  NoThread = NoThread
  SteeringMode = "one"
  FollowUpMode = "one"
  EditKinds <- TakeOnly
  PanicSites <- PreparePanic
  MaxCalls = 2
  MaxToolTurns = 2
  MaxAborts = 1
  MaxEdits = 1
  MaxPanics = 1
SYMMETRY Symmetric
INVARIANTS RequestWellFormed PendingExact AbortStopsRun EventsNested
