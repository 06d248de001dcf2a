SPECIFICATION FairSpec
CONSTANTS
  Callers = {c1, c2}
  Messages = {m1, m2}
  NoThread = NoThread
  SteeringMode = "one"
  FollowUpMode = "all"
  EditKinds <- TakeOnly
  PanicSites <- NoKinds
  MaxCalls = 1
  MaxToolTurns = 1
  MaxAborts = 1
  MaxEdits = 1
  MaxPanics = 0
PROPERTIES RunsReturn QueuedDelivered
