SPECIFICATION Spec
CONSTANTS
  t1 = t1
  t2 = t2
  t3 = t3
  p1 = p1
  p2 = p2
  Threads <- MCThreads
  NoThread = NoThread
  Processes = {p1, p2}
  ProcessOf <- MCProcessOf
  Uses <- MCUses
  NoCache = NoCache
  RefreshRetries = 1
  MaxTokens = 3
  MaxCalls = 1
  MaxExpiries = 2
  MaxFaults = 1
INVARIANTS WritersExclusive ReadsAreFresh StoredLoginUsable RefreshedOnce LoginHonoured
PROPERTIES ImplementsMap

CHECK_DEADLOCK FALSE
SYMMETRY MCSymmetry
