SPECIFICATION FairSpec
CONSTANTS
  Procs = {a, b}
  NoProc = NoProc
  Creator = a
  MaxClaims = 3
  MaxAppends = 2
  MaxStalls = 1
  MaxCrashes = 1
  MaxFaults = 1
  MaxErrors = 1
INVARIANTS OneLateAppend NoLockLeftBehind AckedReadable
PROPERTIES ImplementsExclusiveLog LossNoticed ClaimReturns
