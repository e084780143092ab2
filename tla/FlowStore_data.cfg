SPECIFICATION Spec
CONSTANTS
  Keys = {k1, k2}
  Values = {0, 1}
  ZeroValue = 0
  NoValue = NoValue
  Addable = TRUE
  Rejects = FALSE
  DefaultTTL = 1
  RefreshTTL = TRUE
  RefreshTTLOnRead = TRUE
  MaxSize = 1
  HasExpireHook = TRUE
  HasMutateHook = FALSE
  TTLs = {}
  Callers = {c1, c2}
  Sweepers = {}
  NoProc = NoProc
  Ops = {"Set", "Add", "Get", "GetQuiet", "Delete", "Range", "ExpireStale", "Flush"}
  MaxTime = 2
  AddTo <- MCAddTo
  SetTo <- MCSetTo
  CopyTo <- MCCopyTo
SYMMETRY CallerSymmetry
INVARIANT ChangeSignalled
PROPERTY LiveEntriesKept
PROPERTY ImplementsCache
