SPECIFICATION FairSpec
CONSTANTS
  Keys = {k1, k2}
  Values = {0}
  ZeroValue = 0
  NoValue = NoValue
  Addable = FALSE
  Rejects = FALSE
  DefaultTTL = 1
  RefreshTTL = TRUE
  RefreshTTLOnRead = TRUE
  MaxSize = 1
  HasExpireHook = FALSE
  HasMutateHook = FALSE
  TTLs = {}
  Callers = {c1}
  Sweepers = {g1, g2}
  NoProc = NoProc
  Ops = {"Set", "Add", "GetQuiet", "Delete", "Range", "Start", "Stop", "Close"}
  MaxTime = 2
  AddTo <- MCAddTo
  SetTo <- MCSetTo
  CopyTo <- MCCopyTo
INVARIANT TypeOK
INVARIANT OrderMatchesEntries
INVARIANT SizeBounded
INVARIANT NewEntrySurvives
INVARIANT HookAccounting
PROPERTY LiveEntriesKept
PROPERTY ExpiredEntriesSwept
