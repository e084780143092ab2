SPECIFICATION Spec
CONSTANTS
  Keys = {k1}
  Values = {0}
  ZeroValue = 0
  NoValue = NoValue
  Addable = FALSE
  Rejects = FALSE
  DefaultTTL = 1
  RefreshTTL = TRUE
  RefreshTTLOnRead = TRUE
  MaxSize = 0
  HasExpireHook = FALSE
  HasMutateHook = FALSE
  TTLs = {}
  Callers = {c1}
  Sweepers = {}
  NoProc = NoProc
  Ops = {"Set", "Add"}
  MaxTime = 2
  AddTo <- MCAddTo
  SetTo <- MCSetTo
  CopyTo <- MCCopyTo
INVARIANT ChangeSignalled
