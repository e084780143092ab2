SPECIFICATION Spec
CONSTANTS
  Keys = {k1, k2, k3}
  Values = {0}
  ZeroValue = 0
  NoValue = NoValue
  Addable = TRUE
  Rejects = TRUE
  DefaultTTL = 1
  RefreshTTL = TRUE
  RefreshTTLOnRead = TRUE
  MaxSize = 2
  HasExpireHook = TRUE
  HasMutateHook = TRUE
  TTLs = {}
  Callers = {c1, c2}
  Sweepers = {}
  NoProc = NoProc
  Ops = {"Set", "Get", "Delete", "ExpireStale"}
  MaxTime = 2
  AddTo <- MCAddTo
  SetTo <- MCSetTo
  CopyTo <- MCCopyTo
SYMMETRY CallerSymmetry
INVARIANT HookAccounting
PROPERTY QueueStable
