SPECIFICATION Spec
CONSTANTS
  Keys = {k1}
  Values = {0, 1}
  ZeroValue = 0
  NoValue = NoValue
  Addable = TRUE
  Rejects = FALSE
  DefaultTTL = 1
  RefreshTTL = TRUE
  RefreshTTLOnRead = TRUE
  MaxSize = 0
  HasExpireHook = FALSE
  HasMutateHook = FALSE
  TTLs = {1}
  Callers = {c1}
  Sweepers = {g1}
  NoProc = NoProc
  Ops = {"Set", "Start", "Stop"}
  MaxTime = 2
  AddTo <- MCAddTo
  SetTo <- MCSetTo
  CopyTo <- MCCopyTo
PROPERTY StopHaltsSweeper
