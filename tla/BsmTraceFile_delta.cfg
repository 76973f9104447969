CONSTANTS
  sigA = sigA
  sigB = sigB
  ev = ev
  Objs <- MC_Objs
  ObjKind <- MC_ObjKindVector
  MaxVal = 1
  MaxTraces = 2
  MaxTime = 1
  MaxDelta = 1
  Res = 2
  DeltaMode = TRUE
  AllowLateConfig = FALSE
SPECIFICATION Spec
PROPERTY PrintedCycleCurrent StampsNonDecreasing
CHECK_DEADLOCK FALSE
