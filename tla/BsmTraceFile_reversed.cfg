CONSTANTS
  sigA = sigA
  sigB = sigB
  ev = ev
  Objs <- MC_Objs
  ObjKind <- MC_ObjKind
  MaxVal = 1
  MaxTraces = 1
  MaxTime = 2
  MaxDelta = 2
  Res = 2
  DeltaMode = TRUE
  AllowLateConfig = FALSE
SPECIFICATION Spec
PROPERTY StampsNonDecreasing
CHECK_DEADLOCK FALSE
