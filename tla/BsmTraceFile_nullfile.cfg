CONSTANTS
  sigA = sigA
  sigB = sigB
  ev = ev
  Objs <- MC_Objs
  ObjKind <- MC_ObjKind
  MaxVal = 1
  MaxTraces = 2
  MaxTime = 1
  MaxDelta = 1
  Res = 1
  DeltaMode = FALSE
  AllowLateConfig = FALSE
SPECIFICATION Spec
INVARIANT NoNullFileWrite
CHECK_DEADLOCK FALSE
