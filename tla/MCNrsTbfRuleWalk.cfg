SPECIFICATION Spec
CONSTANTS
  newer = newer
  older = older
  InitList <- MCInitList
  Fits = {older}
  ListHead = ListHead
INVARIANT WalkSeesNoStopping
CHECK_DEADLOCK FALSE
