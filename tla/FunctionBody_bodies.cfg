CONSTANTS
  Results <- MCResults
  Locals <- MCLocals
  Types <- MCTypes
  Functions <- MCFunctions
  Globals <- MCGlobals
  Memory64 <- MCMemory64
  SpaceSize <- MCSpaceSize
  Inputs <- MCInputs
  Offer <- MCOffer
  Alphabets = {"arms", "dips", "loops", "branches", "calls", "values"}
  Sweep = TRUE
SPECIFICATION Spec
INVARIANTS TypeOK BoundariesAgree StackAgrees SoundWithinFrame
CHECK_DEADLOCK FALSE
