CONSTANTS
  Results <- MCResults
  Locals <- MCLocals
  Types <- MCTypes
  Functions <- MCFunctions
  Globals <- MCGlobals
  Memory64 <- MCMemory64
  SpaceSize <- MCSpaceSize
  Inputs <- MCInputs
  Offer <- MCOffer
  Alphabets = {"dips"}
  Sweep = FALSE
SPECIFICATION Spec
INVARIANT ValidatedNeverStuck
CHECK_DEADLOCK FALSE
