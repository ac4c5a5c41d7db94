\* A flush of each task at once.
CONSTANTS
  Calls = {"load", "start", "pause", "resume", "abort", "unload"}
  Serialised = TRUE
  Crossing = TRUE
  Parts = {"persist"}
SPECIFICATION Spec
INVARIANT FlushesForgetNothing
