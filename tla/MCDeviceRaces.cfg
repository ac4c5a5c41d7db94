\* Calls of the HTTP task at any point of the tick.
CONSTANTS
  Calls = {"load", "start", "abort"}
  Serialised = FALSE
  Crossing = FALSE
  Parts = {"races"}
SPECIFICATION Spec
INVARIANT AbortLeaksNothing
