\* No fault at all: the order in which the two tasks' snapshots reach flash.
CONSTANTS
  Slot = {s1}
  QUEUE_DEPTH = 2
  MaxTokens = 3
  Faults <- NoFaults
SPECIFICATION Spec
PROPERTIES
  FinishedIsRemembered
CHECK_DEADLOCK FALSE
