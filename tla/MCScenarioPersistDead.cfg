\* Nothing is assumed of the drain task.
CONSTANTS
  Slot = {s1}
  QUEUE_DEPTH = 1
  MaxTokens = 4
  Faults <- DeadDrain
SPECIFICATION FairSpec
PROPERTIES
  WritesReturn
CHECK_DEADLOCK FALSE
