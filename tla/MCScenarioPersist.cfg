\* The drain task keeps up: no timeout runs out.
CONSTANTS
  Slot = {s1, s2}
  QUEUE_DEPTH = 2
  MaxTokens = 3
  Faults <- QuickDrain
SPECIFICATION Spec
INVARIANTS
  TypeOK
  Handshake
  ResultIsOwn
  BacklogIsFlushed
PROPERTIES
  PhaseNeverOverTerminal
CHECK_DEADLOCK FALSE
