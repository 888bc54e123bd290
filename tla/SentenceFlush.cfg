\* "3.5": a stop between letters is enough.
SPECIFICATION Spec
CONSTANTS
  MaxLen = 3
INVARIANTS
  FlushSpeaksTheRest
