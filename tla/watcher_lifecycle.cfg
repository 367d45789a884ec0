CONSTANTS
  Callers = {a, b}
  MaxStarts = 2
  MaxCalls = 2
  Nobody = Nobody
  a = a
  b = b
SPECIFICATION Spec
INVARIANTS
  NoUseAfterRemoval
  OnePollAtATime
PROPERTIES
  
  CallsReturn
