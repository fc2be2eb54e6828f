CONSTANTS
  a = a
  b = b
  c = c
  Request = {a, b, c}
  Signalled = {a, b}
  NoSignal = NoSignal
  MaxRetries = 1
SPECIFICATION Spec
SYMMETRY CallSymmetry
INVARIANTS SlotEmptyWhenQuiet
