SPECIFICATION Spec
CONSTANTS
  w1 = w1 w2 = w2 g1 = g1 g2 = g2 g3 = g3 caller = caller
  Client = {w1, w2}
  Watcher = {g1, g2}
  Caller = caller
  Nobody = Nobody
  Faults = {}
  MaxFaults = 0
INVARIANTS StoppingIsDriven
