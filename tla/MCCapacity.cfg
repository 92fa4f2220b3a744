SPECIFICATION Spec
CONSTANTS
  s1 = s1 s2 = s2 s3 = s3 c1 = c1 c2 = c2 c3 = c3 c4 = c4 o1 = o1 o2 = o2 a1 = a1 a2 = a2
  Sid = {s1, s2}
  Alias = {a1, a2}
  None = None
  Conn = {c1, c2, c3}
  Op = {o1, o2}
  Boot = Boot
  Capacity = 1
  Requests = {"open", "force"}
  Faults = {}
  MaxFaults = 0
  MaxTries = 2
INVARIANTS CapacityIsRespected ConnectionsAreOwned
