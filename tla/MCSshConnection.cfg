SPECIFICATION Spec
CHECK_DEADLOCK FALSE
CONSTANTS
  s1 = s1 s2 = s2 jump = jump target = target k1 = k1 k2 = k2 r1 = r1 r2 = r2
  Sid = {s1, s2}
  Host = {jump, target}
  Key = {k1, k2}
  Request = {r1, r2}
  None = None
  Route <- OneJump
  Keys <- OneRekeyed
SYMMETRY Symmetric
INVARIANTS TypeOK OnlyShownKeys ChainsAreClosed
PROPERTIES NoSilentReplace
