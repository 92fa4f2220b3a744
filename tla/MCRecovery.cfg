SPECIFICATION FairSpec
CONSTANTS
  s1 = s1 s2 = s2 s3 = s3 c1 = c1 c2 = c2 c3 = c3 c4 = c4 o1 = o1 o2 = o2 a1 = a1 a2 = a2
  Sid = {s1}
  Alias = {a1}
  None = None
  Conn = {c1, c2, c3, c4}
  Op = {o1}
  Boot = Boot
  Capacity = 1
  Requests = {"open", "close", "force", "retry"}
  Faults = {"ssh", "loss", "death", "close", "late", "crash", "pid_reuse", "early_loss"}
  MaxFaults = 2
  MaxTries = 2
INVARIANTS TransientRowIsDriven
PROPERTIES EditorsFollowHelper DeletionFollowsStop ClosesEnd OpensEnd RequestsEnd
