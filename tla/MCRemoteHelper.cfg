SPECIFICATION Spec
CONSTANTS
  s1 = s1 c1 = c1 c2 = c2
  Session = s1
  Call = {c1, c2}
  MaxBoots = 2
INVARIANTS TypeOK SignalsOnlyEditor StopConfirmsAbsence RecordTellsEditor
PROPERTIES HelperIsRemoteEditor
