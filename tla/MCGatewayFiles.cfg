SPECIFICATION Spec
CONSTANTS
  p1 = p1 p2 = p2 r1 = r1 r2 = r2 k1 = k1 k2 = k2 e1 = e1 e2 = e2
  x = x y = y a = a b = b c = c
  Process = {p1, p2}
  Nobody = Nobody
  Request = {r1, r2}
  Key = {k1, k2}
  None = None
  Config <- Texts
  Editor = {e1, e2}
  NoConfig = NoConfig
  Host = {x, y, a, b, c}
  Alias = {x, y}
  MaxHops = 2
SYMMETRY Symmetric
INVARIANTS TypeOK OneWriter RowTellsTruth CatalogTellsFile RouteIsSafe
PROPERTIES KeyIsNotReplaced NoLostSave
