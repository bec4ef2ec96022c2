\* Two saved groups, one fellow: every order of navigation, edits, answers and failures, with one
\* kind of rashness in a behaviour.
CONSTANTS
  g1 = g1
  g2 = g2
  ann = ann
  n1 = n1
  n2 = n2
  Groups = {g1, g2}
  Fellows = {ann}
  Names = {n1, n2}
  Blank = Blank
  None = None
  MaxCalls = 2
  MaxLoads = 1
  MaxRash = 1
SPECIFICATION Spec
INVARIANTS TypeOK DraftSurvives EditsWhatTheUrlNames EditsLand
PROPERTIES CancelRestores
SYMMETRY Symmetric
