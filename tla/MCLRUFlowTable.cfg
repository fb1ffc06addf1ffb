SPECIFICATION Spec
CONSTANTS
  Tuples = {t1, t2, t3}
  Nodes = {n1, n2, n3}
  NoNode = NoNode
  Limits = {0, 1, 2}
  MaxCalls = 4
SYMMETRY Symmetry
INVARIANTS TypeOK MapMatchesList NoAliasing KeepsMostRecent
PROPERTIES ImplementsFlowTable
