CONSTANTS
  p1 = p1  p2 = p2
  c1 = c1  c2 = c2
  n1 = n1  n2 = n2  n3 = n3  n4 = n4
  v1 = v1  v2 = v2
  Producers = {p1, p2}
  Consumers = {c1, c2}
  Nodes = {n1, n2, n3, n4}
  Values = {v1, v2}
  NoNode = NoNode
  NoThread = NoThread
  Nothing = Nothing
  Pending = Pending
SPECIFICATION Spec
SYMMETRY Symmetry
INVARIANTS NoUseAfterFree NodesAccounted
PROPERTIES ImplementsFifo
