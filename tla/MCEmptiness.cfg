CONSTANTS
  Node = {0, 1, 2, 3}
  Bot = 0
  NoNode = NoNode
  Algebras <- MCAlgebras
  MaxDepth = 2
  MaxAsks = 2
SPECIFICATION Spec
INVARIANTS
  EmptySound
  NonemptySound
PROPERTY QueriesReturn
CHECK_DEADLOCK FALSE
