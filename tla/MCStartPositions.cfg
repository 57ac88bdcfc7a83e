CONSTANT MaxPos = 4
SPECIFICATION Spec
INVARIANT Descending
PROPERTY ImplementsStartSet
