CONSTANT MaxBlock = 2

SPECIFICATION Spec

INVARIANTS
    RevisionIsNewestEnabled

PROPERTY
    RevisionMonotonic
