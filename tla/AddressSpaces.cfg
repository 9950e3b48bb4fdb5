\* Four address spaces and one page left over.
CONSTANTS
    PoolPages = 13
    Bases <- MCBases
SPECIFICATION Spec
INVARIANTS WindowExact ResidentsApart
