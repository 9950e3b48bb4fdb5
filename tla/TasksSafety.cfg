\* Pairs and single tasks in any order; programs may fault in any way.
CONSTANTS
    a = a  b = b  x = x  y = y
    NoFile = NoFile
    PoolPages = 10
    Files <- AllFiles
    Image <- AllImages
    Pairs <- AllPairs
    Codes = {0, 7}
    Bufs = {"null", "mapped", "unmapped"}
    Vectors = {13, 14}
    SAM_QUANTUM_TICKS = 2
    MaxPos = 2
    CounterCap = 2
SPECIFICATION Spec
 
INVARIANTS TypeOK KernelSpace RunsInOwnSpace  TaskVerdict PairOutlivesBoth
\* A panic halts the machine.
CHECK_DEADLOCK FALSE
