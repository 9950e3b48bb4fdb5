CONSTANTS
    a = a  b = b  x = x  y = y
    NoFile = NoFile
    PoolPages = 7
    Files <- GoodFiles
    Image <- GoodImages
    Pairs <- GoodPairs
    Codes = {0}
    Bufs = {"mapped"}
    Vectors = {14}
    SAM_QUANTUM_TICKS = 3
    MaxPos = 1
    CounterCap = 3
SPECIFICATION Spec
INVARIANT EndedStaysEnded
CHECK_DEADLOCK FALSE
