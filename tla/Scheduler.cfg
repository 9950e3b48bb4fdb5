\* Two work functions, one id that no slot has, counters that wrap at two.
CONSTANTS
    Works = {w1, w2}
    NullWork = NullWork
    None = None
    Ids = {16, 32, 48, 64}
    CounterSize = 2
SPECIFICATION Spec
INVARIANTS TypeOK TickServesDue
PROPERTY WorkSpec
