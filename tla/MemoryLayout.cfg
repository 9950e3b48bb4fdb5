\* Fields left at 0 or at 40, inside the AI domain, so that torn pages overlap.
CONSTANTS
    Maps <- MCMaps
    NoMap = NoMap
    Leftovers = {0, 40}
    MAX_DOMAINS = 8
SPECIFICATION Spec
INVARIANTS TypeOK   ConfigOfThisMachine SmallMachineLayout
           TestsInDomains
