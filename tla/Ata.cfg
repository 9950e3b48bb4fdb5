\* Two calls may overlap in the drive; sector 5 is beyond the registers.
CONSTANTS
    Bus = {"drive", "float", "zero"}
    Lbas = {1, 2, 5}
    Counts = {0, 1, 2, 3}
    LbaSize = 4
    SectorWords = 2
    MaxPolls = 2
SPECIFICATION FairSpec
INVARIANTS  PresentAnswered
PROPERTY CallReturns
