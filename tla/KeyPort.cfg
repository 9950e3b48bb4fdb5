\* Every kind of key; two screens, so that a wizard is left and entered again.
CONSTANTS
    Keys = {"enter", "a", "lshift", "up"}
    Screens = 2
    Capacity = 1
    MaxBytes = 7
SPECIFICATION FairPortSpec
INVARIANT PollerReadsNew
 
\* The shell's reboot halts the machine.
CHECK_DEADLOCK FALSE
