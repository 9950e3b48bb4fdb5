CONSTANTS
    Keys = {"enter"}
    Screens = 1
    Capacity = 2
    MaxBytes = 3
SPECIFICATION FairPortSpec
PROPERTY WizardSeesEnter
\* The shell's reboot halts the machine.
CHECK_DEADLOCK FALSE
