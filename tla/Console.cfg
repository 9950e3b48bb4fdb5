CONSTANTS
    Bytes = {31, 57, 14, 15, 28, 42, 170, 58, 224, 72, 80}
    Plain <- MCPlain
    Shifted <- MCShifted
    Commands <- MCCommands
    SH_CMD_MAX = 2
    SH_HIST_MAX = 2
    SH_COLS = 4
    SH_ROWS = 2
    PromptLen = 2
    WZ_NAME_MAX = 3
    DefaultLen = 2
    MaxText = 3
SPECIFICATION Spec
INVARIANTS TypeOK  PageIsSummary
\* reboot never comes back.
CHECK_DEADLOCK FALSE
