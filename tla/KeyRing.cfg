\* A buffer of four holds three: it fills, wraps and drops.
CONSTANTS
    KBD_BUF_SIZE = 4
    p = p  q = q
    Printable <- MCPrintable
    Enter = Enter
    Back = Back
    Other = Other
    NoChar = NoChar
    MaxLen = 3
SPECIFICATION FairSpec
INVARIANT TypeOK
PROPERTIES QueueSpec 
