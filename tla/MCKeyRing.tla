------------------------------ MODULE MCKeyRing ------------------------------
EXTENDS KeyRing

CONSTANTS p, q          \* printable characters

MCPrintable == {p, q}
OnePrintable == {p}
==============================================================================
