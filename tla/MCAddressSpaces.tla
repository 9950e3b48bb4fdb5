--------------------------- MODULE MCAddressSpaces ---------------------------
EXTENDS AddressSpaces

\* The base of the single task and of the pair's first task, the base of the
\* pair's second task, and two aligned neighbours of that one.
MCBases == {400, 404, 405, 410}
==============================================================================
