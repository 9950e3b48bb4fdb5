--------------------------- MODULE MCMemoryLayout ---------------------------
EXTENDS MemoryLayout

Free(b, n) == [base |-> b, size |-> n]
Low == Free(0, 1)       \* conventional memory, rounded up as mcp_scan_ram does

\* One machine per tier of compute_domain_sizes, one too small for its domains, and
\* one with a hole at 15 MiB, in the AI domain.
MCMaps == {
    {Low, Free(1, 99)},
    {Low, Free(1, 399)},
    {Low, Free(1, 511)},
    {Low, Free(1, 14), Free(16, 640)},
    {Low, Free(1, 1535)},
    {Low, Free(1, 3071)} }
==============================================================================
