--------------------------------- MODULE Mcp ----------------------------------
(***************************************************************************)
(* The machine capability profile, kernel/mcp.h: memory and framebuffer    *)
(* from the boot loader's tags, the processor from CPUID, and the PCI      *)
(* functions reached from bus 0.  A PCI configuration maps the <<bus,      *)
(* device, function>> that answer to what their registers say.             *)
(***************************************************************************)
EXTENDS Multiboot, FiniteSetsExt

CONSTANTS
    MiB,                \* 2^20 in the code
    Devices, Functions  \* 32 and 8

ASSUME McpAssumptions == {MiB, Devices, Functions} \subseteq Nat \ {0}

RoundedDown(bytes) == bytes \div MiB            \* mutant: the last part of a MiB is lost

RoundedUp(bytes) == (bytes + MiB - 1) \div MiB

\* The inner loop: the bytes so far, of which some are usable, and those of a map's entries.
MapAdded(bytes, entries) ==
    LET n == Len(entries)
        s[k \in 0 .. n] ==
            IF k = 0 THEN bytes
            ELSE [raw |-> s[k - 1].raw + entries[k].length,
                  usable |-> s[k - 1].usable + (IF entries[k].available THEN entries[k].length ELSE 0)]
    IN  s[n]

mcp_scan_ram(info) ==
    LET tags == Walked(info)
        n == Len(tags)
        s[k \in 0 .. n] ==
            IF k = 0 THEN [raw |-> 0, usable |-> 0]
            ELSE IF tags[k].type = "mmap" THEN MapAdded(s[k - 1], tags[k].entries) ELSE s[k - 1]
    IN  [ram_mb |-> RoundedUp(s[n].usable), ram_mb_raw |-> RoundedUp(s[n].raw),
         mmap_valid |-> \E k \in 1 .. n : tags[k].type = "mmap"]

\* The first framebuffer tag's width; 0 when there is none.
mcp_scan_fb(info) ==
    LET fb == FirstTag(info, LAMBDA t : t.type = "fb")
    IN  IF fb = NoTag THEN 0 ELSE fb.width

CoresAsRead(cpu, threads) == cpu.ids + 1        \* mutant: not held below the threads

Cores(cpu, threads) == IF cpu.ids + 1 > threads THEN threads ELSE cpu.ids + 1

\* The brand string is text and left out.
mcp_scan_cpu(cpu) ==
    LET threads == IF cpu.logical = 0 THEN 1 ELSE cpu.logical
    IN  [cpu_threads |-> threads,
         cpu_cores |-> Cores(cpu, threads),
         simd_level |-> IF cpu.avx2 THEN 2 ELSE IF cpu.avx \/ cpu.sse42 THEN 1 ELSE 0]

------------------------------------------------------------------------------
(***************************************************************************)
(* PCI                                                                     *)
(***************************************************************************)
LegacyAta == 496        \* 0x1F0
Buses == 0 .. 255
CountByte == 256        \* storage_count is a uint8_t

Registers == [class : STRING, bar : Nat, bridge : BOOLEAN, secondary : Buses,
              multifunction : BOOLEAN]

Profile == [visited |-> {0}, todo |-> <<>>, found |-> <<>>, gpu |-> "none",
            gpu_at |-> <<>>, has |-> {}, storage_count |-> 0, ahci_bar5 |-> 0, ata_iobase |-> LegacyAta]

_pci_classify(st, pci, at) ==
    LET c == pci[at].class
    IN  [st EXCEPT
           !.found = Append(@, at),
           !.gpu = IF c # "display" THEN @ ELSE IF @ = "none" THEN "integrated" ELSE "multi",
           !.gpu_at = IF c = "display" /\ st.gpu = "none" THEN at ELSE @,
           !.has = @ \cup {c},
           !.storage_count = IF c \in {"ahci", "nvme"} THEN (@ + 1) % CountByte ELSE @,
           !.ahci_bar5 = IF c = "ahci" /\ @ = 0 THEN pci[at].bar ELSE @,
           !.ata_iobase = IF c # "ide" \/ @ # 0 THEN @
                          ELSE IF pci[at].bar = 0 THEN LegacyAta ELSE pci[at].bar]

FollowsFirst(pci, at) ==                        \* mutant: function 0's bridge only
    at[3] = 0 /\ pci[at].bridge /\ pci[at].secondary \notin {0, at[1]}

Follows(pci, at) == pci[at].bridge /\ pci[at].secondary \notin {0, at[1]}

\* What the loops over a bus's devices and functions find, in their order; the functions
\* behind the first count only where that says there are more.
Answers(pci, at) ==
    LET first == <<at[1], at[2], 0>>
    IN  /\ at \in DOMAIN pci
        /\ at[3] = 0 \/ (first \in DOMAIN pci /\ pci[first].multifunction)

FunctionsOf(pci, bus) ==
    LET n == Devices * Functions
        place(k) == <<bus, (k - 1) \div Functions, (k - 1) % Functions>>
        s[k \in 0 .. n] == IF k = 0 THEN <<>>
                           ELSE IF Answers(pci, place(k)) THEN Append(s[k - 1], place(k))
                           ELSE s[k - 1]
    IN  s[n]

\* The next function is classified; behind a bridge to a bus that _pci_bus_mark has not
\* marked, those of that bus come first.  `todo` is what the recursion of _pci_scan_bus
\* and _pci_scan_device has yet to look at.
ScanFunction(pci, st) ==
    LET at == Head(st.todo)
        bus == pci[at].secondary
        classified == _pci_classify([st EXCEPT !.todo = Tail(@)], pci, at)
    IN  IF st.todo = <<>> THEN st
        ELSE IF Follows(pci, at) /\ bus \notin st.visited
          THEN [classified EXCEPT !.visited = @ \cup {bus}, !.todo = FunctionsOf(pci, bus) \o @]
        ELSE classified

\* No bus is scanned twice, so there are at most as many turns as functions.
mcp_scan_pci(pci) ==
    LET turns == Cardinality(DOMAIN pci)
        st[n \in 0 .. turns] == IF n = 0 THEN [Profile EXCEPT !.todo = FunctionsOf(pci, 0)]
                                ELSE ScanFunction(pci, st[n - 1])
    IN  st[turns]
==============================================================================
