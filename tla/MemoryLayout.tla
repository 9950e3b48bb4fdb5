---------------------------- MODULE MemoryLayout ----------------------------
(***************************************************************************)
(* Physical memory from boot to boot: the configuration page at 0x7000     *)
(* that the wizard writes (kernel/wizard.h), the three domains placed from *)
(* it (kernel/boot_config.h, kernel/main.c), and the regions other         *)
(* components keep at fixed addresses.  The page survives a warm reset,    *)
(* which may come between any two stores; a boot in CI mode reads it       *)
(* without having written it.                                              *)
(*                                                                         *)
(* Addresses and sizes are in MiB.                                         *)
(***************************************************************************)
EXTENDS Integers, Sequences, FiniteSetsExt

CONSTANTS
    Maps,               \* multiboot memory maps: sets of available regions
    NoMap,              \* the loader passed no memory map
    Leftovers,          \* what a field of the page may hold at power-on
    MAX_DOMAINS         \* 8 in the code

Region == [base : Nat, size : Nat]

ASSUME LayoutAssumptions ==
    /\ \A m \in Maps : m \in SUBSET Region
    /\ Leftovers \subseteq Nat
    /\ MAX_DOMAINS \in Nat

VARIABLES
    map,                \* this machine's memory map
    page,               \* the configuration page's regions
    magic,              \* its magic number is right
    pc,                 \* where the boot is
    step,               \* stores or allocations done there
    ci_mode,            \* this boot skips the wizard
    bcfg,               \* kernel_main's copy of the page
    domain_table,       \* domain_table[0 .. domain_count - 1]
    r,                  \* r_ai, r_game, r_general
    written             \* history: MiB this boot's self-tests wrote to

vars == <<map, page, magic, pc, step, ci_mode, bcfg, domain_table, r, written>>

Domains == {"ai", "game", "general"}
Order == <<"ai", "game", "general">>
Config == [Domains -> Region]

Cells(region) == region.base .. region.base + region.size - 1

------------------------------------------------------------------------------
(***************************************************************************)
(* Sizes and places                                                        *)
(***************************************************************************)

\* The available RAM, zero without a map.
mcp_scan_ram(m) == IF m = NoMap THEN 0 ELSE MapThenSumSet(LAMBDA e : e.size, m)
ram_mb == mcp_scan_ram(map)

TierGenerous(ram) ==                            \* mutant: the tiers a step too low
    IF ram < 512 THEN [ai |-> 128, game |-> 64, general |-> 64]
    ELSE [ai |-> 256, game |-> 96, general |-> 96]

Tier(ram) ==
    IF ram < 512 THEN [ai |-> 64, game |-> 32, general |-> 32]
    ELSE IF ram < 1024 THEN [ai |-> 128, game |-> 64, general |-> 64]
    ELSE IF ram < 2048 THEN [ai |-> 256, game |-> 96, general |-> 96]
    ELSE [ai |-> 512, game |-> 128, general |-> 128]

Boosted(size, ram, mode) ==
    [d \in Domains |-> IF ram >= 512 /\ d = mode THEN 2 * size[d] ELSE size[d]]

PlacedHigher(size) ==                           \* mutant: moved off AI_DOMAIN_BASE
    [d \in Domains |->
        [base |-> CASE d = "ai" -> 4
                    [] d = "game" -> 4 + size["ai"]
                    [] d = "general" -> 4 + size["ai"] + size["game"],
         size |-> size[d]]]

Placed(size) ==
    [d \in Domains |->
        [base |-> CASE d = "ai" -> 2
                    [] d = "game" -> 2 + size["ai"]
                    [] d = "general" -> 2 + size["ai"] + size["game"],
         size |-> size[d]]]

compute_domain_sizes(ram, mode) == Placed(Boosted(Tier(ram), ram, mode))

\* The wizard's choice, and kernel_main's defaults.
WizardConfig == compute_domain_sizes(ram_mb, "general")
Fallback == Placed([ai |-> 256, game |-> 64, general |-> 64])

\* Fixed addresses: page tables (vmm.h), the two task windows (main.c).
VmmPool == [base |-> 388, size |-> 4]
UserWindows == {[base |-> 400, size |-> 4], [base |-> 405, size |-> 4]}

------------------------------------------------------------------------------
Blank == {[d \in Domains |-> [base |-> g, size |-> g]] : g \in Leftovers}
Unset == [d \in Domains |-> [base |-> 0, size |-> 0]]

Init ==
    /\ map \in Maps \cup {NoMap}
    /\ page \in Blank /\ magic = FALSE
    /\ pc = "start" /\ step = 0 /\ ci_mode = FALSE
    /\ bcfg = Unset /\ domain_table = <<>> /\ r = [d \in Domains |-> -3]
    /\ written = {}

\* The command line says whether this boot runs the wizard.
Start ==
    /\ pc = "start"
    /\ ci_mode' \in BOOLEAN
    /\ pc' = IF ci_mode' THEN "read" ELSE "write"
    /\ UNCHANGED <<map, page, magic, step, bcfg, domain_table, r, written>>

\* wz_write_config, one store at a time: the magic, then each base and size.
StoresNoSize ==                                 \* mutant: the last size is not stored
    <<<<"ai", "base">>, <<"ai", "size">>, <<"game", "base">>, <<"game", "size">>,
      <<"general", "base">>>>

Stores ==
    <<<<"ai", "base">>, <<"ai", "size">>, <<"game", "base">>, <<"game", "size">>,
      <<"general", "base">>, <<"general", "size">>>>

Stored(d, field) ==
    [page EXCEPT ![d] = IF field = "base" THEN [@ EXCEPT !.base = WizardConfig[d].base]
                                          ELSE [@ EXCEPT !.size = WizardConfig[d].size]]

LastStoreLate == step > Len(Stores)             \* mutant: one store too many
LastStore == step = Len(Stores)

wz_write_config ==
    /\ pc \in {"write", "setup"}
    /\ IF step = 0
         THEN magic' = TRUE /\ UNCHANGED page
         ELSE page' = Stored(Stores[step][1], Stores[step][2]) /\ UNCHANGED magic
    /\ IF LastStore
         THEN step' = 0 /\ pc' = IF pc = "write" THEN "read" ELSE "shell"
         ELSE step' = step + 1 /\ UNCHANGED pc
    /\ UNCHANGED <<map, ci_mode, bcfg, domain_table, r, written>>

sam_boot_config_read ==
    /\ pc = "read"
    /\ bcfg' = IF magic THEN page ELSE Fallback
    /\ pc' = "alloc"
    /\ UNCHANGED <<map, page, magic, step, ci_mode, domain_table, r, written>>

\* DOMAIN_IN_RAM: covered by one available entry; trusted without a map.
InRamAtBase(region) ==                          \* mutant: the end is not looked at
    map = NoMap \/ \E e \in map : e.base <= region.base /\ region.base < e.base + e.size

InRam(region) ==
    map = NoMap \/ \E e \in map : /\ e.base <= region.base
                                  /\ e.base + e.size >= region.base + region.size

OverlapsLast(region) ==                         \* mutant: compares with one entry only
    LET n == Len(domain_table) IN
    n > 0 /\ region.base < domain_table[n].base + domain_table[n].size
          /\ region.base + region.size > domain_table[n].base

Overlaps(region) ==
    \E i \in DOMAIN domain_table :
        /\ region.base < domain_table[i].base + domain_table[i].size
        /\ region.base + region.size > domain_table[i].base

\* domain_alloc's result; 0 enters the region into the table.
domain_alloc(region) ==
    IF Len(domain_table) >= MAX_DOMAINS THEN -1 ELSE IF Overlaps(region) THEN -2 ELSE 0

\* One of kernel_main's three calls, or the warning instead of it.
AllocDomain ==
    /\ pc = "alloc"
    /\ LET d == Order[step + 1]
           result == IF InRam(bcfg[d]) THEN domain_alloc(bcfg[d]) ELSE -3
       IN  /\ r' = [r EXCEPT ![d] = result]
           /\ domain_table' = IF result = 0 THEN Append(domain_table, bcfg[d])
                                            ELSE domain_table
    /\ IF step < 2 THEN step' = step + 1 /\ UNCHANGED pc
                   ELSE step' = 0 /\ pc' = "tests"
    /\ UNCHANGED <<map, page, magic, ci_mode, bcfg, written>>

\* The benchmark works at AI_DOMAIN_BASE, and both rounds of sentinels are stored in
\* the first MiB of every domain of the configuration.
SelfTests ==
    /\ pc = "tests"
    /\ written' = {2} \cup {bcfg[d].base : d \in Domains}
    /\ pc' = IF ci_mode THEN "halted" ELSE "shell"
    /\ UNCHANGED <<map, page, magic, step, ci_mode, bcfg, domain_table, r>>

\* The shell's setup command runs the wizard again.
Setup ==
    /\ pc = "shell"
    /\ pc' = "setup"
    /\ UNCHANGED <<map, page, magic, step, ci_mode, bcfg, domain_table, r, written>>

\* A reset keeps the page, a power cycle does not; everything else starts afresh.
Restart ==
    /\ pc # "start"
    /\ \/ UNCHANGED <<page, magic>>
       \/ page' \in Blank /\ magic' = FALSE
    /\ pc' = "start" /\ step' = 0 /\ ci_mode' = FALSE
    /\ bcfg' = Unset /\ domain_table' = <<>> /\ r' = [d \in Domains |-> -3]
    /\ written' = {}
    /\ UNCHANGED map

Next ==
    \/ Start \/ wz_write_config \/ sam_boot_config_read \/ AllocDomain
    \/ SelfTests \/ Setup \/ Restart

Spec == Init /\ [][Next]_vars

------------------------------------------------------------------------------
\* The types of the variables; a boot makes three allocations at most.
TypeOK ==
    /\ map \in Maps \cup {NoMap}
    /\ page \in Config /\ magic \in BOOLEAN
    /\ pc \in {"start", "write", "read", "alloc", "tests", "shell", "setup", "halted"}
    /\ step \in 0 .. 6 /\ (pc \in {"write", "setup"} \/ step <= 2)
    /\ ci_mode \in BOOLEAN
    /\ bcfg \in Config
    /\ domain_table \in Seq(Region)
    /\ r \in [Domains -> -3 .. 0]
    /\ written \subseteq Nat

\* No MiB belongs to two domains, even when the page was torn by a reset while the
\* wizard stored it.
DomainsApart ==
    \A i, j \in DOMAIN domain_table :
        i # j => Cells(domain_table[i]) \cap Cells(domain_table[j]) = {}

\* Every domain that was allocated is available memory from end to end.
DomainsInRam ==
    map # NoMap =>
        \A i \in DOMAIN domain_table :
            \E e \in map : Cells(domain_table[i]) \subseteq Cells(e)

\* A boot through the wizard has the domains of this machine, whatever resets and
\* unfinished stores came before.
ConfigOfThisMachine ==
    ~ ci_mode /\ pc \in {"alloc", "tests", "shell", "setup"} => bcfg = WizardConfig

Above(region, others) == \A o \in others : region.base >= o.base + o.size
Allocated == {domain_table[i] : i \in DOMAIN domain_table}

\* Below 1 GiB of RAM, which is what the memory layout was drawn for, the page-table
\* pool and the task windows are above all domains, wizard or not.
SmallMachineLayout ==
    ram_mb < 1024 /\ bcfg \in {WizardConfig, Fallback} =>
        \A region \in UserWindows \cup {VmmPool} : Above(region, Allocated)

\* The self-tests store at an address compiled in and at the configured bases; when a
\* boot with the wizard's domains or the defaults got all three, every store is inside
\* one of them.
TestsInDomains ==
    bcfg \in {WizardConfig, Fallback} /\ (\A d \in Domains : r[d] = 0) =>
        written \subseteq UNION {Cells(o) : o \in Allocated}
==============================================================================
