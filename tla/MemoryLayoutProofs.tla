------------------------- MODULE MemoryLayoutProofs -------------------------
(***************************************************************************)
(* The domains are apart and in memory, and a boot through the wizard has  *)
(* this machine's, for every memory map, table size and content the page   *)
(* may have at power-on.                                                   *)
(***************************************************************************)
EXTENDS MemoryLayout, TLAPS

------------------------------------------------------------------------------
(***************************************************************************)
(* Sizes and places are regions, whatever the amount of memory.            *)
(***************************************************************************)
Sizes == [Domains -> Nat]

LEMMA TierType == ASSUME NEW ram PROVE Tier(ram) \in Sizes
<1>. DEFINE Triple(a, g, n) == [ai |-> a, game |-> g, general |-> n]
<1>1. \A a, g, n \in Nat : Triple(a, g, n) \in Sizes
  BY DEF Sizes, Domains
<1>2. \/ Tier(ram) = Triple(64, 32, 32) \/ Tier(ram) = Triple(128, 64, 64)
      \/ Tier(ram) = Triple(256, 96, 96) \/ Tier(ram) = Triple(512, 128, 128)
  BY DEF Tier
<1>. HIDE DEF Triple
<1>. QED  BY <1>1, <1>2

LEMMA BoostedType ==
  ASSUME NEW ram, NEW mode, NEW size \in Sizes PROVE Boosted(size, ram, mode) \in Sizes
BY DEF Boosted, Sizes

LEMMA PlacedType == ASSUME NEW size \in Sizes PROVE Placed(size) \in Config
<1>. SUFFICES ASSUME NEW d \in Domains PROVE Placed(size)[d] \in Region
  BY DEF Placed, Config
<1>1. size["ai"] \in Nat /\ size["game"] \in Nat /\ size[d] \in Nat
  BY DEF Sizes, Domains
<1>. QED  BY <1>1 DEF Placed, Region, Domains

LEMMA WizardConfigType == WizardConfig \in Config
BY TierType, BoostedType, PlacedType DEF WizardConfig, compute_domain_sizes

LEMMA FallbackType == Fallback \in Config
<1>1. [ai |-> 256, game |-> 64, general |-> 64] \in Sizes  BY DEF Sizes, Domains
<1>. QED  BY <1>1, PlacedType DEF Fallback

LEMMA BlankType == Blank \subseteq Config
BY LayoutAssumptions DEF Blank, Config, Region

------------------------------------------------------------------------------
(***************************************************************************)
(* What one store of the wizard leaves.                                    *)
(***************************************************************************)
LEMMA StoreKinds ==
  /\ Len(Stores) = 6
  /\ \A k \in 1 .. 6 : Stores[k][1] \in Domains /\ Stores[k][2] \in {"base", "size"}
BY DEF Stores, Domains

LEMMA StoredType ==
  ASSUME page \in Config, NEW d \in Domains, NEW field PROVE Stored(d, field) \in Config
<1>1. page[d] \in Region /\ WizardConfig[d] \in Region
  BY WizardConfigType DEF Config
<1>2. [page[d] EXCEPT !.base = WizardConfig[d].base] \in Region
  BY <1>1 DEF Region
<1>3. [page[d] EXCEPT !.size = WizardConfig[d].size] \in Region
  BY <1>1 DEF Region
<1>. QED  BY <1>1, <1>2, <1>3 DEF Stored, Config

\* The fields the wizard has stored when it is at step n.
StoredUpTo(n) ==
    /\ n >= 1 => magic
    /\ n >= 2 => page["ai"].base = WizardConfig["ai"].base
    /\ n >= 3 => page["ai"].size = WizardConfig["ai"].size
    /\ n >= 4 => page["game"].base = WizardConfig["game"].base
    /\ n >= 5 => page["game"].size = WizardConfig["game"].size
    /\ n >= 6 => page["general"].base = WizardConfig["general"].base

\* The wizard's whole page reaches the read of the same boot.
PageInv ==
    /\ pc = "write" => StoredUpTo(step)
    /\ pc = "read" /\ ~ ci_mode => magic /\ page = WizardConfig

\* The allocator's three turns start at the first domain.
StepInv ==
    /\ pc \in {"start", "read", "tests", "shell", "halted"} => step = 0
    /\ step \in 0 .. 6

------------------------------------------------------------------------------
LEMMA InitType == Init => TypeOK /\ StepInv
<1>. SUFFICES ASSUME Init PROVE TypeOK /\ StepInv  OBVIOUS
<1>1. page \in Config  BY BlankType DEF Init
<1>2. bcfg \in Config  BY DEF Init, Unset, Config, Region
<1>3. r \in [Domains -> -3 .. 0]
  <2>1. -3 \in -3 .. 0  OBVIOUS
  <2>. QED  BY <2>1 DEF Init
<1>4. domain_table \in Seq(Region)  BY DEF Init
<1>5. step \in 0 .. 6 /\ written \subseteq Nat  BY DEF Init
<1>6. /\ map \in Maps \cup {NoMap} /\ pc = "start" /\ step = 0
      /\ ci_mode \in BOOLEAN /\ magic \in BOOLEAN
  BY DEF Init
<1>. QED  BY <1>1, <1>2, <1>3, <1>4, <1>5, <1>6 DEF TypeOK, StepInv

LEMMA StepType == TypeOK /\ StepInv /\ [Next]_vars => TypeOK' /\ StepInv'
<1>. SUFFICES ASSUME TypeOK, StepInv, [Next]_vars PROVE TypeOK' /\ StepInv'  OBVIOUS
<1>. USE DEF TypeOK, StepInv
<1>1. CASE Start  BY <1>1 DEF Start
<1>2. CASE wz_write_config
  <2>1. page' \in Config
    <3>1. CASE step = 0  BY <1>2, <3>1 DEF wz_write_config
    <3>2. CASE step # 0
      <4>1. step \in 1 .. 6  BY <3>2
      <4>. QED  BY <1>2, <3>2, <4>1, StoreKinds, StoredType DEF wz_write_config
    <3>. QED  BY <3>1, <3>2
  <2>2. magic' \in BOOLEAN  BY <1>2 DEF wz_write_config
  <2>3. /\ step' \in 0 .. 6 /\ pc' \in {"write", "setup", "read", "shell"}
        /\ pc' \in {"read", "shell"} => step' = 0
    BY <1>2, StoreKinds DEF wz_write_config, LastStore
  <2>. QED  BY <1>2, <2>1, <2>2, <2>3 DEF wz_write_config
<1>3. CASE sam_boot_config_read
  BY <1>3, FallbackType DEF sam_boot_config_read
<1>4. CASE AllocDomain
  <2>1. step \in 0 .. 2 /\ Order[step + 1] \in Domains
    BY <1>4 DEF AllocDomain, Order, Domains
  <2>2. bcfg[Order[step + 1]] \in Region  BY <2>1 DEF Config
  <2>3. domain_table' \in Seq(Region) /\ r' \in [Domains -> -3 .. 0]
    BY <1>4, <2>1, <2>2 DEF AllocDomain, domain_alloc
  <2>. QED  BY <1>4, <2>1, <2>3 DEF AllocDomain
<1>5. CASE SelfTests
  <2>1. \A d \in Domains : bcfg[d].base \in Nat  BY DEF Config, Region
  <2>. QED  BY <1>5, <2>1 DEF SelfTests
<1>6. CASE Setup  BY <1>6 DEF Setup
<1>7. CASE Restart
  <2>1. page' \in Config /\ magic' \in BOOLEAN  BY <1>7, BlankType DEF Restart
  <2>2. bcfg' \in Config  BY <1>7 DEF Restart, Unset, Config, Region
  <2>3. r' \in [Domains -> -3 .. 0]
    <3>1. -3 \in -3 .. 0  OBVIOUS
    <3>. QED  BY <1>7, <3>1 DEF Restart
  <2>4. domain_table' \in Seq(Region)  BY <1>7 DEF Restart
  <2>5. step' \in 0 .. 6 /\ written' \subseteq Nat  BY <1>7 DEF Restart
  <2>6. map' = map /\ pc' = "start" /\ step' = 0 /\ ci_mode' \in BOOLEAN
    BY <1>7 DEF Restart
  <2>. QED  BY <2>1, <2>2, <2>3, <2>4, <2>5, <2>6
<1>8. CASE UNCHANGED vars  BY <1>8 DEF vars
<1>. QED  BY <1>1, <1>2, <1>3, <1>4, <1>5, <1>6, <1>7, <1>8 DEF Next

\* The table holds regions and a boot makes three allocations at most, for every map,
\* table size and leftover of the page.
THEOREM LayoutTypeCorrect == Spec => [](TypeOK /\ StepInv)
PROOF BY InitType, StepType, PTL DEF Spec

------------------------------------------------------------------------------
\* The overlap test of domain_alloc says what it should of two regions.
LEMMA ApartCells ==
  ASSUME NEW a \in Region, NEW b \in Region,
         ~ (a.base < b.base + b.size /\ a.base + a.size > b.base)
  PROVE  Cells(a) \cap Cells(b) = {}
BY DEF Cells, Region

\* Domains of one boot do not overlap, even those placed from a page that a reset left
\* half written.
THEOREM DomainsAlwaysApart == Spec => []DomainsApart
PROOF
<1>1. Init => DomainsApart  BY DEF Init, DomainsApart
<1>2. TypeOK /\ StepInv /\ DomainsApart /\ [Next]_vars => DomainsApart'
  <2>. SUFFICES ASSUME TypeOK, StepInv, DomainsApart, [Next]_vars PROVE DomainsApart'
    OBVIOUS
  <2>1. CASE AllocDomain
    <3>. DEFINE region == bcfg[Order[step + 1]]
    <3>1. step \in 0 .. 2 /\ Order[step + 1] \in Domains
      BY <2>1 DEF AllocDomain, TypeOK, Order, Domains
    <3>2. region \in Region  BY <3>1 DEF TypeOK, Config
    <3>3. domain_table \in Seq(Region)  BY DEF TypeOK
    <3>4. CASE domain_table' = domain_table  BY <3>4 DEF DomainsApart
    <3>5. CASE domain_table' = Append(domain_table, region) /\ ~ Overlaps(region)
      <4>. DEFINE n == Len(domain_table)
      <4>1. /\ DOMAIN domain_table' = 1 .. n + 1 /\ domain_table'[n + 1] = region
            /\ \A i \in 1 .. n : domain_table'[i] = domain_table[i]
            /\ DOMAIN domain_table = 1 .. n /\ n \in Nat
        BY <3>2, <3>3, <3>5
      <4>2. \A i \in 1 .. n : Cells(region) \cap Cells(domain_table[i]) = {}
        BY <3>2, <3>3, <3>5, <4>1, ApartCells DEF Overlaps
      <4>. QED  BY <4>1, <4>2 DEF DomainsApart
    <3>6. \/ domain_table' = domain_table
          \/ domain_table' = Append(domain_table, region) /\ ~ Overlaps(region)
      BY <2>1 DEF AllocDomain, domain_alloc
    <3>. QED  BY <3>4, <3>5, <3>6
  <2>2. CASE Restart  BY <2>2 DEF Restart, DomainsApart
  <2>3. CASE UNCHANGED domain_table  BY <2>3 DEF DomainsApart
  <2>. QED
    BY <2>1, <2>2, <2>3
    DEF Next, vars, Start, wz_write_config, sam_boot_config_read, SelfTests, Setup
<1>. QED  BY <1>1, <1>2, LayoutTypeCorrect, PTL DEF Spec

\* An allocated domain is available memory from end to end: the test of both ends is
\* enough because one entry of the map covers them.
THEOREM DomainsAlwaysInRam == Spec => []DomainsInRam
PROOF
<1>1. Init => DomainsInRam  BY DEF Init, DomainsInRam
<1>2. TypeOK /\ StepInv /\ DomainsInRam /\ [Next]_vars => DomainsInRam'
  <2>. SUFFICES ASSUME TypeOK, StepInv, DomainsInRam, [Next]_vars, map' # NoMap
                PROVE  \A i \in DOMAIN domain_table' :
                         \E e \in map' : Cells(domain_table'[i]) \subseteq Cells(e)
    BY DEF DomainsInRam
  <2>1. map' = map
    BY DEF Next, vars, Start, wz_write_config, sam_boot_config_read, AllocDomain,
           SelfTests, Setup, Restart
  <2>2. CASE AllocDomain
    <3>. DEFINE region == bcfg[Order[step + 1]]
    <3>1. step \in 0 .. 2 /\ Order[step + 1] \in Domains
      BY <2>2 DEF AllocDomain, TypeOK, Order, Domains
    <3>2. region \in Region  BY <3>1 DEF TypeOK, Config
    <3>3. domain_table \in Seq(Region)  BY DEF TypeOK
    <3>4. CASE domain_table' = domain_table  BY <2>1, <3>4 DEF DomainsInRam
    <3>5. CASE domain_table' = Append(domain_table, region) /\ InRam(region)
      <4>1. map \in SUBSET Region  BY <2>1, LayoutAssumptions DEF TypeOK
      <4>2. PICK e \in map : /\ e.base <= region.base
                             /\ e.base + e.size >= region.base + region.size
        BY <2>1, <3>5 DEF InRam
      <4>3. Cells(region) \subseteq Cells(e)
        BY <3>2, <4>1, <4>2 DEF Cells, Region
      <4>4. \A i \in DOMAIN domain_table' :
              domain_table'[i] = region \/
              (i \in DOMAIN domain_table /\ domain_table'[i] = domain_table[i])
        BY <3>2, <3>3, <3>5
      <4>. QED  BY <2>1, <4>3, <4>4 DEF DomainsInRam
    <3>6. \/ domain_table' = domain_table
          \/ domain_table' = Append(domain_table, region) /\ InRam(region)
      BY <2>2 DEF AllocDomain
    <3>. QED  BY <3>4, <3>5, <3>6
  <2>3. CASE Restart  BY <2>3 DEF Restart
  <2>4. CASE UNCHANGED domain_table  BY <2>1, <2>4 DEF DomainsInRam
  <2>. QED
    BY <2>2, <2>3, <2>4
    DEF Next, vars, Start, wz_write_config, sam_boot_config_read, SelfTests, Setup
<1>. QED  BY <1>1, <1>2, LayoutTypeCorrect, PTL DEF Spec

------------------------------------------------------------------------------
LEMMA SameConfig ==
  ASSUME NEW a \in Config, NEW b \in Config,
         \A d \in Domains : a[d].base = b[d].base /\ a[d].size = b[d].size
  PROVE  a = b
<1>1. \A d \in Domains : a[d] = b[d]  BY DEF Config, Region
<1>. QED  BY <1>1 DEF Config

\* What a store changes and what it keeps.
LEMMA StoredFields ==
  ASSUME page \in Config, NEW d \in Domains, NEW field \in {"base", "size"}
  PROVE  /\ field = "base" => Stored(d, field)[d].base = WizardConfig[d].base
         /\ field = "base" => Stored(d, field)[d].size = page[d].size
         /\ field = "size" => Stored(d, field)[d].size = WizardConfig[d].size
         /\ field = "size" => Stored(d, field)[d].base = page[d].base
         /\ \A o \in Domains \ {d} : Stored(d, field)[o] = page[o]
<1>1. page[d] \in Region  BY DEF Config
<1>2. Stored(d, field)[d] = IF field = "base"
                              THEN [page[d] EXCEPT !.base = WizardConfig[d].base]
                              ELSE [page[d] EXCEPT !.size = WizardConfig[d].size]
  BY DEF Stored, Config
<1>3. \A o \in Domains \ {d} : Stored(d, field)[o] = page[o]  BY DEF Stored, Config
<1>. QED  BY <1>1, <1>2, <1>3 DEF Region

\* Step by step, a wizard's stores complete the page.
LEMMA WizardStores ==
  ASSUME TypeOK, StepInv, PageInv, wz_write_config
  PROVE  PageInv'
<1>. DEFINE W == WizardConfig
<1>1. W' = W /\ W \in Config
  BY WizardConfigType DEF wz_write_config, WizardConfig, ram_mb
<1>2. /\ "ai" \in Domains /\ "game" \in Domains /\ "general" \in Domains
      /\ \A d \in Domains : d = "ai" \/ d = "game" \/ d = "general"
      /\ page \in Config /\ Len(Stores) = 6
  BY StoreKinds DEF Domains, TypeOK
<1>. HIDE DEF W
<1>3. CASE pc = "setup"
  BY <1>3 DEF wz_write_config, PageInv
<1>4. CASE pc = "write" /\ step = 0
  BY <1>2, <1>4 DEF wz_write_config, LastStore, PageInv, StoredUpTo
<1>5. CASE pc = "write" /\ step \in 1 .. 6
  <2>1. magic /\ magic' = magic
    BY <1>5 DEF wz_write_config, PageInv, StoredUpTo
  <2>2. \A k \in 1 .. 6 : step = k => page' = Stored(Stores[k][1], Stores[k][2])
    BY <1>5 DEF wz_write_config
  <2>3. /\ step < 6 => pc' = "write" /\ step' = step + 1
        /\ step = 6 => pc' = "read"
    BY <1>2, <1>5 DEF wz_write_config, LastStore
  <2>4. CASE step = 1
    <3>1. page' = Stored("ai", "base")
      BY <2>2, <2>4 DEF Stores
    <3>2. /\ page'["ai"].base = W["ai"].base
          /\ page'["ai"].size = page["ai"].size
          /\ \A o \in Domains \ {"ai"} : page'[o] = page[o]
      BY <1>2, <3>1, StoredFields DEF W
    <3>. QED
      BY <1>1, <1>2, <1>5, <2>1, <2>3, <2>4, <3>2 DEF PageInv, StoredUpTo, W
  <2>5. CASE step = 2
    <3>1. page' = Stored("ai", "size")
      BY <2>2, <2>5 DEF Stores
    <3>2. /\ page'["ai"].size = W["ai"].size
          /\ page'["ai"].base = page["ai"].base
          /\ \A o \in Domains \ {"ai"} : page'[o] = page[o]
      BY <1>2, <3>1, StoredFields DEF W
    <3>. QED
      BY <1>1, <1>2, <1>5, <2>1, <2>3, <2>5, <3>2 DEF PageInv, StoredUpTo, W
  <2>6. CASE step = 3
    <3>1. page' = Stored("game", "base")
      BY <2>2, <2>6 DEF Stores
    <3>2. /\ page'["game"].base = W["game"].base
          /\ page'["game"].size = page["game"].size
          /\ \A o \in Domains \ {"game"} : page'[o] = page[o]
      BY <1>2, <3>1, StoredFields DEF W
    <3>. QED
      BY <1>1, <1>2, <1>5, <2>1, <2>3, <2>6, <3>2 DEF PageInv, StoredUpTo, W
  <2>7. CASE step = 4
    <3>1. page' = Stored("game", "size")
      BY <2>2, <2>7 DEF Stores
    <3>2. /\ page'["game"].size = W["game"].size
          /\ page'["game"].base = page["game"].base
          /\ \A o \in Domains \ {"game"} : page'[o] = page[o]
      BY <1>2, <3>1, StoredFields DEF W
    <3>. QED
      BY <1>1, <1>2, <1>5, <2>1, <2>3, <2>7, <3>2 DEF PageInv, StoredUpTo, W
  <2>8. CASE step = 5
    <3>1. page' = Stored("general", "base")
      BY <2>2, <2>8 DEF Stores
    <3>2. /\ page'["general"].base = W["general"].base
          /\ page'["general"].size = page["general"].size
          /\ \A o \in Domains \ {"general"} : page'[o] = page[o]
      BY <1>2, <3>1, StoredFields DEF W
    <3>. QED
      BY <1>1, <1>2, <1>5, <2>1, <2>3, <2>8, <3>2 DEF PageInv, StoredUpTo, W
  <2>9. CASE step = 6
    <3>1. page' = Stored("general", "size")
      BY <2>2, <2>9 DEF Stores
    <3>2. /\ page'["general"].size = W["general"].size
          /\ page'["general"].base = page["general"].base
          /\ \A o \in Domains \ {"general"} : page'[o] = page[o]
      BY <1>2, <3>1, StoredFields DEF W
    <3>3. page' \in Config  BY <1>2, <3>1, StoredType
    <3>4. \A d \in Domains : page'[d].base = W[d].base /\ page'[d].size = W[d].size
      BY <1>2, <1>5, <2>9, <3>2 DEF PageInv, StoredUpTo, W
    <3>5. page' = W  BY <1>1, <3>3, <3>4, SameConfig
    <3>. QED  BY <1>1, <2>1, <2>3, <2>9, <3>5 DEF PageInv, W
  <2>. QED  BY <1>5, <2>4, <2>5, <2>6, <2>7, <2>8, <2>9
<1>. QED  BY <1>3, <1>4, <1>5 DEF wz_write_config, StepInv

\* A boot through the wizard has this machine's domains, because the read comes after
\* the last store of the same boot.
THEOREM WizardBootWhole == Spec => []ConfigOfThisMachine
PROOF
<1>. DEFINE ConfigInv == PageInv /\ ConfigOfThisMachine
<1>1. Init => ConfigInv  BY DEF Init, PageInv, ConfigOfThisMachine
<1>2. TypeOK /\ StepInv /\ ConfigInv /\ [Next]_vars => ConfigInv'
  <2>. SUFFICES ASSUME TypeOK, StepInv, ConfigInv, [Next]_vars PROVE ConfigInv'
    OBVIOUS
  <2>1. WizardConfig' = WizardConfig
    BY DEF Next, vars, Start, wz_write_config, sam_boot_config_read, AllocDomain,
           SelfTests, Setup, Restart, WizardConfig, ram_mb
  <2>2. CASE Start
    BY <2>2 DEF Start, PageInv, StoredUpTo, StepInv, ConfigOfThisMachine
  <2>3. CASE wz_write_config
    <3>1. PageInv'  BY <2>3, WizardStores
    <3>. QED  BY <2>1, <2>3, <3>1 DEF wz_write_config, ConfigOfThisMachine
  <2>4. CASE sam_boot_config_read
    BY <2>1, <2>4 DEF sam_boot_config_read, PageInv, ConfigOfThisMachine
  <2>5. CASE AllocDomain
    BY <2>1, <2>5 DEF AllocDomain, PageInv, ConfigOfThisMachine
  <2>6. CASE SelfTests
    BY <2>1, <2>6 DEF SelfTests, PageInv, ConfigOfThisMachine
  <2>7. CASE Setup
    BY <2>1, <2>7 DEF Setup, PageInv, ConfigOfThisMachine
  <2>8. CASE Restart
    BY <2>8 DEF Restart, PageInv, ConfigOfThisMachine
  <2>9. CASE UNCHANGED vars
    BY <2>1, <2>9 DEF vars, PageInv, StoredUpTo, ConfigOfThisMachine
  <2>. QED
    BY <2>2, <2>3, <2>4, <2>5, <2>6, <2>7, <2>8, <2>9 DEF Next
<1>3. ConfigInv => ConfigOfThisMachine  OBVIOUS
<1>. HIDE DEF ConfigInv
<1>. QED  BY <1>1, <1>2, <1>3, LayoutTypeCorrect, PTL DEF Spec
------------------------------------------------------------------------------
(***************************************************************************)
(* The table holds regions of this boot's configuration and nothing else,  *)
(* and the self-tests' stores are known by that configuration.             *)
(***************************************************************************)
Bases == {bcfg[d].base : d \in Domains}

TableInv ==
    /\ pc \in {"start", "write", "read"} =>
          domain_table = <<>> /\ (\A d \in Domains : r[d] # 0) /\ written = {}
    /\ Allocated \subseteq {bcfg[d] : d \in Domains}
    /\ \A d \in Domains : r[d] = 0 => bcfg[d] \in Allocated
    /\ written \subseteq {2} \cup Bases

\* An allocation enters the region of the domain it is for, or nothing.
LEMMA AllocTable ==
  ASSUME TypeOK, StepInv, TableInv, AllocDomain
  PROVE  TableInv'
<1>. DEFINE d == Order[step + 1]
            region == bcfg[d]
<1>1. d \in Domains /\ region \in Region
  BY DEF AllocDomain, TypeOK, Order, Domains, Config
<1>2. /\ domain_table \in Seq(Region) /\ r \in [Domains -> -3 .. 0]
      /\ bcfg' = bcfg /\ written' = written
  BY DEF AllocDomain, TypeOK
<1>3. \/ domain_table' = domain_table /\ r'[d] # 0
      \/ domain_table' = Append(domain_table, region)
  BY <1>1, <1>2 DEF AllocDomain
<1>4. \A o \in Domains \ {d} : r'[o] = r[o]
  BY <1>1, <1>2 DEF AllocDomain
<1>. HIDE DEF d
<1>5. \/ Allocated' = Allocated /\ r'[d] # 0
      \/ Allocated' = Allocated \cup {region}
  <2>1. CASE domain_table' = domain_table /\ r'[d] # 0
    BY <2>1 DEF Allocated
  <2>2. CASE domain_table' = Append(domain_table, region)
    <3>. DEFINE n == Len(domain_table)
    <3>1. /\ DOMAIN domain_table = 1 .. n /\ n \in Nat
          /\ DOMAIN domain_table' = 1 .. n + 1 /\ domain_table'[n + 1] = region
          /\ \A i \in 1 .. n : domain_table'[i] = domain_table[i]
      BY <1>1, <1>2, <2>2
    <3>. HIDE DEF n
    <3>. QED  BY <3>1 DEF Allocated
  <2>. QED  BY <1>3, <2>1, <2>2
<1>6. pc' \notin {"start", "write", "read"}
  BY DEF AllocDomain
<1>. QED  BY <1>1, <1>2, <1>4, <1>5, <1>6 DEF TableInv, Bases

LEMMA TableStep ==
  ASSUME TypeOK, StepInv, TableInv, [Next]_vars
  PROVE  TableInv'
<1>1. CASE AllocDomain  BY <1>1, AllocTable
<1>2. CASE Restart
  <2>1. Allocated' = {} /\ written' = {} /\ domain_table' = <<>>
    BY <1>2 DEF Restart, Allocated
  <2>2. \A d \in Domains : r'[d] # 0  BY <1>2 DEF Restart
  <2>. QED  BY <2>1, <2>2 DEF TableInv
<1>3. CASE sam_boot_config_read
  <2>1. Allocated' = {} /\ written' = {} /\ r' = r
    BY <1>3 DEF sam_boot_config_read, TableInv, Allocated
  <2>. QED  BY <1>3, <2>1 DEF TableInv, sam_boot_config_read
<1>4. CASE SelfTests
  BY <1>4 DEF SelfTests, TableInv, Allocated, Bases
<1>5. CASE Start \/ wz_write_config \/ Setup \/ UNCHANGED vars
  <2>1. UNCHANGED <<bcfg, domain_table, r, written>>
    BY <1>5 DEF Start, wz_write_config, Setup, vars
  <2>2. pc' \in {"start", "write", "read"} => pc \in {"start", "write", "read"}
    BY <1>5 DEF Start, wz_write_config, Setup, vars
  <2>. QED  BY <2>1, <2>2 DEF TableInv, Allocated, Bases
<1>. QED  BY <1>1, <1>2, <1>3, <1>4, <1>5 DEF Next

LEMMA TableKept == Spec => []TableInv
<1>1. Init => TableInv  BY DEF Init, TableInv, Allocated
<1>. QED  BY <1>1, TableStep, LayoutTypeCorrect, PTL DEF Spec

------------------------------------------------------------------------------
\* The wizard's domains and the defaults as numbers: the AI domain first, at 2 MiB, none
\* of them empty; on a small machine they end below 388 MiB.
LEMMA PlacedFacts ==
  ASSUME NEW size \in Sizes
  PROVE  /\ Placed(size)["ai"] = [base |-> 2, size |-> size["ai"]]
         /\ Placed(size)["game"] = [base |-> 2 + size["ai"], size |-> size["game"]]
         /\ Placed(size)["general"] =
              [base |-> 2 + size["ai"] + size["game"], size |-> size["general"]]
BY DEF Placed, Domains

LEMMA WizardSizes ==
  \E size \in Sizes :
     /\ WizardConfig = Placed(size)
     /\ \A d \in Domains : size[d] > 0
     /\ ram_mb < 1024 => size["ai"] + size["game"] + size["general"] <= 320
<1>. DEFINE ram == ram_mb
            tier == Tier(ram)
            size == Boosted(tier, ram, "general")
<1>1. tier \in Sizes /\ size \in Sizes  BY TierType, BoostedType
<1>2. /\ tier["ai"] \in {64, 128, 256, 512} /\ tier["game"] \in {32, 64, 96, 128}
      /\ tier["general"] \in {32, 64, 96, 128}
      /\ ram < 1024 => /\ tier["ai"] \in {64, 128} /\ tier["game"] \in {32, 64}
                       /\ tier["general"] \in {32, 64}
  BY DEF Tier
<1>3. WizardConfig = Placed(size)  BY DEF WizardConfig, compute_domain_sizes
<1>. HIDE DEF tier, ram
<1>4. /\ size["ai"] = tier["ai"] /\ size["game"] = tier["game"]
      /\ size["general"] \in {tier["general"], 2 * tier["general"]}
  BY DEF Boosted, Domains
<1>. HIDE DEF size
<1>5. \A d \in Domains : size[d] > 0  BY <1>2, <1>4 DEF Domains
<1>6. ram < 1024 => size["ai"] + size["game"] + size["general"] <= 320
  BY <1>2, <1>4
<1>. QED  BY <1>1, <1>3, <1>5, <1>6 DEF ram

LEMMA FallbackSizes ==
  \E size \in Sizes :
     /\ Fallback = Placed(size)
     /\ \A d \in Domains : size[d] > 0
     /\ size["ai"] + size["game"] + size["general"] <= 384
<1>. DEFINE size == [ai |-> 256, game |-> 64, general |-> 64]
<1>1. size \in Sizes /\ \A d \in Domains : size[d] > 0  BY DEF Sizes, Domains
<1>2. Fallback = Placed(size)  BY DEF Fallback
<1>3. size["ai"] + size["game"] + size["general"] <= 384  OBVIOUS
<1>. HIDE DEF size
<1>. QED  BY <1>1, <1>2, <1>3

LEMMA ConfigFacts ==
  ASSUME TypeOK, bcfg \in {WizardConfig, Fallback}
  PROVE  /\ bcfg["ai"].base = 2
         /\ \A d \in Domains : bcfg[d].size > 0
         /\ ram_mb < 1024 => \A d \in Domains : bcfg[d].base + bcfg[d].size <= 386
<1>1. PICK size \in Sizes :
         /\ bcfg = Placed(size)
         /\ \A d \in Domains : size[d] > 0
         /\ ram_mb < 1024 => size["ai"] + size["game"] + size["general"] <= 384
  <2>1. CASE bcfg = WizardConfig
    <3>1. PICK size \in Sizes :
             /\ WizardConfig = Placed(size)
             /\ \A d \in Domains : size[d] > 0
             /\ ram_mb < 1024 => size["ai"] + size["game"] + size["general"] <= 320
      BY WizardSizes
    <3>2. size["ai"] \in Nat /\ size["game"] \in Nat /\ size["general"] \in Nat
      BY DEF Sizes, Domains
    <3>. QED  BY <2>1, <3>1, <3>2
  <2>2. CASE bcfg = Fallback  BY <2>2, FallbackSizes
  <2>. QED  BY <2>1, <2>2
<1>2. size["ai"] \in Nat /\ size["game"] \in Nat /\ size["general"] \in Nat
  BY DEF Sizes, Domains
<1>3. size["ai"] > 0 /\ size["game"] > 0 /\ size["general"] > 0  BY <1>1 DEF Domains
<1>4. /\ bcfg["ai"].base = 2 /\ bcfg["ai"].size = size["ai"]
      /\ bcfg["game"].base = 2 + size["ai"] /\ bcfg["game"].size = size["game"]
      /\ bcfg["general"].base = 2 + size["ai"] + size["game"]
      /\ bcfg["general"].size = size["general"]
  <2>1. /\ bcfg["ai"] = [base |-> 2, size |-> size["ai"]]
        /\ bcfg["game"] = [base |-> 2 + size["ai"], size |-> size["game"]]
        /\ bcfg["general"] = [base |-> 2 + size["ai"] + size["game"], size |-> size["general"]]
    BY <1>1, PlacedFacts
  <2>. QED  BY <2>1
<1>5. \A d \in Domains : d = "ai" \/ d = "game" \/ d = "general"  BY DEF Domains
<1>6. \A d \in Domains : bcfg[d].size > 0  BY <1>3, <1>4, <1>5
<1>7. ASSUME ram_mb < 1024 PROVE \A d \in Domains : bcfg[d].base + bcfg[d].size <= 386
  <2>1. size["ai"] + size["game"] + size["general"] <= 384  BY <1>1, <1>7
  <2>. QED  BY <1>2, <1>4, <1>5, <2>1
<1>. QED  BY <1>4, <1>6, <1>7

\* Below 1 GiB the page-table pool and the task windows are above every domain, whether
\* the boot went through the wizard or fell back to the defaults.
THEOREM SmallMachinesFit == Spec => []SmallMachineLayout
PROOF
<1>1. TypeOK /\ TableInv => SmallMachineLayout
  <2>. SUFFICES ASSUME TypeOK, TableInv, ram_mb < 1024, bcfg \in {WizardConfig, Fallback},
                       NEW region \in UserWindows \cup {VmmPool}, NEW o \in Allocated
                PROVE  region.base >= o.base + o.size
    BY DEF SmallMachineLayout, Above
  <2>1. PICK d \in Domains : o = bcfg[d]  BY DEF TableInv
  <2>2. o.base + o.size <= 386  BY <2>1, ConfigFacts
  <2>3. o \in Region  BY <2>1 DEF TypeOK, Config
  <2>4. region.base \in {388, 400, 405}  BY DEF UserWindows, VmmPool
  <2>. QED  BY <2>2, <2>3, <2>4 DEF Region
<1>. QED  BY <1>1, TableKept, LayoutTypeCorrect, PTL

\* When all three domains were allocated, the self-tests stored inside them only: the
\* address compiled into the benchmark is the AI domain's.
THEOREM TestsStayInDomains == Spec => []TestsInDomains
PROOF
<1>1. TypeOK /\ TableInv => TestsInDomains
  <2>. SUFFICES ASSUME TypeOK, TableInv, bcfg \in {WizardConfig, Fallback},
                       \A d \in Domains : r[d] = 0, NEW m \in written
                PROVE  \E o \in Allocated : m \in Cells(o)
    BY DEF TestsInDomains
  <2>1. \A d \in Domains : bcfg[d] \in Allocated /\ bcfg[d].base \in Cells(bcfg[d])
    <3>. SUFFICES ASSUME NEW d \in Domains
                  PROVE  bcfg[d] \in Allocated /\ bcfg[d].base \in Cells(bcfg[d])
      OBVIOUS
    <3>1. bcfg[d] \in Region /\ bcfg[d].size > 0  BY ConfigFacts DEF TypeOK, Config
    <3>. QED  BY <3>1 DEF TableInv, Cells, Region
  <2>2. \E d \in Domains : m = bcfg[d].base
    <3>1. m = 2 \/ m \in Bases  BY DEF TableInv
    <3>2. "ai" \in Domains /\ bcfg["ai"].base = 2  BY ConfigFacts DEF Domains
    <3>. QED  BY <3>1, <3>2 DEF Bases
  <2>. QED  BY <2>1, <2>2
<1>. QED  BY <1>1, TableKept, LayoutTypeCorrect, PTL
==============================================================================
