------------------------- MODULE AddressSpacesProofs --------------------------
(***************************************************************************)
(* What an address space opens to ring 3, for every pool of pages and      *)
(* every set of bases that BasesAssumption allows.                         *)
(***************************************************************************)
EXTENDS AddressSpaces, TLAPS

\* A space is three pages of the pool that no later call gets: its PML4, and behind it
\* its PDPT and its PD.
Built(s) ==
    /\ s.base \in Bases
    /\ s.cr3 \in Nat /\ s.cr3 + 3 <= vmm_bump
    /\ page[s.cr3] = Pml4(s.cr3 + 1)
    /\ page[s.cr3 + 1] = Pdpt(s.cr3 + 2)
    /\ page[s.cr3 + 2] = Pd(s.base)

TablesInv ==
    /\ vmm_bump \in 0 .. PoolPages
    /\ \A s \in spaces : Built(s)

\* Both outcomes of the three allocations: either they give the next three pages, or
\* what they gave lies at or above the bump pointer and none of it is used.
LEMMA CreateFacts ==
    ASSUME NEW b \in 0 .. PoolPages
    PROVE  /\ BumpAfterCreate(b) \in b .. PoolPages
           /\ CreatedPages(b).pml4 \in {NoPage, b}
           /\ CreatedPages(b).pdpt \in {NoPage} \cup (b .. PoolPages)
           /\ CreatedPages(b).pd \in {NoPage} \cup (b .. PoolPages)
           /\ CreatedCr3(b) # NoPage =>
                  /\ CreatedPages(b) = [pml4 |-> b, pdpt |-> b + 1, pd |-> b + 2]
                  /\ BumpAfterCreate(b) = b + 3
                  /\ {b, b + 1, b + 2} \subseteq Cr3s
  <1> DEFINE b1 == BumpAfterAlloc(b)
             b2 == BumpAfterAlloc(b1)
  <1>1. b1 \in b .. PoolPages /\ (PtFits(b) => b1 = b + 1)
    BY PoolAssumption DEF BumpAfterAlloc, PtFits
  <1>2. b2 \in b1 .. PoolPages /\ (PtFits(b1) => b2 = b1 + 1)
    BY <1>1, PoolAssumption DEF BumpAfterAlloc, PtFits
  <1>3. BumpAfterAlloc(b2) \in b2 .. PoolPages /\ (PtFits(b2) => BumpAfterAlloc(b2) = b2 + 1)
    BY <1>1, <1>2, PoolAssumption DEF BumpAfterAlloc, PtFits
  <1>4. /\ BumpAfterCreate(b) = BumpAfterAlloc(b2)
        /\ CreatedPages(b) = [pml4 |-> AllocatedPt(b), pdpt |-> AllocatedPt(b1),
                              pd |-> AllocatedPt(b2)]
    BY DEF BumpAfterCreate, CreatedPages
  <1> HIDE DEF b1, b2
  <1>5. /\ AllocatedPt(b) \in {NoPage, b} /\ AllocatedPt(b1) \in {NoPage, b1}
        /\ AllocatedPt(b2) \in {NoPage, b2}
    BY DEF AllocatedPt
  <1>6. ASSUME CreatedCr3(b) # NoPage
        PROVE  /\ AllocatedPt(b) = b /\ AllocatedPt(b1) = b + 1 /\ AllocatedPt(b2) = b + 2
               /\ BumpAfterAlloc(b2) = b + 3
    <2>1. AllocatedPt(b) # NoPage /\ AllocatedPt(b1) # NoPage /\ AllocatedPt(b2) # NoPage
      BY <1>4, <1>6 DEF CreatedCr3
    <2>2. PtFits(b) /\ PtFits(b1) /\ PtFits(b2)
      BY <2>1 DEF AllocatedPt
    <2> QED
      BY <1>1, <1>2, <1>3, <1>5, <2>1, <2>2
  <1>7. BumpAfterAlloc(b2) \in b .. PoolPages /\ b1 \in b .. PoolPages /\ b2 \in b .. PoolPages
    BY <1>1, <1>2, <1>3, PoolAssumption
  <1> QED
    BY <1>4, <1>5, <1>6, <1>7, PoolAssumption DEF Cr3s

\* Every call leaves the pages of the spaces there are alone.
LEMMA TablesStep ==
    ASSUME TablesInv, NEW base \in Bases, vmm_create_user_as_at(base)
    PROVE  TablesInv'
  <1> DEFINE p == CreatedPages(vmm_bump)
             zeroed == {p.pml4, p.pdpt, p.pd} \ {NoPage}
             fresh == [q \in Cr3s |-> IF q \in zeroed THEN Zeroed ELSE page[q]]
  <1>1. vmm_bump \in 0 .. PoolPages /\ vmm_bump' = BumpAfterCreate(vmm_bump)
    BY DEF TablesInv, vmm_create_user_as_at
  <1>2. vmm_bump' \in vmm_bump .. PoolPages
    BY <1>1, CreateFacts
  <1>3. \A q \in zeroed : q >= vmm_bump
    BY <1>1, CreateFacts, PoolAssumption
  <1>4. \A q \in 0 .. vmm_bump - 1 : q \in Cr3s /\ fresh[q] = page[q]
    <2> HIDE DEF zeroed
    <2>1. \A q \in 0 .. vmm_bump - 1 : q \in Cr3s /\ q \notin zeroed
      BY <1>1, <1>3, PoolAssumption DEF Cr3s
    <2> QED
      BY <2>1
  <1>5. CASE CreatedCr3(vmm_bump) = NoPage
    <2>1. page' = fresh /\ spaces' = spaces
      BY <1>5 DEF vmm_create_user_as_at
    <2>2. ASSUME NEW s \in spaces PROVE Built(s)'
      <3>1. Built(s)
        BY DEF TablesInv
      <3> HIDE DEF fresh
      <3> QED
        BY <1>1, <1>2, <1>4, <2>1, <3>1 DEF Built
    <2> QED
      BY <1>1, <1>2, <2>1, <2>2 DEF TablesInv
  <1>6. CASE CreatedCr3(vmm_bump) # NoPage
    <2>1. /\ p = [pml4 |-> vmm_bump, pdpt |-> vmm_bump + 1, pd |-> vmm_bump + 2]
          /\ vmm_bump' = vmm_bump + 3
          /\ {vmm_bump, vmm_bump + 1, vmm_bump + 2} \subseteq Cr3s
      BY <1>1, <1>6, CreateFacts
    <2>2. /\ page' = [fresh EXCEPT ![p.pml4] = Pml4(p.pdpt), ![p.pdpt] = Pdpt(p.pd),
                                   ![p.pd] = Pd(base)]
          /\ spaces' = spaces \cup {[cr3 |-> p.pml4, base |-> base]}
      BY <1>6 DEF vmm_create_user_as_at
    <2>3. /\ page' = [fresh EXCEPT ![vmm_bump] = Pml4(vmm_bump + 1),
                                   ![vmm_bump + 1] = Pdpt(vmm_bump + 2),
                                   ![vmm_bump + 2] = Pd(base)]
          /\ spaces' = spaces \cup {[cr3 |-> vmm_bump, base |-> base]}
      BY <2>1, <2>2
    <2>4. DOMAIN fresh = Cr3s
      OBVIOUS
    <2> HIDE DEF fresh, p
    <2>5. /\ page'[vmm_bump] = Pml4(vmm_bump + 1)
          /\ page'[vmm_bump + 1] = Pdpt(vmm_bump + 2)
          /\ page'[vmm_bump + 2] = Pd(base)
          /\ \A q \in 0 .. vmm_bump - 1 : page'[q] = page[q]
      BY <1>1, <1>4, <2>1, <2>3, <2>4
    <2>6. ASSUME NEW s \in spaces PROVE Built(s)'
      <3>1. Built(s)
        BY DEF TablesInv
      <3> QED
        BY <1>1, <2>1, <2>5, <3>1 DEF Built
    <2>7. ASSUME NEW s, s = [cr3 |-> vmm_bump, base |-> base] PROVE Built(s)'
      <3>1. s.cr3 = vmm_bump /\ s.base = base
        BY <2>7
      <3> QED
        BY <1>1, <2>1, <2>5, <3>1 DEF Built
    <2>8. \A s \in spaces' : Built(s)'
      BY <2>3, <2>6, <2>7
    <2> QED
      BY <1>1, <1>2, <2>8 DEF TablesInv
  <1> QED
    BY <1>5, <1>6

\* A page-directory entry maps two MiB.
LEMMA PdIndexFacts ==
    ASSUME NEW m \in 0 .. GiB - 1
    PROVE  /\ m \div GiB = 0
           /\ PdIndex(m) \in Nat
           /\ m = 2 * PdIndex(m) + (m % 2) /\ m % 2 \in {0, 1}
  <1>1. m \in 0 .. 1023
    BY DEF GiB
  <1>2. m \div 1024 = 0
    BY <1>1, Z3
  <1>3. m \div 2 \in 0 .. 511 /\ m = 2 * (m \div 2) + (m % 2) /\ m % 2 \in {0, 1}
    BY <1>1, Z3
  <1>4. (m \div 2) % 512 = m \div 2
    BY <1>3, Z3
  <1> QED
    BY <1>2, <1>3, <1>4 DEF PdIndex, GiB

\* The MiB that the first and the last entry of an unaligned window map.
LEMMA OddWindow ==
    ASSUME NEW m \in Nat, NEW base \in Nat,
           NEW i \in Nat, NEW first \in Nat, NEW last \in Nat,
           m = 2 * i \/ m = 2 * i + 1, base = 2 * first + 1, base + 3 = 2 * last
    PROVE  (i = first \/ i = last) <=> m \in {base - 1, base, base + 3, base + 4}
  OBVIOUS

\* What the two entries of a window open.
LEMMA OpenedFacts ==
    ASSUME TablesInv, NEW s \in spaces
    PROVE  Opened(s.cr3) = IF Aligned(s.base)
                             THEN Window(s.base)
                             ELSE {s.base - 1, s.base, s.base + 3, s.base + 4}
  <1>1. Built(s) /\ s.base \in 392 .. GiB - WindowMiB
    BY BasesAssumption DEF TablesInv, Built
  <1>2. \A m : RingThreeMay(s.cr3, m) <=> m \div GiB \in {0} /\ PdIndex(m) \in UserPd(s.base)
    BY <1>1 DEF Built, RingThreeMay, Pml4, Pdpt, Pd
  <1>3. \A m \in 0 .. GiB - 1 : RingThreeMay(s.cr3, m) <=> PdIndex(m) \in UserPd(s.base)
    BY <1>2, PdIndexFacts
  <1>4. \A m \in 0 .. GiB - 1 :
            RingThreeMay(s.cr3, m) <=>
                PdIndex(m) = PdIndex(s.base) \/ PdIndex(m) = PdIndex(s.base + 3)
    BY <1>3 DEF UserPd, WindowMiB
  <1>5. /\ s.base \in 0 .. GiB - 1 /\ s.base + 3 \in 0 .. GiB - 1
        /\ s.base + 4 \in 0 .. GiB /\ s.base - 1 \in 0 .. GiB - 1
    <2> DEFINE b == s.base
    <2>1. b \in 392 .. 1020 /\ GiB = 1024
      BY <1>1 DEF GiB, WindowMiB
    <2> HIDE DEF b
    <2>2. /\ b \in 0 .. GiB - 1 /\ b + 3 \in 0 .. GiB - 1
          /\ b + 4 \in 0 .. GiB /\ b - 1 \in 0 .. GiB - 1
      BY ONLY <2>1
    <2> QED
      BY <2>2 DEF b
  <1>6. /\ PdIndex(s.base) \in Nat /\ PdIndex(s.base + 3) \in Nat
        /\ s.base = 2 * PdIndex(s.base) + (s.base % 2) /\ s.base % 2 \in {0, 1}
        /\ s.base + 3 = 2 * PdIndex(s.base + 3) + ((s.base + 3) % 2) /\ (s.base + 3) % 2 \in {0, 1}
    BY <1>5, PdIndexFacts
  <1>7. CASE Aligned(s.base)
    <2>1. s.base = 2 * PdIndex(s.base) /\ s.base + 2 = 2 * PdIndex(s.base + 3)
      BY <1>5, <1>6, <1>7 DEF Aligned
    <2>2. ASSUME NEW m \in 0 .. GiB - 1
          PROVE  RingThreeMay(s.cr3, m) <=> m \in Window(s.base)
      <3>1. PdIndex(m) \in Nat /\ m = 2 * PdIndex(m) + (m % 2) /\ m % 2 \in {0, 1}
        BY PdIndexFacts
      <3> QED
        BY <1>4, <1>5, <1>6, <2>1, <3>1 DEF Window, WindowMiB
    <2>3. Window(s.base) \subseteq 0 .. GiB - 1
      BY SMTT(30), <1>1 DEF Window, GiB, WindowMiB
    <2> QED
      BY <1>7, <2>2, <2>3 DEF Opened
  <1>8. CASE ~ Aligned(s.base)
    <2>1. s.base = 2 * PdIndex(s.base) + 1 /\ s.base + 3 = 2 * PdIndex(s.base + 3)
      BY <1>5, <1>6, <1>8 DEF Aligned
    <2>2. ASSUME NEW m \in 0 .. GiB - 1
          PROVE  RingThreeMay(s.cr3, m) <=> m \in {s.base - 1, s.base, s.base + 3, s.base + 4}
      <3>1. PdIndex(m) \in Nat /\ m = 2 * PdIndex(m) + (m % 2) /\ m % 2 \in {0, 1}
        BY PdIndexFacts
      <3> QED
        <4>1. m \in Nat /\ s.base \in Nat /\ (m = 2 * PdIndex(m) \/ m = 2 * PdIndex(m) + 1)
          BY SMTT(30), <1>1, <3>1 DEF GiB, WindowMiB
        <4>2. (PdIndex(m) = PdIndex(s.base) \/ PdIndex(m) = PdIndex(s.base + 3))
                  <=> m \in {s.base - 1, s.base, s.base + 3, s.base + 4}
          <5> DEFINE i == PdIndex(m)
                     first == PdIndex(s.base)
                     last == PdIndex(s.base + 3)
                     b == s.base
          <5>1. /\ i \in Nat /\ first \in Nat /\ last \in Nat /\ b \in Nat
                /\ (m = 2 * i \/ m = 2 * i + 1) /\ b = 2 * first + 1 /\ b + 3 = 2 * last
            BY <1>6, <2>1, <3>1, <4>1
          <5> HIDE DEF i, first, last, b
          <5>2. (i = first \/ i = last) <=> m \in {b - 1, b, b + 3, b + 4}
            BY <4>1, <5>1, OddWindow
          <5> QED
            BY <5>2 DEF i, first, last, b
        <4> QED
          BY <1>4, <4>2
    <2>3. s.base + 4 \in 0 .. GiB - 1
      <3> DEFINE b == s.base
                 first == PdIndex(s.base)
      <3>1. b \in 0 .. GiB - 1 /\ b + 4 \in 0 .. GiB /\ b = 2 * first + 1 /\ first \in Nat
        BY <1>5, <1>6, <2>1
      <3> HIDE DEF b, first
      <3>2. b + 4 \in 0 .. GiB - 1
        BY ONLY <3>1, SMTT(30) DEF GiB
      <3> QED
        BY <3>2 DEF b
    <2> QED
      BY <1>5, <1>8, <2>2, <2>3 DEF Opened
  <1> QED
    BY <1>7, <1>8

\* The tables are as they were built, in every reachable state.
LEMMA TablesKept == Spec => []TablesInv
  <1>1. Init => TablesInv
    BY PoolAssumption DEF Init, TablesInv
  <1>2. TablesInv /\ [Next]_vars => TablesInv'
    <2>1. CASE UNCHANGED vars
      BY <2>1 DEF vars, TablesInv, Built
    <2> QED
      BY <2>1, TablesStep DEF Next
  <1> QED
    BY <1>1, <1>2, PTL DEF Spec

\* An address space built for an aligned base opens that window to ring 3 and nothing
\* else, for good, whatever is allocated later and however the pool runs out.
THEOREM WindowKept == Spec => []WindowExact
  <1>1. TablesInv => WindowExact
    BY OpenedFacts DEF WindowExact
  <1> QED
    BY <1>1, TablesKept, PTL

\* No task reaches the page tables or another task's window, as long as windows lie
\* above the pool and an unaligned one keeps a MiB from the window before it.
THEOREM ResidentsKeptApart == Spec => []ResidentsApart
  <1>1. ASSUME TablesInv PROVE ResidentsApart
    <2>1. \A s \in spaces : s.base \in Bases /\ s.base \in 392 .. 1020
      <3>1. Bases \subseteq 392 .. 1020
        BY BasesAssumption DEF GiB, WindowMiB
      <3>2. \A s \in spaces : s.base \in Bases
        BY <1>1 DEF TablesInv, Built
      <3> SUFFICES ASSUME NEW s \in spaces
                   PROVE  s.base \in Bases /\ s.base \in 392 .. 1020
        OBVIOUS
      <3> DEFINE b == s.base
      <3>3. b \in Bases
        BY <3>2
      <3> HIDE DEF b
      <3>4. b \in 392 .. 1020
        BY ONLY <3>1, <3>3
      <3> QED
        BY <3>3, <3>4 DEF b
    <2>2. \A s \in spaces : Aligned(s.base) => Opened(s.cr3) = Window(s.base)
      BY <1>1, OpenedFacts
    <2>3. \A s \in spaces :
              ~ Aligned(s.base) => Opened(s.cr3) = {s.base - 1, s.base, s.base + 3, s.base + 4}
      BY <1>1, OpenedFacts
    <2>4. \A s \in spaces : ~ Aligned(s.base) => s.base # 392
      BY Z3 DEF Aligned
    <2>5. ASSUME NEW s \in spaces
          PROVE  Opened(s.cr3) \cap PoolMiB = {}
      <3>1. CASE Aligned(s.base)
        <4>1. Opened(s.cr3) = Window(s.base)
          BY <2>2, <3>1
        <4>2. \A m \in Window(s.base) : m >= s.base /\ m \in Int
          <5> DEFINE b == s.base
          <5>1. b \in 392 .. 1020
            BY <2>1
          <5> HIDE DEF b
          <5>2. \A m \in Window(b) : m >= b /\ m \in Int
            BY <5>1 DEF Window, WindowMiB
          <5> QED
            BY <5>2 DEF b
        <4> QED
          BY SMTT(30), <2>1, <4>1, <4>2 DEF PoolMiB
      <3>2. CASE ~ Aligned(s.base)
        <4>1. s.base \in 393 .. 1020
          BY <2>1, <2>4, <3>2
        <4>2. Opened(s.cr3) = {s.base - 1, s.base, s.base + 3, s.base + 4}
          BY <2>3, <3>2
        <4> QED
          BY <4>1, <4>2 DEF PoolMiB
      <3> QED
        BY <3>1, <3>2
    <2>6. ASSUME NEW s \in spaces, NEW r \in spaces,
                 Window(s.base) \cap Window(r.base) = {}
          PROVE  Opened(s.cr3) \cap Window(r.base) = {}
      <3>1. CASE Aligned(s.base)
        BY <2>2, <2>6, <3>1
      <3>2. CASE ~ Aligned(s.base)
        <4> DEFINE b == s.base
                   c == r.base
        <4>1. b \in 392 .. 1020 /\ c \in 392 .. 1020
          BY <2>1
        <4>2. b # c + 4
          BY SMTT(30), <2>1, <3>2, BasesAssumption DEF WindowMiB
        <4>3. c # b + 4
          <5>1. c = b + 4 => Aligned(c)
            BY SMTT(30), <2>1, BasesAssumption DEF WindowMiB
          <5>2. c = b + 4 => (Aligned(c) <=> Aligned(b))
            <6> HIDE DEF b, c
            <6> QED
              BY ONLY <4>1, SMTT(30) DEF Aligned
          <5> QED
            BY <3>2, <5>1, <5>2
        <4>4. b \notin c .. c + 3 /\ c \notin b .. b + 3
          BY <2>6, <4>1 DEF Window, WindowMiB
        <4>5. Opened(s.cr3) = {b - 1, b, b + 3, b + 4}
          BY <2>3, <3>2
        <4>6. Window(r.base) = c .. c + 3
          BY <4>1 DEF Window, WindowMiB
        <4> HIDE DEF b, c
        <4>7. \A m \in {b - 1, b, b + 3, b + 4} : m \notin c .. c + 3
          BY <4>1, <4>2, <4>3, <4>4
        <4> QED
          BY <4>5, <4>6, <4>7
      <3> QED
        BY <3>1, <3>2
    <2> QED
      BY <2>5, <2>6 DEF ResidentsApart
  <1> QED
    BY <1>1, TablesKept, PTL
==============================================================================
