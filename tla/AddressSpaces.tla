---------------------------- MODULE AddressSpaces ----------------------------
(***************************************************************************)
(* kernel/vmm.h as a component: the page-table pool, the tables written    *)
(* into it by vmm_create_user_as_at, and the walk the MMU makes of them    *)
(* for a ring-3 access.  Address spaces are only ever created: no function *)
(* of the kernel gives a page back.                                        *)
(***************************************************************************)
EXTENDS Vmm, FiniteSets

CONSTANT Bases          \* the window bases, in MiB, that callers pass

PoolMiB == 388 .. 391   \* VMM_POOL_BASE .. + VMM_POOL_SIZE
Aligned(base) == base % 2 = 0

\* Windows lie above the pool, and one that begins where another ends is aligned: the
\* callers' bases are 400 and 405.
ASSUME BasesAssumption ==
    /\ Bases \subseteq 392 .. GiB - WindowMiB
    /\ \A a, b \in Bases : a = b + WindowMiB => Aligned(a)

VARIABLES
    vmm_bump,           \* pages handed out
    page,               \* contents of the pool's pages
    spaces              \* the address spaces returned to callers

vars == <<vmm_bump, page, spaces>>

(***************************************************************************)
(* What a page holds: a PML4 whose entry 0 points at a PDPT, a PDPT whose  *)
(* entry 0 points at a PD (its entries 1..3 are the boot tables with the   *)
(* user bit stripped), or a PD with the set of entries open to ring 3.     *)
(***************************************************************************)
Zeroed == [kind |-> "zero", next |-> NoPage, user |-> {}]
Pml4(pdpt) == [kind |-> "pml4", next |-> pdpt, user |-> {0}]
Pdpt(pd) == [kind |-> "pdpt", next |-> pd, user |-> {0}]
Pd(base) == [kind |-> "pd", next |-> NoPage, user |-> UserPd(base)]

Init ==                                         \* vmm_init
    /\ vmm_bump = 0
    /\ page = [p \in Cr3s |-> Zeroed]
    /\ spaces = {}

(***************************************************************************)
(* vmm_create_user_as_at(base): three zeroed pages, filled in only when    *)
(* all three were there.                                                   *)
(***************************************************************************)
vmm_create_user_as_at(base) ==
    LET p == CreatedPages(vmm_bump)
        zeroed == {p.pml4, p.pdpt, p.pd} \ {NoPage}
        fresh == [q \in Cr3s |-> IF q \in zeroed THEN Zeroed ELSE page[q]]
    IN  /\ vmm_bump' = BumpAfterCreate(vmm_bump)
        /\ IF CreatedCr3(vmm_bump) = NoPage
             THEN /\ page' = fresh
                  /\ UNCHANGED spaces
             ELSE /\ page' = [fresh EXCEPT ![p.pml4] = Pml4(p.pdpt),
                                           ![p.pdpt] = Pdpt(p.pd),
                                           ![p.pd] = Pd(base)]
                  /\ spaces' = spaces \cup {[cr3 |-> p.pml4, base |-> base]}

Next == \E base \in Bases : vmm_create_user_as_at(base)

Spec == Init /\ [][Next]_vars

(***************************************************************************)
(* The MMU's walk for a ring-3 access to MiB m of the first GiB: every     *)
(* level has to permit it.  Addresses above the first GiB go through the   *)
(* stripped entries of the PDPT and are refused.                           *)
(***************************************************************************)
RingThreeMay(cr3, m) ==
    LET pdpt == page[cr3].next
        pd == page[pdpt].next
    IN  /\ page[cr3].kind = "pml4"
        /\ page[pdpt].kind = "pdpt"
        /\ m \div GiB \in page[pdpt].user
        /\ page[pd].kind = "pd"
        /\ PdIndex(m) \in page[pd].user

Opened(cr3) == {m \in 0 .. GiB - 1 : RingThreeMay(cr3, m)}

------------------------------------------------------------------------------
\* vmm_create_user_as_at's contract (vmm.h:54): an address space built for a
\* 2 MiB aligned base opens that window to ring 3 and nothing else, and goes on
\* doing so however many address spaces are created, or fail to be, later.
WindowExact ==
    \A s \in spaces : Aligned(s.base) => Opened(s.cr3) = Window(s.base)

\* Tasks resident together, whose windows do not meet, cannot reach each other's
\* window, and none reaches the page tables: also at an unaligned base.
ResidentsApart ==
    \A s \in spaces :
        /\ Opened(s.cr3) \cap PoolMiB = {}
        /\ \A r \in spaces :
               Window(s.base) \cap Window(r.base) = {}
                   => Opened(s.cr3) \cap Window(r.base) = {}
==============================================================================
