--------------------------------- MODULE Vmm ---------------------------------
(***************************************************************************)
(* kernel/vmm.h as operators: the bump allocator that hands out page-table *)
(* pages, and which memory a task address space opens to ring 3.           *)
(*                                                                         *)
(* A pool page is named by its index (address - VMM_POOL_BASE) / 4 KiB, so *)
(* vmm_bump counts the pages handed out.  An address space is named by the *)
(* index of its PML4 page, which is what the task's CR3 holds.  Memory is  *)
(* counted in MiB: every address the code passes is MiB aligned, and a     *)
(* page-directory entry maps two MiB.                                      *)
(***************************************************************************)
EXTENDS Integers

CONSTANT PoolPages      \* VMM_POOL_SIZE / 4 KiB (1024 in the code)

ASSUME PoolAssumption == PoolPages \in Nat

NoPage == -1            \* the null pointer vmm_alloc_pt and its callers return
KernelCr3 == -2         \* pml4_table, the boot address space
AsPages == 3            \* one PML4, one PDPT, one PD

Cr3s == 0 .. PoolPages - 1

(***************************************************************************)
(* vmm_alloc_pt: the page returned when the bump pointer is b, and the     *)
(* bump pointer afterwards.  A failing call leaves the pointer alone.      *)
(***************************************************************************)
PtFits(b) == b + 1 <= PoolPages
AllocatedPt(b) == IF PtFits(b) THEN b ELSE NoPage
BumpKeepsLast(b) == IF b + 1 < PoolPages THEN b + 1 ELSE b  \* mutant: last page twice
BumpAfterAlloc(b) == IF PtFits(b) THEN b + 1 ELSE b

(***************************************************************************)
(* The three allocations of vmm_create_user_as_at happen before any of     *)
(* them is tested: a call that fails keeps the pages it did get.           *)
(***************************************************************************)
BumpAfterCreate(b) == BumpAfterAlloc(BumpAfterAlloc(BumpAfterAlloc(b)))

CreatedPages(b) ==
    LET b1 == BumpAfterAlloc(b)
        b2 == BumpAfterAlloc(b1)
    IN  [pml4 |-> AllocatedPt(b), pdpt |-> AllocatedPt(b1), pd |-> AllocatedPt(b2)]

CreatedCr3(b) ==
    LET p == CreatedPages(b)
    IN  IF NoPage \in {p.pml4, p.pdpt, p.pd} THEN NoPage ELSE p.pml4

(***************************************************************************)
(* The page directory of the first GiB: MiB m is mapped by entry m \div 2, *)
(* and the entries of the first and of the last byte of the window get the *)
(* user bit.                                                               *)
(***************************************************************************)
GiB == 1024
WindowMiB == 4
PdIndex(m) == (m \div 2) % 512
UserPdPastEnd(base) == {PdIndex(base), PdIndex(base + WindowMiB)}   \* mutant: no "- 1"
UserPd(base) == {PdIndex(base), PdIndex(base + WindowMiB - 1)}

Window(base) == base .. base + WindowMiB - 1
==============================================================================
