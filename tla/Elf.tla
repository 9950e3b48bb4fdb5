--------------------------------- MODULE Elf ----------------------------------
(***************************************************************************)
(* The ELF loader, kernel/elf.h.  An image is what its headers say; its    *)
(* bytes are known by their place: byte n of a file that starts at `at` is *)
(* at + n.  Memory maps addresses to such bytes, ZERO, or what was there.  *)
(***************************************************************************)
EXTENDS Integers, SequencesExt

CONSTANTS
    EhdrSize, PhdrSize  \* 64 and 56 in the code

ASSUME ElfAssumptions == EhdrSize \in Nat \ {0} /\ PhdrSize \in Nat \ {0}

ZERO == -1              \* a byte the loader has cleared

Headers == [load : BOOLEAN, vaddr : Nat, offset : Nat, filesz : Nat, memsz : Nat]
Images == [ident : BOOLEAN, phoff : Nat, phentsize : Nat, phs : Seq(Headers)]

\* The bytes of one segment: the file's, then zeroes.
CopiedNoZero(mem, at, ph) ==                    \* mutant: the rest of the segment is left
    [a \in DOMAIN mem |->
        IF a \in ph.vaddr .. ph.vaddr + ph.filesz - 1 THEN at + ph.offset + (a - ph.vaddr)
        ELSE mem[a]]

Copied(mem, at, ph) ==
    [a \in DOMAIN mem |->
        IF a \in ph.vaddr .. ph.vaddr + ph.filesz - 1 THEN at + ph.offset + (a - ph.vaddr)
        ELSE IF a \in ph.vaddr + ph.filesz .. ph.vaddr + ph.memsz - 1 THEN ZERO
        ELSE mem[a]]

\* What one turn of the loop over the program headers returns, 0 to go on.
HeaderError(img, size, lo, hi, i) ==
    LET ph == img.phs[i]
    IN  IF img.phoff + (i - 1) * img.phentsize + PhdrSize > size THEN -4
        ELSE IF ~ ph.load THEN 0
        ELSE IF ph.vaddr < lo \/ ph.vaddr + ph.memsz > hi THEN -3
        ELSE IF ph.offset + ph.filesz > size THEN -4
        ELSE 0

Segment(img, size, at, lo, hi, st, i) ==
    LET ret == HeaderError(img, size, lo, hi, i)
    IN  IF st.ret # 0 \/ (ret = 0 /\ ~ img.phs[i].load) THEN st
        ELSE IF ret # 0 THEN [st EXCEPT !.ret = ret]
        ELSE [ret |-> 0, loaded |-> st.loaded + 1, mem |-> Copied(st.mem, at, img.phs[i])]

\* The checks before the loop; ident stands for the magic, class, byte order, type and
\* machine.
FileError(img, size) ==
    IF size < EhdrSize \/ ~ img.ident THEN -1
    ELSE IF img.phs = <<>> \/ img.phoff = 0 THEN -2
    ELSE IF img.phoff + Len(img.phs) * img.phentsize > size THEN -4
    ELSE 0

elf_load_in(img, size, at, mem, lo, hi) ==
    LET n == Len(img.phs)
        st[i \in 0 .. n] ==
            IF i = 0 THEN [ret |-> FileError(img, size), loaded |-> 0, mem |-> mem]
            ELSE Segment(img, size, at, lo, hi, st[i - 1], i)
    IN  IF st[n].ret = 0 /\ st[n].loaded = 0 THEN [st[n] EXCEPT !.ret = -2] ELSE st[n]
==============================================================================
