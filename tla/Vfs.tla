--------------------------------- MODULE Vfs ----------------------------------
(***************************************************************************)
(* The initial RAM disk, kernel/vfs.h.  An archive is a sequence of blocks *)
(* and a size in bytes that may cut the last ones off; a block is all      *)
(* zero, a header, or a file's data, whose bytes are known by their        *)
(* offsets.                                                                *)
(***************************************************************************)
EXTENDS Integers, SequencesExt

CONSTANTS
    BlockSize,          \* 512 in the code
    VFS_MAX_FILES,      \* 16
    VFS_NAME_MAX        \* 100: the length of a header's name field

ASSUME VfsAssumptions ==
    BlockSize \in Nat \ {0} /\ VFS_MAX_FILES \in Nat \ {0} /\ VFS_NAME_MAX \in Nat \ {0}

Smaller(m, n) == IF m < n THEN m ELSE n

Padded(size) == (size + BlockSize - 1) \div BlockSize

\* The entry for the header in block k: its name from the root and at most
\* VFS_NAME_MAX characters long, its data cut at the end of the archive.
EntryUncut(ar, k) ==                            \* mutant: the archive's end is ignored
    LET h == ar.blocks[k + 1]
    IN  [name |-> <<"/">> \o SubSeq(h.name, 1, Smaller(Len(h.name), VFS_NAME_MAX - 1)),
         data |-> (k + 1) * BlockSize,
         size |-> h.size]

Entry(ar, k) ==
    LET h == ar.blocks[k + 1]
        data == (k + 1) * BlockSize
    IN  [name |-> <<"/">> \o SubSeq(h.name, 1, Smaller(Len(h.name), VFS_NAME_MAX - 1)),
         data |-> data,
         size |-> Smaller(h.size, ar.size - data)]

TableFull(files) == Len(files) >= VFS_MAX_FILES

\* One turn of vfs_init's loop, at block st.k with the files registered so far; a block
\* that is neither zero nor has the magic is "data".
Turn(ar, st) ==
    LET h == ar.blocks[st.k + 1]
        Stop(ret) == [st EXCEPT !.over = TRUE, !.ret = ret]
    IN  IF st.over THEN st
        ELSE IF (st.k + 1) * BlockSize > ar.size \/ h.kind = "zero" THEN Stop(Len(st.files))
        ELSE IF h.kind = "data" THEN Stop(IF st.files = <<>> THEN -2 ELSE Len(st.files))
        ELSE IF h.regular /\ TableFull(st.files) THEN Stop(-3)
        ELSE [st EXCEPT !.k = @ + 1 + Padded(h.size),
                        !.files = IF h.regular THEN Append(@, Entry(ar, st.k)) ELSE @]

\* A turn goes on by a block at least, so there are no more turns than blocks.
vfs_init(ar) ==
    LET turns == Len(ar.blocks)
        st[n \in 0 .. turns] ==
            IF n = 0 THEN [over |-> ar.size < BlockSize, ret |-> -1, k |-> 0, files |-> <<>>]
            ELSE Turn(ar, st[n - 1])
    IN  [ret |-> st[turns].ret, files |-> st[turns].files]

vfs_lookup(files, name) == SelectInSeq(files, LAMBDA f : f.name = name)

\* A handle, closed when its fd is 0.
vfs_open(files, name) == [fd |-> vfs_lookup(files, name), pos |-> 0]

\* How many bytes a read of len stores; they are those from the handle's position on.
vfs_read(files, h, len) ==
    IF h.fd = 0 THEN -1
    ELSE IF h.pos >= files[h.fd].size THEN 0
    ELSE Smaller(len, files[h.fd].size - h.pos)
==============================================================================
