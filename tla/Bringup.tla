------------------------------- MODULE Bringup --------------------------------
(***************************************************************************)
(* What kernel_main (kernel/main.c) reads on its way up, in its order: the *)
(* firmware's tables, the boot loader's tags, the processor, the PCI       *)
(* buses, the model file, the initial RAM disk, and from then on the       *)
(* programs loaded from it.  `in` and `out` are the argument and the       *)
(* result of the call just made; the next stage forgets them.              *)
(***************************************************************************)
EXTENDS Mcp, Acpi, Simd, Stf, Vfs, Elf, Args

CONSTANTS
    Firmwares, Infos, Cpus, Pcis, Products, Models,     \* what the calls may meet
    Tars,               \* the RAM disk: [members, cut], see Tar
    Programs,           \* names of programs to run
    Windows,            \* <<lo, hi>> of the task windows
    Addresses,          \* the memory programs are loaded to
    Lines,              \* what is typed behind "run"
    StackLow, StackTop, \* the stack's first cell, and where it ends
    StageMax            \* 1 MiB: the buffer an image is read to

Int8 == -128 .. 127     \* int8_t
Stack == StackLow .. StackTop - 1

\* An RSDP leads to a root table, or nowhere; what a root table's pointers below 4 GiB
\* lead to can be read, and a MADT has the fields of one.
ASSUME FirmwareAssumption ==
    \A fw \in Firmwares :
        /\ fw.ebda_ok \in BOOLEAN /\ fw.ebda \in Seq(Rsdps) /\ fw.rom \in Seq(Rsdps)
        /\ \A r \in ToSet(fw.ebda) \cup ToSet(fw.rom) : Valid(r) /\ RootAt(r) # 0 =>
              LET root == fw.mem[RootAt(r)]
              IN  /\ root.sum \in BOOLEAN /\ root.ptrs \in Seq(Nat)
                  /\ \A p \in ToSet(root.ptrs) : p # 0 /\ p <= AddressLimit => p \in DOMAIN fw.mem
        /\ \A p \in DOMAIN fw.mem : fw.mem[p].sig = "APIC" => fw.mem[p] \in Madts

\* The boot loader's tags end with the end tag.
ASSUME TagAssumption ==
    \A info \in Infos : /\ info \in Seq(Tags)
                        /\ info # <<>> /\ info[Len(info)].type = "end"

\* A PCI configuration has what answers on the buses there can be.
ASSUME PciAssumption ==
    \A pci \in Pcis :
        /\ DOMAIN pci \subseteq Buses \X (0 .. Devices - 1) \X (0 .. Functions - 1)
        /\ \A at \in DOMAIN pci : pci[at] \in Registers

\* CPUID's fields and the matrices' elements have their types; the tensor table of a
\* model file has as many descriptors as a valid header says.
ASSUME CpuAssumption ==
    Cpus \subseteq [logical : Nat, ids : Nat, sse42 : BOOLEAN, avx : BOOLEAN, avx2 : BOOLEAN]
ASSUME ProductAssumption ==
    \A p \in Products :
        /\ p.M \in Nat /\ p.K \in Nat /\ p.N \in Nat
        /\ p.A \in [1 .. p.M * p.K -> Int8] /\ p.BT \in [1 .. p.N * p.K -> Int8]
ASSUME ModelAssumption ==
    \A m \in Models :
        /\ m.size \in Nat /\ m.n_tensors \in Nat /\ m.data_offset \in Nat
        /\ stf_load(m) = 0 => m.n_tensors <= Len(m.tensors)
        /\ m.tensors \in Seq([name : STRING, data_offset : Nat, data_bytes : Nat])

\* Members have a type, a name, a size and an image; a linker's segments have no more
\* bytes in the file than in memory.
ASSUME TarAssumption ==
    \A t \in Tars :
        /\ t.cut \in Nat
        /\ DOMAIN t.members = 1 .. Len(t.members) /\ Len(t.members) \in Nat
        /\ \A i \in DOMAIN t.members :
             LET m == t.members[i]
             IN  /\ m.type \in {"file", "dir", "junk"} /\ m.size \in Nat
                 /\ m.image \in Images
                 /\ \A k \in DOMAIN m.image.phs : m.image.phs[k].filesz <= m.image.phs[k].memsz

\* Lines have no NUL, and the stack has room for the words and pointers of each.
ASSUME StackAssumption ==
    /\ Lines \subseteq Seq(1 .. 255)
    /\ StackLow \in Int /\ StackTop \in Int
    /\ \A line \in Lines :
         StackLow + MaxArgs * (Len(line) + 1) + StackAlign + PointerSize * (MaxArgs + 2) <= StackTop

ASSUME MemoryAssumption ==
    Addresses \subseteq Int /\ Windows \subseteq Int \X Int /\ StageMax \in Nat

VARIABLES stage,        \* an index of Stages
    called,             \* its call has been made
    in, out,
    tar,                \* the initrd module
    files,              \* vfs_files
    mem                 \* memory at Addresses

vars == <<stage, called, in, out, tar, files, mem>>

NONE == "none"
OLD == -2                \* memory before the first program
Stages == <<"acpi", "tags", "cpu", "pci", "matmul", "stf", "args", "initrd", "run">>

Init ==
    /\ stage = 1 /\ called = FALSE /\ in = NONE /\ out = NONE
    /\ tar = NONE /\ files = <<>> /\ mem = [a \in Addresses |-> OLD]

At(name) == Stages[stage] = name /\ ~ called

Answer(argument, result) ==
    /\ called' = TRUE /\ in' = argument /\ out' = result
    /\ UNCHANGED stage

NextStage ==
    /\ called /\ Stages[stage] # "run"
    /\ stage' = stage + 1 /\ called' = FALSE /\ in' = NONE /\ out' = NONE
    /\ UNCHANGED <<tar, files, mem>>

ReadAcpi == At("acpi") /\ \E fw \in Firmwares :
    Answer(fw, acpi_init(fw)) /\ UNCHANGED <<tar, files, mem>>

\* sam_mcp_scan's two walks, and kernel_main's searches for its modules.
TagsRead(info) ==
    [ram |-> mcp_scan_ram(info), fb |-> mcp_scan_fb(info),
     gguf |-> FirstModule(info), stf |-> FindModule(info, <<"stf_model">>),
     initrd |-> FindModule(info, <<"initrd">>)]

ReadTags == At("tags") /\ \E info \in Infos :
    Answer(info, TagsRead(info)) /\ UNCHANGED <<tar, files, mem>>

CpuRead(cpu) == [mcp |-> mcp_scan_cpu(cpu), level |-> sam_simd_init(cpu)]

ReadCpu == At("cpu") /\ \E cpu \in Cpus :
    Answer(cpu, CpuRead(cpu)) /\ UNCHANGED <<tar, files, mem>>

ReadPci == At("pci") /\ \E pci \in Pcis :
    Answer(pci, mcp_scan_pci(pci)) /\ UNCHANGED <<tar, files, mem>>

Multiply == At("matmul") /\ \E p \in Products, level \in {SCALAR, SSE42, AVX2}, built \in BOOLEAN :
    /\ Answer(p, sam_int8_matmul(level, built, p.A, p.BT, p.M, p.K, p.N))
    /\ UNCHANGED <<tar, files, mem>>

\* The proof of the model file, up to the pointer to the tensor's data.
ModelRead(m) ==
    LET k == stf_find(m, "token_embd.weight")
    IN  IF stf_load(m) # 0 THEN [ret |-> stf_load(m), data |-> 0]
        ELSE [ret |-> k, data |-> IF k = 0 THEN 0 ELSE stf_tensor_data(m, m.tensors[k])]

ReadModel == At("stf") /\ \E m \in Models :
    Answer(m, ModelRead(m)) /\ UNCHANGED <<tar, files, mem>>

\* The stack built for a command of the shell between loading its program and entering
\* it.  It depends on the line alone, so its stage need not follow the disk's.
BuildArgs == At("args") /\ \E line \in Lines :
    /\ Answer(line, sam_build_args([a \in Stack |-> OLD], StackTop, cmd_run(line)))
    /\ UNCHANGED <<tar, files, mem>>

------------------------------------------------------------------------------
(***************************************************************************)
(* The RAM disk and the programs.  The archive is written by tar (outside  *)
(* the kernel): a header and padded data for each member, two zero blocks; *)
(* the module may end early.  A member that is not a regular file is a     *)
(* directory, or "junk": a block without the magic.                        *)
(***************************************************************************)
Blocks(m) ==
    IF m.type = "junk" THEN <<[kind |-> "data"]>>
    ELSE <<[kind |-> "header", regular |-> m.type = "file", name |-> m.name,
            size |-> m.size]>>
         \o [k \in 1 .. Padded(m.size) |-> [kind |-> "data"]]

Tar(t) ==
    [blocks |-> FlattenSeq([i \in DOMAIN t.members |-> Blocks(t.members[i])])
                \o <<[kind |-> "zero"], [kind |-> "zero"]>>,
     size |-> t.cut]

\* Where the data of member i starts.
DataOf(t, i) ==
    BlockSize * (1 + SumFunction([j \in 1 .. i - 1 |-> Len(Blocks(t.members[j]))]))

Mount == At("initrd") /\ \E t \in Tars :
    /\ Answer(t, vfs_init(Tar(t)).ret)
    /\ tar' = t /\ files' = vfs_init(Tar(t)).files
    /\ UNCHANGED mem

ImageAt(data) == (CHOOSE m \in {i \in DOMAIN tar.members : DataOf(tar, i) = data} : TRUE)

\* sam_run_task and each turn of sam_run_pair's loop up to the loader's answer: open,
\* read to the staging buffer, close, load.  A file that is missing or empty gives -5.
Load(name, w) ==
    LET h == vfs_open(files, name)
        got == vfs_read(files, h, StageMax)
        data == files[h.fd].data
    IN  IF got <= 0 THEN [ret |-> -5, mem |-> mem]
        ELSE elf_load_in(tar.members[ImageAt(data)].image, got, data, mem, w[1], w[2])

LoadProgram == At("run") /\ \E name \in Programs, w \in Windows :
    /\ Answer([name |-> name, window |-> w, before |-> mem], Load(name, w).ret)
    /\ mem' = Load(name, w).mem
    /\ UNCHANGED <<tar, files>>

\* The program has run; the shell asks for another.
ProgramOver ==
    /\ Stages[stage] = "run" /\ called
    /\ called' = FALSE /\ in' = NONE /\ out' = NONE
    /\ UNCHANGED <<stage, tar, files, mem>>

Next ==
    \/ ReadAcpi \/ ReadTags \/ ReadCpu \/ ReadPci \/ Multiply \/ ReadModel
    \/ Mount \/ BuildArgs \/ LoadProgram \/ NextStage \/ ProgramOver

Spec == Init /\ [][Next]_vars

------------------------------------------------------------------------------
After(name) == Stages[stage] = name /\ called

\* Only whole entries of a MADT with a good checksum count, and its own processor is
\* counted once more: cpu_count is one more than the enabled processors (in a byte), and
\* the I/O APIC the first that has an address.  The defaults stand when a table on the
\* way is missing or damaged, and only then.
AcpiExact ==
    After("acpi") =>
        LET rsdps == {r \in ToSet(in.rom) \cup (IF in.ebda_ok THEN ToSet(in.ebda) ELSE {}) :
                        Valid(r)}
            madts == {m \in {in.mem[a] : a \in DOMAIN in.mem} :
                        m.sig = "APIC" /\ m.sum /\ m.length >= MadtHeader}
            Pointed(root) == {p \in ToSet(in.mem[root].ptrs) : Names(in, p, "APIC")}
            Leads(root) == /\ root # 0 /\ in.mem[root].sum
                           /\ Pointed(root) # {}
                           /\ \A p \in Pointed(root) : in.mem[p] \in madts
            Offset(m, k) == MadtHeader + SumFunction([j \in 1 .. k - 1 |-> m.entries[j].length])
            Whole(m) == {k \in DOMAIN m.entries :
                           \A j \in 1 .. k : /\ m.entries[j].length >= 2
                                             /\ Offset(m, j) + m.entries[j].length <= m.length}
            Enabled(m) == {k \in Whole(m) : m.entries[k].type = 0 /\ m.entries[k].enabled
                                          /\ m.entries[k].length >= LapicSize}
            Apics(m) == {k \in Whole(m) : m.entries[k].type = 1 /\ m.entries[k].address # 0
                                        /\ m.entries[k].length >= IoapicSize}
        IN  /\ (out.ret = 1) = (rsdps # {})
            /\ \/ /\ out = [Defaults EXCEPT !.ret = out.ret]
                  /\ rsdps = {} \/ \E r \in rsdps : ~ Leads(RootAt(r))
               \/ \E m \in madts :
                    /\ out.cpu_count = (1 + Cardinality(Enabled(m))) % CpuByte
                    /\ out.lapic_base = m.lapic
                    /\ out.ioapic_base = IF Apics(m) = {} THEN 0
                                         ELSE m.entries[Min(Apics(m))].address

\* The walks over the boot loader's tags stop at the end tag or at the first tag of
\* size zero, and nowhere else: memory is the least number of MiB that holds every
\* available entry before it (every entry, for the raw size), and the framebuffer and each
\* module found are the first of their kind and name there.
TagsExact ==
    After("tags") =>
        LET seen == {k \in DOMAIN in : /\ \A j \in 1 .. k : in[j].type # "end"
                                       /\ \A j \in 1 .. k - 1 : in[j].size # 0}
            maps == {k \in seen : in[k].type = "mmap"}
            Bytes(kinds) == SumFunction([k \in maps |->
                LET es == in[k].entries
                IN  SumFunction([e \in DOMAIN es |->
                        IF es[e].available \in kinds THEN es[e].length ELSE 0])])
            Holds(mb, bytes) == (mb - 1) * MiB < bytes /\ bytes <= mb * MiB
            fbs == {k \in seen : in[k].type = "fb"}
            OfName(w) == {k \in seen : /\ in[k].type = "module"
                                       /\ in[k].cmdline # <<>> /\ in[k].cmdline[1] = w}
            First(m, ks) == IF ks = {} THEN m = NoTag ELSE m = in[Min(ks)]
        IN  /\ Holds(out.ram.ram_mb, Bytes({TRUE})) /\ Holds(out.ram.ram_mb_raw, Bytes(BOOLEAN))
            /\ out.ram.mmap_valid = (maps # {})
            /\ out.fb = IF fbs = {} THEN 0 ELSE in[Min(fbs)].width
            /\ First(out.gguf, {k \in seen : in[k].type = "module"})
            /\ First(out.stf, OfName("stf_model")) /\ First(out.initrd, OfName("initrd"))

\* The profile and the kernels decide the SIMD level separately, and agree on every
\* processor whose AVX2 implies AVX and AVX SSE4.2; threads are at least one and never
\* fewer than cores.
CpuAgrees ==
    After("cpu") =>
        /\ (in.avx2 => in.avx) /\ (in.avx => in.sse42) => out.mcp.simd_level = out.level
        /\ 1 <= out.mcp.cpu_cores /\ out.mcp.cpu_cores <= out.mcp.cpu_threads

\* The functions on the buses that bridges connect to bus 0.
Reached(pci) ==
    LET buses == {at[1] : at \in DOMAIN pci} \cup {pci[at].secondary : at \in DOMAIN pci} \cup {0}
        Present(at) == at \in DOMAIN pci /\ (at[3] = 0 \/
                         (<<at[1], at[2], 0>> \in DOMAIN pci
                          /\ pci[<<at[1], at[2], 0>>].multifunction))
        Closed(B) == \A at \in DOMAIN pci :
                        Present(at) /\ at[1] \in B /\ pci[at].bridge => pci[at].secondary \in B
        Bus == {b \in buses : \A B \in SUBSET buses : 0 \in B /\ Closed(B) => b \in B}
    IN  {at \in DOMAIN pci : Present(at) /\ at[1] \in Bus}

\* The scan ends and classifies every function that can be reached exactly once, also
\* when bridges form a cycle or two lead to one bus; the profile's counts are those of
\* that set.  A native-mode IDE controller never replaces the legacy port.
PciExact ==
    After("pci") =>
        LET reached == Reached(in)
            Of(class) == {at \in reached : in[at].class = class}
        IN  /\ ToSet(out.found) = reached /\ Len(out.found) = Cardinality(reached)
            /\ out.has = {in[at].class : at \in reached}
            /\ out.gpu = (CASE Of("display") = {} -> "none"
                            [] Cardinality(Of("display")) = 1 -> "integrated"
                            [] OTHER -> "multi")
            /\ out.storage_count = Cardinality(Of("ahci") \cup Of("nvme")) % CountByte
            /\ out.ahci_bar5 \in {in[at].bar : at \in Of("ahci")} \cup {0}
            /\ out.ahci_bar5 = 0 => \A at \in Of("ahci") : in[at].bar = 0
            /\ out.ata_iobase = LegacyAta

\* Whatever the path and the build, C is A times B as long as no element of B is
\* beyond 64 in size: 255 * 64 * 2 still fits 16 bits.  Beyond it pairs saturate.
ProductExact ==
    After("matmul") /\ (\A k \in DOMAIN in.BT : in.BT[k] \in -64 .. 64) =>
        \A i \in 0 .. in.M - 1, j \in 0 .. in.N - 1 :
            out[i * in.N + j + 1]
              = SumFunction([k \in 1 .. in.K |-> in.A[i * in.K + k] * in.BT[j * in.K + k]])

\* A tensor's data, where the loader gives a pointer to it, lies inside the module and
\* behind the descriptors, for every 64-bit offset and size; the pointer is refused
\* only when it does not.
TensorInModule ==
    After("stf") /\ stf_load(in) = 0 /\ out.ret # 0 => PointerSound(in, in.tensors[out.ret])

------------------------------------------------------------------------------
\* The regular members whose headers lie in the module, before any junk.
Stored(t) ==
    {i \in DOMAIN t.members :
        /\ t.members[i].type = "file" /\ DataOf(t, i) <= t.cut
        /\ \A j \in 1 .. i : t.members[j].type # "junk"}

Least(n, S) == {i \in S : Cardinality({j \in S : j <= i}) <= n}

FullName(m) == <<"/">> \o SubSeq(m.name, 1, Smaller(Len(m.name), VFS_NAME_MAX - 1))
SizeOf(t, i) == Smaller(t.members[i].size, t.cut - DataOf(t, i))

\* The file table is the archive's regular files in order, the first VFS_MAX_FILES of
\* them, each with the bytes of it that the module holds.
VfsExact ==
    After("initrd") =>
        LET kept == Least(VFS_MAX_FILES, Stored(in))
        IN  /\ Len(files) = Cardinality(kept)
            /\ \A i \in kept :
                 files[Cardinality({j \in kept : j <= i})]
                   = [name |-> FullName(in.members[i]), data |-> DataOf(in, i),
                      size |-> SizeOf(in, i)]
            /\ (out = -3) = (Stored(in) # kept)
            /\ out \in {-1, -2, -3, Len(files)}

\* The words of a line: its longest runs without a blank, from left to right.
WordsOf(line) ==
    LET Run(i, j) == /\ \A k \in i .. j : line[k] # BLANK
                     /\ i = 1 \/ line[i - 1] = BLANK
                     /\ j = Len(line) \/ line[j + 1] = BLANK
        starts == {i \in DOMAIN line : \E j \in i .. Len(line) : Run(i, j)}
        Start(n) == CHOOSE i \in starts : Cardinality({j \in starts : j <= i}) = n
        End(i) == CHOOSE j \in i .. Len(line) : Run(i, j)
    IN  [n \in 1 .. Cardinality(starts) |-> SubSeq(line, Start(n), End(Start(n)))]

\* A program that reads its stack the way echo does finds the words typed behind "run",
\* the first MaxArgs of them, and a null pointer behind the last; without words the
\* stack is left alone (main.c: "[rsp]=argc, [rsp+8]=argv[0]").
ArgsExact ==
    After("args") =>
        LET words == AtMost(WordsOf(in), MaxArgs)
        IN  IF words = <<>> THEN out.rsp = StackTop /\ \A a \in Stack : out.mem[a] = OLD
            ELSE /\ out.mem[out.rsp] = Len(words)
                 /\ Echo(out) = words
                 /\ out.mem[out.rsp + PointerSize * (Len(words) + 1)] = NUL

\* The first file of that name, as the archive has it.
Named(t, name) == {i \in Least(VFS_MAX_FILES, Stored(t)) : FullName(t.members[i]) = name}

\* The memory after the first n segments of member i.
Loaded(i, n) ==
    LET phs == tar.members[i].image.phs
        Covers(a) == {k \in 1 .. n : phs[k].load /\ a \in phs[k].vaddr
                                                          .. phs[k].vaddr + phs[k].memsz - 1}
        Byte(a, k) == IF a < phs[k].vaddr + phs[k].filesz
                        THEN DataOf(tar, i) + phs[k].offset + a - phs[k].vaddr ELSE ZERO
    IN  [a \in Addresses |-> IF Covers(a) = {} THEN in.before[a] ELSE Byte(a, Max(Covers(a)))]

\* Loading a program never changes memory outside its window.  It succeeds on every
\* sound image and on no other; memory then shows every segment, the later ones on top,
\* with the bytes the archive holds for that name; after a failure it shows the
\* segments before some header.
LoadExact ==
    After("run") =>
        LET lo == in.window[1]
            hi == in.window[2]
            i == Min(Named(tar, in.name))
            img == tar.members[i].image
            size == Smaller(SizeOf(tar, i), StageMax)
            Sound == /\ img.ident /\ EhdrSize <= size /\ img.phoff # 0
                     /\ img.phoff + (Len(img.phs) - 1) * img.phentsize + PhdrSize <= size
                     /\ img.phoff + Len(img.phs) * img.phentsize <= size
                     /\ \E k \in DOMAIN img.phs : img.phs[k].load
                     /\ \A k \in DOMAIN img.phs : img.phs[k].load =>
                          /\ lo <= img.phs[k].vaddr /\ img.phs[k].vaddr + img.phs[k].memsz <= hi
                          /\ img.phs[k].offset + img.phs[k].filesz <= size
        IN  /\ \A a \in Addresses \ (lo .. hi - 1) : mem[a] = in.before[a]
            /\ IF Named(tar, in.name) = {} \/ size = 0 THEN out = -5 /\ mem = in.before
               ELSE /\ (out = 0) = Sound
                    /\ out = 0 => mem = Loaded(i, Len(img.phs))
                    /\ \E n \in 0 .. Len(img.phs) : mem = Loaded(i, n)
==============================================================================
