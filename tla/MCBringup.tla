------------------------------ MODULE MCBringup -------------------------------
EXTENDS Bringup

\* RSDPs of both revisions, absent, or damaged; roots with up to two pointers, at
\* address 1 (RSDT) and 2 (XSDT); MADTs at 3 and 4, another table at 5, 9 out of reach.
Rsdp(ok, rev, xsdt) == [sig |-> TRUE, sum |-> ok, revision |-> rev, rsdt |-> 1, xsdt |-> xsdt]
MCSlots == {<<>>, <<Rsdp(FALSE, 2, 2)>>, <<Rsdp(TRUE, 0, 2)>>, <<[Rsdp(TRUE, 0, 0) EXCEPT !.rsdt = 0]>>,
            <<Rsdp(FALSE, 0, 0), Rsdp(TRUE, 2, 2)>>}
MCRoots == {[sig |-> "root", sum |-> TRUE, ptrs |-> p] :
              p \in {<<>>, <<0, 9, 3>>, <<5, 3, 4>>, <<4, 3>>, <<9, 5>>}}
           \cup {[sig |-> "root", sum |-> FALSE, ptrs |-> <<3>>]}
MCEntries == {[type |-> 0, length |-> 8, enabled |-> TRUE, address |-> 0],
              [type |-> 0, length |-> 8, enabled |-> FALSE, address |-> 0],
              [type |-> 0, length |-> 6, enabled |-> TRUE, address |-> 0],
              [type |-> 0, length |-> 1, enabled |-> TRUE, address |-> 0],
              [type |-> 1, length |-> 12, enabled |-> FALSE, address |-> 7],
              [type |-> 1, length |-> 12, enabled |-> FALSE, address |-> 0]}
Madt(sum, es, cut) ==
    [sig |-> "APIC", sum |-> sum, lapic |-> 8, entries |-> es,
     length |-> MadtHeader + FoldLeft(LAMBDA n, e : n + e.length, 0, es) - cut]
MCMadts == {Madt(TRUE, es, cut) : es \in BoundedSeq(MCEntries, 3), cut \in {0, 3}}
Machine(ebda_ok, ebda, rom, rsdt, xsdt, madt, other) ==
    [ebda_ok |-> ebda_ok, ebda |-> ebda, rom |-> rom,
     mem |-> <<rsdt, xsdt, madt, other, [sig |-> "FACP", sum |-> TRUE]>>]
MCFirmwares ==
    LET one == <<Rsdp(TRUE, 0, 2)>>
        any == Madt(TRUE, <<>>, 0)
        bad == Madt(FALSE, <<>>, 0)
        root == [sig |-> "root", sum |-> TRUE, ptrs |-> <<3>>]
    IN  {Machine(FALSE, <<>>, one, root, root, m, bad) : m \in MCMadts}
        \cup {Machine(o, e, r, x, y, any, bad) :
                o \in BOOLEAN, e \in MCSlots, r \in MCSlots, x \in MCRoots, y \in MCRoots}

Mod(name, size) == [type |-> "module", size |-> size, cmdline |-> name]
MCTags == {[type |-> "mmap", size |-> 1, entries |-> <<[available |-> TRUE, length |-> 5],
                                                      [available |-> FALSE, length |-> 3]>>],
           [type |-> "mmap", size |-> 1, entries |-> <<[available |-> TRUE, length |-> 4]>>],
           [type |-> "fb", size |-> 1, width |-> 640],
           [type |-> "other", size |-> 0],
           Mod(<<"gguf_model">>, 1), Mod(<<"stf_model">>, 1), Mod(<<"stf_model", "2">>, 1),
           Mod(<<"initrd">>, 0)}
MCInfos == {Append(s, [type |-> "end", size |-> 1]) : s \in BoundedSeq(MCTags, 4)}

MCCpus == [logical : {0, 1, 2, 8}, ids : {0, 3, 7}, sse42 : BOOLEAN, avx : BOOLEAN,
           avx2 : BOOLEAN]

\* Five places on three buses, each empty, a device, or a bridge; 0,0 may have two functions.
Dev(class, bar) == [class |-> class, bar |-> bar, bridge |-> FALSE, secondary |-> 0,
                    multifunction |-> FALSE]
Bridge(to) == [Dev("bridge", 0) EXCEPT !.bridge = TRUE, !.secondary = to]
Empty == [none |-> TRUE]
Filled(f) == [at \in {x \in DOMAIN f : f[x] # Empty} |-> f[at]]
MCPcis ==
    LET ends == {Empty, Dev("display", 0), Dev("ahci", 0), Dev("ahci", 4), Dev("nvme", 0),
                 Bridge(1), Bridge(2)}
        places(x) == [{<<0, 0, 1>>, <<0, 1, 0>>, <<1, 0, 0>>, <<2, 0, 0>>} ->
                        x \cup {Bridge(0), Dev("ide", 8)}]
    IN  {Filled((<<0, 0, 0>> :> [d EXCEPT !.multifunction = m]) @@ f) :
            d \in ends \ {Empty}, m \in BOOLEAN, f \in places({Empty, Bridge(1), Bridge(2)})}
        \cup {Filled((<<0, 0, 0>> :> [Bridge(2) EXCEPT !.multifunction = TRUE]) @@ f) :
            f \in [{<<0, 0, 1>>, <<0, 1, 0>>, <<1, 0, 0>>, <<2, 0, 0>>} -> ends]}

\* Vectors around the lanes with extreme elements, and small matrices.
Product(M, K, N, A, BT) == [M |-> M, K |-> K, N |-> N, A |-> A, BT |-> BT]
MCProducts ==
    UNION {{Product(1, K, 1, a, b) : a \in [1 .. K -> {-128, 127}],
                                     b \in [1 .. K -> {-64, 64, 127}]} : K \in 1 .. 5}
    \cup {Product(2, 3, 2, a, b) : a \in [1 .. 6 -> {-128, 5}], b \in [1 .. 6 -> {-64, 3}]}

\* Files of up to nine bytes; 64-bit numbers are 0 .. 15.
Tensor(name, off, bytes) == [name |-> name, data_offset |-> off, data_bytes |-> bytes]
MCModels ==
    [size : 0 .. 9, magic : BOOLEAN, version : BOOLEAN, n_tensors : {0, 1, 2, 3},
     data_offset : {0, 4, 6, 7, 15},
     tensors : {<<Tensor(x, o, b), Tensor("token_embd.weight", 1, 1), Tensor("x", 0, 0)>> :
                  x \in {"x", "token_embd.weight"}, o \in {0, 1, 2, 15}, b \in {0, 1, 2, 14, 15}}]

\* Archives of up to three small members, and programs behind another member.
Seg(v, f, m) == [load |-> TRUE, vaddr |-> v, offset |-> 2, filesz |-> f, memsz |-> m]
MCSegs == {Seg(v, f, m) : v \in {1, 2, 4}, f \in {0, 1}, m \in {1, 2}}
          \cup {[Seg(0, 0, 0) EXCEPT !.load = FALSE], [Seg(3, 1, 1) EXCEPT !.offset = 4]}
Image(ident, phs) == [ident |-> ident, phoff |-> 1, phentsize |-> 1, phs |-> phs]
Member(type, name, size, image) == [type |-> type, name |-> name, size |-> size, image |-> image]
MCMembers ==
    {Member("junk", <<>>, 0, Image(FALSE, <<>>))}
    \cup {Member(y, n, z, Image(TRUE, <<Seg(2, 1, 2)>>)) :
            y \in {"file", "dir"}, n \in {<<"a", "b", "c">>, <<"a", "b", "d">>}, z \in {0, 3}}
MCTars ==
    {[members |-> ms, cut |-> c] : ms \in BoundedSeq(MCMembers, 3), c \in {1, 5, 8, 11, 14, 22}}
    \cup {[members |-> <<Member("dir", <<"d">>, 0, Image(FALSE, <<>>)),
                         Member("file", <<"p">>, z, img)>>, cut |-> c] :
            z \in {3, 5}, c \in {6, 7, 14},
            img \in {Image(TRUE, s) : s \in BoundedSeq(MCSegs, 2)} \cup {Image(FALSE, <<Seg(2, 1, 1)>>)}}

MCPrograms == {<<"/", "p">>, <<"/", "a", "b">>}
MCWindows == {<<2, 4>>, <<4, 7>>}

\* Up to three words of two letters and any blanks around them.
MCLines == BoundedSeq({97, 98, BLANK}, 6)
==============================================================================
