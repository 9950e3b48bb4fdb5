--------------------------------- MODULE Acpi ---------------------------------
(***************************************************************************)
(* The ACPI tables, kernel/acpi.h.  Firmware is a record: what the EBDA    *)
(* (when its segment is plausible) and the ROM area hold at each 16-byte   *)
(* step, and a memory of tables by address.  A table is a signature,       *)
(* whether its bytes sum to zero, and its content: pointers, or MADT       *)
(* entries with the lengths they claim and the length of the whole.        *)
(***************************************************************************)
EXTENDS Integers, SequencesExt

CONSTANTS
    MadtHeader,         \* 44: bytes before the first entry
    LapicSize,          \* 8
    IoapicSize,         \* 12
    AddressLimit        \* 2^32 - 1: pointers above it are skipped

ASSUME AcpiAssumptions == {MadtHeader, LapicSize, IoapicSize, AddressLimit} \subseteq Nat

LAPIC_DEFAULT == 0      \* stands for 0xFEE00000
CpuByte == 256          \* cpu_count is a uint8_t

Rsdps == [sig : BOOLEAN, sum : BOOLEAN, revision : Nat, rsdt : Nat, xsdt : Nat]
MadtEntries == [type : Nat, length : Nat, enabled : BOOLEAN, address : Nat]
Madts == [sig : {"APIC"}, sum : BOOLEAN, lapic : Nat, length : Nat, entries : Seq(MadtEntries)]

NoTable == [sig |-> "none", sum |-> FALSE]

Valid(rsdp) == rsdp.sig /\ rsdp.sum

\* The first slot with the signature and a good checksum, EBDA before ROM.
acpi_find_rsdp(fw) ==
    LET slots == (IF fw.ebda_ok THEN fw.ebda ELSE <<>>) \o fw.rom
        k == SelectInSeq(slots, Valid)
    IN  IF k = 0 THEN <<>> ELSE <<slots[k]>>

RootAt(rsdp) == IF rsdp.revision >= 2 /\ rsdp.xsdt # 0 THEN rsdp.xsdt ELSE rsdp.rsdt

Names(fw, p, sig) == p # 0 /\ p <= AddressLimit /\ fw.mem[p].sig = sig

\* The root's checksum is verified here, that of the table found is not.
acpi_find_table(fw, root, sig) ==
    LET Matches(p) == Names(fw, p, sig)
        ptrs == fw.mem[root].ptrs
        k == SelectInSeq(ptrs, Matches)
    IN  IF root = 0 \/ ~ fw.mem[root].sum \/ k = 0 THEN NoTable ELSE fw.mem[ptrs[k]]

\* One entry: an enabled processor, or the first I/O APIC with an address.
EntryCounted(acpi, e) ==
    IF e.type = 0 /\ e.length >= LapicSize /\ e.enabled
      THEN [acpi EXCEPT !.cpu_count = (@ + 1) % CpuByte]
    ELSE IF e.type = 1 /\ e.length >= IoapicSize /\ acpi.ioapic_base = 0
      THEN [acpi EXCEPT !.ioapic_base = e.address]
    ELSE acpi

FitsAtStart(p, e, length) == e.length >= 2      \* mutant: the table's end is ignored

Fits(p, e, length) == e.length >= 2 /\ p + e.length <= length

\* One turn of the loop over the entries, st.p bytes into the table.
MadtEntry(st, madt, k) ==
    LET e == madt.entries[k]
    IN  IF st.over \/ st.p + 2 > madt.length \/ ~ Fits(st.p, e, madt.length)
          THEN [st EXCEPT !.over = TRUE]
        ELSE [over |-> FALSE, p |-> st.p + e.length, acpi |-> EntryCounted(st.acpi, e)]

MadtWalk(acpi, madt) ==
    LET n == Len(madt.entries)
        st[k \in 0 .. n] == IF k = 0 THEN [over |-> FALSE, p |-> MadtHeader, acpi |-> acpi]
                            ELSE MadtEntry(st[k - 1], madt, k)
    IN  st[n].acpi

acpi_parse_madt(acpi, madt) ==
    IF madt.length < MadtHeader \/ ~ madt.sum THEN acpi
    ELSE MadtWalk([acpi EXCEPT !.lapic_base = madt.lapic], madt)

Defaults == [ret |-> 0, cpu_count |-> 1, lapic_base |-> LAPIC_DEFAULT, ioapic_base |-> 0]

acpi_init(fw) ==
    LET rsdp == acpi_find_rsdp(fw)
        madt == acpi_find_table(fw, RootAt(rsdp[1]), "APIC")
        found == [Defaults EXCEPT !.ret = 1]
    IN  IF rsdp = <<>> THEN Defaults
        ELSE IF madt = NoTable THEN found
        ELSE acpi_parse_madt(found, madt)
==============================================================================
