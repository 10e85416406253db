-------------------------------- MODULE Ept --------------------------------
(***************************************************************************)
(* The guest-physical memory of a VM: the extended page tables built by    *)
(* arch/x64/vmx/ept.c when a VM is created (its RAM first, the APIC-access *)
(* page next) and the copies the loader makes into that memory.            *)
(*                                                                         *)
(* The four nested mapping loops are one loop over <<level, curr>>: level  *)
(* is the table whose loop is at the address curr.  Tables are reached by  *)
(* address prefix only, so an entry is known by its level and the number   *)
(* of its block; absent entries are absent from the domain of entries.     *)
(* The error paths release the tables and end the boot; they are not       *)
(* modelled beyond the error itself.                                       *)
(*                                                                         *)
(* VMs are created in the address space of AddrSpace once it is set up:    *)
(* memory comes from the usable entries of the same memory map, and a copy *)
(* goes where the page tables of the hypervisor take it.                   *)
(***************************************************************************)
EXTENDS AddrSpace

CONSTANTS
    ReqBytes,       \* the memory sizes a configuration may ask for
    HostStarts,     \* where get_pages_raw may place that memory
    APIC_MEM_BASE,  \* guest address of the APIC page
    ApicPages,      \* where get_page_raw may place the APIC-access page
    Copies          \* <<start, size>> of what the loader may copy

\* The page-frame allocator hands out whole pages; the last line is about powers.
ASSUME EptAssumption ==
    /\ PAGE_SHIFT \in Nat \ {0}
    /\ TableBits \in Nat \ {0}
    /\ ReqBytes \subseteq Nat
    /\ \A a \in HostStarts \cup ApicPages \cup {APIC_MEM_BASE} : a \in Nat /\ a % PAGE_SIZE = 0
    /\ 2 ^ (2 * TableBits) = 2 ^ TableBits * 2 ^ TableBits

VARIABLES
    mb_pages,   \* EPT_VPID_CAP_MB_PAGES of the processor
    gb_pages,   \* EPT_VPID_CAP_GB_PAGES
    entries,    \* present entries of the tables: <<level, block>> -> entry
    req,        \* struct ept_mapping_info, with the end add_ept_mapping uses
    level,      \* the loop that runs
    curr,       \* its curr_start
    phase,      \* where the creation of the VM is
    ram,        \* vm->phys_mem, and the size asked for
    apic_page,  \* vm_apic_access_page(vm)
    memory      \* host page -> the guest page the loader meant to write there

capabilities == <<mb_pages, gb_pages>>
vm_vars == <<capabilities, entries, req, level, curr, phase, ram, apic_page, memory>>
vars == <<vm_vars, space_vars>>

-----------------------------------------------------------------------------
(* Addresses and entries *)

BlockSize(l) == 2 ^ (PAGE_SHIFT + TableBits * (l - 1))

block_end(addr, l) == (addr \div BlockSize(l) + 1) * BlockSize(l) - 1

EntryOf(addr, l) == <<l, addr \div BlockSize(l)>>

is_ept_entry_present(e) == e \in DOMAIN entries

bytes_to_nr_pages(n) == (n + PAGE_SIZE - 1) \div PAGE_SIZE

\* 1 << 30 and 1 << 20.  A PD entry maps 1 << 21 bytes.
GB == BlockSize(PDPT)
MB == BlockSize(PD) \div 2

\* Mutant: the length of the range is not looked at.
GbIgnoresLength(start, end) ==
    /\ req.use_gb_mappings
    /\ start % GB = 0
    /\ (start + req.offset) % GB = 0

should_do_gb_mapping(start, end) ==
    /\ req.use_gb_mappings
    /\ end - start + 1 >= GB
    /\ start % GB = 0
    /\ (start + req.offset) % GB = 0

should_do_mb_mapping(start, end) ==
    /\ req.use_mb_mappings
    /\ end - start + 1 >= MB
    /\ start % MB = 0
    /\ (start + req.offset) % MB = 0

ShouldDoLarge(l, start, end) ==
    \/ l = PDPT /\ should_do_gb_mapping(start, end)
    \/ l = PD /\ should_do_mb_mapping(start, end)

\* The address an entry that maps a page holds for the host address paddr:
\* the frame field, shifted back by PAGE_SHIFT.
ept_pte_set_paddr(paddr) == PAGE_ALIGN(paddr)

ept_pde_set_pf_paddr(paddr) == ((paddr \div MB) * 2 ^ TableBits) * PAGE_SIZE

ept_pdpte_set_pf_paddr(paddr) ==
    ((paddr \div GB) * 2 ^ (2 * TableBits)) * PAGE_SIZE

PageEntry(l, paddr) ==
    [maps_page |-> TRUE,
     paddr |-> CASE l = PT -> ept_pte_set_paddr(paddr)
                 [] l = PD -> ept_pde_set_pf_paddr(paddr)
                 [] l = PDPT -> ept_pdpte_set_pf_paddr(paddr)]

\* Where a table lies is left out: the walk finds it by its block.
TableEntry == [maps_page |-> FALSE, paddr |-> 0]

\* The processor's walk: the level of the entry that maps addr, if any.
LeafLevels(addr) ==
    {l \in Levels :
        /\ is_ept_entry_present(EntryOf(addr, l))
        /\ entries[EntryOf(addr, l)].maps_page
        /\ \A u \in Levels : u > l =>
              /\ is_ept_entry_present(EntryOf(addr, u))
              /\ ~ entries[EntryOf(addr, u)].maps_page}

Translates(addr) == LeafLevels(addr) # {}

Translation(addr) ==
    LET l == CHOOSE x \in LeafLevels(addr) : TRUE
    IN  entries[EntryOf(addr, l)].paddr + (addr % BlockSize(l))

-----------------------------------------------------------------------------
(* VM creation and the mapping loops *)

VmInit ==
    /\ mb_pages \in BOOLEAN /\ gb_pages \in BOOLEAN
    /\ entries = << >>
    /\ req = [guest_paddr_start |-> 0, end |-> 0, offset |-> 0,
              use_mb_mappings |-> FALSE, use_gb_mappings |-> FALSE]
    /\ level = PML4
    /\ curr = 0
    /\ phase = "start"
    /\ ram = [start |-> 0, end |-> -1, req_bytes |-> 0]
    /\ apic_page = -1
    /\ memory = << >>

MappingEnd(start, bytes) == start + bytes

create_ept_mapping_info(start, bytes, target, mb, gb) ==
    [guest_paddr_start |-> start,
     end |-> MappingEnd(start, bytes),
     offset |-> target - start,
     use_mb_mappings |-> mb,
     use_gb_mappings |-> gb]

BeginMapping(info) ==
    /\ req' = info
    /\ level' = PML4
    /\ curr' = PAGE_ALIGN(info.guest_paddr_start)

Fail ==
    /\ phase' = "failed"
    /\ UNCHANGED <<capabilities, entries, req, level, curr, ram, apic_page, memory>>

\* What the page-frame allocator may hand out.
Usable(start, end) ==
    \E i \in DOMAIN mem_map :
        /\ mem_map[i].type = "USABLE"
        /\ mem_map[i].start <= start /\ end <= mem_map[i].end

\* virtualize_guest_physical_mem up to the mapping loops.
VirtualizeGuestMem ==
    /\ phase = "start"
    /\ stage = "up"
    /\ \/ Fail                    \* no memory for the VM or for the PML4
       \/ \E bytes \in ReqBytes, host \in HostStarts :
            /\ Usable(host, host + bytes_to_nr_pages(bytes) * PAGE_SIZE - 1)
            /\ BeginMapping(create_ept_mapping_info(0, bytes, host,
                                                    mb_pages, gb_pages))
            /\ phase' = "ram"
            /\ ram' = [start |-> host,
                       end |-> host + bytes_to_nr_pages(bytes) * PAGE_SIZE - 1,
                       req_bytes |-> bytes]
            /\ UNCHANGED <<capabilities, entries, apic_page, memory>>

\* prepare_apic_virtualization up to the mapping loops.
PrepareApic ==
    /\ phase = "mapped"
    /\ \/ Fail
       \/ \E page \in ApicPages :
            /\ Usable(page, page + PAGE_SIZE - 1)
            /\ page \notin ram.start..ram.end
            /\ BeginMapping(create_ept_mapping_info(APIC_MEM_BASE, PAGE_SIZE,
                                                    page, FALSE, FALSE))
            /\ phase' = "apic"
            /\ apic_page' = page
            /\ UNCHANGED <<capabilities, entries, ram, memory>>

Mapping == phase \in {"ram", "apic"}

CurrEnd == Min({req.end, block_end(curr, level)})

\* curr_start = curr_end + 1: the same loop goes on, or the loops whose block
\* ends here return, or the whole mapping is done.
NextBlock ==
    LET next == CurrEnd + 1 IN
    /\ curr' = next
    /\ IF next <= req.end
       THEN /\ level' = Max({l \in Levels : next % BlockSize(l) = 0})
            /\ phase' = phase
       ELSE /\ level' = PML4
            /\ phase' = IF phase = "ram" THEN "mapped" ELSE "ready"

\* EPT_RANGE_ALREADY_MAPPED or EPT_PARTS_OF_RANGE_ALREADY_MAPPED.
AlreadyMapped(e) ==
    /\ is_ept_entry_present(e)
    /\ entries[e].maps_page \/ ShouldDoLarge(level, curr, CurrEnd)

\* Mutant: the loop continues, without advancing, instead of returning.
RefusalContinues ==
    /\ Mapping
    /\ AlreadyMapped(EntryOf(curr, level))
    /\ UNCHANGED vm_vars

RefuseMapping ==
    /\ Mapping
    /\ AlreadyMapped(EntryOf(curr, level))
    /\ Fail

\* Mutant: a present entry is overwritten.
MapPageOverwrites ==
    LET e == EntryOf(curr, level) IN
    /\ Mapping
    /\ level = PT \/ ShouldDoLarge(level, curr, CurrEnd)
    /\ entries' = [x \in DOMAIN entries \cup {e} |->
                     IF x = e THEN PageEntry(level, curr + req.offset)
                              ELSE entries[x]]
    /\ NextBlock
    /\ UNCHANGED <<capabilities, req, ram, apic_page, memory>>

\* Mutant: a present entry is skipped, as if it were the one to be written.
MapPageSkipsPresent ==
    LET e == EntryOf(curr, level) IN
    /\ Mapping
    /\ level = PT \/ ShouldDoLarge(level, curr, CurrEnd)
    /\ entries' = [x \in DOMAIN entries \cup {e} |->
                     IF x \in DOMAIN entries
                     THEN entries[x] ELSE PageEntry(level, curr + req.offset)]
    /\ NextBlock
    /\ UNCHANGED <<capabilities, req, ram, apic_page, memory>>

\* A PT entry, or a large page in a PD or PDPT.
MapPage ==
    LET e == EntryOf(curr, level) IN
    /\ Mapping
    /\ ~ is_ept_entry_present(e)
    /\ level = PT \/ ShouldDoLarge(level, curr, CurrEnd)
    /\ entries' = [x \in DOMAIN entries \cup {e} |->
                     IF x = e THEN PageEntry(level, curr + req.offset)
                              ELSE entries[x]]
    /\ NextBlock
    /\ UNCHANGED <<capabilities, req, ram, apic_page, memory>>

\* The loop one level down, in the table of the entry, which may have to be
\* allocated first.
EnterTable ==
    LET e == EntryOf(curr, level) IN
    /\ Mapping
    /\ level # PT
    /\ ~ ShouldDoLarge(level, curr, CurrEnd)
    /\ \/ /\ is_ept_entry_present(e)
          /\ ~ entries[e].maps_page
          /\ entries' = entries
       \/ /\ ~ is_ept_entry_present(e)
          /\ entries' = [x \in DOMAIN entries \cup {e} |->
                           IF x = e THEN TableEntry ELSE entries[x]]
    /\ level' = level - 1
    /\ UNCHANGED <<capabilities, req, curr, phase, ram, apic_page, memory>>

AllocateTableFails ==
    /\ Mapping
    /\ level # PT
    /\ ~ is_ept_entry_present(EntryOf(curr, level))
    /\ ~ ShouldDoLarge(level, curr, CurrEnd)
    /\ Fail

vm_memory_contig_range_fits(start, size) ==
    LET total_size == ram.end - ram.start + 1
    IN  start <= total_size - 1 /\ size <= total_size - start

\* The loader copies once the VM is ready; a copy that does not fit is refused.
\* memcpy writes behind phys_to_virt.
copy_to_vm_gpaddr(start, size) ==
    /\ phase = "ready"
    /\ vm_memory_contig_range_fits(start, size)
    /\ LET pages == {start + p * PAGE_SIZE :
                       p \in {q \in 0..(size \div PAGE_SIZE) : q * PAGE_SIZE < size}}
           target(a) == Resolved(phys_to_virt(ram.start + a))
           written == [h \in {target(a) : a \in pages} |->
                         CHOOSE a \in pages : target(a) = h]
       IN  memory' = [h \in DOMAIN memory \cup DOMAIN written |->
                        IF h \in DOMAIN written THEN written[h] ELSE memory[h]]
    /\ UNCHANGED <<capabilities, entries, req, level, curr, phase, ram, apic_page>>

Copy == \E c \in Copies : copy_to_vm_gpaddr(c[1], c[2])

MapStep == RefuseMapping \/ MapPage \/ EnterTable \/ AllocateTableFails

VmNext == VirtualizeGuestMem \/ PrepareApic \/ MapStep \/ Copy

Init == SpaceInit /\ VmInit

Next ==
    \/ SpaceNext /\ UNCHANGED vm_vars
    \/ VmNext /\ UNCHANGED space_vars

\* One CPU runs the creation of a VM to its end.
Spec == Init /\ [][Next]_vars /\ WF_vars(Next)

-----------------------------------------------------------------------------
(* Properties *)

RamMapped == phase \in {"mapped", "apic", "ready"}

RamPages == {p * PAGE_SIZE : p \in 0..(bytes_to_nr_pages(ram.req_bytes) - 1)}

RamReachable ==
    \A a \in RamPages :
        /\ Translates(a)
        /\ ResolvesTo(phys_to_virt(ram.start + a), Translation(a))

\* What translates is RAM, the APIC page, or the page at the end address of one
\* of the two requests, which add_ept_mapping includes.
OnlyRequested ==
    \A e \in DOMAIN entries : entries[e].maps_page =>
        LET first == e[2] * BlockSize(e[1])
            last == PAGE_ALIGN(first + BlockSize(e[1]) - 1)
        IN  \/ last <= MappingEnd(0, ram.req_bytes)
            \/ /\ first >= APIC_MEM_BASE
               /\ last <= MappingEnd(APIC_MEM_BASE, PAGE_SIZE)

\* Once virtualize_guest_physical_mem has returned, two sets of page tables,
\* built by different code, agree: every page of RAM is, for the guest, the
\* host page the hypervisor reaches behind phys_to_virt when the loader copies
\* to it.  And no mapping reaches past its request; a 1 GB page must lie inside
\* the range.  Stated for processors without large pages in PD entries; see
\* CopiesVisible for those that have them.
GuestMemoryExact ==
    ~ mb_pages => (RamMapped => RamReachable) /\ OnlyRequested

\* A ready VM finds the APIC-access page at APIC_MEM_BASE, whatever its RAM
\* covers: remap_vlapic_base fails when the address already translates.
ApicReachable ==
    phase = "ready" =>
        /\ Translates(APIC_MEM_BASE)
        /\ Translation(APIC_MEM_BASE) = apic_page

\* What the loader copies to a guest address is what the guest reads there.
CopiesVisible ==
    \A h \in DOMAIN memory :
        Translates(memory[h]) /\ Translation(memory[h]) = h

\* Mapping a further range never changes, at any level, what an address
\* translates to already, neither for the guest nor for the hypervisor.
TranslationsStable ==
    [][/\ \A e \in DOMAIN entries :
            e \in DOMAIN entries' /\ entries'[e] = entries[e]
       /\ \A v \in DOMAIN ptes : v \in DOMAIN ptes' /\ ptes'[v] = ptes[v]
       /\ tables \subseteq tables']_<<entries, page_tables>>

\* The nested loops come to an end for every range: the VM is ready, its
\* creation has failed, or the boot has.
CreationEnds == <>(phase \in {"ready", "failed"} \/ stage = "dead")
=============================================================================
