------------------------------ MODULE AddrSpace ------------------------------
(***************************************************************************)
(* The address space of the hypervisor: the page tables create_addr_space  *)
(* (arch/x64/setup.c) builds with the loops of arch/x64/direct_mapping.c,  *)
(* while the BSP still runs in the address space of the bootloader, and    *)
(* the page of the HPET, which may be added once the new one is in use.    *)
(*                                                                         *)
(* No large page is ever used: supports_1gb_pages is never set and         *)
(* eligible_for_mb_mapping answers no.  One step is therefore one PD       *)
(* entry: the absent tables on the way to it, then the PT entries of the   *)
(* range below it.  A table is known by the entry that refers to it.       *)
(* Virtual addresses are taken without their sign extension.  The tables   *)
(* are written through the direct mapping of the bootloader, which has     *)
(* the offset HYPERVISOR_DIRECT_MAPPING_OFFSET, as the code expects of it. *)
(***************************************************************************)
EXTENDS Integers, Sequences, FiniteSetsExt

CONSTANTS
    PAGE_SHIFT,     \* 12
    TableBits,      \* index bits of a table: 9
    MemMaps,        \* what the bootloader may report: <<base, length, type>>s
    LapicBase,      \* get_lapic_base()
    HPET_BASE,
    HYPERVISOR_DIRECT_MAPPING_OFFSET,
    DirectRange,    \* bytes of addresses set aside for the direct mapping
    hypervisor_region

PAGE_SIZE == 2 ^ PAGE_SHIFT

PML4 == 4
PDPT == 3
PD == 2
PT == 1
Levels == PT..PML4

VARIABLES
    mem_map,        \* hyv_memmap_t
    tables,         \* present entries that refer to tables: <<level, block>>
    ptes,           \* present PT entries: virtual -> physical page
    mapping,        \* the running directly_map_phys_range: last vaddr, offset
    curr_vaddr,     \* its curr_vaddr_start
    next_entry,     \* the entry of mem_map that comes next
    stage           \* where the set-up of the address space is

page_tables == <<tables, ptes>>
space_vars == <<mem_map, page_tables, mapping, curr_vaddr, next_entry, stage>>

-----------------------------------------------------------------------------
(* Addresses and the memory map *)

PAGE_ALIGN(addr) == (addr \div PAGE_SIZE) * PAGE_SIZE

PagesOf(start, end) ==
    {p * PAGE_SIZE : p \in (start \div PAGE_SIZE)..(end \div PAGE_SIZE)}

align_forward(n) == PAGE_ALIGN(n + PAGE_SIZE - 1)

phys_to_virt(addr) == addr + HYPERVISOR_DIRECT_MAPPING_OFFSET

ENTRY_RANGE_BYTES(l) == 2 ^ (PAGE_SHIFT + TableBits * (l - 1))

get_x_entry_block_end(start, end, l) ==
    Min({end, (start \div ENTRY_RANGE_BYTES(l) + 1) * ENTRY_RANGE_BYTES(l) - 1})

pgtable_entry(vaddr, l) == <<l, vaddr \div ENTRY_RANGE_BYTES(l)>>

limine_memmap_type_to_hyv_type(type) ==
    CASE type = "LIMINE_USABLE" -> "USABLE"
      [] type = "LIMINE_BOOTLOADER_RECLAIMABLE" -> "BOOTLOADER_RECLAIMABLE"
      [] type = "LIMINE_EXECUTABLE_AND_MODULES" -> "HYPERVISOR"
      [] OTHER -> "RESERVED"

get_boot_mem_info(limine_map) ==
    [i \in DOMAIN limine_map |->
        [start |-> limine_map[i][1],
         end |-> limine_map[i][1] + limine_map[i][2] - 1,
         length |-> limine_map[i][2],
         type |-> limine_memmap_type_to_hyv_type(limine_map[i][3])]]

total_usable_memory(map) ==
    MapThenSumSet(LAMBDA i : map[i].length,
                  {i \in DOMAIN map :
                      map[i].type \in {"USABLE", "BOOTLOADER_RECLAIMABLE"}})

phys_memory_fits(map) == align_forward(total_usable_memory(map)) <= DirectRange

DirectlyMapped(entry) ==
    entry.type \in {"USABLE", "HYPERVISOR", "BOOTLOADER_RECLAIMABLE"}

\* What the code takes for granted of the machine and of its link script: whole
\* pages where it does not align; pages of devices, direct mapping and image in
\* this order in the address space; and memory that lies inside the range of
\* the direct mapping if its size fits (phys_memory_fits looks at the size only).
ASSUME SpaceAssumption ==
    /\ \A a \in {LapicBase, HPET_BASE, HYPERVISOR_DIRECT_MAPPING_OFFSET, DirectRange,
                 hypervisor_region.paddr_start, hypervisor_region.vaddr_start} :
          a \in Nat /\ a % PAGE_SIZE = 0
    /\ hypervisor_region.length \in Nat
    /\ \A a \in {LapicBase, HPET_BASE} : a < HYPERVISOR_DIRECT_MAPPING_OFFSET
    /\ phys_to_virt(DirectRange) <= hypervisor_region.vaddr_start
    /\ \A m \in MemMaps :
          /\ m \in Seq(Nat \X Nat \X STRING)
          /\ phys_memory_fits(get_boot_mem_info(m)) =>
               \A i \in DOMAIN m : DirectlyMapped(get_boot_mem_info(m)[i]) =>
                   m[i][1] + m[i][2] <= DirectRange

\* Powers of two, of which the provers know nothing.
ASSUME PowerAssumption ==
    /\ PAGE_SIZE \in Nat \ {0}
    /\ 2 ^ TableBits \in Nat \ {0}
    /\ ENTRY_RANGE_BYTES(PT) = PAGE_SIZE
    /\ \A l \in PD..PML4 : ENTRY_RANGE_BYTES(l) = 2 ^ TableBits * ENTRY_RANGE_BYTES(l - 1)

\* The processor's walk.
Resolves(vaddr) ==
    /\ PAGE_ALIGN(vaddr) \in DOMAIN ptes
    /\ \A l \in PD..PML4 : pgtable_entry(vaddr, l) \in tables

Resolved(vaddr) == ptes[PAGE_ALIGN(vaddr)] + (vaddr % PAGE_SIZE)

-----------------------------------------------------------------------------
(* Mapping a range *)

SpaceInit ==
    /\ \E m \in MemMaps : mem_map = get_boot_mem_info(m)
    /\ tables = {}
    /\ ptes = << >>
    /\ mapping = [end |-> -1, offset |-> 0]
    /\ curr_vaddr = 0
    /\ next_entry = 1
    /\ stage = "start"

directly_map_phys_range(start, end, target_offset) ==
    /\ mapping' = [end |-> end + target_offset, offset |-> target_offset]
    /\ curr_vaddr' = PAGE_ALIGN(start) + target_offset

raw_identity_map_mmio_page(addr) ==
    directly_map_phys_range(addr, addr + PAGE_SIZE - 1, 0)

RangeMapped == curr_vaddr > mapping.end

PdBlockEnd == get_x_entry_block_end(curr_vaddr, mapping.end, PD)

\* The PT entries from curr_vaddr to the end of the block that are absent.
AbsentPtes == PagesOf(curr_vaddr, PdBlockEnd) \ DOMAIN ptes

WritePtes(vaddrs) ==
    ptes' = [v \in DOMAIN ptes \cup vaddrs |->
               IF v \in vaddrs THEN v - mapping.offset ELSE ptes[v]]

MapBlock ==
    /\ stage # "dead"
    /\ ~ RangeMapped
    /\ tables' = tables \cup {pgtable_entry(curr_vaddr, l) : l \in PD..PML4}
    /\ WritePtes(AbsentPtes)
    /\ curr_vaddr' = PdBlockEnd + 1
    /\ UNCHANGED <<mem_map, mapping, next_entry, stage>>

Die ==
    /\ stage' = "dead"
    /\ UNCHANGED <<mem_map, page_tables, mapping, curr_vaddr, next_entry>>

\* No page for a table: the mapping fails, and with it the boot.
InitEntryFails ==
    /\ stage # "dead"
    /\ ~ RangeMapped
    /\ \E l \in PD..PML4 : pgtable_entry(curr_vaddr, l) \notin tables
    /\ Die

-----------------------------------------------------------------------------
(* create_addr_space, and the HPET *)

At(s) == stage = s /\ RangeMapped

MapApicPage ==
    /\ At("start")
    /\ \/ Die                     \* no page for the PML4
       \/ /\ raw_identity_map_mmio_page(LapicBase)
          /\ stage' = "apic"
          /\ UNCHANGED <<mem_map, page_tables, next_entry>>

setup_direct_mapping_from_memmap ==
    /\ At("apic")
    /\ \/ /\ phys_memory_fits(mem_map)
          /\ stage' = "memmap"
          /\ UNCHANGED <<mem_map, page_tables, mapping, curr_vaddr, next_entry>>
       \/ ~ phys_memory_fits(mem_map) /\ Die

\* Mutant: the loop ends at the first entry that is not to be mapped.
StopAtOtherEntry ==
    /\ At("memmap")
    /\ next_entry <= Len(mem_map)
    /\ \/ /\ DirectlyMapped(mem_map[next_entry])
          /\ directly_map_phys_range(mem_map[next_entry].start,
                                     mem_map[next_entry].end,
                                     HYPERVISOR_DIRECT_MAPPING_OFFSET)
          /\ next_entry' = next_entry + 1
       \/ /\ ~ DirectlyMapped(mem_map[next_entry])
          /\ next_entry' = Len(mem_map) + 1
          /\ UNCHANGED <<mapping, curr_vaddr>>
    /\ UNCHANGED <<mem_map, page_tables, stage>>

MapEntry ==
    /\ At("memmap")
    /\ next_entry <= Len(mem_map)
    /\ next_entry' = next_entry + 1
    /\ \/ /\ DirectlyMapped(mem_map[next_entry])
          /\ directly_map_phys_range(mem_map[next_entry].start,
                                     mem_map[next_entry].end,
                                     HYPERVISOR_DIRECT_MAPPING_OFFSET)
       \/ /\ ~ DirectlyMapped(mem_map[next_entry])
          /\ UNCHANGED <<mapping, curr_vaddr>>
    /\ UNCHANGED <<mem_map, page_tables, stage>>

MapHypervisor ==
    /\ At("memmap")
    /\ next_entry > Len(mem_map)
    /\ directly_map_phys_range(
         hypervisor_region.paddr_start,
         hypervisor_region.paddr_start + hypervisor_region.length - 1,
         hypervisor_region.vaddr_start - hypervisor_region.paddr_start)
    /\ stage' = "hypervisor"
    /\ UNCHANGED <<mem_map, page_tables, next_entry>>

SwitchAddrSpace ==
    /\ At("hypervisor")
    /\ stage' = "live"
    /\ UNCHANGED <<mem_map, page_tables, mapping, curr_vaddr, next_entry>>

\* The processor tells the frequency of its TSC, or the HPET is needed to
\* measure it, or there are no timers and no boot.
compute_tsc_frequency ==
    /\ At("live")
    /\ \/ Die
       \/ /\ stage' = "up"
          /\ UNCHANGED <<mem_map, page_tables, mapping, curr_vaddr, next_entry>>
       \/ /\ raw_identity_map_mmio_page(HPET_BASE)
          /\ stage' = "hpet"
          /\ UNCHANGED <<mem_map, page_tables, next_entry>>

init_hpet ==
    /\ At("hpet")
    /\ \/ Die                     \* hpet_unusable
       \/ /\ stage' = "up"
          /\ UNCHANGED <<mem_map, page_tables, mapping, curr_vaddr, next_entry>>

SpaceNext ==
    \/ MapBlock \/ InitEntryFails
    \/ MapApicPage \/ setup_direct_mapping_from_memmap \/ MapEntry
    \/ MapHypervisor \/ SwitchAddrSpace \/ compute_tsc_frequency \/ init_hpet

-----------------------------------------------------------------------------
(* Properties *)

ResolvesTo(vaddr, paddr) == Resolves(vaddr) /\ Resolved(vaddr) = paddr

\* From the write of CR3 on, the hypervisor finds everything it uses where it
\* looks for it: every byte the memory map lends it behind phys_to_virt, its
\* image at the addresses it is linked for, and the page of the local APIC at
\* its physical address; once the HPET has been set up, its page as well.
\* Entries of the map need not be page aligned and may share a page, tables
\* are shared by ranges mapped one after the other, and mapping the HPET
\* changes the tables that are in use.
SpaceComplete ==
    /\ stage \in {"live", "hpet", "up"} =>
         /\ \A i \in DOMAIN mem_map : DirectlyMapped(mem_map[i]) =>
              \A p \in PagesOf(mem_map[i].start, mem_map[i].end) :
                  ResolvesTo(phys_to_virt(p), p)
         /\ \A v \in PagesOf(hypervisor_region.vaddr_start,
                             hypervisor_region.vaddr_start
                                 + hypervisor_region.length - 1) :
                ResolvesTo(v, v - hypervisor_region.vaddr_start
                                + hypervisor_region.paddr_start)
         /\ ResolvesTo(LapicBase, LapicBase)
    /\ At("hpet") => ResolvesTo(HPET_BASE, HPET_BASE)
=============================================================================
