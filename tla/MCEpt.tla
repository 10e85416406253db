------------------------------- MODULE MCEpt -------------------------------
(***************************************************************************)
(* Tables of four entries: a PD entry covers 4 pages, a PDPT entry 16 and  *)
(* a PML4 entry 64; 1 MB is 2 pages.                                       *)
(***************************************************************************)
EXTENDS Ept

Pages(S) == {p * PAGE_SIZE : p \in S}

\* Below and above each block size, sizes that are no multiple of a page, and
\* two that reach the APIC page.
MCReqBytes == Pages({1, 2, 6, 15, 16, 18, 33, 68}) \cup {3 * PAGE_SIZE + 5, 17 * PAGE_SIZE - 1}

\* Aligned to 1 GB, to 2 MB, to 1 MB, and to a page only.
MCHostStarts == Pages({32, 36, 34, 33})

MCApic == 34 * PAGE_SIZE

MCApicPages == Pages({24, 50})

MCCopies == {<<a, n>> : a \in Pages({0, 5}), n \in {PAGE_SIZE + 1} \cup Pages({3})}

\* Whole pages.
Region(first, nr, type) == <<first * PAGE_SIZE, nr * PAGE_SIZE, type>>

\* Memory for a VM behind a hole; an entry of a single page, a reserved entry
\* between usable ones, an image that starts and ends inside pages which it
\* shares with its neighbours; a map over two PML4 entries; more memory than
\* the range of the direct mapping holds.
MCMemMaps ==
    {<<Region(0, 1, "LIMINE_USABLE"), Region(1, 3, "LIMINE_RESERVED"),
       Region(4, 3, "LIMINE_EXECUTABLE_AND_MODULES"),
       Region(7, 2, "LIMINE_BOOTLOADER_RECLAIMABLE"),
       Region(24, 80, "LIMINE_USABLE")>>,
     <<<<0, 3 * PAGE_SIZE + 7, "LIMINE_EXECUTABLE_AND_MODULES">>,
       <<3 * PAGE_SIZE + 7, 2 * PAGE_SIZE, "LIMINE_EXECUTABLE_AND_MODULES">>,
       <<5 * PAGE_SIZE + 7, PAGE_SIZE - 7, "LIMINE_ACPI_TABLES">>,
       Region(6, 1, "LIMINE_USABLE"), Region(62, 5, "LIMINE_USABLE")>>,
     <<Region(0, 120, "LIMINE_USABLE"), Region(125, 9, "LIMINE_BOOTLOADER_RECLAIMABLE")>>}

MCLapicBase == 252 * PAGE_SIZE
MCHpetBase == 250 * PAGE_SIZE
MCDirectOffset == 256 * PAGE_SIZE
MCDirectRange == 128 * PAGE_SIZE

\* The image is linked for addresses above the direct mapping.
MCRegion == [paddr_start |-> 4 * PAGE_SIZE, vaddr_start |-> 509 * PAGE_SIZE,
             length |-> 2 * PAGE_SIZE + 9]
=============================================================================
