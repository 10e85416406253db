# A TLA+ verification of HyveMind

HyveMind is a bare-metal x86-64 hypervisor that uses Intel VMX. This directory
holds TLA+ models of its parts, TLC configurations that check them on small
instances, and TLAPS proofs of the results that matter most. `PROJECT.json`
lists components, runs, mutants, the map from definitions to source lines,
hazards, findings and theorems. Paths below are relative to `hypervisor/src/`.

## The system

The bootloader (limine) starts the BSP in `hypervisor_main`. It sizes and
initialises the page-frame allocator, the heap and the address space, maps the
CPU topology, and starts the APs. Every AP sets itself up, registers itself in
the online mask and enters the scheduler loop. Meanwhile the BSP parses the
configuration file, creates the VMs (memory, EPT, devices, VMCS of each vCPU,
guest kernel), submits every vCPU to the run queue of some online CPU, and
enters the loop too. A CPU runs the first task of its queue, or halts; a
submission kicks an idle CPU with an IPI. A running guest exits to the
hypervisor for I/O, MSR accesses and interrupts, and on every entry the virtual
PIC is asked for an interrupt to inject.

### Inventory

| part | sources | state | modules |
|---|---|---|---|
| page-frame allocator | `pf_alloc.c`, `phys_mm.c` | bitmap, counters, hint, lock | `PfAlloc`, `FramePool`, `PfAllocProof` |
| heap allocator | `halloc.c`, `halloc_internal.h` | free lists, page records, lock | `Halloc` on `FramePool`; `HallocInvariant`, `HallocProof` |
| lists | `include/lib/list.h` | pointers | `List` |
| scheduler, kick, AP registration | `sched.c`, `arch/x64/vmm.c`, `arch/x64/setup.c` | run queues, CPU states, online mask, IPIs | `Sched`, `RunQueues` |
| timers | `timer.c` | heap of deadlines, TSC-deadline register | `Timer`, `TimerProof` |
| set-up of BSP and APs | `arch/x64/setup.c`, `arch/x64/apic.c` | address space, tables, VMX operation, online mask | `CpuSetup`, `VmxProof` |
| VM creation and vCPU execution | `vm.c`, `arch/x64/vm/vm.c`, `arch/x64/vmx/vmx.c`, `arch/x64/vmx/entry.S` | vCPU states, VMCS pointers, launch states, host state | `Vmx` on `CpuSetup`, `VmxProof` |
| address space of the hypervisor | `arch/x64/direct_mapping.c`, `arch/x64/pgtables.c`, `arch/x64/setup.c`, `phys_mm.c` | page tables | `AddrSpace`, `EptProof` |
| guest memory | `arch/x64/vmx/ept.c` and its headers | extended page tables | `Ept` on `AddrSpace`, `EptProof` |
| virtual PIC, interrupt injection | `arch/x64/vm/vpic.c`, `arch/x64/vmx/vmx.c` | registers of two chips, interrupt window, interruptibility of the guest | `VPic`, `VPicProof` |
| tokeniser | `lib/mem_file.c` | position in the file | `MemFile` |
| radix tree | `lib/radix-tree.c` | nodes | `RadixTree` |
| VM configuration | `vm_config.c` and its headers, `strdup_nt` | parser state, requests, configurations, strings | `VmConfig` on `MemFile` and `RadixTree` |
| Linux loader | `arch/x64/loader/linux_loader.c` | guest memory, boot parameters | `LinuxLoader` |
| from configuration to VMs | `hypervisor.c`, `vm.c` | list of VMs | `GuestBoot`, which composes the last four; `ConfigMeaning`, `GuestBootProof` |
| VMX policy | `arch/x64/vmx/policy.c` | bit masks | see "Not modelled" |
| host PIC and interrupt dispatch | `arch/x64/irq.c`, `arch/x64/pic.c` | descriptors, mask registers | see "Not modelled" |
| APIC, HPET, UART, GDT/IDT, console, `printf`, boot assembly | `arch/x64/`, `drivers/` | device registers | see "Not modelled" |

## Modules

**`PfAlloc`** models `pf_alloc.c`. The constants are the bootloader's memory
map, the CPUs and the request sizes. `Init` is the result of
`early_init_page_frame_allocator`: where the metadata goes and which bits are
set is computed from the map by the translated helpers. `__get_pages` is split
into the early return (`Refuse`), the start of the search (`StartSearch`), the
three outcomes of a loop iteration (`SkipUsed`, `ExtendStreak`, `Claim`) and the
failing end (`GiveUp`); `free_pages_raw` is one step. A (byte, bit) pair of the
code is one bit number. The counters are `uint64_t` (`% Word`). **`FramePool`**
is what callers may rely on: a set of disjoint blocks of unreserved frames.

**`List`** models the pointer writes of `lib/list.h` on a record of two pointer
functions. **`Sched`** models the run queues on top of it, the shared
`idle_task`, `cpu->lock` (the section of `__schedule` that contains another lock
section), the halt and the kick, and the registration of APs, whose
read-modify-write of the online mask is two steps. **`RunQueues`** is the
abstract service: FIFO queues from which each CPU takes a vCPU to run.

**`VPic`** models both 8259 chips and the two lock sections in which the entry
path first asks for a pending interrupt and then fetches it. Port values are
bytes, registers are sets of lines. `guest` is how an exit left the guest: able to
take an interrupt (`open`), with interrupts disabled (`closed`, as it starts) or
halted; the entry path then injects, or arms the interrupt window, whose exit comes
once the guest is open again. `vcpu_has_external_irq`,
`vcpu_get_external_irq` and `guest_apic_register_write` are not part of the
sources; they are modelled from their use.

**`Timer`** models the heap of one CPU in its array. Every iteration of
`heapify_up`, of `heapify_down` and of the handler's loop is a step, and so is
what lies between two of them: interrupts are off, so no other thread comes in
between, but time goes on and the hardware timer may expire. The armed deadline
expires in the hardware, which leaves a pending interrupt. A deadline counts from
now (`init_timer_ticks`), or is given and may be over (`init_timer_deadline`).

**`Halloc`** models the bins, the page fallback and the array of page records
of `halloc.c`. The pages come from `FramePool`, the specification `PfAlloc` is
proved to implement. A large allocation takes its pages outside the lock and
records them inside; a small one that runs out of memory leaves the lock taken,
as the code does.

**`CpuSetup`** has the steps of `arch_setup_bsp` and `arch_setup_ap`, each of
which may fail: which address space a CPU is in, whose GDT and TSS it has loaded,
whether it reaches its APIC, whether it is in VMX operation, and the
registration in the online mask, a read and a write without a lock.

**`Vmx`** adds the vCPUs. It keeps apart what the code believes about a VMCS
(`active_cpu`, `launch_state`, `curr_vcpu`) and what the processors know
(`hw_...`), which only `vmclear`, `vmptrld` and the entry instructions change.
The BSP creates the VMs one vCPU after another while the APs still set
themselves up, and hands every vCPU to some CPU of the online mask (any of them:
the round robin of the scheduler is in `Sched`). Every CPU executes its own. An
exit loads the host state of the VMCS, which was captured on the BSP; so an AP
then runs with the tables of the BSP.

**`AddrSpace`** has `create_addr_space`: the page of the local APIC, the entries
of the memory map, the image of the hypervisor, the switch, and the page of the
HPET, if the clock has to be measured. A step of the mapping loops is one PD
entry with the tables on the way to it; no build uses large pages there.
**`Ept`** folds the four nested loops of the extended page tables into one loop
over a level and an address. Encodings of the frame fields, with their shifts,
are modelled, and so is the walk of the processor that reads them back. VMs are
created in the finished address space: their memory comes from the usable
entries of its memory map, and a copy into guest memory goes where the
hypervisor's own page tables take it.

**`MemFile`** is the scan for the next token. A text is a sequence of letters,
where a letter may be a run of characters that are valid in tokens; the scan
treats the characters of a run alike. The loops compare the saved position with
the size of the file and not the one they advance, so a scan may read on behind
the file: `beyond` is what it finds there, and behind that it faults.
**`RadixTree`** has one step for every round of an insertion; nodes are numbered
as they are allocated, so that a lost one can be told. **`VmConfig`** has one
action for each state of the parser, one for the completion of an entry and one
for the conversion of a request. A string is its text and the number of its
allocation, so that ownership can be stated. What the tokeniser returns is a
status and two positions; the characters between them (`Spelled`) are compared
only where the code compares them. A line without a token is a step of its own
(`SkipLine`).
**`LinuxLoader`** has one action for the checks of the image and one for each
copy; guest memory records which part each byte was last written for.
**`GuestBoot`** runs them as `hypervisor_main` does: all configurations are
read, a VM is created for each, the configurations are released.
**`ConfigMeaning`** has the properties that compare the result with the file: it
describes a file by the positions of its
tokens, and shares with the parser only the names of keys and values. The
description covers files whose last line is closed; on others the code reads
behind the file, and what is stated of those is the ownership and release of
strings, the tree, the bounds of the copies and the end of the boot.

## Runs

| run | instance | shows |
|---|---|---|
| `pfalloc` | 2 CPUs, 8 frames with a hole, requests 0, 1, 2 | frames exclusive, bitmap and counters exact, a failed search is justified, the lock is released, refinement of `FramePool` |
| `pfalloc_refuse` | the same | violation: requests are refused although a run of free frames exists |
| `halloc` | 2 CPUs, 2 bins, 6 frames, 3 allocations at a time | allocations disjoint, no chunk or page lost or listed twice, page records as `hfree` needs them |
| `sched` | 2 CPUs, 4 vCPUs, only the first may fail (a needed restriction, see below) | no lost wake-up, lists well formed and every vCPU in one place, queues make progress, refinement of `RunQueues` |
| `sched_idle_task` | 3 CPUs, 4 vCPUs | violation: the shared idle task joins the lists of two CPUs |
| `timer` | 4 timers, one periodic, deadlines from now or given | heap ordered with every timer in it once, hardware armed for the earliest, every timer fires once time reaches its deadline |
| `vmx` | 1 VM with 2 vCPUs, 3 CPUs (the 2 APs are symmetric) | online CPUs can run vCPUs, a registration is lost only to one that overlaps it, a VMCS is active where the code believes, accesses reach the right one, `vmlaunch` and `vmresume` are used as the processor demands |
| `ept` | tables of 4 entries, 3 memory maps, 10 sizes, 4 alignments, large pages on or off | the hypervisor's address space is complete; without large PD pages, guest and hypervisor agree on RAM and nothing else is mapped; APIC page reachable, translations never changed, the loops end |
| `ept_large` | the same | violation: behind a large PD entry the guest does not see what was copied |
| `vpic` | lines 1, 3 and 8, three init sequences | requests are kept, nesting by priority with the cascade in step, an interrupt that cannot be injected is tried again, announced interrupts stay |
| `vpic_pending` | lines 1 and 8 | violation: a master interrupt is hidden by one of the slave |
| `guest_boot` | 1020 files, 24 setup headers | scans stay inside the file, the tree finds exactly the keys, configurations mean what the file says, only bad files are refused, strings have one owner and are released, the parts of a guest stay intact, the boot ends |

**Bounds.** Eight frames with a hole give wrap-around, joined streaks and a
full bitmap; two CPUs give every interleaving of one search with a free. Two
bins and six frames give refills, exhaustion and the reuse of a page by the
other kind of allocation. Two CPUs and four vCPUs give queues of several entries
and an AP that comes online before, between and after the submissions. Four
timers make a heap of three levels, with equal deadlines; `MaxTsc` bounds the
clock, and liveness is stated of deadlines below it. Two vCPUs of one VM let
creation switch from one VMCS to the other and back in every stage, and may both
go to one CPU; two APs can lose each other's registration while the BSP looks at
the mask. A VM more would not fit the time of a run; the theorems on `Vmx` are
about any number of VMs.
Tables of four entries keep every relation between the levels while memory
still spans two PML4 blocks. The three memory maps have one with room for a VM
behind a hole, one with entries that share pages and with memory in two PML4
blocks, and one that does not fit. Lines 1 and 3 lie on both sides of the cascade
line and line 8 is on the slave; three init sequences initialise both chips and
restart one of them (`restarts` counts them). The files are all selections of
the lines of an entry, every kind of wrong value, repeated keys, pairs of
entries, one entry more than the vector holds (its capacity is 2), every prefix
of a file of two entries, and every token of its first entry replaced by each
reserved word, a key, an unknown word and an unreadable token; every
arrangement of up to three letters of six kinds as the value of a key; strings
that are nearly keys; and files that break off in their last line. The headers change
one field at a time, and the two load addresses together. Integers are 5 to 7
bits wide there, so that truncation and overflow happen.

**Fairness.** `PfAlloc` and `Sched` assume only that a CPU inside the allocator
or the scheduler keeps executing and that a pending IPI is delivered. `Timer`
assumes that the clock advances, that the hardware raises an expired deadline,
and that the handler keeps running once entered. `Ept` and `GuestBoot` assume
that the BSP, which alone runs them, keeps executing. `VPic` assumes that a CPU in
the entry path goes on to the guest (weak fairness of `Entry`), and one thing of the
guest: if it runs again and again with the window armed, it does not keep interrupts
disabled for ever, so the exit comes at some time (strong fairness of `ExitWindow`,
since other exits may come first). Nothing else is assumed of guests, of device
interrupts or of calls.

**Deadlock** checking is off where the system may stop: all CPUs halted or in
guests that never fail, a guest that made the PIC give up, a heap whose lock was
left taken, time at its bound, or the end of a boot.

**What `sched` does not show.** Its four properties are not true of the code in
general. `__schedule` re-enqueues the idle task like any other, and the instance
is one where this does no harm: the only vCPU that may fail is the first, which
the BSP runs after its last submission. With `MayFail = {v2}` in `Sched.cfg`,
`NoLostWakeup` and `QueuedVcpuRuns` are violated: after its vCPU failed, an AP
takes the idle task from its queue, halts without `CPU_IDLE`, and is not kicked
for the next vCPU. With all four vCPUs in `MayFail`, all four are violated, since
both CPUs come to link the idle task and their lists are joined; with three
CPUs (`sched_idle_task`) that happens without any failure. What `sched` does show
is that the rest of the protocol, namely the kick against a CPU about to halt,
late registration, the killing of a task and the list operations, is not at
fault.

**Exceptions written into properties.** `GuestMemoryExact` leaves
out processors with large pages in PD entries, the subject of `ept_large`, and
allows the one page behind a mapping, since the end of a range is inclusive.
`SpaceComplete` is about machines where memory that passes `phys_memory_fits`,
which adds up sizes only, also lies inside the range of the direct mapping
(`SpaceAssumption`). The model
also takes the bootloader's direct mapping to have the offset of the hypervisor's,
as `pgtables.c:27` does. `NoFieldsAstray` allows the incomplete VMCS of a vCPU without an
exit stack. `OnlineIsReady` allows a CPU to have the tables of the BSP, which an exit
loads on whichever CPU the vCPU runs. `AnnouncedIsFetched` allows an announced interrupt to be hidden by a
new request on line 0 or 1, the subject of `vpic_pending`. `TriedAgain` leaves out
a halted guest: the entry path finds its activity state set, arms the window, and the
exit of the window does not reset that state, so the guest is turned away at every
entry. `NothingLeaked` counts
the strings a repeated key has overwritten as lost. `ConfigsMeanFile` compares numbers
by their low 32 bits, and `RejectsOnlyBad` leaves out files with a number that does
not fit into them (`HasWideNumber`): the parser converts to 64 bits and stores 32
before it compares (`vm_config.c:228`), so a wide number may pass for a small one,
although the messages ask for "an integer greater than 1" (line 243) or for one of
the three serial devices (line 272). Neither property covers files with an open last line;
there the position after a token is "possibly OOB" (`include/lib/mem_file.h:38`), and so is
what the scan has read. `GuestFindsItsParts` speaks of kernels that are loaded above
the zero page and at or below their preferred address, with the memory of the kernel
at run time and that of the VM below 4 GB, and a command line that ends before the
zero page.

## Proofs

`PfAllocProof` proves for every memory map, set of CPUs and set of requests
that satisfy the named assumptions of `PfAlloc`: `TypeCorrect`,
`FramesAreExclusive`, `BitmapIsExact`, `CountersAreExact`, `SearchIsComplete`
and `AllocatorImplementsPool`. Exclusiveness is not inductive: a claim relies on
what the search has seen. The inductive invariant `IInv` adds that a searching
CPU holds the lock (`LockInv`), that the frames of its current streak are free
and adjacent to its position (`SearchInv`), and that outstanding blocks are
disjoint and unreserved (`OutstandingInv`); with `BitmapExact`, a free streak
then belongs to nobody. That a search gives up only if there is nothing to find
needs the rest of the loop's invariant, `PassedInv`: where the search stands
after so many bits (it may go round the bitmap twice), and that no run of free
frames of the wanted length starts at a bit that it has passed. A streak is cut
at the end of the bitmap, as a run is.

`HallocInvariant` and `HallocProof` prove, for every set of CPUs, every memory,
every table of bins within the limits of the code and every set of request sizes,
what `halloc` checks with two bins and six frames: `MemoryIsExclusive`,
`RecordsAreExact` and `NoMemoryIsLost`. `HallocAssumption` says that there are one
to seven bins, in ascending order of chunks of 32 to 2048 bytes, and that the
frames are finitely many. Disjoint allocations do not follow from disjoint
allocations: a free list may hold a chunk twice, and a record may be about other
pages. The inductive invariant `HallocInv` therefore ties four things together:

- `BlocksInv`: the blocks from the page-frame allocator are disjoint, and what a CPU
  has got and not recorded yet is its own;
- `FlagsInv`: the record of a page names the bin, and then all of its block does, or
  it is the first page of a large block whose length is in `contig_allocated`;
- `PointersInv`: a listed chunk is one of its bin, is listed once and held by
  nobody; an allocation is a chunk, or the pages its record counts; and a pointer
  that is being freed is no longer an allocation and is freed once;
- `KeptInv`: every chunk is listed or held, and every recorded block has a use.

`PlacesInv` and `HallocTypeOK` say what a CPU works on and keep the types. The last
two theorems have the hypothesis `CountsFit`: no request takes exactly 256 pages,
the one count that `hmalloc` accepts and the `uint8_t` in the record cannot hold
(`halloc.c:159`). It is about the constant `Sizes`, so it excludes requests of more
than 255 pages and nothing else; exclusiveness holds without it. Callers are taken to free what they
hold, once, as `CallHfree` says.

`VPicProof` proves, for every set of lines that devices raise and every set of bytes
that the guest writes: `AnnouncementsHold`, `NoRequestIsLost` and
`InterruptsNest`. The invariant adds to `AnnouncedIsFetched` the types of the
registers, that vector bases are multiples of eight, and that the line of the slave
is never requested on the master (`PicsOK`): with it the two priority searches of
`vpic_has_pending_irq` and of the fetch agree on the chip (`Pending`).

`VmxProof` proves, for every set of CPUs and every sequence of VMs, what `vmx` checks with three CPUs and two vCPUs: `OnlineCpusAreReady`,
`RegistrationLostOnlyByOverlap`, `VmcsActiveWhereBelieved`,
`AccessesReachOwnVmcs`, `EntriesFitLaunchState` and `ReadyVcpusHaveTheirFields`. The assumptions are that the
BSP is one of the CPUs, that `NULL` is neither a CPU nor a vCPU, that there is a
VM and no VM is without a vCPU, and that a vCPU occurs once (`CpuAssumption`,
`VmxAssumption`). The inductive invariant `IInv` has two parts. `SetupInv`
says how far each CPU has come by where it stands, and that the
online mask, and every copy a CPU has read of it, holds only CPUs that have
registered and can run vCPUs. `VmxInv` is needed since the properties say nothing of vCPUs to come:
one that has not been allocated is on no CPU (`Pending`), one that has not been
submitted is never executed (`Unsubmitted`), the vCPU a CPU executes is its own
and current there, and where the entry path chooses between `vmlaunch` and
`vmresume` the launch state of the code is that of the processor. The fields of a VMCS need a second invariant on top, `FieldsInv`: the
creation comes back to each vCPU several times, and what has been written by then
depends on the stage and on the position in it (`PastInit`, `PastRegisters`,
`PastReady`).

`EptProof` proves, for every memory map, every size of pages
and tables, every size of RAM and every place of it, what `ept` checks with tables
of four entries: `AddressSpaceIsComplete`, `TranslationsAreStable`,
`GuestMemoryIsExact` and `ApicIsReachable`. `SpaceAssumption` says what the code
takes for granted of the machine and the link script: whole pages where it does
not align, pages of devices below the direct mapping and the image above it, and
the range mentioned above. `EptAssumption` says that the page-frame allocator
hands out whole pages. It and `PowerAssumption` also hold the facts about powers of
two that the provers do not know. There are two inductive invariants:

- `SpaceInv` is about the hypervisor's tables. `TablesInv` ties every page that is
  mapped to the region it lies in (`Expected`), which is needed since a later range
  skips pages that are present; and it has the tables on the way to the page.
  `MappingInv` keeps the running mapping inside one region. `ReachInv` says of all
  that should be mapped so far that it is, or that the running mapping still comes to
  it; `CompleteInv` that nothing is missing after the switch.
- `EptInv` is about the guest's tables. `WalkInv` has the loops inside their range and
  in tables that are present, `RequestInv` what they map, `HostInv` where the
  memory comes from, and that the address space is finished. `CoverInv` says
  that all below the loop's address translates already, and nothing outside a
  request. The main step is that a block ends where the next one of some
  level begins (`NextBlockWalk`), and that an entry holds the address of its
  memory (`PageEntryAddress`); the latter fails for 2 MB pages, whose entries take the
  address by the megabyte, and is the reason for the exception above.

Agreement of both sets of tables (`RamIsReachable`) needs both invariants: RAM lies in
a usable entry of the memory map, and every such entry is directly mapped.

`TimerProof` proves, for every set of timers, every capacity and every period,
`TimersKeepTheHeap` and `EarliestTimerArmed`. Neither follows from itself, since a
loop leaves the heap out of order between two of its iterations. `TimerInv` says by
how much: the nodes hold each queued timer once, and while `heapify_up` runs the
one it carries (`Members`); every node is due no earlier than its parent, but for
the edge that `heapify_up` has still to look at, or the two below the node that
`heapify_down` has reached; and around that node its parent is due before its
children, so that a swap opens no other edge (`Order`). That the root is then due
first is shown by a least exception (`RootLeast`), which takes the place of an
induction over the tree. `Armed` adds that the register is not later than any
queued deadline, or the interrupt is already pending.

`GuestBootProof` proves, for every set of configuration files, of setup headers and
of file sizes, four of the properties that `guest_boot` checks:
`StringsHaveOneOwner`, `ScansStayInside`, `CopiesStayInside` and `PartsStayInPlace`.
The assumptions are that a file is two sequences of letters, that sizes, addresses
and the members of a header are natural numbers, that the three pages of the loader
lie in the order of their addresses, and that 32-bit addresses and a page fit into
64 bits (`VmConfigAssumption`, `LinuxLoaderAssumption`, `GuestBootAssumption`). The
inductive invariant `BootInv` has four parts:

- `ParserInv`: a request has the members of the struct and a granularity that the
  code knows, and the files of a configuration were found; the loader relies on
  both;
- `OwnerInv`: live strings were allocated before the next one (`Allocated`), so that
  a new string belongs to nobody; the rest is `StringsOwnedOnce` itself. Each step
  of `get_vm_configs` is first shown to have one of six effects on the requests
  (`RequestEffect`), and each effect to keep the owners apart (`OwnedOnce`);
- `ScanInv`: in a closed file the parser stands inside the file or at its end, behind
  an even number of quotes (`Outside`). So a scan for blanks or a plain token meets
  the line break that ends the file, at the latest, and an opening quote has a closing
  one behind it (`QuoteCloses`): the missing comparison with the size of the file does
  no harm;
- `LoaderInv`: what has been copied is still there. The kernel keeps all bytes of
  its copy from `code32_start` on, the initramfs lies behind the memory that the kernel
  takes from `pref_address` on (the sum that places it does not overflow, as
  `ExpectedHeader` has that memory below 4 GB), and the three low copies end below the
  kernel and each before the next.

Only model-checked are the properties of `List` and `Sched`, the other five of
`GuestBoot`, and every liveness property. Those of `Sched` are not true of
every instance (see "What `sched` does not show"), so there is no theorem to be had.
The lists of `List` are reached by following pointers, which needs induction over
data. `ConfigsMeanFile`, `RejectsOnlyBad` and `NothingLeaked` compare the parser with
a fold over the lines of the file, and `TreeHoldsKeys` a look-up with the whole path
of a string through the tree: both are inductions over data, too.
Two things stay with TLC for good: liveness under fairness and `ENABLED`, and what
a recursive definition computes for every input (the library's induction
theorems cannot be instantiated by the provers at hand).

## Known divergences

The four violation runs are reported as findings in `PROJECT.json`, each with the
line of the repository that it contradicts. Other places where the code
does something surprising, without a line of the repository that says otherwise,
are modelled as they are:

- `halloc.c:199`: the lock stays taken when a bin cannot be refilled;
- `halloc.c:159`: 256 pages are recorded as 0 in a `uint8_t`;
- `vm/vpic.c:148`: a specific EOI uses two bits of the line number;
- `vm/vpic.c:134`: `die_reason` is called with the lock of the PIC taken;
- `vm/vpic.c:235`: an interrupt raised while the guest runs waits for an exit;
- `vmx/vmx.c:848`: a halted guest is turned away at every entry, since nothing resets
  its activity state;
- `vmx/vmx.c:741`: a VMCS without an exit stack is taken for a complete one;
- `vm.c:95`: one vCPU too few is destroyed when an allocation fails;
- `vm_config.c:602`: a Linux entry without a command line ends the boot;
- `vm_config.c:228`: numbers are cut to 32 bits before they are compared;
- `vm_config.c:216`: a repeated key loses the earlier string;
- `loader/linux_loader.c:125`: a wrong end of the header returns -1, that is, true.

Three assumptions keep cases out that no caller in the sources makes: a periodic
timer has a positive period, a deadline that is given is not 0 (which would disarm
the hardware timer), and a `timer_action` leaves the heap alone. The
timer instance has room for all its timers, so a full heap is not reached.

## Not modelled

- *Host interrupts* (`arch/x64/irq.c`, `arch/x64/pic.c`). No source calls
  `request_irq`, so no descriptor ever gets a handler; and the interrupts that
  are used, of the timer and of the kick, do not go through it.
- *VMX policy* (`arch/x64/vmx/policy.c`). It reads and writes fields that no
  header declares (`policy.c:146`, `vmx.c:710`), so what it computes cannot be
  read off the sources. In `CpuSetup` it is a step that may fail.
- *Devices and tables*: register set-up of APIC, HPET, UART and PIC, descriptor
  tables and boot assembly are fixed sequences of writes without state that
  several steps share. The order in which a CPU loads and uses them is in
  `CpuSetup`, the mapping of their pages in `AddrSpace`. Calibration of the
  clock is arithmetic on hardware values.
- *Text and values*: console and `printf` format text; CPUID and MSR emulation
  copy values.
- *Unused code*: `modify_page_attributes` and the large pages of the direct
  mapping are not reached by any caller.
- *Errors of VM creation* end the boot, so what they give back is left out
  except for the vCPUs.
- `vcpu_has_external_irq`, `vcpu_get_external_irq`, `guest_io_instruction`,
  `guest_apic_register_write`, `emulate_wrmsr` and `arch_destroy_vm` are declared
  and used, but not part of the sources.
- *Compositions left out*: `Sched` and `Vmx` each have the part of the other they
  need (which vCPU fails; any CPU of the mask), since together they exceed what
  TLC can explore. `Halloc` uses the specification of the page-frame allocator.

Next would be a proof that every round of `radix_tree_add` keeps the keys of the
tree, from an invariant about the path to each of them.
