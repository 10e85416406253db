------------------------------ MODULE PfAlloc ------------------------------
(***************************************************************************)
(* The bitmap page-frame allocator (pf_alloc.c) and the memory information *)
(* it is sized from (phys_mm.c).                                           *)
(*                                                                         *)
(* CPUs call __get_pages and free_pages_raw concurrently; both run under   *)
(* global_pfalloc_lock.  The search of __get_pages is modelled one         *)
(* iteration of its while loop at a time.  A (byte, bit) pair of the code  *)
(* is the bit number byte * 8 + bit, which is the page-frame number.       *)
(***************************************************************************)
EXTENDS Integers, Sequences, FiniteSets

CONSTANTS
    Cpu,        \* processors that call the allocator
    MemMap,     \* the bootloader's map: sequence of [type, base, length], in bytes
    Requests,   \* values of nr the callers ask for
    Word        \* 2^64: the counters are uint64_t

PageSize == 4096

phys_to_pfn(addr) == addr \div PageSize

BYTE_LEN_TO_PAGES(len) ==
    (len \div PageSize) + (IF len % PageSize # 0 THEN 1 ELSE 0)

\* Page frames of a region of len bytes at base.
Pages(base, len) ==
    phys_to_pfn(base) .. (phys_to_pfn(base) + BYTE_LEN_TO_PAGES(len) - 1)

Entries == {MemMap[i] : i \in DOMAIN MemMap}
UsableEntries == {e \in Entries : e.type = "usable"}

\* init_system_memory_info: highest mapped address, and from it the bitmap size.
highest_mapped_addr ==
    LET ends == {e.base + e.length - 1 : e \in Entries}
    IN  CHOOSE h \in ends : \A x \in ends : x <= h

nr_of_pfns == phys_to_pfn(highest_mapped_addr) + 1

bitmap_size == (nr_of_pfns \div 8) + (IF nr_of_pfns % 8 # 0 THEN 1 ELSE 0)

\* sizeof(struct pf_bitmap_allocator)
AllocatorStructSize == 48

allocator_region_size == AllocatorStructSize + bitmap_size

\* find_contiguous_memory_region: index of the first usable entry that fits.
Fits(i) == MemMap[i].type = "usable" /\ MemMap[i].length > allocator_region_size

find_contiguous_memory_region ==
    CHOOSE i \in DOMAIN MemMap : Fits(i) /\ \A j \in DOMAIN MemMap : j < i => ~Fits(j)

UsableFrames == UNION {Pages(e.base, e.length) : e \in UsableEntries}

\* Frames the allocator marks as used for its own metadata.
MetaFrames == Pages(MemMap[find_contiguous_memory_region].base, allocator_region_size)

total_bits == bitmap_size * 8
Frames == 0 .. (total_bits - 1)
Reserved == Frames \ (UsableFrames \ MetaFrames)

\* The bootloader's map is usable: a first entry that fits holds the metadata,
\* and the bitmap covers the usable frames.
ASSUME MemMapAssumption ==
    /\ MemMap \in Seq([type : {"usable", "reclaimable", "hypervisor", "reserved"},
                       base : Nat, length : Nat \ {0}])
    /\ \E i \in DOMAIN MemMap : Fits(i) /\ \A j \in DOMAIN MemMap : j < i => ~Fits(j)
    /\ bitmap_size \in Nat \ {0}
    /\ UsableFrames \subseteq Frames

ASSUME RequestsAssumption == Requests \subseteq Nat
ASSUME WordAssumption == Word \in Nat /\ Word > 2 * total_bits

Free == "free"       \* SPINLOCK_FREE
ASSUME CpuAssumption == Free \notin Cpu

VARIABLES
    bitmap,               \* [Frames -> BOOLEAN], TRUE: used
    last_alloc_hint,      \* (last_alloc_byte_hint, last_alloc_bit_hint) as a bit number
    allocatable_frames,
    allocated_page_frames,
    lock,                 \* global_pfalloc_lock: its holder, or Free
    pc,                   \* what each CPU is doing
    nr,                   \* per CPU: the argument nr
    addr,                 \* per CPU: first frame of the block being freed
    bit_pos,              \* locals of the search, per CPU ...
    area_start,           \* free_contig_area_start
    explored_bits,
    free_streak,
    remaining_needed,
    held                  \* blocks <<first frame, nr>> that callers hold

search == <<bit_pos, area_start, explored_bits, free_streak, remaining_needed>>
counters == <<allocatable_frames, allocated_page_frames>>
vars == <<bitmap, last_alloc_hint, counters, lock, pc, nr, addr, search, held>>
-----------------------------------------------------------------------------
FramesOf(b) == b[1] .. (b[1] + b[2] - 1)

\* early_init_page_frame_allocator, run by the BSP before any other CPU is up.
Init ==
    /\ bitmap = [f \in Frames |-> f \notin UsableFrames \/ f \in MetaFrames]
    /\ last_alloc_hint = 0
    /\ allocatable_frames = Cardinality(UsableFrames) - Cardinality(MetaFrames)
    /\ allocated_page_frames = Cardinality(MetaFrames)
    /\ lock = Free
    /\ pc = [c \in Cpu |-> "idle"]
    /\ nr = [c \in Cpu |-> 0]
    /\ addr = [c \in Cpu |-> 0]
    /\ bit_pos = [c \in Cpu |-> 0]
    /\ area_start = [c \in Cpu |-> 0]
    /\ explored_bits = [c \in Cpu |-> 0]
    /\ free_streak = [c \in Cpu |-> FALSE]
    /\ remaining_needed = [c \in Cpu |-> 0]
    /\ held = {}

\* uint64_t subtraction
free_frames == (allocatable_frames - allocated_page_frames) % Word

CallGetPages(c, n) ==
    /\ pc[c] = "idle"
    /\ pc' = [pc EXCEPT ![c] = "get"]
    /\ nr' = [nr EXCEPT ![c] = n]
    /\ UNCHANGED <<bitmap, last_alloc_hint, counters, lock, addr, search, held>>

\* The early return of __get_pages.
Refuse(c) ==
    /\ pc[c] = "get"
    /\ lock = Free
    /\ nr[c] = 0 \/ nr[c] > free_frames
    /\ pc' = [pc EXCEPT ![c] = "idle"]
    /\ nr' = [nr EXCEPT ![c] = 0]
    /\ UNCHANGED <<bitmap, last_alloc_hint, counters, lock, addr, search, held>>

StartSearch(c) ==
    /\ pc[c] = "get"
    /\ lock = Free
    /\ nr[c] # 0 /\ nr[c] <= free_frames
    /\ lock' = c
    /\ pc' = [pc EXCEPT ![c] = "search"]
    /\ bit_pos' = [bit_pos EXCEPT ![c] = last_alloc_hint]
    /\ area_start' = [area_start EXCEPT ![c] = last_alloc_hint]
    /\ explored_bits' = [explored_bits EXCEPT ![c] = 0]
    /\ free_streak' = [free_streak EXCEPT ![c] = FALSE]
    /\ remaining_needed' = [remaining_needed EXCEPT ![c] = nr[c]]
    /\ UNCHANGED <<bitmap, last_alloc_hint, counters, nr, addr, held>>

\* Mutant: the scan stops after total_bits bits, also inside a free streak.
LoopStopsInStreak(c) == explored_bits[c] < total_bits /\ remaining_needed[c] # 0

LoopCondition(c) ==
    /\ explored_bits[c] < total_bits \/ free_streak[c]
    /\ remaining_needed[c] # 0

Searching(c) == pc[c] = "search" /\ LoopCondition(c)

NextPos(p) == (p + 1) % total_bits

\* Mutant: a used bit does not reset the count of frames still needed.
SkipUsedKeepsCount(c) ==
    /\ Searching(c)
    /\ bitmap[bit_pos[c]]
    /\ free_streak' = [free_streak EXCEPT ![c] = FALSE]
    /\ explored_bits' = [explored_bits EXCEPT ![c] = @ + 1]
    /\ bit_pos' = [bit_pos EXCEPT ![c] = NextPos(@)]
    /\ UNCHANGED <<bitmap, last_alloc_hint, counters, lock, pc, nr, addr, area_start,
                   remaining_needed, held>>

\* A used bit breaks the streak.
SkipUsed(c) ==
    /\ Searching(c)
    /\ bitmap[bit_pos[c]]
    /\ remaining_needed' = [remaining_needed EXCEPT ![c] = nr[c]]
    /\ free_streak' = [free_streak EXCEPT ![c] = FALSE]
    /\ explored_bits' = [explored_bits EXCEPT ![c] = @ + 1]
    /\ bit_pos' = [bit_pos EXCEPT ![c] = NextPos(@)]
    /\ UNCHANGED <<bitmap, last_alloc_hint, counters, lock, pc, nr, addr, area_start, held>>

\* Mutant: the start of the free area is not remembered.
AreaStartIsPosition(c) == bit_pos[c]

\* First bit of the free area that ends at the current, free bit.
AreaStart(c) == IF remaining_needed[c] = nr[c] THEN bit_pos[c] ELSE area_start[c]

\* A free bit extends the streak, unless the search wraps around behind it.
ExtendStreak(c) ==
    LET wraps == NextPos(bit_pos[c]) = 0
    IN  /\ Searching(c)
        /\ ~bitmap[bit_pos[c]]
        /\ remaining_needed[c] # 1
        /\ area_start' = [area_start EXCEPT ![c] = AreaStart(c)]
        /\ remaining_needed' = [remaining_needed EXCEPT ![c] = IF wraps THEN nr[c] ELSE @ - 1]
        /\ free_streak' = [free_streak EXCEPT ![c] = ~wraps]
        /\ explored_bits' = [explored_bits EXCEPT ![c] = @ + 1]
        /\ bit_pos' = [bit_pos EXCEPT ![c] = NextPos(@)]
        /\ UNCHANGED <<bitmap, last_alloc_hint, counters, lock, pc, nr, addr, held>>

\* The hint stored behind a block of n frames at start.
NextHint(start, n) ==
    LET bit == ((start % 8) + (n % 8)) % 8
        offset == (n \div 8) + (IF n % 8 = 0 THEN 1 ELSE 0)
        byte == (start \div 8) + offset + (IF bit = 0 THEN 1 ELSE 0)
    IN  (byte % bitmap_size) * 8 + bit

\* Mutant: __get_pages returns with global_pfalloc_lock held.
ReturnWithLock(c) ==
    /\ pc' = [pc EXCEPT ![c] = "idle"]
    /\ nr' = [nr EXCEPT ![c] = 0]
    /\ bit_pos' = [bit_pos EXCEPT ![c] = 0]
    /\ area_start' = [area_start EXCEPT ![c] = 0]
    /\ explored_bits' = [explored_bits EXCEPT ![c] = 0]
    /\ free_streak' = [free_streak EXCEPT ![c] = FALSE]
    /\ remaining_needed' = [remaining_needed EXCEPT ![c] = 0]
    /\ UNCHANGED lock

\* __get_pages returns: its locals are gone.
ReturnFromSearch(c) ==
    /\ lock' = Free
    /\ pc' = [pc EXCEPT ![c] = "idle"]
    /\ nr' = [nr EXCEPT ![c] = 0]
    /\ bit_pos' = [bit_pos EXCEPT ![c] = 0]
    /\ area_start' = [area_start EXCEPT ![c] = 0]
    /\ explored_bits' = [explored_bits EXCEPT ![c] = 0]
    /\ free_streak' = [free_streak EXCEPT ![c] = FALSE]
    /\ remaining_needed' = [remaining_needed EXCEPT ![c] = 0]

\* out_found_area: the last bit needed is free; claim the area and return it.
Claim(c) ==
    LET start == AreaStart(c)
    IN  /\ Searching(c)
        /\ ~bitmap[bit_pos[c]]
        /\ remaining_needed[c] = 1
        /\ bitmap' = [f \in Frames |-> bitmap[f] \/ f \in FramesOf(<<start, nr[c]>>)]
        /\ allocated_page_frames' = (allocated_page_frames + nr[c]) % Word
        /\ allocatable_frames' = (allocatable_frames - nr[c]) % Word
        /\ last_alloc_hint' = NextHint(start, nr[c])
        /\ held' = held \cup {<<start, nr[c]>>}
        /\ ReturnFromSearch(c)
        /\ UNCHANGED addr

\* The loop ends without an area: __get_pages returns -1.
GiveUp(c) ==
    /\ pc[c] = "search"
    /\ ~LoopCondition(c)
    /\ ReturnFromSearch(c)
    /\ UNCHANGED <<bitmap, last_alloc_hint, counters, addr, held>>

\* A caller gives back a block it holds, whole.
CallFreePages(c, b) ==
    /\ pc[c] = "idle"
    /\ b \in held
    /\ held' = held \ {b}
    /\ pc' = [pc EXCEPT ![c] = "free"]
    /\ addr' = [addr EXCEPT ![c] = b[1]]
    /\ nr' = [nr EXCEPT ![c] = b[2]]
    /\ UNCHANGED <<bitmap, last_alloc_hint, counters, lock, search>>

\* Mutant: the last frame of the block stays marked used.
FreeAllButLast(c) ==
    /\ pc[c] = "free"
    /\ lock = Free
    /\ bitmap' = [f \in Frames |-> bitmap[f] /\ f \notin FramesOf(<<addr[c], nr[c] - 1>>)]
    /\ allocatable_frames' = (allocatable_frames + nr[c]) % Word
    /\ allocated_page_frames' = (allocated_page_frames - nr[c]) % Word
    /\ pc' = [pc EXCEPT ![c] = "idle"]
    /\ nr' = [nr EXCEPT ![c] = 0]
    /\ addr' = [addr EXCEPT ![c] = 0]
    /\ UNCHANGED <<last_alloc_hint, lock, search, held>>

\* Mutant: freed_nr_frames updates one counter only.
FreeCountsOnce(c) ==
    /\ pc[c] = "free"
    /\ lock = Free
    /\ bitmap' = [f \in Frames |-> bitmap[f] /\ f \notin FramesOf(<<addr[c], nr[c]>>)]
    /\ allocatable_frames' = (allocatable_frames + nr[c]) % Word
    /\ pc' = [pc EXCEPT ![c] = "idle"]
    /\ nr' = [nr EXCEPT ![c] = 0]
    /\ addr' = [addr EXCEPT ![c] = 0]
    /\ UNCHANGED <<allocated_page_frames, last_alloc_hint, lock, search, held>>

\* free_pages_raw
FreePagesRaw(c) ==
    /\ pc[c] = "free"
    /\ lock = Free
    /\ bitmap' = [f \in Frames |-> bitmap[f] /\ f \notin FramesOf(<<addr[c], nr[c]>>)]
    /\ allocatable_frames' = (allocatable_frames + nr[c]) % Word
    /\ allocated_page_frames' = (allocated_page_frames - nr[c]) % Word
    /\ pc' = [pc EXCEPT ![c] = "idle"]
    /\ nr' = [nr EXCEPT ![c] = 0]
    /\ addr' = [addr EXCEPT ![c] = 0]
    /\ UNCHANGED <<last_alloc_hint, lock, search, held>>

\* What a CPU does once it is inside one of the two functions.
Step(c) == Refuse(c) \/ StartSearch(c) \/ SkipUsed(c) \/ ExtendStreak(c)
           \/ Claim(c) \/ GiveUp(c) \/ FreePagesRaw(c)

Next == \E c \in Cpu : \/ \E n \in Requests : CallGetPages(c, n)
                       \/ \E b \in held : CallFreePages(c, b)
                       \/ Step(c)

\* A CPU inside the allocator keeps executing.
Spec == Init /\ [][Next]_vars /\ \A c \in Cpu : WF_vars(Step(c))
-----------------------------------------------------------------------------
\* Blocks whose frames are marked used: held, or on their way into free_pages_raw.
Blocks == held \cup {<<addr[c], nr[c]>> : c \in {d \in Cpu : pc[d] = "free"}}

\* A run of n consecutive free frames starting at f.
FreeRun(f, n) ==
    /\ f + n <= total_bits
    /\ \A i \in f .. (f + n - 1) : ~bitmap[i]

\* Types of the allocator's fields, of the lock and of the locals of each CPU.
TypeOK ==
    /\ bitmap \in [Frames -> BOOLEAN]
    /\ last_alloc_hint \in Frames
    /\ allocatable_frames \in 0 .. (Word - 1)
    /\ allocated_page_frames \in 0 .. (Word - 1)
    /\ lock \in Cpu \cup {Free}
    /\ pc \in [Cpu -> {"idle", "get", "search", "free"}]
    /\ nr \in [Cpu -> Nat]
    /\ addr \in [Cpu -> Frames]
    /\ bit_pos \in [Cpu -> Frames]
    /\ area_start \in [Cpu -> Frames]
    /\ explored_bits \in [Cpu -> Nat]
    /\ free_streak \in [Cpu -> BOOLEAN]
    /\ remaining_needed \in [Cpu -> Nat]
    /\ held \subseteq (Frames \X Nat)

\* Frames are exclusive: no frame is in two outstanding blocks, none is a
\* reserved or metadata frame, and the area __get_pages is about to return
\* (out_found_area) belongs to nobody, whatever the other CPUs do.
FramesExclusive ==
    /\ \A a, b \in Blocks : a # b => FramesOf(a) \cap FramesOf(b) = {}
    /\ \A a \in Blocks : FramesOf(a) \subseteq Frames \ Reserved
    /\ \A c \in Cpu :
          Searching(c) /\ ~bitmap[bit_pos[c]] /\ remaining_needed[c] = 1
          => \A b \in Blocks : FramesOf(b) \cap FramesOf(<<AreaStart(c), nr[c]>>) = {}

\* The bitmap marks exactly the reserved frames and those of outstanding
\* blocks: set_bitmap_region and clear_bitmap_region never leak a frame.
BitmapExact ==
    \A f \in Frames : bitmap[f] <=> f \in Reserved \/ \E b \in Blocks : f \in FramesOf(b)

\* The two counters agree with the bitmap: allocatable_frames counts its free
\* bits, allocated_page_frames the frames taken from usable memory.
CountersExact ==
    /\ allocatable_frames = Cardinality({f \in Frames : ~bitmap[f]})
    /\ allocated_page_frames = Cardinality(UsableFrames) - allocatable_frames

\* When the search loop of __get_pages ends without an area, the bitmap really
\* has no run of nr free frames, wherever the hint made the search start.
GivesUpOnlyIfNone ==
    \A c \in Cpu : pc[c] = "search" /\ ~LoopCondition(c)
                   => \A f \in Frames : ~FreeRun(f, nr[c])

\* The search ends: global_pfalloc_lock does not stay with one CPU for ever.
LockIsReleased == \A c \in Cpu : lock = c ~> lock # c

\* The allocator implements the pool its callers rely on.
Pool == INSTANCE FramePool WITH blocks <- Blocks, Lengths <- Requests
ImplementsPool == Pool!Spec

\* pf_alloc.h: "Returns physically contigous block of 'nr' pages, if possible".
\* A request that the counter check of __get_pages turns down is impossible.
RefusesOnlyIfImpossible ==
    \A c \in Cpu : pc[c] = "get" /\ lock = Free /\ nr[c] > free_frames
                   => \A f \in Frames : ~FreeRun(f, nr[c])
=============================================================================
