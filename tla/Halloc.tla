------------------------------- MODULE Halloc -------------------------------
(***************************************************************************)
(* The power-of-two free-list allocator (halloc.c) on top of the page-     *)
(* frame allocator, of which only its promise is used here: get_pages      *)
(* fails, or takes a block from the FramePool.  It may fail at any time    *)
(* (see PfAlloc!RefusesOnlyIfImpossible).                                  *)
(*                                                                         *)
(* A section under global_halloc_lock is one step; a large allocation has  *)
(* one step outside the lock and one inside.  A chunk is its byte address, *)
(* a free list the sequence of its chunks.                                 *)
(***************************************************************************)
EXTENDS Integers, Sequences, FiniteSets

CONSTANTS
    Cpu,
    Frames,        \* page frames of the machine
    Reserved,      \* frames the page-frame allocator never hands out
    NrArrayPages,  \* pages of alloc_pages_array
    bin_configs,   \* sequence of [chunk_shift, nr_of_init_pages, repopulate_nr_pages]
    Sizes,         \* sizes the callers ask for
    MaxLive        \* bound: allocations held at the same time

PAGE_SIZE == 4096
Bins == DOMAIN bin_configs
MAX_SUPPORTED_ALLOCATION_SIZE == 2^20
Free == "free"     \* the lock has no holder
ROUND_UP(x, y) == (x + (y - 1)) \div y

\* The flag bits of struct alloc_page.
HALLOC_FLAGS_CLEAR == 0
HALLOC_FLAGS_PAGE_GRANULARITY == 16
HALLOC_FLAGS_MANAGED == 32
Garbage == -1      \* alloc_pages_array is not cleared
ManagedBin(i) == HALLOC_FLAGS_MANAGED + (i - 1)
ManagedPages == HALLOC_FLAGS_PAGE_GRANULARITY + HALLOC_FLAGS_MANAGED

Positive == Nat \ {0}

ASSUME HallocAssumption ==
    /\ Frames \subseteq Nat /\ IsFiniteSet(Frames) /\ Reserved \subseteq Frames
    /\ NrArrayPages \in Positive
    /\ bin_configs \in Seq([chunk_shift : 5 .. 11, nr_of_init_pages : Positive,
                            repopulate_nr_pages : Positive])
    /\ Len(bin_configs) \in 1 .. 7
    /\ \A i, j \in Bins : i < j => bin_configs[i].chunk_shift < bin_configs[j].chunk_shift
    /\ Sizes \subseteq Nat
    /\ Free \notin Cpu

VARIABLES
    blocks,            \* blocks the page-frame allocator has handed out to halloc
    bins,              \* per bin, its free list
    halloc_flags,      \* alloc_pages_array, its two fields
    contig_allocated,
    array,             \* {the block of alloc_pages_array}, {} before init_halloc
    initialised,       \* number of bins init_halloc has populated
    lock,              \* global_halloc_lock
    pc,
    arg,               \* per CPU: the size asked for, or the pointer to free
    got,               \* per CPU: blocks got by pf_fallback_allocation, not recorded yet
    live               \* allocations the callers hold: <<address, size>>

page_array == <<halloc_flags, contig_allocated>>
booting == <<array, initialised>>
vars == <<blocks, bins, page_array, booting, lock, pc, arg, got, live>>
-----------------------------------------------------------------------------
Pool == INSTANCE FramePool WITH Lengths <- 1 .. Cardinality(Frames)
FramesOf(b) == b[1] .. (b[1] + b[2] - 1)

chunk_size(i) == 2 ^ bin_configs[i].chunk_shift
pfn(ptr) == ptr \div PAGE_SIZE

\* get_pages(n) succeeds and returns block b.
get_pages(n, b) == b[2] = n /\ Pool!Take(b)

\* The chunks of block b in ascending order, the order populate_bin links them in.
ChunksOf(b, i) ==
    [k \in 1 .. (b[2] * PAGE_SIZE) \div chunk_size(i) |->
        b[1] * PAGE_SIZE + (k - 1) * chunk_size(i)]

\* set_page_range_halloc_flags
set_flags(b, flags) ==
    [f \in Frames |-> IF f \in FramesOf(b) THEN flags ELSE halloc_flags[f]]

\* Bin whose chunks are the smallest that hold size bytes; INVALID_BIN_INDEX is 0 here.
size_to_bin_index(size) ==
    LET fit == {i \in Bins : size <= chunk_size(i)}
    IN  IF fit = {} THEN 0 ELSE CHOOSE i \in fit : \A j \in fit : i <= j

Init ==
    /\ blocks = {} /\ array = {} /\ initialised = 0
    /\ bins = [i \in Bins |-> <<>>]
    /\ halloc_flags = [f \in Frames |-> Garbage]
    /\ contig_allocated = [f \in Frames |-> Garbage]
    /\ lock = Free
    /\ pc = [c \in Cpu |-> "boot"]
    /\ arg = [c \in Cpu |-> 0]
    /\ got = [c \in Cpu |-> {}]
    /\ live = {}

\* During boot memory is fresh and get_pages finds the lowest block.
Lowest(b) == \A f \in Frames \ Reserved : f < b[1] => \E o \in blocks : f \in FramesOf(o)

Booting == \A c \in Cpu : pc[c] = "boot"

\* init_halloc on the BSP: the array first ...
InitArray(b) ==
    /\ Booting /\ array = {}
    /\ Lowest(b) /\ get_pages(NrArrayPages, b)
    /\ array' = {b}
    /\ UNCHANGED <<bins, page_array, initialised, lock, pc, arg, got, live>>

\* ... then every bin; the other CPUs come up later.  If a get_pages fails,
\* init_halloc fails and the boot ends.
InitBin(b) ==
    LET i == initialised + 1
    IN  /\ Booting /\ array # {} /\ i \in Bins
        /\ Lowest(b) /\ get_pages(bin_configs[i].nr_of_init_pages, b)
        /\ halloc_flags' = set_flags(b, ManagedBin(i))
        /\ bins' = [bins EXCEPT ![i] = ChunksOf(b, i)]
        /\ initialised' = i
        /\ pc' = [c \in Cpu |-> IF i = Len(bin_configs) THEN "idle" ELSE "boot"]
        /\ UNCHANGED <<contig_allocated, array, lock, arg, got, live>>

\* error_out of init_halloc: the array goes back, hypervisor_main dies.
InitFails ==
    /\ Booting
    /\ blocks' = blocks \ array
    /\ array' = {}
    /\ pc' = [c \in Cpu |-> "dead"]
    /\ UNCHANGED <<bins, page_array, initialised, lock, arg, got, live>>

\* hmalloc_align(size, alignment): size is the larger of the two, and not 0.
CallHmalloc(c, size) ==
    /\ pc[c] = "idle"
    /\ size # 0
    /\ Cardinality(live) + Cardinality({d \in Cpu : pc[d] # "idle"}) < MaxLive
    /\ size_to_bin_index(size) = 0 => size <= MAX_SUPPORTED_ALLOCATION_SIZE
    /\ pc' = [pc EXCEPT ![c] = IF size_to_bin_index(size) = 0 THEN "fallback" ELSE "bin"]
    /\ arg' = [arg EXCEPT ![c] = size]
    /\ UNCHANGED <<blocks, bins, page_array, booting, lock, got, live>>

Return(c) ==
    /\ pc' = [pc EXCEPT ![c] = "idle"]
    /\ arg' = [arg EXCEPT ![c] = 0]

\* Mutant: the chunk stays at the head of its free list.
AllocChunkKeepsHead(c) ==
    LET i == size_to_bin_index(arg[c])
    IN  /\ pc[c] = "bin"
        /\ lock = Free
        /\ bins[i] # <<>>
        /\ live' = live \cup {<<Head(bins[i]), arg[c]>>}
        /\ Return(c)
        /\ UNCHANGED <<blocks, bins, page_array, booting, lock, got>>

\* The bin has a chunk: take the first.
AllocChunk(c) ==
    LET i == size_to_bin_index(arg[c])
    IN  /\ pc[c] = "bin"
        /\ lock = Free
        /\ bins[i] # <<>>
        /\ bins' = [bins EXCEPT ![i] = Tail(@)]
        /\ live' = live \cup {<<Head(bins[i]), arg[c]>>}
        /\ Return(c)
        /\ UNCHANGED <<blocks, page_array, booting, lock, got>>

\* The bin is empty: repopulate_bin links the chunks of new pages, the first is taken.
AllocRepopulate(c, b) ==
    LET i == size_to_bin_index(arg[c])
    IN  /\ pc[c] = "bin"
        /\ lock = Free
        /\ bins[i] = <<>>
        /\ get_pages(bin_configs[i].repopulate_nr_pages, b)
        /\ halloc_flags' = set_flags(b, ManagedBin(i))
        /\ bins' = [bins EXCEPT ![i] = Tail(ChunksOf(b, i))]
        /\ live' = live \cup {<<Head(ChunksOf(b, i)), arg[c]>>}
        /\ Return(c)
        /\ UNCHANGED <<contig_allocated, booting, lock, got>>

\* repopulate_bin fails: hmalloc_align returns NULL without releasing the lock.
AllocOutOfMemory(c) ==
    /\ pc[c] = "bin"
    /\ lock = Free
    /\ bins[size_to_bin_index(arg[c])] = <<>>
    /\ lock' = c
    /\ Return(c)
    /\ UNCHANGED <<blocks, bins, page_array, booting, got, live>>

\* pf_fallback_allocation: get_pages, outside the lock ...
FallbackGetPages(c, b) ==
    /\ pc[c] = "fallback"
    /\ get_pages(ROUND_UP(arg[c], PAGE_SIZE), b)
    /\ got' = [got EXCEPT ![c] = {b}]
    /\ pc' = [pc EXCEPT ![c] = "record"]
    /\ UNCHANGED <<bins, page_array, booting, lock, arg, live>>

FallbackFails(c) ==
    /\ pc[c] = "fallback"
    /\ Return(c)
    /\ UNCHANGED <<blocks, bins, page_array, booting, lock, got, live>>

\* Mutant: the size recorded is rounded down to pages.
FallbackRecordRoundsDown(c) ==
    /\ pc[c] = "record"
    /\ lock = Free
    /\ \E b \in got[c] :
          /\ contig_allocated' = [contig_allocated EXCEPT ![b[1]] = arg[c] \div PAGE_SIZE]
          /\ halloc_flags' = [halloc_flags EXCEPT ![b[1]] = ManagedPages]
          /\ live' = live \cup {<<b[1] * PAGE_SIZE, arg[c]>>}
    /\ got' = [got EXCEPT ![c] = {}]
    /\ Return(c)
    /\ UNCHANGED <<blocks, bins, booting, lock>>

\* ... and its record in the first page, whose count is a uint8_t.
FallbackRecord(c) ==
    /\ pc[c] = "record"
    /\ lock = Free
    /\ \E b \in got[c] :
          /\ contig_allocated' = [contig_allocated EXCEPT ![b[1]] = b[2] % 2^8]
          /\ halloc_flags' = [halloc_flags EXCEPT ![b[1]] = ManagedPages]
          /\ live' = live \cup {<<b[1] * PAGE_SIZE, arg[c]>>}
    /\ got' = [got EXCEPT ![c] = {}]
    /\ Return(c)
    /\ UNCHANGED <<blocks, bins, booting, lock>>

\* hfree of an allocation its caller holds; its page is managed (PageRecordsExact),
\* so the early return for pointers halloc does not know is not taken.
CallHfree(c, a) ==
    /\ pc[c] = "idle"
    /\ a \in live
    /\ live' = live \ {a}
    /\ pc' = [pc EXCEPT ![c] = "free"]
    /\ arg' = [arg EXCEPT ![c] = a[1]]
    /\ UNCHANGED <<blocks, bins, page_array, booting, lock, got>>

IsManaged(flags) == (flags \div HALLOC_FLAGS_MANAGED) % 2 = 1
IsPageGranular(flags) == (flags \div HALLOC_FLAGS_PAGE_GRANULARITY) % 2 = 1
get_alloc_page_bin_index(flags) == (flags % 8) + 1

\* A range of the page-frame allocator goes back to it.
HfreePages(c) ==
    LET page == pfn(arg[c])
        range == <<page, contig_allocated[page]>>
    IN  /\ pc[c] = "free"
        /\ lock = Free
        /\ IsManaged(halloc_flags[page]) /\ IsPageGranular(halloc_flags[page])
        /\ blocks' = blocks \ {range}
        /\ halloc_flags' = set_flags(range, HALLOC_FLAGS_CLEAR)
        /\ Return(c)
        /\ UNCHANGED <<bins, contig_allocated, booting, lock, got, live>>

\* Mutant: the chunk replaces the free list.
HfreeChunkDropsList(c) ==
    LET flags == halloc_flags[pfn(arg[c])]
    IN  /\ pc[c] = "free"
        /\ lock = Free
        /\ IsManaged(flags) /\ ~IsPageGranular(flags)
        /\ bins' = [bins EXCEPT ![get_alloc_page_bin_index(flags)] = <<arg[c]>>]
        /\ Return(c)
        /\ UNCHANGED <<blocks, page_array, booting, lock, got, live>>

\* A chunk becomes the head of the free list of its page's bin.
HfreeChunk(c) ==
    LET flags == halloc_flags[pfn(arg[c])]
    IN  /\ pc[c] = "free"
        /\ lock = Free
        /\ IsManaged(flags) /\ ~IsPageGranular(flags)
        /\ bins' = [bins EXCEPT ![get_alloc_page_bin_index(flags)] = <<arg[c]>> \o @]
        /\ Return(c)
        /\ UNCHANGED <<blocks, page_array, booting, lock, got, live>>

Boot == InitFails \/ \E b \in Frames \X (1 .. Cardinality(Frames)) : InitArray(b) \/ InitBin(b)

Next ==
    \/ Boot
    \/ \E c \in Cpu :
          \/ \E size \in Sizes : CallHmalloc(c, size)
          \/ \E a \in live : CallHfree(c, a)
          \/ \E b \in Frames \X (1 .. Cardinality(Frames)) :
                AllocRepopulate(c, b) \/ FallbackGetPages(c, b)
          \/ AllocChunk(c) \/ AllocOutOfMemory(c) \/ FallbackFails(c) \/ FallbackRecord(c)
          \/ HfreePages(c) \/ HfreeChunk(c)

Spec == Init /\ [][Next]_vars
-----------------------------------------------------------------------------
Listed(i) == {bins[i][k] : k \in DOMAIN bins[i]}

\* Allocations held by callers or on their way into hfree.
Pointers == {a[1] : a \in live} \cup {arg[c] : c \in {d \in Cpu : pc[d] = "free"}}

\* Pages of the array, of the bins, and of large allocations not recorded yet.
BinBlocks(i) == {b \in blocks \ array : \A f \in FramesOf(b) : halloc_flags[f] = ManagedBin(i)}
Unrecorded == UNION {got[c] : c \in Cpu}

\* Memory is exclusive: the bytes of an allocation (its size rounded up to the
\* chunk or to pages) lie in pages halloc owns, and are in no other allocation,
\* no free chunk, not in the page array, and not in pages still being recorded.
AllocationsDisjoint ==
    /\ \A a, o \in live : a # o => a[1] + a[2] <= o[1] \/ o[1] + o[2] <= a[1]
    /\ \A a \in live :
          /\ pfn(a[1]) .. pfn(a[1] + a[2] - 1) \subseteq
                UNION {FramesOf(b) : b \in blocks \ (array \cup Unrecorded)}
          /\ \A i \in Bins : \A k \in Listed(i) :
                a[1] + a[2] <= k \/ k + chunk_size(i) <= a[1]

\* Nothing is lost or listed twice: every chunk of a bin's pages is in the free
\* list of that bin once, or held by a caller; every other block of pages is
\* the array, a large allocation, or about to be recorded as one.
NothingLost ==
    (\A c \in Cpu : pc[c] \notin {"boot", "dead"}) =>
    /\ \A i \in Bins :
          /\ \A k, l \in DOMAIN bins[i] : bins[i][k] = bins[i][l] => k = l
          /\ LET chunks == UNION {{ChunksOf(b, i)[k] : k \in DOMAIN ChunksOf(b, i)} :
                                  b \in BinBlocks(i)}
             IN  /\ Listed(i) \cap Pointers = {}
                 /\ chunks = Listed(i) \cup (chunks \cap Pointers)
    /\ \A b \in blocks \ (array \cup Unrecorded \cup UNION {BinBlocks(i) : i \in Bins}) :
          b[1] * PAGE_SIZE \in Pointers

\* What hfree will read is right: the first page of a large allocation records
\* its number of pages, that of a small one the bin whose chunks hold it.
PageRecordsExact ==
    \A a \in live :
        LET page == pfn(a[1])
            i == size_to_bin_index(a[2])
        IN  IF i = 0
            THEN /\ halloc_flags[page] = ManagedPages
                 /\ <<page, contig_allocated[page]>> \in blocks
            ELSE halloc_flags[page] = ManagedBin(i)
=============================================================================
