-------------------------- MODULE HallocInvariant --------------------------
(***************************************************************************)
(* The invariant of the allocator, for any memory, any bins and any number *)
(* of CPUs: what it means for the allocations, and the steps that keep     *)
(* the uses of the recorded pages.                                         *)
(*                                                                         *)
(* The argument is about pages.  The flags of a page tell what it is for,  *)
(* so that two pointers to pages with different flags cannot meet, and a   *)
(* chunk never leaves its page because its size divides the page size.     *)
(***************************************************************************)
EXTENDS Halloc, TLAPS

ChunkSizes == {32, 64, 128, 256, 512, 1024, 2048}

\* The numbers of the code that are powers.
LEMMA Powers ==
    /\ 2^8 = 256 /\ MAX_SUPPORTED_ALLOCATION_SIZE = 256 * PAGE_SIZE
    /\ \A s \in 5 .. 11 : 2^s \in ChunkSizes
  <1>1. 2^8 = 256 /\ MAX_SUPPORTED_ALLOCATION_SIZE = 256 * PAGE_SIZE
    BY SMT DEF MAX_SUPPORTED_ALLOCATION_SIZE, PAGE_SIZE
  <1>2. /\ 2^5 = 32 /\ 2^6 = 64 /\ 2^7 = 128 /\ 2^8 = 256 /\ 2^9 = 512 /\ 2^10 = 1024
        /\ 2^11 = 2048
    BY SMT
  <1>3. 5 .. 11 = {5, 6, 7, 8, 9, 10, 11}
    OBVIOUS
  <1> QED
    BY <1>1, <1>2, <1>3 DEF ChunkSizes

\* A chunk of a bin has one of seven sizes.
LEMMA ChunkSize ==
    /\ Bins = 1 .. Len(bin_configs) /\ Len(bin_configs) \in 1 .. 7
    /\ \A i \in Bins : /\ chunk_size(i) \in ChunkSizes
                       /\ bin_configs[i].nr_of_init_pages \in Positive
                       /\ bin_configs[i].repopulate_nr_pages \in Positive
  <1>1. Bins = 1 .. Len(bin_configs) /\ Len(bin_configs) \in 1 .. 7
    BY HallocAssumption DEF Bins
  <1>2. ASSUME NEW i \in Bins
        PROVE  /\ chunk_size(i) \in ChunkSizes
               /\ bin_configs[i].nr_of_init_pages \in Positive
               /\ bin_configs[i].repopulate_nr_pages \in Positive
    <2> DEFINE S == [chunk_shift : 5 .. 11, nr_of_init_pages : Positive,
                     repopulate_nr_pages : Positive]
    <2>1. bin_configs[i] \in S
      <3>1. bin_configs \in Seq(S)
        BY HallocAssumption, Zenon
      <3> HIDE DEF S
      <3> QED
        BY <1>1, <3>1
    <2>2. /\ bin_configs[i].chunk_shift \in 5 .. 11
          /\ bin_configs[i].nr_of_init_pages \in Positive
          /\ bin_configs[i].repopulate_nr_pages \in Positive
      BY <2>1, Zenon
    <2>3. \A s \in 5 .. 11 : 2^s \in ChunkSizes
      BY Powers, Zenon
    <2>4. chunk_size(i) \in ChunkSizes
      BY <2>2, <2>3, Zenon DEF chunk_size
    <2> QED
      BY <2>2, <2>4, Zenon
  <1> QED
    BY <1>1, <1>2, Zenon

\* A set of bins that is not empty has a first one: there are seven at most.
LEMMA FirstBin ==
    ASSUME NEW T, T \subseteq 1 .. 7, T # {}
    PROVE  \E x \in T : \A y \in T : x <= y
  <1> SUFFICES ASSUME \A x \in T : \E y \in T : y < x PROVE FALSE
    OBVIOUS
  <1>1. \A x \in T : x \in Int /\ 1 <= x /\ x <= 7
    OBVIOUS
  <1>2. \A x \in T : 2 <= x
    BY <1>1
  <1>3. \A x \in T : 3 <= x
    BY <1>1, <1>2
  <1>4. \A x \in T : 4 <= x
    BY <1>1, <1>3
  <1>5. \A x \in T : 5 <= x
    BY <1>1, <1>4
  <1>6. \A x \in T : 6 <= x
    BY <1>1, <1>5
  <1>7. \A x \in T : 7 <= x
    BY <1>1, <1>6
  <1>8. \A x \in T : 8 <= x
    BY <1>1, <1>7
  <1>9. PICK x : x \in T
    BY Zenon
  <1> QED
    BY <1>1, <1>8, <1>9

\* The bin of a size, if it has one, has chunks that hold it.
LEMMA SizeToBin ==
    ASSUME NEW size \in Nat
    PROVE  \/ size_to_bin_index(size) = 0
           \/ size_to_bin_index(size) \in Bins /\ size <= chunk_size(size_to_bin_index(size))
  <1> DEFINE fit == {i \in Bins : size <= chunk_size(i)}
  <1>1. CASE fit = {}
    BY <1>1, Zenon DEF size_to_bin_index
  <1>2. CASE fit # {}
    <2>1. fit \subseteq 1 .. 7
      BY ChunkSize
    <2> DEFINE i == CHOOSE i \in fit : \A j \in fit : i <= j
    <2>2. i \in fit
      <3> HIDE DEF fit
      <3>1. \E x \in fit : \A y \in fit : x <= y
        BY <1>2, <2>1, FirstBin, Zenon
      <3> QED
        BY <3>1, Zenon
    <2>3. size_to_bin_index(size) = i
      BY <1>2, Zenon DEF size_to_bin_index
    <2> QED
      BY <2>2, <2>3, Zenon
  <1> QED
    BY <1>1, <1>2, Zenon
-----------------------------------------------------------------------------
\* A chunk lies in one page.
LEMMA ChunkInPage ==
    ASSUME NEW s \in ChunkSizes, NEW p \in Nat, p % s = 0
    PROVE  /\ pfn(p) \in Nat /\ pfn(p) * PAGE_SIZE <= p
           /\ p + s <= pfn(p) * PAGE_SIZE + PAGE_SIZE
  BY SMT DEF ChunkSizes, pfn, PAGE_SIZE

\* Chunks of a size are the same or apart.
LEMMA ChunksApart ==
    ASSUME NEW s \in ChunkSizes, NEW p \in Nat, NEW q \in Nat, p % s = 0, q % s = 0, p < q
    PROVE  p + s <= q
  BY SMT DEF ChunkSizes

\* Chunk k of the n pages from f on ...
LEMMA ChunkOfPages ==
    ASSUME NEW s \in ChunkSizes, NEW f \in Nat, NEW n \in Nat,
           NEW k \in 1 .. ((n * PAGE_SIZE) \div s),
           NEW p, p = f * PAGE_SIZE + (k - 1) * s
    PROVE  p \in Nat /\ p % s = 0 /\ pfn(p) \in f .. (f + n - 1)
  BY SMT DEF ChunkSizes, pfn, PAGE_SIZE

\* ... and every chunk of these pages is one of them.
LEMMA ChunkHasIndex ==
    ASSUME NEW s \in ChunkSizes, NEW f \in Nat, NEW n \in Nat,
           NEW p \in Nat, p % s = 0, pfn(p) \in f .. (f + n - 1)
    PROVE  \E k \in 1 .. ((n * PAGE_SIZE) \div s) : p = f * PAGE_SIZE + (k - 1) * s
  <1> DEFINE k == (p - f * PAGE_SIZE) \div s + 1
  <1>1. k \in 1 .. ((n * PAGE_SIZE) \div s) /\ p = f * PAGE_SIZE + (k - 1) * s
    BY SMT DEF ChunkSizes, pfn, PAGE_SIZE
  <1> QED
    BY <1>1, Zenon
-----------------------------------------------------------------------------
Places == {"boot", "dead", "idle", "bin", "fallback", "record", "free"}

HallocTypeOK ==
    /\ blocks \subseteq Frames \X Positive
    /\ array \subseteq blocks
    /\ initialised \in Nat
    /\ bins \in [Bins -> Seq(Nat)]
    /\ halloc_flags \in [Frames -> Int] /\ contig_allocated \in [Frames -> Int]
    /\ pc \in [Cpu -> Places] /\ arg \in [Cpu -> Nat]
    /\ got \in [Cpu -> SUBSET blocks]
    /\ live \subseteq Nat \X Positive

\* Blocks are apart, and each has one use.
BlocksInv ==
    /\ \A b \in blocks : FramesOf(b) \subseteq Frames
    /\ \A b, o \in blocks : b # o => FramesOf(b) \cap FramesOf(o) = {}
    /\ array \cap Unrecorded = {}
    /\ \A c \in Cpu : \A b \in got[c] : b[2] = ROUND_UP(arg[c], PAGE_SIZE)
    /\ \A c \in Cpu : \A b, o \in got[c] : b = o
    /\ \A c, d \in Cpu : c # d => got[c] \cap got[d] = {}

\* What a CPU's argument is at the place where it is; before the end of
\* init_halloc none has any.
PlacesInv ==
    /\ \A c \in Cpu :
          /\ got[c] # {} => pc[c] = "record"
          /\ pc[c] = "bin" => arg[c] \in Positive /\ size_to_bin_index(arg[c]) \in Bins
          /\ pc[c] \in {"fallback", "record"} =>
                /\ size_to_bin_index(arg[c]) = 0
                /\ arg[c] \in Sizes \cap (1 .. MAX_SUPPORTED_ALLOCATION_SIZE)
          /\ pc[c] \in {"boot", "dead"} => live = {} /\ \A d \in Cpu : pc[d] = pc[c]
          /\ pc[c] \notin {"boot", "dead"} => initialised = Len(bin_configs)
    /\ \A i \in Bins : i > initialised => bins[i] = << >>

Recorded == blocks \ (array \cup Unrecorded)

\* A block the pages of which belong to bin i.
OfBin(b, i) == \A f \in FramesOf(b) : halloc_flags[f] = ManagedBin(i)

\* The flags of a page tell the use of its block.
FlagsInv ==
    \A f \in Frames :
        /\ \/ halloc_flags[f] \in {Garbage, HALLOC_FLAGS_CLEAR, ManagedPages}
           \/ \E i \in Bins : halloc_flags[f] = ManagedBin(i)
        /\ \A i \in Bins : halloc_flags[f] = ManagedBin(i) =>
              i <= initialised /\ \E b \in Recorded : f \in FramesOf(b) /\ OfBin(b, i)
        /\ halloc_flags[f] = ManagedPages =>
              \E n \in 1 .. 256 : <<f, n>> \in Recorded /\ contig_allocated[f] = n % 2^8

\* A pointer to a chunk of bin i, and to the pages of a large allocation.
Small(p, i) ==
    /\ p \in Nat /\ p % chunk_size(i) = 0
    /\ pfn(p) \in Frames /\ halloc_flags[pfn(p)] = ManagedBin(i)

Large(p) ==
    /\ p \in Nat /\ p = pfn(p) * PAGE_SIZE
    /\ pfn(p) \in Frames /\ halloc_flags[pfn(p)] = ManagedPages

\* An allocation fits where its pointer points to.
Fits(a) ==
    IF size_to_bin_index(a[2]) = 0
    THEN Large(a[1]) /\ \E n \in Nat : <<pfn(a[1]), n>> \in Recorded /\ a[2] <= n * PAGE_SIZE
    ELSE Small(a[1], size_to_bin_index(a[2]))

FreeingAt(c) == pc[c] = "free"

\* Every pointer is what it seems to be, and there is one of each.
PointersInv ==
    /\ \A i \in Bins : \A k \in DOMAIN bins[i] : Small(bins[i][k], i)
    /\ \A i \in Bins : \A k, l \in DOMAIN bins[i] : bins[i][k] = bins[i][l] => k = l
    /\ \A i \in Bins : Listed(i) \cap Pointers = {}
    /\ \A a \in live : Fits(a)
    /\ \A a, o \in live : a[1] = o[1] => a = o
    /\ \A c \in Cpu : FreeingAt(c) =>
          /\ Large(arg[c]) \/ \E i \in Bins : Small(arg[c], i)
          /\ \A a \in live : a[1] # arg[c]
          /\ \A d \in Cpu : FreeingAt(d) /\ arg[d] = arg[c] => c = d

\* No request takes 256 pages, a number that the byte contig_allocated cannot hold.
CountsFit == \A size \in Sizes : ROUND_UP(size, PAGE_SIZE) # 256

\* Nothing is lost: a chunk is free or held, and a block is the array's, a bin's
\* or a large allocation's, which is held as well unless a count did not fit.
KeptInv ==
    /\ \A i \in Bins : \A p \in Nat : Small(p, i) => p \in Listed(i) \cup Pointers
    /\ \A b \in Recorded : (\E i \in Bins : OfBin(b, i)) \/ halloc_flags[b[1]] = ManagedPages
    /\ CountsFit => \A f \in Frames : halloc_flags[f] = ManagedPages =>
                       f * PAGE_SIZE \in Pointers /\ contig_allocated[f] # 0

HallocInv == HallocTypeOK /\ BlocksInv /\ PlacesInv /\ FlagsInv /\ PointersInv /\ KeptInv
-----------------------------------------------------------------------------
\* The flag bits tell the uses apart, and give the bin back.
LEMMA FlagValues ==
    ASSUME NEW i \in Bins
    PROVE  /\ ManagedBin(i) \in Int /\ ManagedPages \in Int
           /\ ManagedBin(i) \notin {Garbage, HALLOC_FLAGS_CLEAR, ManagedPages}
           /\ \A j \in Bins : ManagedBin(i) = ManagedBin(j) => i = j
           /\ IsManaged(ManagedBin(i)) /\ ~IsPageGranular(ManagedBin(i))
           /\ get_alloc_page_bin_index(ManagedBin(i)) = i
  <1>1. i \in 1 .. 7 /\ \A j \in Bins : j \in 1 .. 7
    BY ChunkSize
  <1> QED
    BY <1>1, SMT DEF ManagedBin, ManagedPages, Garbage, HALLOC_FLAGS_CLEAR, HALLOC_FLAGS_MANAGED,
         HALLOC_FLAGS_PAGE_GRANULARITY, IsManaged, IsPageGranular, get_alloc_page_bin_index

\* The constant flags apart from the bins.
LEMMA OtherFlags ==
    /\ Garbage \in Int /\ HALLOC_FLAGS_CLEAR \in Int /\ ManagedPages \in Int
    /\ Garbage # ManagedPages /\ HALLOC_FLAGS_CLEAR # ManagedPages
    /\ IsManaged(ManagedPages) /\ IsPageGranular(ManagedPages)
  BY SMT DEF ManagedPages, Garbage, IsManaged, IsPageGranular, HALLOC_FLAGS_CLEAR, HALLOC_FLAGS_MANAGED,
         HALLOC_FLAGS_PAGE_GRANULARITY

\* A block is its first frame and its length, and has a frame.
LEMMA BlockType ==
    ASSUME NEW b \in Frames \X Positive
    PROVE  /\ b = <<b[1], b[2]>> /\ b[1] \in Nat /\ b[1] \in Frames /\ b[2] \in Nat /\ b[2] > 0
           /\ b[1] \in FramesOf(b)
  <1>1. b = <<b[1], b[2]>> /\ b[1] \in Frames /\ b[2] \in Positive
    OBVIOUS
  <1>2. b[1] \in Nat
    BY <1>1, HallocAssumption, Zenon
  <1>3. b[2] \in Nat /\ b[2] > 0
    BY <1>1 DEF Positive
  <1>4. b[1] \in FramesOf(b)
    BY <1>2, <1>3 DEF FramesOf
  <1> QED
    BY <1>1, <1>2, <1>3, <1>4, Zenon

\* A frame is in one block.
LEMMA OneBlock ==
    ASSUME BlocksInv, NEW b \in blocks, NEW o \in blocks, NEW f \in FramesOf(b), f \in FramesOf(o)
    PROVE  b = o
  BY Zenon DEF BlocksInv

\* A frame with the flags of a bin, or of a large allocation, is in a recorded block.
LEMMA ManagedFrame ==
    ASSUME FlagsInv, NEW f \in Frames
    PROVE  /\ \A i \in Bins : halloc_flags[f] = ManagedBin(i) =>
                 \E b \in Recorded : f \in FramesOf(b) /\ OfBin(b, i)
           /\ halloc_flags[f] = ManagedPages =>
                 \E n \in 1 .. 256 : <<f, n>> \in Recorded /\ f \in FramesOf(<<f, n>>)
  <1>1. \A n \in 1 .. 256 : f \in FramesOf(<<f, n>>)
    BY HallocAssumption DEF FramesOf
  <1> QED
    BY <1>1, Zenon DEF FlagsInv

\* Pages that are different, as a range and a page, do not share bytes.
LEMMA PagesApart ==
    ASSUME NEW f \in Nat, NEW n \in Nat, NEW g \in Nat, g \notin f .. (f + n - 1)
    PROVE  f * PAGE_SIZE + n * PAGE_SIZE <= g * PAGE_SIZE \/ g * PAGE_SIZE + PAGE_SIZE <= f * PAGE_SIZE
  BY SMT DEF PAGE_SIZE

\* Two chunks are apart.
LEMMA SmallApart ==
    ASSUME NEW i \in Bins, NEW j \in Bins, NEW p, NEW q, Small(p, i), Small(q, j), p # q
    PROVE  p + chunk_size(i) <= q \/ q + chunk_size(j) <= p
  <1>1. /\ chunk_size(i) \in ChunkSizes /\ chunk_size(j) \in ChunkSizes
        /\ chunk_size(i) \in Nat /\ chunk_size(j) \in Nat /\ p \in Nat /\ q \in Nat
    BY ChunkSize DEF ChunkSizes, Small
  <1>2. CASE i = j
    <2>1. p < q \/ q < p
      BY <1>1
    <2> QED
      BY <1>1, <1>2, <2>1, ChunksApart, Zenon DEF Small
  <1>3. CASE i # j
    <2>1. pfn(p) # pfn(q)
      BY <1>3, FlagValues, Zenon DEF Small
    <2> DEFINE f == pfn(p)
               g == pfn(q)
               s == chunk_size(i)
               t == chunk_size(j)
    <2>2. /\ f \in Nat /\ f * PAGE_SIZE <= p /\ p + s <= f * PAGE_SIZE + PAGE_SIZE
          /\ g \in Nat /\ g * PAGE_SIZE <= q /\ q + t <= g * PAGE_SIZE + PAGE_SIZE
      BY <1>1, ChunkInPage, Zenon DEF Small
    <2>3. f # g /\ s \in Nat /\ t \in Nat /\ p \in Nat /\ q \in Nat
      BY <1>1, <2>1, Zenon
    <2> HIDE DEF f, g, s, t
    <2>4. p + s <= q \/ q + t <= p
      BY <2>2, <2>3, SMT DEF PAGE_SIZE
    <2> QED
      BY <2>4, Zenon DEF s, t
  <1> QED
    BY <1>2, <1>3, Zenon

\* A chunk and the block of a large allocation are apart.
LEMMA SmallLargeApart ==
    ASSUME HallocTypeOK, BlocksInv, FlagsInv,
           NEW i \in Bins, NEW p, Small(p, i), NEW q, Large(q), NEW n \in Nat, <<pfn(q), n>> \in blocks
    PROVE  p + chunk_size(i) <= q \/ q + n * PAGE_SIZE <= p
  <1> DEFINE f == pfn(p)
             g == pfn(q)
             s == chunk_size(i)
  <1>1. s \in ChunkSizes /\ s \in Nat /\ p \in Nat /\ q \in Nat /\ p % s = 0
    BY ChunkSize DEF ChunkSizes, Small, Large
  <1>2. f \in Nat /\ f * PAGE_SIZE <= p /\ p + s <= f * PAGE_SIZE + PAGE_SIZE
    BY <1>1, ChunkInPage, Zenon
  <1>3. /\ f \in Frames /\ halloc_flags[f] = ManagedBin(i)
        /\ g \in Frames /\ halloc_flags[g] = ManagedPages /\ q = g * PAGE_SIZE /\ g \in Nat
    BY HallocAssumption, Zenon DEF Small, Large
  <1> HIDE DEF f, g, s
  <1>4. PICK b \in Recorded : f \in FramesOf(b) /\ OfBin(b, i)
    BY <1>3, ManagedFrame, Zenon
  <1>5. <<g, n>> \in blocks /\ <<g, n>>[1] = g /\ <<g, n>>[2] = n
    BY Zenon DEF g
  <1>6. f \notin FramesOf(<<g, n>>)
    <2> SUFFICES ASSUME f \in FramesOf(<<g, n>>) PROVE FALSE
      BY Zenon
    <2>1. b = <<g, n>>
      BY <1>4, <1>5, OneBlock, Zenon DEF Recorded
    <2>2. g \in FramesOf(<<g, n>>)
      BY <1>5, BlockType, Zenon DEF HallocTypeOK
    <2>3. halloc_flags[g] = ManagedBin(i)
      BY <1>4, <2>1, <2>2, Zenon DEF OfBin
    <2> QED
      BY <1>3, <2>3, FlagValues, Zenon
  <1>7. f \notin g .. (g + n - 1)
    BY <1>5, <1>6, Zenon DEF FramesOf
  <1>8. \/ g * PAGE_SIZE + n * PAGE_SIZE <= f * PAGE_SIZE
        \/ f * PAGE_SIZE + PAGE_SIZE <= g * PAGE_SIZE
    BY <1>2, <1>3, <1>7, PagesApart, Zenon
  <1>9. p + s <= q \/ q + n * PAGE_SIZE <= p
    BY <1>1, <1>2, <1>3, <1>8, SMT DEF PAGE_SIZE
  <1> QED
    BY <1>9, Zenon DEF s

\* The blocks of two large allocations are apart.
LEMMA LargeApart ==
    ASSUME HallocTypeOK, BlocksInv,
           NEW p, Large(p), NEW m \in Nat, <<pfn(p), m>> \in blocks,
           NEW q, Large(q), NEW n \in Nat, <<pfn(q), n>> \in blocks, p # q
    PROVE  p + m * PAGE_SIZE <= q \/ q + n * PAGE_SIZE <= p
  <1> DEFINE f == pfn(p)
             g == pfn(q)
  <1>1. p = f * PAGE_SIZE /\ q = g * PAGE_SIZE /\ f \in Nat /\ g \in Nat
    BY HallocAssumption, Zenon DEF Large
  <1>2. <<f, m>> \in blocks /\ <<g, n>> \in blocks
    BY Zenon
  <1> HIDE DEF f, g
  <1>3. f # g
    BY <1>1, Zenon
  <1>4. FramesOf(<<f, m>>) \cap FramesOf(<<g, n>>) = {}
    BY <1>2, <1>3, Zenon DEF BlocksInv
  <1>5. <<f, m>>[1] = f /\ <<f, m>>[2] = m /\ <<g, n>>[1] = g /\ <<g, n>>[2] = n
    BY Zenon
  <1>6. g \in FramesOf(<<g, n>>) /\ f \in FramesOf(<<f, m>>)
    BY <1>2, <1>5, BlockType, Zenon DEF HallocTypeOK
  <1>7. g \notin f .. (f + m - 1) /\ f \notin g .. (g + n - 1)
    BY <1>4, <1>5, <1>6, Zenon DEF FramesOf
  <1> QED
    BY <1>1, <1>7, SMT DEF PAGE_SIZE
-----------------------------------------------------------------------------
\* What an allocation occupies: chunk or block, and the bytes of it.
LEMMA Extent ==
    ASSUME HallocInv, NEW a \in live
    PROVE  /\ a = <<a[1], a[2]>> /\ a[1] \in Nat /\ a[2] \in Nat /\ a[2] > 0
           /\ \/ \E i \in Bins : Small(a[1], i) /\ a[2] <= chunk_size(i)
              \/ Large(a[1]) /\ \E n \in Nat : <<pfn(a[1]), n>> \in Recorded /\ a[2] <= n * PAGE_SIZE
  <1>1. a = <<a[1], a[2]>> /\ a[1] \in Nat /\ a[2] \in Positive
    BY DEF HallocInv, HallocTypeOK
  <1>2. a[2] \in Nat /\ a[2] > 0
    BY <1>1 DEF Positive
  <1>3. Fits(a)
    BY Zenon DEF HallocInv, PointersInv
  <1> QED
    BY <1>1, <1>2, <1>3, SizeToBin, Zenon DEF Fits

\* The invariant keeps allocations apart.
LEMMA InvIsDisjoint == HallocInv => AllocationsDisjoint
  <1> SUFFICES ASSUME HallocInv PROVE AllocationsDisjoint
    BY Zenon
  <1>1. HallocTypeOK /\ BlocksInv /\ FlagsInv /\ PointersInv /\ Recorded \subseteq blocks
    BY Zenon DEF HallocInv, Recorded
  <1>2. PAGE_SIZE \in Nat /\ \A i \in Bins : chunk_size(i) \in Nat
    BY ChunkSize, SMT DEF ChunkSizes, PAGE_SIZE
  <1>3. ASSUME NEW a \in live, NEW o \in live, a # o
        PROVE  a[1] + a[2] <= o[1] \/ o[1] + o[2] <= a[1]
    <2> DEFINE p == a[1]
               q == o[1]
    <2>1. /\ p \in Nat /\ a[2] \in Nat /\ q \in Nat /\ o[2] \in Nat /\ p # q
          /\ \/ \E i \in Bins : Small(p, i) /\ a[2] <= chunk_size(i)
             \/ Large(p) /\ \E n \in Nat : <<pfn(p), n>> \in blocks /\ a[2] <= n * PAGE_SIZE
          /\ \/ \E i \in Bins : Small(q, i) /\ o[2] <= chunk_size(i)
             \/ Large(q) /\ \E n \in Nat : <<pfn(q), n>> \in blocks /\ o[2] <= n * PAGE_SIZE
      BY <1>1, <1>3, Extent, Zenon DEF PointersInv
    <2> HIDE DEF p, q
    <2>2. ASSUME NEW i \in Bins, Small(p, i), a[2] <= chunk_size(i),
                 NEW j \in Bins, Small(q, j), o[2] <= chunk_size(j)
          PROVE  p + a[2] <= q \/ q + o[2] <= p
      <3>1. p + chunk_size(i) <= q \/ q + chunk_size(j) <= p
        BY <2>1, <2>2, SmallApart, Zenon
      <3> QED
        BY <1>2, <2>1, <2>2, <3>1
    <2>3. ASSUME NEW i \in Bins, Small(p, i), a[2] <= chunk_size(i),
                 NEW n \in Nat, Large(q), <<pfn(q), n>> \in blocks, o[2] <= n * PAGE_SIZE
          PROVE  p + a[2] <= q \/ q + o[2] <= p
      <3>1. p + chunk_size(i) <= q \/ q + n * PAGE_SIZE <= p
        BY <1>1, <2>3, SmallLargeApart, Zenon
      <3>2. n * PAGE_SIZE \in Nat
        BY <1>2
      <3> QED
        BY <1>2, <2>1, <2>3, <3>1, <3>2
    <2>4. ASSUME NEW i \in Bins, Small(q, i), o[2] <= chunk_size(i),
                 NEW n \in Nat, Large(p), <<pfn(p), n>> \in blocks, a[2] <= n * PAGE_SIZE
          PROVE  p + a[2] <= q \/ q + o[2] <= p
      <3>1. q + chunk_size(i) <= p \/ p + n * PAGE_SIZE <= q
        BY <1>1, <2>4, SmallLargeApart, Zenon
      <3>2. n * PAGE_SIZE \in Nat
        BY <1>2
      <3> QED
        BY <1>2, <2>1, <2>4, <3>1, <3>2
    <2>5. ASSUME NEW m \in Nat, Large(p), <<pfn(p), m>> \in blocks, a[2] <= m * PAGE_SIZE,
                 NEW n \in Nat, Large(q), <<pfn(q), n>> \in blocks, o[2] <= n * PAGE_SIZE
          PROVE  p + a[2] <= q \/ q + o[2] <= p
      <3>1. p + m * PAGE_SIZE <= q \/ q + n * PAGE_SIZE <= p
        BY <1>1, <2>1, <2>5, LargeApart, Zenon
      <3>2. n * PAGE_SIZE \in Nat /\ m * PAGE_SIZE \in Nat
        BY <1>2
      <3> QED
        BY <2>1, <2>5, <3>1, <3>2
    <2>6. p + a[2] <= q \/ q + o[2] <= p
      BY <2>1, <2>2, <2>3, <2>4, <2>5, Zenon
    <2> QED
      BY <2>6, Zenon DEF p, q
  <1>4. ASSUME NEW a \in live
        PROVE  pfn(a[1]) .. pfn(a[1] + a[2] - 1) \subseteq UNION {FramesOf(b) : b \in Recorded}
    <2> DEFINE p == a[1]
               e == a[1] + a[2] - 1
    <2>1. /\ p \in Nat /\ a[2] \in Nat /\ a[2] > 0 /\ e = p + a[2] - 1
          /\ \/ \E i \in Bins : Small(p, i) /\ a[2] <= chunk_size(i)
             \/ Large(p) /\ \E n \in Nat : <<pfn(p), n>> \in Recorded /\ a[2] <= n * PAGE_SIZE
      BY Extent, Zenon
    <2> HIDE DEF p, e
    <2>2. ASSUME NEW i \in Bins, Small(p, i), a[2] <= chunk_size(i)
          PROVE  pfn(p) .. pfn(e) \subseteq UNION {FramesOf(b) : b \in Recorded}
      <3>1. PICK b \in Recorded : pfn(p) \in FramesOf(b)
        BY <1>1, <2>2, ManagedFrame, Zenon DEF Small
      <3>2. /\ pfn(p) \in Nat /\ pfn(p) * PAGE_SIZE <= p
            /\ p + chunk_size(i) <= pfn(p) * PAGE_SIZE + PAGE_SIZE
        BY <2>2, ChunkSize, ChunkInPage, Zenon DEF Small
      <3>3. pfn(e) = pfn(p)
        BY <1>2, <2>1, <2>2, <3>2, SMT DEF pfn, PAGE_SIZE
      <3>4. pfn(p) .. pfn(e) = {pfn(p)}
        BY <3>2, <3>3
      <3> QED
        BY <3>1, <3>4, Zenon
    <2>3. ASSUME NEW n \in Nat, Large(p), <<pfn(p), n>> \in Recorded, a[2] <= n * PAGE_SIZE
          PROVE  pfn(p) .. pfn(e) \subseteq UNION {FramesOf(b) : b \in Recorded}
      <3> DEFINE f == pfn(p)
      <3>1. f \in Nat /\ p = f * PAGE_SIZE
        BY <2>3, HallocAssumption, Zenon DEF Large
      <3>2. f .. pfn(e) \subseteq f .. (f + n - 1)
        <4> HIDE DEF f
        <4>1. pfn(e) <= f + n - 1 /\ pfn(e) \in Int
          BY <2>1, <2>3, <3>1, SMT DEF pfn, PAGE_SIZE
        <4> QED
          BY <3>1, <4>1
      <3>3. FramesOf(<<f, n>>) = f .. (f + n - 1)
        BY Zenon DEF FramesOf
      <3> QED
        BY <2>3, <3>2, <3>3, Zenon
    <2> QED
      BY <2>1, <2>2, <2>3, Zenon DEF p, e
  <1>5. ASSUME NEW a \in live, NEW i \in Bins, NEW k \in Listed(i)
        PROVE  a[1] + a[2] <= k \/ k + chunk_size(i) <= a[1]
    <2> DEFINE p == a[1]
    <2>1. Small(k, i) /\ k # p /\ k \in Nat
      BY <1>1 DEF PointersInv, Listed, Pointers, Small
    <2>2. /\ p \in Nat /\ a[2] \in Nat
          /\ \/ \E j \in Bins : Small(p, j) /\ a[2] <= chunk_size(j)
             \/ Large(p) /\ \E n \in Nat : <<pfn(p), n>> \in blocks /\ a[2] <= n * PAGE_SIZE
      BY <1>1, Extent, Zenon
    <2> HIDE DEF p
    <2>3. ASSUME NEW j \in Bins, Small(p, j), a[2] <= chunk_size(j)
          PROVE  p + a[2] <= k \/ k + chunk_size(i) <= p
      <3>1. p + chunk_size(j) <= k \/ k + chunk_size(i) <= p
        BY <2>1, <2>3, SmallApart, Zenon
      <3> QED
        BY <1>2, <2>1, <2>2, <2>3, <3>1
    <2>4. ASSUME NEW n \in Nat, Large(p), <<pfn(p), n>> \in blocks, a[2] <= n * PAGE_SIZE
          PROVE  p + a[2] <= k \/ k + chunk_size(i) <= p
      <3>1. k + chunk_size(i) <= p \/ p + n * PAGE_SIZE <= k
        BY <1>1, <2>1, <2>4, SmallLargeApart, Zenon
      <3>2. n * PAGE_SIZE \in Nat
        BY <1>2
      <3> QED
        BY <1>2, <2>1, <2>2, <2>4, <3>1, <3>2
    <2> QED
      BY <2>2, <2>3, <2>4, Zenon DEF p
  <1> QED
    BY <1>3, <1>4, <1>5, Zenon DEF AllocationsDisjoint, Recorded
-----------------------------------------------------------------------------
\* Pointers and Listed, as quantified formulas.
LEMMA InPointers ==
    ASSUME NEW p
    PROVE  /\ p \in Pointers <=> \/ \E a \in live : a[1] = p
                                 \/ \E c \in Cpu : FreeingAt(c) /\ arg[c] = p
           /\ \A i \in Bins : p \in Listed(i) <=> \E k \in DOMAIN bins[i] : bins[i][k] = p
  BY Zenon DEF Pointers, Listed, FreeingAt

\* A step that leaves the records of pages alone leaves every pointer what it is.
LEMMA RecordsKept ==
    ASSUME Recorded' = Recorded, UNCHANGED <<halloc_flags, contig_allocated, initialised>>
    PROVE  /\ \A p, i : Small(p, i)' = Small(p, i)
           /\ \A p : Large(p)' = Large(p)
           /\ \A a : Fits(a)' = Fits(a)
           /\ \A b, i : OfBin(b, i)' = OfBin(b, i)
           /\ FlagsInv => FlagsInv'
  <1>1. \A p, i : Small(p, i)' = Small(p, i)
    BY Zenon DEF Small
  <1>2. \A p : Large(p)' = Large(p)
    BY Zenon DEF Large
  <1>3. \A a : Fits(a)' = Fits(a)
    BY <1>1, <1>2, Zenon DEF Fits
  <1>4. \A b, i : OfBin(b, i)' = OfBin(b, i)
    BY Zenon DEF OfBin
  <1>5. FlagsInv => FlagsInv'
    BY <1>4, Zenon DEF FlagsInv
  <1> QED
    BY <1>1, <1>2, <1>3, <1>4, <1>5, Zenon

\* In particular one that leaves the blocks alone as well.
LEMMA PagesKept ==
    ASSUME UNCHANGED <<blocks, array, got, halloc_flags, contig_allocated, initialised>>
    PROVE  /\ Unrecorded' = Unrecorded /\ Recorded' = Recorded
           /\ \A p, i : Small(p, i)' = Small(p, i)
           /\ \A p : Large(p)' = Large(p)
           /\ \A a : Fits(a)' = Fits(a)
           /\ \A b, i : OfBin(b, i)' = OfBin(b, i)
           /\ FlagsInv => FlagsInv'
  <1>1. Unrecorded' = Unrecorded
    BY Zenon DEF Unrecorded
  <1>2. Recorded' = Recorded
    BY <1>1, Zenon DEF Recorded
  <1> QED
    BY <1>1, <1>2, RecordsKept, Zenon

\* The pages a CPU has got and not yet recorded stay its own when only CPUs
\* that have none turn to another argument.
LEMMA GotKept ==
    ASSUME BlocksInv, got' = got, \A c \in Cpu : got[c] = {} \/ arg'[c] = arg[c],
           NEW c \in Cpu
    PROVE  /\ \A b \in got'[c] : b[2] = ROUND_UP(arg'[c], PAGE_SIZE)
           /\ \A b, o \in got'[c] : b = o
           /\ \A d \in Cpu : c # d => got'[c] \cap got'[d] = {}
  <1>1. /\ \A b \in got[c] : b[2] = ROUND_UP(arg[c], PAGE_SIZE)
        /\ \A b, o \in got[c] : b = o
        /\ \A d \in Cpu : c # d => got[c] \cap got[d] = {}
    BY Zenon DEF BlocksInv
  <1>2. CASE got[c] = {}
    BY <1>2, Zenon
  <1>3. CASE arg'[c] = arg[c]
    BY <1>1, <1>3, Zenon
  <1> QED
    BY <1>2, <1>3, Zenon

\* If the blocks stay as well they remain apart.
LEMMA BlocksKept ==
    ASSUME BlocksInv, UNCHANGED <<blocks, array, got>>,
           \A c \in Cpu : got[c] = {} \/ arg'[c] = arg[c]
    PROVE  BlocksInv'
  <1>1. Unrecorded' = Unrecorded
    BY Zenon DEF Unrecorded
  <1>2. /\ \A b \in blocks' : FramesOf(b) \subseteq Frames
        /\ \A b, o \in blocks' : b # o => FramesOf(b) \cap FramesOf(o) = {}
        /\ array' \cap Unrecorded' = {}
    BY <1>1, Zenon DEF BlocksInv
  <1>3. /\ \A c \in Cpu : \A b \in got'[c] : b[2] = ROUND_UP(arg'[c], PAGE_SIZE)
        /\ \A c \in Cpu : \A b, o \in got'[c] : b = o
        /\ \A c, d \in Cpu : c # d => got'[c] \cap got'[d] = {}
    BY GotKept, Zenon
  <1> QED
    BY <1>2, <1>3, Zenon DEF BlocksInv

\* A listed chunk is a chunk of the bin.
LEMMA ListedSmall ==
    ASSUME PointersInv, NEW i \in Bins, NEW p \in Listed(i)
    PROVE  Small(p, i)
  <1>1. PICK k \in DOMAIN bins[i] : bins[i][k] = p
    BY Zenon DEF Listed
  <1>2. Small(bins[i][k], i)
    BY Zenon DEF PointersInv
  <1> QED
    BY <1>1, <1>2, Zenon

\* A step that leaves the records and the free lists alone keeps every listed
\* chunk one of its bin, once.
LEMMA ListsKept ==
    ASSUME PointersInv, bins' = bins, \A p : \A i \in Bins : Small(p, i) => Small(p, i)'
    PROVE  /\ \A i \in Bins : \A k \in DOMAIN bins'[i] : Small(bins[i][k], i)'
           /\ \A i \in Bins : \A k, l \in DOMAIN bins'[i] : bins'[i][k] = bins'[i][l] => k = l
  <1>1. ASSUME NEW i \in Bins, NEW k \in DOMAIN bins'[i] PROVE Small(bins[i][k], i)'
    <2>1. PICK q : q = bins[i][k]
      BY Zenon
    <2>2. Small(bins[i][k], i)
      BY <1>1, Zenon DEF PointersInv
    <2>3. Small(q, i)'
      BY <2>1, <2>2, Zenon
    <2> QED
      BY <2>1, <2>3, Zenon DEF Small
  <1>2. \A i \in Bins : \A k, l \in DOMAIN bins[i] : bins[i][k] = bins[i][l] => k = l
    BY Zenon DEF PointersInv
  <1> QED
    BY <1>1, <1>2, Zenon

\* If it leaves the pointers alone too they remain what they are.
LEMMA PointersKept ==
    ASSUME PointersInv, Recorded' = Recorded,
           UNCHANGED <<halloc_flags, contig_allocated, initialised, bins, live>>,
           \A c \in Cpu : FreeingAt(c)' = FreeingAt(c) /\ (FreeingAt(c) => arg'[c] = arg[c]),
           Pointers' = Pointers, \A i \in Bins : Listed(i)' = Listed(i)
    PROVE  PointersInv'
  <1>1. /\ \A p, i : Small(p, i)' = Small(p, i)
        /\ \A p : Large(p)' = Large(p)
        /\ \A a : Fits(a)' = Fits(a)
    BY RecordsKept, Zenon
  <1>2. /\ \A i \in Bins : \A k \in DOMAIN bins'[i] : Small(bins[i][k], i)'
        /\ \A i \in Bins : \A k, l \in DOMAIN bins'[i] : bins'[i][k] = bins'[i][l] => k = l
    BY <1>1, ListsKept, Zenon
  <1>3. \A i \in Bins : Listed(i)' \cap Pointers' = {}
    BY Zenon DEF PointersInv
  <1>4. /\ \A a \in live' : Fits(a)'
        /\ \A a, o \in live' : a[1] = o[1] => a = o
    BY <1>1, Zenon DEF PointersInv
  <1>5. ASSUME NEW c \in Cpu, FreeingAt(c)'
        PROVE  /\ Large(arg[c])' \/ \E i \in Bins : Small(arg[c], i)'
               /\ \A a \in live' : a[1] # arg'[c]
               /\ \A d \in Cpu : FreeingAt(d)' /\ arg'[d] = arg'[c] => c = d
    <2>1. PICK q : q = arg[c]
      BY Zenon
    <2>2. FreeingAt(c) /\ arg'[c] = q
      BY <1>5, <2>1, Zenon
    <2>3. /\ Large(arg[c]) \/ \E i \in Bins : Small(arg[c], i)
          /\ \A a \in live : a[1] # arg[c]
          /\ \A d \in Cpu : FreeingAt(d) /\ arg[d] = arg[c] => c = d
      BY <2>2, Zenon DEF PointersInv
    <2>4. Large(q)' \/ \E i \in Bins : Small(q, i)'
      BY <1>1, <2>1, <2>3, Zenon
    <2>5. Large(arg[c])' \/ \E i \in Bins : Small(arg[c], i)'
      BY <2>2, <2>4, Zenon DEF Large, Small
    <2>6. \A d \in Cpu : FreeingAt(d)' /\ arg'[d] = arg'[c] => c = d
      BY <2>1, <2>2, <2>3, Zenon
    <2> QED
      BY <2>1, <2>2, <2>3, <2>5, <2>6, Zenon
  <1> QED
    BY <1>2, <1>3, <1>4, <1>5, Zenon DEF PointersInv

\* A CPU goes to another place; the memory stays as it is.
LEMMA QuietStep ==
    ASSUME HallocInv, NEW c \in Cpu, pc[c] \in {"idle", "bin", "fallback"},
           NEW x \in {"idle", "bin", "fallback"}, NEW y \in Nat,
           pc' = [pc EXCEPT ![c] = x], arg' = [arg EXCEPT ![c] = y],
           x = "bin" => y \in Positive /\ size_to_bin_index(y) \in Bins,
           x = "fallback" => /\ size_to_bin_index(y) = 0
                             /\ y \in Sizes \cap (1 .. MAX_SUPPORTED_ALLOCATION_SIZE),
           UNCHANGED <<blocks, bins, page_array, booting, got, live>>
    PROVE  HallocInv'
  <1>1. UNCHANGED <<blocks, bins, halloc_flags, contig_allocated, array, initialised, got, live>>
    BY Zenon DEF page_array, booting
  <1>2. /\ pc \in [Cpu -> Places] /\ arg \in [Cpu -> Nat] /\ got[c] = {}
        /\ pc' \in [Cpu -> Places] /\ arg' \in [Cpu -> Nat]
        /\ pc'[c] = x /\ arg'[c] = y
        /\ \A d \in Cpu \ {c} : pc'[d] = pc[d] /\ arg'[d] = arg[d]
    BY Zenon DEF HallocInv, HallocTypeOK, PlacesInv, Places
  <1>3. \A d \in Cpu : /\ FreeingAt(d)' = FreeingAt(d)
                       /\ FreeingAt(d) => arg'[d] = arg[d]
    BY <1>2, Zenon DEF FreeingAt
  <1>4. Pointers' = Pointers /\ \A i \in Bins : Listed(i)' = Listed(i)
    BY <1>1, <1>3 DEF Pointers, Listed, FreeingAt
  <1>5. HallocTypeOK'
    BY <1>1, <1>2, Zenon DEF HallocInv, HallocTypeOK
  <1>6. BlocksInv'
    BY <1>1, <1>2, PagesKept DEF HallocInv, BlocksInv
  <1>7. PlacesInv'
    BY <1>1, <1>2 DEF HallocInv, PlacesInv
  <1>8. FlagsInv'
    BY <1>1, PagesKept, Zenon DEF HallocInv
  <1>9. PointersInv'
    <2>1. Recorded' = Recorded /\ PointersInv
      BY <1>1, PagesKept, Zenon DEF HallocInv
    <2> QED
      BY <1>1, <1>3, <1>4, <2>1, PointersKept, Zenon
  <1>10. KeptInv'
    BY <1>1, <1>4, PagesKept, Zenon DEF HallocInv, KeptInv
  <1> QED
    BY <1>5, <1>6, <1>7, <1>8, <1>9, <1>10, Zenon DEF HallocInv

\* hfree takes an allocation from its caller.
LEMMA CallHfreeStep ==
    ASSUME HallocInv, NEW c \in Cpu, NEW a \in live, CallHfree(c, a)
    PROVE  HallocInv'
  <1>1. /\ UNCHANGED <<blocks, bins, halloc_flags, contig_allocated, array, initialised, got>>
        /\ live' = live \ {a} /\ pc[c] = "idle"
        /\ pc' = [pc EXCEPT ![c] = "free"] /\ arg' = [arg EXCEPT ![c] = a[1]]
    BY Zenon DEF CallHfree, page_array, booting
  <1>2. a[1] \in Nat /\ Fits(a)
    BY Extent, Zenon DEF HallocInv, PointersInv
  <1>3. /\ pc \in [Cpu -> Places] /\ arg \in [Cpu -> Nat] /\ got[c] = {}
        /\ pc' \in [Cpu -> Places] /\ arg' \in [Cpu -> Nat]
        /\ pc'[c] = "free" /\ arg'[c] = a[1]
        /\ \A d \in Cpu \ {c} : pc'[d] = pc[d] /\ arg'[d] = arg[d]
    BY <1>1, <1>2, Zenon DEF HallocInv, HallocTypeOK, PlacesInv, Places
  <1>4. /\ FreeingAt(c)' /\ ~FreeingAt(c)
        /\ \A d \in Cpu \ {c} : FreeingAt(d)' = FreeingAt(d)
    BY <1>1, <1>3, Zenon DEF FreeingAt
  <1>5. \A p : p \in Pointers' <=> p \in Pointers
    <2> SUFFICES ASSUME NEW p PROVE p \in Pointers' <=> p \in Pointers
      BY Zenon
    <2>1. p \in Pointers' <=> \/ \E o \in live' : o[1] = p
                              \/ \E d \in Cpu : FreeingAt(d)' /\ arg'[d] = p
      BY Zenon DEF Pointers, FreeingAt
    <2>2. p \in Pointers <=> \/ \E o \in live : o[1] = p
                             \/ \E d \in Cpu : FreeingAt(d) /\ arg[d] = p
      BY InPointers, Zenon
    <2> QED
      BY <1>1, <1>3, <1>4, <2>1, <2>2, Zenon
  <1>6. \A i \in Bins : Listed(i)' = Listed(i)
    BY <1>1, Zenon DEF Listed
  <1>7. HallocTypeOK'
    BY <1>1, <1>3, Zenon DEF HallocInv, HallocTypeOK
  <1>8. BlocksInv'
    <2>1. BlocksInv /\ \A d \in Cpu : got[d] = {} \/ arg'[d] = arg[d]
      BY <1>3, Zenon DEF HallocInv
    <2> QED
      BY <1>1, <2>1, BlocksKept, Zenon
  <1>9. PlacesInv'
    BY <1>1, <1>3, Zenon DEF HallocInv, PlacesInv
  <1>10. FlagsInv'
    BY <1>1, PagesKept, Zenon DEF HallocInv
  <1>11. PointersInv'
    <2>1. Large(a[1]) \/ \E i \in Bins : Small(a[1], i)
      BY Extent, Zenon
    <2>2. \A o \in live' : o \in live /\ o[1] # a[1]
      BY <1>1, Zenon DEF HallocInv, PointersInv
    <2>3. \A d \in Cpu : FreeingAt(d) => arg[d] # a[1]
      BY Zenon DEF HallocInv, PointersInv
    <2>4. ASSUME NEW d \in Cpu, FreeingAt(d)'
          PROVE  /\ Large(arg'[d]) \/ \E i \in Bins : Small(arg'[d], i)
                 /\ \A o \in live' : o[1] # arg'[d]
                 /\ \A e \in Cpu : FreeingAt(e)' /\ arg'[e] = arg'[d] => d = e
      <3>1. CASE d = c
        BY <1>3, <1>4, <2>1, <2>2, <2>3, <3>1, Zenon
      <3>2. CASE d # c
        <4>1. FreeingAt(d) /\ arg'[d] = arg[d]
          BY <1>3, <1>4, <2>4, <3>2, Zenon
        <4>2. /\ Large(arg[d]) \/ \E i \in Bins : Small(arg[d], i)
              /\ \A o \in live : o[1] # arg[d]
              /\ \A e \in Cpu : FreeingAt(e) /\ arg[e] = arg[d] => d = e
          BY <4>1, Zenon DEF HallocInv, PointersInv
        <4>3. ASSUME NEW e \in Cpu, FreeingAt(e)', arg'[e] = arg'[d] PROVE d = e
          BY <1>3, <1>4, <2>3, <4>1, <4>2, <4>3, Zenon
        <4> QED
          BY <2>2, <4>1, <4>2, <4>3, Zenon
      <3> QED
        BY <3>1, <3>2, Zenon
    <2> QED
      <3>1. PointersInv /\ (\A p, i : Small(p, i)' = Small(p, i)) /\ (\A p : Large(p)' = Large(p))
            /\ \A o : Fits(o)' = Fits(o)
        BY <1>1, PagesKept, Zenon DEF HallocInv
      <3>2. /\ \A i \in Bins : \A k \in DOMAIN bins'[i] : Small(bins[i][k], i)'
            /\ \A i \in Bins : \A k, l \in DOMAIN bins'[i] : bins'[i][k] = bins'[i][l] => k = l
        BY <1>1, <3>1, ListsKept, Zenon
      <3>3. \A i \in Bins : Listed(i)' \cap Pointers' = {}
        <4> SUFFICES ASSUME NEW i \in Bins, NEW p \in Listed(i), p \in Pointers' PROVE FALSE
          BY <1>6, Zenon
        <4> QED
          BY <1>5, <3>1, Zenon DEF PointersInv
      <3>4. /\ \A o \in live' : Fits(o)'
            /\ \A o, u \in live' : o[1] = u[1] => o = u
        BY <2>2, <3>1, Zenon DEF PointersInv
      <3>5. ASSUME NEW d \in Cpu, FreeingAt(d)'
            PROVE  Large(arg[d])' \/ \E i \in Bins : Small(arg[d], i)'
        <4>1. PICK q : q = arg'[d]
          BY Zenon
        <4>2. Large(q)' \/ \E i \in Bins : Small(q, i)'
          BY <2>4, <3>1, <3>5, <4>1, Zenon
        <4> QED
          BY <4>1, <4>2, Zenon DEF Large, Small
      <3> QED
        BY <2>4, <3>2, <3>3, <3>4, <3>5, Zenon DEF PointersInv
  <1>12. KeptInv'
    BY <1>1, <1>5, <1>6, PagesKept, Zenon DEF HallocInv, KeptInv
  <1> QED
    BY <1>7, <1>8, <1>9, <1>10, <1>11, <1>12, Zenon DEF HallocInv
-----------------------------------------------------------------------------
\* A free list of distinct chunks without its head ...
LEMMA TailList ==
    ASSUME NEW s \in Seq(Nat), s # << >>, \A k, l \in DOMAIN s : s[k] = s[l] => k = l
    PROVE  /\ Tail(s) \in Seq(Nat) /\ Head(s) \in Nat
           /\ \A k, l \in DOMAIN Tail(s) : Tail(s)[k] = Tail(s)[l] => k = l
           /\ \E k \in DOMAIN s : s[k] = Head(s)
           /\ \A p : (\E k \in DOMAIN Tail(s) : Tail(s)[k] = p)
                     <=> p # Head(s) /\ \E k \in DOMAIN s : s[k] = p
  <1>1. Len(s) \in Nat /\ Len(s) > 0 /\ DOMAIN s = 1 .. Len(s) /\ Head(s) = s[1]
    OBVIOUS
  <1>2. /\ Tail(s) \in Seq(Nat) /\ DOMAIN Tail(s) = 1 .. (Len(s) - 1)
        /\ \A k \in 1 .. (Len(s) - 1) : Tail(s)[k] = s[k + 1]
    BY <1>1
  <1>3. \A k \in DOMAIN Tail(s) : k + 1 \in DOMAIN s /\ k + 1 # 1 /\ Tail(s)[k] = s[k + 1]
    BY <1>1, <1>2
  <1>4. \A k \in DOMAIN s : k # 1 => k - 1 \in DOMAIN Tail(s) /\ Tail(s)[k - 1] = s[k]
    BY <1>1, <1>2
  <1>5. 1 \in DOMAIN s /\ s[1] \in Nat
    BY <1>1
  <1>6. ASSUME NEW k \in DOMAIN Tail(s), NEW l \in DOMAIN Tail(s), Tail(s)[k] = Tail(s)[l]
        PROVE  k = l
    <2>1. k + 1 = l + 1
      BY <1>3, <1>6, Zenon
    <2> QED
      BY <1>2, <2>1
  <1>7. ASSUME NEW p
        PROVE  (\E k \in DOMAIN Tail(s) : Tail(s)[k] = p)
               <=> p # Head(s) /\ \E k \in DOMAIN s : s[k] = p
    <2>1. ASSUME NEW k \in DOMAIN Tail(s), Tail(s)[k] = p
          PROVE  p # Head(s) /\ \E l \in DOMAIN s : s[l] = p
      BY <1>1, <1>3, <1>5, <2>1, Zenon
    <2>2. ASSUME NEW k \in DOMAIN s, s[k] = p, p # Head(s)
          PROVE  \E l \in DOMAIN Tail(s) : Tail(s)[l] = p
      <3>1. k # 1
        BY <1>1, <2>2, Zenon
      <3> QED
        BY <1>4, <2>2, <3>1, Zenon
    <2> QED
      BY <2>1, <2>2, Zenon
  <1> QED
    BY <1>1, <1>2, <1>5, <1>6, <1>7, Zenon

\* ... and with a new head.
LEMMA ConsList ==
    ASSUME NEW s \in Seq(Nat), \A k, l \in DOMAIN s : s[k] = s[l] => k = l,
           NEW h \in Nat, \A k \in DOMAIN s : s[k] # h
    PROVE  LET t == <<h>> \o s IN
           /\ t \in Seq(Nat)
           /\ \A k, l \in DOMAIN t : t[k] = t[l] => k = l
           /\ \A p : (\E k \in DOMAIN t : t[k] = p) <=> p = h \/ \E k \in DOMAIN s : s[k] = p
  <1> DEFINE t == <<h>> \o s
  <1>1. Len(s) \in Nat /\ DOMAIN s = 1 .. Len(s)
    OBVIOUS
  <1>2. /\ t \in Seq(Nat) /\ DOMAIN t = 1 .. (Len(s) + 1)
        /\ t[1] = h /\ \A k \in 1 .. Len(s) : t[k + 1] = s[k]
    BY <1>1
  <1> HIDE DEF t
  <1>3. \A k \in DOMAIN t : k # 1 => k - 1 \in DOMAIN s /\ t[k] = s[k - 1]
    <2> SUFFICES ASSUME NEW k \in DOMAIN t, k # 1 PROVE k - 1 \in DOMAIN s /\ t[k] = s[k - 1]
      BY Zenon
    <2>1. k - 1 \in 1 .. Len(s) /\ (k - 1) + 1 = k
      BY <1>1, <1>2
    <2> QED
      BY <1>1, <1>2, <2>1, Zenon
  <1>4. 1 \in DOMAIN t /\ \A k \in DOMAIN s : k + 1 \in DOMAIN t /\ t[k + 1] = s[k]
    BY <1>1, <1>2
  <1>5. ASSUME NEW k \in DOMAIN t, NEW l \in DOMAIN t, t[k] = t[l]
        PROVE  k = l
    <2>1. CASE k = 1 \/ l = 1
      BY <1>2, <1>3, <1>5, <2>1
    <2>2. CASE k # 1 /\ l # 1
      <3>1. k - 1 = l - 1
        BY <1>3, <1>5, <2>2, Zenon
      <3> QED
        BY <1>2, <3>1
    <2> QED
      BY <2>1, <2>2, Zenon
  <1>6. ASSUME NEW p
        PROVE  (\E k \in DOMAIN t : t[k] = p) <=> p = h \/ \E k \in DOMAIN s : s[k] = p
    <2>1. ASSUME NEW k \in DOMAIN t, t[k] = p
          PROVE  p = h \/ \E l \in DOMAIN s : s[l] = p
      BY <1>2, <1>3, <2>1, Zenon
    <2>2. ASSUME p = h
          PROVE  \E l \in DOMAIN t : t[l] = p
      BY <1>2, <1>4, <2>2, Zenon
    <2>3. ASSUME NEW k \in DOMAIN s, s[k] = p
          PROVE  \E l \in DOMAIN t : t[l] = p
      BY <1>4, <2>3, Zenon
    <2> QED
      BY <2>1, <2>2, <2>3, Zenon
  <1> QED
    BY <1>2, <1>5, <1>6, Zenon DEF t
-----------------------------------------------------------------------------
\* hmalloc takes the first chunk of a free list.
LEMMA AllocChunkStep ==
    ASSUME HallocInv, NEW c \in Cpu, AllocChunk(c)
    PROVE  HallocInv'
  <1> DEFINE i == size_to_bin_index(arg[c])
             h == Head(bins[i])
             a == <<h, arg[c]>>
  <1>1. /\ UNCHANGED <<blocks, halloc_flags, contig_allocated, array, initialised, got>>
        /\ pc[c] = "bin" /\ bins[i] # << >>
        /\ bins' = [bins EXCEPT ![i] = Tail(bins[i])] /\ live' = live \cup {a}
        /\ pc' = [pc EXCEPT ![c] = "idle"] /\ arg' = [arg EXCEPT ![c] = 0]
    BY Zenon DEF AllocChunk, Return, page_array, booting
  <1>2. i \in Bins /\ arg[c] \in Positive /\ bins[i] \in Seq(Nat) /\ i # 0
    BY <1>1, ChunkSize DEF HallocInv, PlacesInv, HallocTypeOK
  <1>3. a = <<a[1], a[2]>> /\ a[1] = h /\ a[2] = arg[c] /\ size_to_bin_index(a[2]) = i
    BY Zenon
  <1> HIDE DEF i, a
  <1>4. \A k, l \in DOMAIN bins[i] : bins[i][k] = bins[i][l] => k = l
    BY <1>2, Zenon DEF HallocInv, PointersInv
  <1>5. /\ Tail(bins[i]) \in Seq(Nat) /\ h \in Nat
        /\ \A k, l \in DOMAIN Tail(bins[i]) : Tail(bins[i])[k] = Tail(bins[i])[l] => k = l
        /\ \E k \in DOMAIN bins[i] : bins[i][k] = h
        /\ \A p : (\E k \in DOMAIN Tail(bins[i]) : Tail(bins[i])[k] = p)
                  <=> p # h /\ \E k \in DOMAIN bins[i] : bins[i][k] = p
    BY <1>1, <1>2, <1>4, TailList, Zenon
  <1> HIDE DEF h
  <1>6. /\ bins' \in [Bins -> Seq(Nat)] /\ bins'[i] = Tail(bins[i])
        /\ \A j \in Bins \ {i} : bins'[j] = bins[j]
    BY <1>1, <1>2, <1>5, Zenon DEF HallocInv, HallocTypeOK
  <1>7. /\ pc \in [Cpu -> Places] /\ arg \in [Cpu -> Nat] /\ got[c] = {}
        /\ pc' \in [Cpu -> Places] /\ arg' \in [Cpu -> Nat]
        /\ pc'[c] = "idle" /\ arg'[c] = 0
        /\ \A d \in Cpu \ {c} : pc'[d] = pc[d] /\ arg'[d] = arg[d]
    BY <1>1, Zenon DEF HallocInv, HallocTypeOK, PlacesInv, Places
  <1>8. \A d \in Cpu : FreeingAt(d)' = FreeingAt(d) /\ (FreeingAt(d) => d # c /\ arg'[d] = arg[d])
    BY <1>1, <1>7, Zenon DEF FreeingAt
  <1>9. \A p : p \in Pointers' <=> p \in Pointers \/ p = h
    <2> SUFFICES ASSUME NEW p PROVE p \in Pointers' <=> p \in Pointers \/ p = h
      BY Zenon
    <2>1. p \in Pointers' <=> \/ \E o \in live' : o[1] = p
                              \/ \E d \in Cpu : FreeingAt(d)' /\ arg'[d] = p
      BY Zenon DEF Pointers, FreeingAt
    <2>2. p \in Pointers <=> \/ \E o \in live : o[1] = p
                             \/ \E d \in Cpu : FreeingAt(d) /\ arg[d] = p
      BY InPointers, Zenon
    <2> QED
      BY <1>1, <1>3, <1>8, <2>1, <2>2, Zenon
  <1>10. \A j \in Bins : \A p : p \in Listed(j)' <=> p \in Listed(j) /\ ~(j = i /\ p = h)
    <2> SUFFICES ASSUME NEW j \in Bins, NEW p
                 PROVE  p \in Listed(j)' <=> p \in Listed(j) /\ ~(j = i /\ p = h)
      BY Zenon
    <2>1. /\ p \in Listed(j)' <=> \E k \in DOMAIN bins'[j] : bins'[j][k] = p
          /\ p \in Listed(j) <=> \E k \in DOMAIN bins[j] : bins[j][k] = p
      BY Zenon DEF Listed
    <2> QED
      BY <1>5, <1>6, <2>1, ZenonT(30)
  <1>11. Small(h, i) /\ h \notin Pointers /\ \A j \in Bins : h \in Listed(j) => j = i
    <2>1. Small(h, i) /\ h \in Listed(i)
      <3>1. h \in Listed(i)
        BY <1>2, <1>5, InPointers, Zenon
      <3> QED
        BY <1>2, <3>1, ListedSmall, Zenon DEF HallocInv
    <2>2. \A j \in Bins : h \in Listed(j) => Small(h, j)
      BY ListedSmall, Zenon DEF HallocInv
    <2> QED
      BY <1>2, <2>1, <2>2, FlagValues, ZenonT(30) DEF HallocInv, PointersInv, Small
  <1>12. HallocTypeOK'
    BY <1>1, <1>2, <1>3, <1>5, <1>6, <1>7 DEF HallocInv, HallocTypeOK
  <1>13. BlocksInv'
    <2>1. BlocksInv /\ \A d \in Cpu : got[d] = {} \/ arg'[d] = arg[d]
      BY <1>7, Zenon DEF HallocInv
    <2> QED
      BY <1>1, <2>1, BlocksKept, Zenon
  <1>14. PlacesInv'
    <2>1. \A j \in Bins : j > initialised' => bins'[j] = << >>
      BY <1>1, <1>6, Zenon DEF HallocInv, PlacesInv
    <2>2. \A d \in Cpu : pc[d] \notin {"boot", "dead"}
      BY <1>1, Zenon DEF HallocInv, PlacesInv
    <2> QED
      BY <1>1, <1>7, <2>1, <2>2, Zenon DEF HallocInv, PlacesInv
  <1>15. FlagsInv'
    BY <1>1, PagesKept, Zenon DEF HallocInv
  <1>16. PointersInv'
    <2>1. ASSUME NEW j \in Bins, NEW k \in DOMAIN bins'[j] PROVE Small(bins'[j][k], j)
      <3>1. bins'[j][k] \in Listed(j)
        BY <1>10, Zenon DEF Listed
      <3> QED
        BY <3>1, Zenon DEF HallocInv, PointersInv, Listed
    <2>2. ASSUME NEW j \in Bins
          PROVE  \A k, l \in DOMAIN bins'[j] : bins'[j][k] = bins'[j][l] => k = l
      <3>1. CASE j = i
        BY <1>5, <1>6, <3>1, Zenon
      <3>2. CASE j # i
        BY <1>6, <3>2, Zenon DEF HallocInv, PointersInv
      <3> QED
        BY <3>1, <3>2, Zenon
    <2>3. \A j \in Bins : Listed(j)' \cap Pointers' = {}
      <3> SUFFICES ASSUME NEW j \in Bins, NEW p \in Listed(j)', p \in Pointers' PROVE FALSE
        BY Zenon
      <3>1. p \in Listed(j) /\ ~(j = i /\ p = h)
        BY <1>10, Zenon
      <3>2. p \notin Pointers
        BY <3>1, Zenon DEF HallocInv, PointersInv
      <3> QED
        BY <1>9, <1>11, <3>1, <3>2, Zenon
    <2>4. \A o \in live' : Fits(o)'
      <3>1. Fits(a)
        BY <1>2, <1>3, <1>11, Zenon DEF Fits
      <3> QED
        BY <1>1, <3>1, PagesKept, Zenon DEF HallocInv, PointersInv
    <2>5. \A o \in live : o[1] # h
      BY <1>11, InPointers, Zenon
    <2>6. \A d \in Cpu : FreeingAt(d) => arg[d] # h
      BY <1>11, InPointers, Zenon
    <2>7. \A o, u \in live' : o[1] = u[1] => o = u
      BY <1>1, <1>3, <2>5, Zenon DEF HallocInv, PointersInv
    <2>8. ASSUME NEW d \in Cpu, FreeingAt(d)'
          PROVE  /\ Large(arg'[d]) \/ \E j \in Bins : Small(arg'[d], j)
                 /\ \A o \in live' : o[1] # arg'[d]
                 /\ \A e \in Cpu : FreeingAt(e)' /\ arg'[e] = arg'[d] => d = e
      <3>1. FreeingAt(d) /\ arg'[d] = arg[d]
        BY <1>8, <2>8, Zenon
      <3> QED
        BY <1>1, <1>3, <1>8, <2>6, <3>1 DEF HallocInv, PointersInv
    <2> QED
      BY <1>1, <2>1, <2>2, <2>3, <2>4, <2>7, <2>8, PagesKept DEF PointersInv
  <1>17. KeptInv'
    BY <1>1, <1>9, <1>10, PagesKept, Zenon DEF HallocInv, KeptInv
  <1> QED
    BY <1>12, <1>13, <1>14, <1>15, <1>16, <1>17, Zenon DEF HallocInv

\* hfree puts a chunk at the head of the free list its page names.
LEMMA HfreeChunkStep ==
    ASSUME HallocInv, NEW c \in Cpu, HfreeChunk(c)
    PROVE  HallocInv'
  <1> DEFINE h == arg[c]
             i == get_alloc_page_bin_index(halloc_flags[pfn(arg[c])])
             t == <<h>> \o bins[i]
  <1>1. /\ UNCHANGED <<blocks, halloc_flags, contig_allocated, array, initialised, got, live>>
        /\ FreeingAt(c) /\ pc[c] = "free" /\ ~IsPageGranular(halloc_flags[pfn(h)])
        /\ bins' = [bins EXCEPT ![i] = t]
        /\ pc' = [pc EXCEPT ![c] = "idle"] /\ arg' = [arg EXCEPT ![c] = 0]
    BY Zenon DEF HfreeChunk, Return, page_array, booting, FreeingAt
  <1>2. i \in Bins /\ Small(h, i)
    <2>1. Large(h) \/ \E j \in Bins : Small(h, j)
      BY <1>1, Zenon DEF HallocInv, PointersInv
    <2>2. PICK j \in Bins : Small(h, j)
      BY <1>1, <2>1, OtherFlags, Zenon DEF Large
    <2>3. i = j
      BY <2>2, FlagValues, Zenon DEF Small
    <2> QED
      BY <2>2, <2>3, Zenon
  <1> HIDE DEF i
  <1>3. h \in Nat /\ bins[i] \in Seq(Nat) /\ i \in Nat
    <2>1. h \in Nat
      BY <1>2, Zenon DEF Small
    <2>2. i \in Nat
      BY <1>2, ChunkSize
    <2>3. bins[i] \in Seq(Nat)
      BY <1>2, Zenon DEF HallocInv, HallocTypeOK
    <2> QED
      BY <2>1, <2>2, <2>3, Zenon
  <1>4. /\ \A k, l \in DOMAIN bins[i] : bins[i][k] = bins[i][l] => k = l
        /\ h \in Pointers /\ \A k \in DOMAIN bins[i] : bins[i][k] # h
    <2>1. h \in Pointers
      BY <1>1, InPointers, Zenon
    <2>2. h \notin Listed(i)
      BY <1>2, <2>1, Zenon DEF HallocInv, PointersInv
    <2> QED
      BY <1>2, <2>1, <2>2, InPointers, Zenon DEF HallocInv, PointersInv
  <1>5. /\ t \in Seq(Nat)
        /\ \A k, l \in DOMAIN t : t[k] = t[l] => k = l
        /\ \A p : (\E k \in DOMAIN t : t[k] = p) <=> p = h \/ \E k \in DOMAIN bins[i] : bins[i][k] = p
    <2> HIDE DEF h
    <2> QED
      BY <1>3, <1>4, ConsList, Zenon
  <1> HIDE DEF h, t
  <1>6. /\ bins' \in [Bins -> Seq(Nat)] /\ bins'[i] = t
        /\ \A j \in Bins \ {i} : bins'[j] = bins[j]
    BY <1>1, <1>2, <1>5, Zenon DEF HallocInv, HallocTypeOK
  <1>7. /\ pc \in [Cpu -> Places] /\ arg \in [Cpu -> Nat] /\ got[c] = {}
        /\ pc' \in [Cpu -> Places] /\ arg' \in [Cpu -> Nat]
        /\ pc'[c] = "idle" /\ arg'[c] = 0
        /\ \A d \in Cpu \ {c} : pc'[d] = pc[d] /\ arg'[d] = arg[d]
    BY <1>1, Zenon DEF HallocInv, HallocTypeOK, PlacesInv, Places
  <1>8. /\ \A d \in Cpu \ {c} : FreeingAt(d)' = FreeingAt(d)
        /\ ~FreeingAt(c)' /\ arg[c] = h
    BY <1>1, <1>7, Zenon DEF FreeingAt, h
  <1>9. \A p : p \in Pointers' <=> p \in Pointers /\ p # h
    <2> SUFFICES ASSUME NEW p PROVE p \in Pointers' <=> p \in Pointers /\ p # h
      BY Zenon
    <2>1. p \in Pointers' <=> \/ \E o \in live : o[1] = p
                              \/ \E d \in Cpu \ {c} : FreeingAt(d) /\ arg[d] = p
      <3>1. p \in Pointers' <=> \/ \E o \in live' : o[1] = p
                                \/ \E d \in Cpu : FreeingAt(d)' /\ arg'[d] = p
        BY Zenon DEF Pointers, FreeingAt
      <3> QED
        BY <1>1, <1>7, <1>8, <3>1, Zenon
    <2>2. p \in Pointers <=> \/ \E o \in live : o[1] = p
                             \/ \E d \in Cpu : FreeingAt(d) /\ arg[d] = p
      BY InPointers, Zenon
    <2>3. /\ \A o \in live : o[1] # h
          /\ \A d \in Cpu \ {c} : FreeingAt(d) => arg[d] # h
      BY <1>1, <1>8, Zenon DEF HallocInv, PointersInv
    <2> QED
      BY <1>8, <2>1, <2>2, <2>3, Zenon
  <1>10. \A j \in Bins : \A p : p \in Listed(j)' <=> p \in Listed(j) \/ (j = i /\ p = h)
    <2> SUFFICES ASSUME NEW j \in Bins, NEW p
                 PROVE  p \in Listed(j)' <=> p \in Listed(j) \/ (j = i /\ p = h)
      BY Zenon
    <2>1. /\ p \in Listed(j)' <=> \E k \in DOMAIN bins'[j] : bins'[j][k] = p
          /\ p \in Listed(j) <=> \E k \in DOMAIN bins[j] : bins[j][k] = p
      BY Zenon DEF Listed
    <2>2. CASE j = i
      BY <1>5, <1>6, <2>1, <2>2, SMTT(30)
    <2>3. CASE j # i
      BY <1>6, <2>1, <2>3, Zenon
    <2> QED
      BY <2>2, <2>3, Zenon
  <1>11. HallocTypeOK'
    BY <1>1, <1>6, <1>7, Zenon DEF HallocInv, HallocTypeOK
  <1>12. BlocksInv'
    <2>1. BlocksInv /\ \A d \in Cpu : got[d] = {} \/ arg'[d] = arg[d]
      BY <1>7, Zenon DEF HallocInv
    <2> QED
      BY <1>1, <2>1, BlocksKept, Zenon
  <1>13. FlagsInv'
    BY <1>1, PagesKept, Zenon DEF HallocInv
  <1>14. PlacesInv'
    <2>1. i <= initialised /\ initialised \in Nat
      BY <1>2, Zenon DEF HallocInv, HallocTypeOK, FlagsInv, Small
    <2>2. \A j \in Bins : j > initialised' => bins'[j] = << >>
      BY <1>1, <1>3, <1>6, <2>1 DEF HallocInv, PlacesInv
    <2>3. \A d \in Cpu : pc[d] \notin {"boot", "dead"}
      BY <1>1, Zenon DEF HallocInv, PlacesInv
    <2> QED
      BY <1>1, <1>7, <2>2, <2>3, Zenon DEF HallocInv, PlacesInv
  <1>15. PointersInv'
    <2>1. ASSUME NEW j \in Bins, NEW k \in DOMAIN bins'[j] PROVE Small(bins'[j][k], j)
      <3>1. bins'[j][k] \in Listed(j) \/ (j = i /\ bins'[j][k] = h)
        BY <1>10, Zenon DEF Listed
      <3> QED
        BY <1>2, <3>1, Zenon DEF HallocInv, PointersInv, Listed
    <2>2. ASSUME NEW j \in Bins
          PROVE  \A k, l \in DOMAIN bins'[j] : bins'[j][k] = bins'[j][l] => k = l
      <3>1. CASE j = i
        BY <1>5, <1>6, <3>1, Zenon
      <3>2. CASE j # i
        BY <1>6, <3>2, Zenon DEF HallocInv, PointersInv
      <3> QED
        BY <3>1, <3>2, Zenon
    <2>3. \A j \in Bins : Listed(j)' \cap Pointers' = {}
      BY <1>9, <1>10, Zenon DEF HallocInv, PointersInv
    <2>4. ASSUME NEW d \in Cpu, FreeingAt(d)'
          PROVE  /\ Large(arg'[d]) \/ \E j \in Bins : Small(arg'[d], j)
                 /\ \A o \in live' : o[1] # arg'[d]
                 /\ \A e \in Cpu : FreeingAt(e)' /\ arg'[e] = arg'[d] => d = e
      <3>1. FreeingAt(d) /\ d # c /\ arg'[d] = arg[d]
        BY <1>7, <1>8, <2>4, Zenon
      <3> QED
        BY <1>1, <1>7, <1>8, <3>1 DEF HallocInv, PointersInv
    <2> QED
      <3>1. /\ PointersInv /\ (\A p, j : Small(p, j)' = Small(p, j))
            /\ (\A p : Large(p)' = Large(p)) /\ \A o : Fits(o)' = Fits(o)
        BY <1>1, PagesKept, Zenon DEF HallocInv
      <3>2. ASSUME NEW j \in Bins, NEW k \in DOMAIN bins'[j] PROVE Small(bins[j][k], j)'
        <4>1. PICK q : q = bins'[j][k]
          BY Zenon
        <4>2. Small(q, j)'
          BY <2>1, <3>1, <3>2, <4>1, Zenon
        <4> QED
          BY <4>1, <4>2, Zenon DEF Small
      <3>3. /\ \A o \in live' : Fits(o)'
            /\ \A o, u \in live' : o[1] = u[1] => o = u
        BY <1>1, <3>1, Zenon DEF PointersInv
      <3>4. ASSUME NEW d \in Cpu, FreeingAt(d)'
            PROVE  Large(arg[d])' \/ \E j \in Bins : Small(arg[d], j)'
        <4>1. PICK q : q = arg'[d]
          BY Zenon
        <4>2. Large(q)' \/ \E j \in Bins : Small(q, j)'
          BY <2>4, <3>1, <3>4, <4>1, Zenon
        <4> QED
          BY <4>1, <4>2, Zenon DEF Large, Small
      <3> QED
        BY <2>2, <2>3, <2>4, <3>2, <3>3, <3>4, Zenon DEF PointersInv
  <1>16. KeptInv'
    <2>1. ASSUME NEW f \in Frames, halloc_flags[f] = ManagedPages
          PROVE  f * PAGE_SIZE # h
      <3> SUFFICES ASSUME f * PAGE_SIZE = h PROVE FALSE
        BY Zenon
      <3>1. pfn(h) = f
        <4>1. f \in Nat /\ h = f * PAGE_SIZE
          BY HallocAssumption, Zenon
        <4> QED
          BY <4>1, SMT DEF pfn, PAGE_SIZE
      <3> QED
        BY <1>2, <2>1, <3>1, FlagValues, Zenon DEF Small
    <2>2. ASSUME NEW j \in Bins, NEW p \in Nat, Small(p, j) PROVE p \in Listed(j)' \/ p \in Pointers'
      <3>1. p = h => j = i
        BY <1>2, <2>2, FlagValues, Zenon DEF Small
      <3> QED
        BY <1>9, <1>10, <2>2, <3>1, Zenon DEF HallocInv, KeptInv
    <2> QED
      BY <1>1, <1>9, <2>1, <2>2, PagesKept, Zenon DEF HallocInv, KeptInv
  <1> QED
    BY <1>11, <1>12, <1>13, <1>14, <1>15, <1>16, Zenon DEF HallocInv
-----------------------------------------------------------------------------
\* get_pages gives a block of frames that are in no other.
LEMMA NewBlock ==
    ASSUME HallocTypeOK, BlocksInv, NEW b \in Frames \X (1 .. Cardinality(Frames)), Pool!Take(b)
    PROVE  /\ b \in Frames \X Positive /\ b \notin blocks /\ blocks' = blocks \cup {b}
           /\ blocks' \subseteq Frames \X Positive
           /\ FramesOf(b) \subseteq Frames
           /\ \A o \in blocks : FramesOf(o) \cap FramesOf(b) = {}
           /\ \A o \in blocks' : FramesOf(o) \subseteq Frames
           /\ \A o, u \in blocks' : o # u => FramesOf(o) \cap FramesOf(u) = {}
  <1>1. /\ blocks' = blocks \cup {b} /\ FramesOf(b) \subseteq Frames
        /\ \A o \in blocks : FramesOf(o) \cap FramesOf(b) = {}
    BY Zenon DEF Pool!Take, Pool!FramesOf, FramesOf
  <1>2. b \in Frames \X Positive
    <2>1. b[2] \in Int /\ 1 <= b[2]
      OBVIOUS
    <2>2. b[2] \in Positive
      BY <2>1 DEF Positive
    <2> QED
      BY <2>2, Zenon
  <1>3. b \notin blocks
    BY <1>1, <1>2, BlockType, Zenon
  <1>4. \A o \in blocks' : FramesOf(o) \subseteq Frames
    BY <1>1, Zenon DEF BlocksInv
  <1>5. \A o, u \in blocks' : o # u => FramesOf(o) \cap FramesOf(u) = {}
    BY <1>1, Zenon DEF BlocksInv
  <1> QED
    BY <1>1, <1>2, <1>3, <1>4, <1>5, Zenon DEF HallocTypeOK

\* init_halloc gets the pages of the array.
LEMMA InitArrayStep ==
    ASSUME HallocInv, NEW b \in Frames \X (1 .. Cardinality(Frames)), InitArray(b)
    PROVE  HallocInv'
  <1>1. /\ UNCHANGED <<bins, halloc_flags, contig_allocated, initialised, pc, arg, got, live>>
        /\ array = {} /\ array' = {b} /\ Pool!Take(b)
    BY Zenon DEF InitArray, get_pages, page_array
  <1>2. HallocTypeOK /\ BlocksInv
    BY Zenon DEF HallocInv
  <1>3. /\ b \in Frames \X Positive /\ b \notin blocks /\ blocks' = blocks \cup {b}
        /\ blocks' \subseteq Frames \X Positive
        /\ \A o \in blocks' : FramesOf(o) \subseteq Frames
        /\ \A o, u \in blocks' : o # u => FramesOf(o) \cap FramesOf(u) = {}
    BY <1>1, <1>2, NewBlock, Zenon
  <1>4. Unrecorded' = Unrecorded /\ Unrecorded \subseteq blocks
    BY <1>1, <1>2, Zenon DEF Unrecorded, HallocTypeOK
  <1>5. Recorded' = Recorded
    BY <1>1, <1>3, <1>4, Zenon DEF Recorded
  <1>6. Pointers' = Pointers /\ (\A i \in Bins : Listed(i)' = Listed(i))
        /\ \A c \in Cpu : FreeingAt(c)' = FreeingAt(c)
    BY <1>1, Zenon DEF Pointers, Listed, FreeingAt
  <1>7. HallocTypeOK'
    BY <1>1, <1>2, <1>3, Zenon DEF HallocTypeOK
  <1>8. BlocksInv'
    BY <1>1, <1>2, <1>3, <1>4, Zenon DEF BlocksInv
  <1>9. PlacesInv'
    BY <1>1, Zenon DEF HallocInv, PlacesInv
  <1>10. FlagsInv'
    BY <1>1, <1>5, RecordsKept, Zenon DEF HallocInv
  <1>11. PointersInv'
    <2>1. PointersInv
      BY Zenon DEF HallocInv
    <2> QED
      BY <1>1, <1>5, <1>6, <2>1, PointersKept, Zenon
  <1>12. KeptInv'
    BY <1>1, <1>5, <1>6, RecordsKept, Zenon DEF HallocInv, KeptInv
  <1> QED
    BY <1>7, <1>8, <1>9, <1>10, <1>11, <1>12, Zenon DEF HallocInv

\* The boot ends: the array goes back.
LEMMA InitFailsStep ==
    ASSUME HallocInv, InitFails
    PROVE  HallocInv'
  <1>1. /\ UNCHANGED <<bins, halloc_flags, contig_allocated, initialised, arg, got, live>>
        /\ (\A c \in Cpu : pc[c] = "boot" /\ pc'[c] = "dead") /\ pc' \in [Cpu -> Places]
        /\ array' = {} /\ blocks' = blocks \ array
    BY Zenon DEF InitFails, Booting, page_array, Places
  <1>2. \A c \in Cpu : got[c] = {} /\ live = {}
    BY <1>1, Zenon DEF HallocInv, PlacesInv
  <1>3. Unrecorded' = {} /\ Unrecorded = {}
    BY <1>1, <1>2, Zenon DEF Unrecorded
  <1>4. Recorded' = Recorded
    BY <1>1, <1>3, Zenon DEF Recorded
  <1>5. /\ \A c \in Cpu : ~FreeingAt(c) /\ FreeingAt(c)' = FreeingAt(c)
        /\ \A i \in Bins : Listed(i)' = Listed(i)
    BY <1>1, Zenon DEF Listed, FreeingAt
  <1>6. Pointers' = Pointers
    BY <1>1, <1>5, Zenon DEF Pointers, FreeingAt
  <1>7. HallocTypeOK'
    BY <1>1, <1>2, Zenon DEF HallocInv, HallocTypeOK
  <1>8. BlocksInv'
    BY <1>1, <1>2, <1>3, Zenon DEF HallocInv, BlocksInv
  <1>9. PlacesInv'
    BY <1>1, <1>2, Zenon DEF HallocInv, PlacesInv
  <1>10. FlagsInv'
    BY <1>1, <1>4, RecordsKept, Zenon DEF HallocInv
  <1>11. PointersInv'
    <2>1. PointersInv
      BY Zenon DEF HallocInv
    <2> QED
      BY <1>1, <1>4, <1>5, <1>6, <2>1, PointersKept, Zenon
  <1>12. KeptInv'
    BY <1>1, <1>4, <1>5, <1>6, RecordsKept, Zenon DEF HallocInv, KeptInv
  <1> QED
    BY <1>7, <1>8, <1>9, <1>10, <1>11, <1>12, Zenon DEF HallocInv

\* pf_fallback_allocation gets pages, before it has the lock.
LEMMA FallbackGetPagesStep ==
    ASSUME HallocInv, NEW c \in Cpu, NEW b \in Frames \X (1 .. Cardinality(Frames)),
           FallbackGetPages(c, b)
    PROVE  HallocInv'
  <1>1. /\ UNCHANGED <<bins, halloc_flags, contig_allocated, array, initialised, arg, live>>
        /\ pc[c] = "fallback" /\ pc' = [pc EXCEPT ![c] = "record"]
        /\ got' = [got EXCEPT ![c] = {b}]
        /\ b[2] = ROUND_UP(arg[c], PAGE_SIZE) /\ Pool!Take(b)
    BY Zenon DEF FallbackGetPages, get_pages, page_array, booting
  <1>2. HallocTypeOK /\ BlocksInv
    BY Zenon DEF HallocInv
  <1>3. /\ b \in Frames \X Positive /\ b \notin blocks /\ blocks' = blocks \cup {b}
        /\ blocks' \subseteq Frames \X Positive
        /\ \A o \in blocks' : FramesOf(o) \subseteq Frames
        /\ \A o, u \in blocks' : o # u => FramesOf(o) \cap FramesOf(u) = {}
    BY <1>1, <1>2, NewBlock, Zenon
  <1>4. /\ pc' \in [Cpu -> Places] /\ pc'[c] = "record" /\ got'[c] = {b} /\ got[c] = {}
        /\ got' \in [Cpu -> SUBSET blocks']
        /\ \A d \in Cpu : got[d] \subseteq blocks
        /\ \A d \in Cpu \ {c} : pc'[d] = pc[d] /\ got'[d] = got[d]
    <2>1. /\ pc' \in [Cpu -> Places] /\ pc'[c] = "record" /\ got[c] = {}
          /\ \A d \in Cpu \ {c} : pc'[d] = pc[d]
      BY <1>1, <1>2, Zenon DEF HallocTypeOK, HallocInv, PlacesInv, Places
    <2>2. /\ got'[c] = {b} /\ \A d \in Cpu : got[d] \subseteq blocks
          /\ \A d \in Cpu \ {c} : got'[d] = got[d]
      BY <1>1, <1>2, Zenon DEF HallocTypeOK
    <2>3. got' \in [Cpu -> SUBSET blocks']
      <3>1. got' = [d \in Cpu |-> got'[d]]
        BY <1>1, <1>2, Zenon DEF HallocTypeOK
      <3>2. \A d \in Cpu : got'[d] \subseteq blocks'
        BY <1>3, <2>2, Zenon
      <3> QED
        BY <3>1, <3>2, Zenon
    <2> QED
      BY <2>1, <2>2, <2>3, Zenon
  <1>5. Unrecorded' = Unrecorded \cup {b} /\ Unrecorded \subseteq blocks
    <2>1. \A o : o \in Unrecorded' <=> \E d \in Cpu : o \in got'[d]
      BY Zenon DEF Unrecorded
    <2>2. \A o : o \in Unrecorded <=> \E d \in Cpu : o \in got[d]
      BY Zenon DEF Unrecorded
    <2>3. \A o : o \in Unrecorded' <=> o \in Unrecorded \/ o = b
      BY <1>4, <2>1, <2>2, Zenon
    <2>4. Unrecorded \subseteq blocks
      BY <1>4, <2>2, Zenon
    <2> QED
      BY <2>3, <2>4, Zenon
  <1>6. Recorded' = Recorded
    BY <1>1, <1>3, <1>5, Zenon DEF Recorded
  <1>7. \A d \in Cpu : FreeingAt(d)' = FreeingAt(d)
    BY <1>1, <1>4, Zenon DEF FreeingAt
  <1>8. Pointers' = Pointers /\ \A i \in Bins : Listed(i)' = Listed(i)
    BY <1>1, <1>7, Zenon DEF Pointers, Listed, FreeingAt
  <1>9. HallocTypeOK'
    BY <1>1, <1>2, <1>3, <1>4, Zenon DEF HallocTypeOK
  <1>10. BlocksInv'
    <2>1. array' \cap Unrecorded' = {}
      BY <1>1, <1>2, <1>3, <1>5, Zenon DEF BlocksInv, HallocTypeOK
    <2>2. ASSUME NEW d \in Cpu
          PROVE  /\ \A o \in got'[d] : o[2] = ROUND_UP(arg'[d], PAGE_SIZE)
                 /\ \A o, u \in got'[d] : o = u
                 /\ \A e \in Cpu : d # e => got'[d] \cap got'[e] = {}
      <3>1. CASE d = c
        <4>1. b[2] = ROUND_UP(arg'[d], PAGE_SIZE) /\ got'[d] = {b}
          BY <1>1, <1>4, <3>1, Zenon
        <4>2. \A e \in Cpu : d # e => b \notin got'[e]
          BY <1>3, <1>4, <3>1, Zenon
        <4> QED
          BY <4>1, <4>2, Zenon
      <3>2. CASE d # c
        <4>1. /\ \A o \in got[d] : o[2] = ROUND_UP(arg[d], PAGE_SIZE)
              /\ \A o, u \in got[d] : o = u
              /\ \A e \in Cpu : d # e => got[d] \cap got[e] = {}
          BY <1>2, Zenon DEF BlocksInv
        <4>2. got'[d] = got[d] /\ b \notin got[d] /\ arg' = arg
          BY <1>1, <1>3, <1>4, <3>2, Zenon
        <4>3. ASSUME NEW e \in Cpu, d # e PROVE got[d] \cap got'[e] = {}
          <5>1. got[d] \cap got[e] = {}
            BY <4>1, <4>3, Zenon
          <5>2. got'[e] = got[e] \/ got'[e] = {b}
            BY <1>4, Zenon
          <5> QED
            BY <4>2, <5>1, <5>2, Zenon
        <4> QED
          BY <4>1, <4>2, <4>3, Zenon
      <3> QED
        BY <3>1, <3>2, Zenon
    <2> QED
      BY <1>3, <2>1, <2>2, Zenon DEF BlocksInv
  <1>11. PlacesInv'
    BY <1>1, <1>4 DEF HallocInv, PlacesInv
  <1>12. FlagsInv'
    BY <1>1, <1>6, RecordsKept, Zenon DEF HallocInv
  <1>13. PointersInv'
    <2>1. PointersInv
      BY Zenon DEF HallocInv
    <2> QED
      BY <1>1, <1>6, <1>7, <1>8, <2>1, PointersKept, Zenon
  <1>14. KeptInv'
    BY <1>1, <1>6, <1>8, RecordsKept, Zenon DEF HallocInv, KeptInv
  <1> QED
    BY <1>9, <1>10, <1>11, <1>12, <1>13, <1>14, Zenon DEF HallocInv
=============================================================================
