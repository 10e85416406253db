---------------------------- MODULE HallocProof ----------------------------
(***************************************************************************)
(* The allocator hands out disjoint memory, keeps exact records of it, and *)
(* loses none: the steps that give pages a use or take it from them, and   *)
(* the theorems.                                                           *)
(***************************************************************************)
EXTENDS HallocInvariant

\* New pages for bin i: their chunks are the only pointers that become what they
\* are by it, and none was a pointer before.
LEMMA NewBinPages ==
    ASSUME HallocTypeOK, BlocksInv, FlagsInv, KeptInv, NEW i \in Bins,
           NEW b \in Frames \X (1 .. Cardinality(Frames)), Pool!Take(b),
           halloc_flags' = set_flags(b, ManagedBin(i)),
           UNCHANGED <<contig_allocated, array, got>>,
           initialised' \in Nat, initialised <= initialised', i <= initialised'
    PROVE  /\ Recorded' = Recorded \cup {b} /\ Unrecorded' = Unrecorded
           /\ FlagsInv'
           /\ \A f \in Frames : f \in FramesOf(b) =>
                 halloc_flags[f] # ManagedPages /\ \A j \in Bins : halloc_flags[f] # ManagedBin(j)
           /\ halloc_flags' \in [Frames -> Int]
           /\ \A f \in Frames : halloc_flags'[f] = IF f \in FramesOf(b) THEN ManagedBin(i)
                                                  ELSE halloc_flags[f]
           /\ \A o \in Recorded' : \/ \E j \in Bins : OfBin(o, j)'
                                   \/ halloc_flags'[o[1]] = ManagedPages
  <1>1. /\ b \in Frames \X Positive /\ b \notin blocks /\ blocks' = blocks \cup {b}
        /\ FramesOf(b) \subseteq Frames
        /\ \A o \in blocks : FramesOf(o) \cap FramesOf(b) = {}
    BY NewBlock, Zenon
  <1>2. Unrecorded' = Unrecorded /\ Unrecorded \subseteq blocks
    BY Zenon DEF Unrecorded, HallocTypeOK
  <1>3. Recorded' = Recorded \cup {b} /\ Recorded \subseteq blocks
    BY <1>1, <1>2, Zenon DEF Recorded, HallocTypeOK
  <1>4. ASSUME NEW f \in Frames, f \in FramesOf(b)
        PROVE  halloc_flags[f] # ManagedPages /\ \A j \in Bins : halloc_flags[f] # ManagedBin(j)
    BY <1>1, <1>3, <1>4, ManagedFrame, Zenon
  <1>5. /\ halloc_flags' \in [Frames -> Int]
        /\ \A f \in Frames : halloc_flags'[f] = IF f \in FramesOf(b) THEN ManagedBin(i)
                                               ELSE halloc_flags[f]
    BY FlagValues, Zenon DEF set_flags, HallocTypeOK
  <1>6. OfBin(b, i)'
    BY <1>1, <1>5, Zenon DEF OfBin, FramesOf
  <1>7. ASSUME NEW o \in Recorded, NEW j \in Bins, OfBin(o, j)
        PROVE  OfBin(o, j)'
    <2>1. \A f \in FramesOf(o) : f \in Frames /\ f \notin FramesOf(b)
      BY <1>1, <1>3, Zenon DEF BlocksInv
    <2>2. \A f \in FramesOf(o) : halloc_flags'[f] = ManagedBin(j)
      BY <1>5, <1>7, <2>1, Zenon DEF OfBin
    <2> QED
      BY <2>2, Zenon DEF OfBin, FramesOf
  <1>8. FlagsInv'
    <2> SUFFICES ASSUME NEW f \in Frames
                 PROVE  /\ \/ halloc_flags'[f] \in {Garbage, HALLOC_FLAGS_CLEAR, ManagedPages}
                           \/ \E j \in Bins : halloc_flags'[f] = ManagedBin(j)
                        /\ \A j \in Bins : halloc_flags'[f] = ManagedBin(j) =>
                              /\ j <= initialised'
                              /\ \E o \in Recorded' : f \in FramesOf(o) /\ OfBin(o, j)'
                        /\ halloc_flags'[f] = ManagedPages =>
                              \E n \in 1 .. 256 : /\ <<f, n>> \in Recorded'
                                                  /\ contig_allocated'[f] = n % 2^8
      BY Zenon DEF FlagsInv, FramesOf, Garbage, HALLOC_FLAGS_CLEAR
    <2>1. CASE f \in FramesOf(b)
      <3>1. halloc_flags'[f] = ManagedBin(i)
        BY <1>5, <2>1, Zenon
      <3> QED
        BY <1>3, <1>6, <2>1, <3>1, FlagValues, Zenon
    <2>2. CASE f \notin FramesOf(b)
      <3>1. halloc_flags'[f] = halloc_flags[f]
        BY <1>5, <2>2, Zenon
      <3>2. \/ halloc_flags[f] \in {Garbage, HALLOC_FLAGS_CLEAR, ManagedPages}
            \/ \E j \in Bins : halloc_flags[f] = ManagedBin(j)
        BY Zenon DEF FlagsInv
      <3>3. ASSUME NEW j \in Bins, halloc_flags[f] = ManagedBin(j)
            PROVE  /\ j <= initialised'
                   /\ \E o \in Recorded' : f \in FramesOf(o) /\ OfBin(o, j)'
        <4>1. j <= initialised /\ \E o \in Recorded : f \in FramesOf(o) /\ OfBin(o, j)
          BY <3>3, Zenon DEF FlagsInv
        <4>2. j \in Nat /\ initialised \in Nat
          BY ChunkSize DEF HallocTypeOK
        <4> QED
          BY <1>3, <1>7, <4>1, <4>2
      <3>4. halloc_flags[f] = ManagedPages =>
               \E n \in 1 .. 256 : <<f, n>> \in Recorded' /\ contig_allocated'[f] = n % 2^8
        BY <1>3, Zenon DEF FlagsInv
      <3> QED
        BY <3>1, <3>2, <3>3, <3>4, Zenon
    <2> QED
      BY <2>1, <2>2, Zenon
  <1>9. ASSUME NEW o \in Recorded'
        PROVE  (\E j \in Bins : OfBin(o, j)') \/ halloc_flags'[o[1]] = ManagedPages
    <2>1. CASE o = b
      BY <1>6, <2>1, Zenon
    <2>2. CASE o \in Recorded
      <3>1. o[1] \in Frames /\ o[1] \notin FramesOf(b)
        BY <1>1, <1>3, <2>2, BlockType, Zenon DEF HallocTypeOK
      <3>2. (\E j \in Bins : OfBin(o, j)) \/ halloc_flags[o[1]] = ManagedPages
        BY <2>2, Zenon DEF KeptInv
      <3> QED
        BY <1>5, <1>7, <2>2, <3>1, <3>2, Zenon
    <2> QED
      BY <1>3, <2>1, <2>2, Zenon
  <1> QED
    BY <1>2, <1>3, <1>4, <1>5, <1>8, <1>9, Zenon

\* The chunks of a block are distinct, and there is one.
LEMMA ChunkList ==
    ASSUME NEW b \in Frames \X Positive, NEW i \in Bins
    PROVE  LET C == ChunksOf(b, i) IN
           /\ C \in Seq(Nat) /\ C # << >>
           /\ \A k, l \in DOMAIN C : C[k] = C[l] => k = l
           /\ \A p : (\E k \in DOMAIN C : C[k] = p)
                     <=> p \in Nat /\ p % chunk_size(i) = 0 /\ pfn(p) \in FramesOf(b)
  <1> DEFINE C == ChunksOf(b, i)
             s == chunk_size(i)
             f == b[1]
             n == b[2]
             m == (n * PAGE_SIZE) \div s
  <1>1. s \in ChunkSizes /\ f \in Nat /\ n \in Nat /\ n > 0 /\ FramesOf(b) = f .. (f + n - 1)
    BY ChunkSize, BlockType, Zenon DEF FramesOf
  <1>2. C = [k \in 1 .. m |-> f * PAGE_SIZE + (k - 1) * s]
    BY Zenon DEF ChunksOf
  <1> HIDE DEF C, s, f, n
  <1>3. m \in Nat /\ m > 0
    BY <1>1, SMT DEF ChunkSizes, PAGE_SIZE
  <1> HIDE DEF m
  <1>4. DOMAIN C = 1 .. m /\ \A k \in 1 .. m : C[k] = f * PAGE_SIZE + (k - 1) * s
    BY <1>2, Zenon
  <1>5. \A k \in 1 .. m : C[k] \in Nat /\ C[k] % s = 0 /\ pfn(C[k]) \in f .. (f + n - 1)
    BY <1>1, <1>4, ChunkOfPages, Zenon DEF m
  <1>6. C \in Seq(Nat) /\ C # << >>
    <2>1. C \in [1 .. m -> Nat]
      BY <1>2, <1>4, <1>5, Zenon
    <2>2. 1 \in DOMAIN C
      BY <1>3, <1>4
    <2> QED
      BY <1>3, <2>1, <2>2
  <1>7. ASSUME NEW k \in 1 .. m, NEW l \in 1 .. m, C[k] = C[l]
        PROVE  k = l
    <2>1. f * PAGE_SIZE + (k - 1) * s = f * PAGE_SIZE + (l - 1) * s
      BY <1>4, <1>7, Zenon
    <2> QED
      BY <1>1, <1>3, <2>1, SMT DEF ChunkSizes, PAGE_SIZE
  <1>8. ASSUME NEW p \in Nat, p % s = 0, pfn(p) \in f .. (f + n - 1)
        PROVE  \E k \in 1 .. m : C[k] = p
    <2>1. \E k \in 1 .. ((n * PAGE_SIZE) \div s) : p = f * PAGE_SIZE + (k - 1) * s
      BY <1>1, <1>8, ChunkHasIndex, ZenonT(60)
    <2> QED
      BY <1>4, <2>1, Zenon DEF m
  <1>9. ASSUME NEW p
        PROVE  (\E k \in DOMAIN C : C[k] = p) <=> p \in Nat /\ p % s = 0 /\ pfn(p) \in FramesOf(b)
    <2>1. (\E k \in DOMAIN C : C[k] = p) => p \in Nat /\ p % s = 0 /\ pfn(p) \in FramesOf(b)
      BY <1>1, <1>4, <1>5, Zenon
    <2>2. p \in Nat /\ p % s = 0 /\ pfn(p) \in FramesOf(b) => \E k \in DOMAIN C : C[k] = p
      BY <1>1, <1>4, <1>8, Zenon
    <2> QED
      BY <2>1, <2>2, Zenon
  <1> QED
    BY <1>4, <1>6, <1>7, <1>9, Zenon DEF C, s

\* populate_bin: the chunks of the new pages b, without those in H that are handed
\* out at once, become the free list T of bin i, which was empty.
PopulatesWith(b, i, T, H) ==
    /\ bins[i] = << >> /\ Pool!Take(b)
    /\ halloc_flags' = set_flags(b, ManagedBin(i))
    /\ UNCHANGED <<contig_allocated, array, got>>
    /\ initialised' \in Nat /\ initialised <= initialised' /\ i <= initialised'
    /\ \A k, l \in DOMAIN T : T[k] = T[l] => k = l
    /\ bins' = [bins EXCEPT ![i] = T]
    /\ \A p : (\E k \in DOMAIN T : T[k] = p)
              <=> p \notin H /\ \E k \in DOMAIN ChunksOf(b, i) : ChunksOf(b, i)[k] = p
    /\ \A p \in H : \E k \in DOMAIN ChunksOf(b, i) : ChunksOf(b, i)[k] = p
    /\ \A p : p \in Pointers' <=> p \in Pointers \/ p \in H

\* What is kept then, whatever else the step does to the CPUs and the pointers.
PopulatedWith(i, H) ==
    /\ blocks' \subseteq Frames \X Positive /\ got \in [Cpu -> SUBSET blocks']
    /\ array' \subseteq blocks'
    /\ halloc_flags' \in [Frames -> Int] /\ bins' \in [Bins -> Seq(Nat)]
    /\ \A j \in Bins : j > initialised' => bins'[j] = << >>
    /\ (\A c \in Cpu : got[c] # {} => arg'[c] = arg[c]) => BlocksInv'
    /\ FlagsInv' /\ KeptInv'
    /\ \A j \in Bins : \A k \in DOMAIN bins'[j] : Small(bins[j][k], j)'
    /\ \A j \in Bins : \A k, l \in DOMAIN bins'[j] : bins'[j][k] = bins'[j][l] => k = l
    /\ \A j \in Bins : Listed(j)' \cap Pointers' = {}
    /\ \A a \in live : Fits(a)'
    /\ \A p : Large(p) => Large(p)'
    /\ \A p : \A j \in Bins : Small(p, j) => Small(p, j)'
    /\ \A p \in H : Small(p, i)' /\ p \notin Pointers

\* Populating a bin keeps what the invariant says of pages, flags and free lists,
\* and the chunks handed out are new chunks of the bin.
LEMMA PopulateStep ==
    ASSUME HallocInv, NEW i \in Bins, NEW b \in Frames \X (1 .. Cardinality(Frames)),
           NEW T \in Seq(Nat), NEW H, PopulatesWith(b, i, T, H)
    PROVE  PopulatedWith(i, H)
  <1>0. /\ bins[i] = << >> /\ Pool!Take(b)
        /\ halloc_flags' = set_flags(b, ManagedBin(i))
        /\ UNCHANGED <<contig_allocated, array, got>>
        /\ initialised' \in Nat /\ initialised <= initialised' /\ i <= initialised'
        /\ \A k, l \in DOMAIN T : T[k] = T[l] => k = l
        /\ bins' = [bins EXCEPT ![i] = T]
        /\ \A p : (\E k \in DOMAIN T : T[k] = p)
                  <=> p \notin H /\ \E k \in DOMAIN ChunksOf(b, i) : ChunksOf(b, i)[k] = p
        /\ \A p \in H : \E k \in DOMAIN ChunksOf(b, i) : ChunksOf(b, i)[k] = p
        /\ \A p : p \in Pointers' <=> p \in Pointers \/ p \in H
    BY Zenon DEF PopulatesWith
  <1> USE <1>0
  <1>1. HallocTypeOK /\ BlocksInv /\ FlagsInv /\ KeptInv /\ PointersInv /\ PlacesInv
    BY Zenon DEF HallocInv
  <1>2. /\ b \in Frames \X Positive /\ b \notin blocks /\ blocks' = blocks \cup {b}
        /\ blocks' \subseteq Frames \X Positive
        /\ \A o \in blocks' : FramesOf(o) \subseteq Frames
        /\ \A o, u \in blocks' : o # u => FramesOf(o) \cap FramesOf(u) = {}
    BY <1>1, NewBlock, Zenon
  <1>3. /\ Recorded' = Recorded \cup {b} /\ Unrecorded' = Unrecorded
        /\ FlagsInv'
        /\ \A f \in Frames : f \in FramesOf(b) =>
              halloc_flags[f] # ManagedPages /\ \A j \in Bins : halloc_flags[f] # ManagedBin(j)
        /\ halloc_flags' \in [Frames -> Int]
        /\ \A f \in Frames : halloc_flags'[f] = IF f \in FramesOf(b) THEN ManagedBin(i)
                                               ELSE halloc_flags[f]
        /\ \A o \in Recorded' : \/ \E j \in Bins : OfBin(o, j)'
                                \/ halloc_flags'[o[1]] = ManagedPages
    BY <1>1, NewBinPages, Zenon
  <1>4. FramesOf(b) \subseteq Frames
    BY <1>2, Zenon
  <1> DEFINE New(p) == p \in Nat /\ p % chunk_size(i) = 0 /\ pfn(p) \in FramesOf(b)
  <1>5. \A p : (\E k \in DOMAIN ChunksOf(b, i) : ChunksOf(b, i)[k] = p) <=> New(p)
    BY <1>2, ChunkList, Zenon
  <1>6. ASSUME NEW p, NEW j \in Bins
        PROVE  Small(p, j)' <=> Small(p, j) \/ (j = i /\ New(p))
    <2>1. Small(p, j)' <=> /\ p \in Nat /\ p % chunk_size(j) = 0
                           /\ pfn(p) \in Frames /\ halloc_flags'[pfn(p)] = ManagedBin(j)
      BY Zenon DEF Small, chunk_size, pfn
    <2>2. CASE pfn(p) \in FramesOf(b)
      BY <1>3, <1>4, <2>1, <2>2, FlagValues DEF Small
    <2>3. CASE pfn(p) \notin FramesOf(b)
      BY <1>3, <2>1, <2>3, Zenon DEF Small
    <2> QED
      BY <2>2, <2>3, Zenon
  <1>7. ASSUME NEW p PROVE Large(p)' <=> Large(p)
    <2>1. Large(p)' <=> /\ p \in Nat /\ p = pfn(p) * PAGE_SIZE
                        /\ pfn(p) \in Frames /\ halloc_flags'[pfn(p)] = ManagedPages
      BY DEF Large, pfn, PAGE_SIZE
    <2> QED
      BY <1>3, <2>1, FlagValues DEF Large
  <1>8. ASSUME NEW p, New(p)
        PROVE  p \notin Pointers /\ \A j \in Bins : ~Small(p, j) /\ p \notin Listed(j)
    <2>1. ~Large(p) /\ \A j \in Bins : ~Small(p, j)
      BY <1>3, <1>4, <1>8 DEF Large, Small
    <2>2. \A j \in Bins : p \notin Listed(j)
      BY <1>1, <2>1 DEF PointersInv, Listed
    <2>3. \A c \in Cpu : FreeingAt(c) => arg[c] # p
      BY <1>1, <2>1 DEF PointersInv
    <2>4. \A a \in live : a[1] # p
      BY <2>1, Extent
    <2> QED
      BY <2>1, <2>2, <2>3, <2>4, InPointers, Zenon
  <1> HIDE DEF New
  <1>9. /\ bins' \in [Bins -> Seq(Nat)] /\ bins'[i] = T
        /\ \A j \in Bins \ {i} : bins'[j] = bins[j]
    BY <1>1, Zenon DEF HallocTypeOK
  <1>10. ASSUME NEW j \in Bins, NEW p
         PROVE  p \in Listed(j)' <=> p \in Listed(j) \/ (j = i /\ New(p) /\ p \notin H)
    <2>1. /\ p \in Listed(j)' <=> \E k \in DOMAIN bins'[j] : bins'[j][k] = p
          /\ p \in Listed(j) <=> \E k \in DOMAIN bins[j] : bins[j][k] = p
      BY Zenon DEF Listed
    <2>2. CASE j = i
      <3>1. p \notin Listed(i)
        BY <2>1, <2>2
      <3>2. p \in Listed(i)' <=> \E k \in DOMAIN T : T[k] = p
        BY <1>9, <2>1, <2>2, Zenon
      <3> QED
        BY <1>5, <2>2, <3>1, <3>2, Zenon
    <2>3. CASE j # i
      BY <1>9, <2>1, <2>3, Zenon
    <2> QED
      BY <2>2, <2>3, Zenon
  <1>11. \A p \in H : New(p)
    BY <1>5, Zenon
  <1>12. got \in [Cpu -> SUBSET blocks'] /\ array' \subseteq blocks'
    BY <1>1, <1>2, Zenon DEF HallocTypeOK
  <1>13. (\A c \in Cpu : got[c] # {} => arg'[c] = arg[c]) => BlocksInv'
    <2> SUFFICES ASSUME \A c \in Cpu : got[c] # {} => arg'[c] = arg[c] PROVE BlocksInv'
      BY Zenon
    <2> QED
      BY <1>1, <1>2, <1>3 DEF BlocksInv
  <1>14. ASSUME NEW j \in Bins, j > initialised' PROVE bins'[j] = << >>
    <2>1. j \in Nat /\ i \in Nat /\ initialised \in Nat
      BY <1>1, ChunkSize DEF HallocTypeOK
    <2>2. j # i /\ j > initialised
      BY <1>14, <2>1
    <2> QED
      BY <1>1, <1>9, <2>2, Zenon DEF PlacesInv
  <1>15. ASSUME NEW j \in Bins, NEW k \in DOMAIN bins'[j] PROVE Small(bins[j][k], j)'
    <2> DEFINE p == bins'[j][k]
    <2>1. p \in Listed(j)'
      BY Zenon DEF Listed
    <2>2. p \in Listed(j) \/ (j = i /\ New(p))
      BY <1>10, <2>1, Zenon
    <2>3. p \in Listed(j) => Small(p, j)
      BY <1>1 DEF PointersInv, Listed
    <2> QED
      BY <1>6, <2>2, <2>3, Zenon
  <1>16. ASSUME NEW j \in Bins
         PROVE  \A k, l \in DOMAIN bins'[j] : bins'[j][k] = bins'[j][l] => k = l
    <2>1. CASE j = i
      BY <1>9, <2>1, Zenon
    <2>2. CASE j # i
      BY <1>1, <1>9, <2>2 DEF PointersInv
    <2> QED
      BY <2>1, <2>2, Zenon
  <1>17. \A j \in Bins : Listed(j)' \cap Pointers' = {}
    <2> SUFFICES ASSUME NEW j \in Bins, NEW p, p \in Listed(j)', p \in Pointers' PROVE FALSE
      BY Zenon
    <2>1. p \in Listed(j) \/ (New(p) /\ p \notin H)
      BY <1>10, Zenon
    <2>2. p \in Pointers \/ (p \in H /\ New(p))
      BY <1>11, Zenon
    <2> QED
      BY <1>1, <1>8, <2>1, <2>2, Zenon DEF PointersInv
  <1>18. ASSUME NEW a \in live PROVE Fits(a)'
    <2>1. Fits(a)
      BY <1>1, Zenon DEF PointersInv
    <2>2. CASE size_to_bin_index(a[2]) = 0
      <3>1. Large(a[1]) /\ \E n \in Nat : <<pfn(a[1]), n>> \in Recorded /\ a[2] <= n * PAGE_SIZE
        BY <2>1, <2>2, Zenon DEF Fits
      <3>2. Large(a[1])' /\ \E n \in Nat : <<pfn(a[1]), n>> \in Recorded' /\ a[2] <= n * PAGE_SIZE
        BY <1>3, <1>7, <3>1, Zenon
      <3> QED
        BY <2>2, <3>2, Zenon DEF Fits
    <2>3. CASE size_to_bin_index(a[2]) # 0
      <3>1. Small(a[1], size_to_bin_index(a[2])) /\ size_to_bin_index(a[2]) \in Bins
        BY <2>1, <2>3, Extent, SizeToBin, Zenon DEF Fits
      <3>2. Small(a[1], size_to_bin_index(a[2]))'
        BY <1>6, <3>1, Zenon
      <3> QED
        BY <2>3, <3>2, Zenon DEF Fits
    <2> QED
      BY <2>2, <2>3, Zenon
  <1>19. KeptInv'
    <2>1. ASSUME NEW j \in Bins, NEW p \in Nat, Small(p, j)'
          PROVE  p \in Listed(j)' \cup Pointers'
      BY <1>1, <1>6, <1>10, <2>1 DEF KeptInv
    <2>2. ASSUME CountsFit, NEW f \in Frames, halloc_flags'[f] = ManagedPages
          PROVE  f * PAGE_SIZE \in Pointers' /\ contig_allocated'[f] # 0
      <3>1. halloc_flags[f] = ManagedPages
        BY <1>3, <2>2, FlagValues, Zenon
      <3> QED
        BY <1>1, <2>2, <3>1, Zenon DEF KeptInv
    <2> QED
      BY <1>3, <2>1, <2>2, Zenon DEF KeptInv, CountsFit
  <1> QED
    BY <1>2, <1>3, <1>6, <1>7, <1>8, <1>9, <1>11, <1>12, <1>13, <1>14, <1>15, <1>16, <1>17, <1>18,
       <1>19, Zenon DEF PopulatedWith

\* init_halloc populates the next bin.
LEMMA InitBinStep ==
    ASSUME HallocInv, NEW b \in Frames \X (1 .. Cardinality(Frames)), InitBin(b)
    PROVE  HallocInv'
  <1> DEFINE i == initialised + 1
             C == ChunksOf(b, i)
  <1>1. /\ UNCHANGED <<contig_allocated, array, arg, got, live>>
        /\ i \in Bins /\ Pool!Take(b) /\ initialised' = i
        /\ halloc_flags' = set_flags(b, ManagedBin(i)) /\ bins' = [bins EXCEPT ![i] = C]
        /\ \A c \in Cpu : pc[c] = "boot"
        /\ pc' = [c \in Cpu |-> IF i = Len(bin_configs) THEN "idle" ELSE "boot"]
    BY Zenon DEF InitBin, get_pages, Booting
  <1>2. initialised \in Nat /\ HallocTypeOK /\ BlocksInv
    BY Zenon DEF HallocInv, HallocTypeOK
  <1>3. /\ initialised' \in Nat /\ initialised <= initialised' /\ i <= initialised'
        /\ bins[i] = << >>
    <2>1. i > initialised /\ i \in Nat
      BY <1>2
    <2> QED
      BY <1>1, <1>2, <2>1 DEF HallocInv, PlacesInv
  <1>4. b \in Frames \X Positive
    BY <1>1, <1>2, NewBlock, Zenon
  <1>5. C \in Seq(Nat) /\ \A k, l \in DOMAIN C : C[k] = C[l] => k = l
    BY <1>1, <1>4, ChunkList, Zenon
  <1>6. /\ pc' \in [Cpu -> Places]
        /\ \A c \in Cpu : pc'[c] \in {"idle", "boot"} /\ \A d \in Cpu : pc'[d] = pc'[c]
        /\ \A c \in Cpu : pc'[c] # "boot" => initialised' = Len(bin_configs)
    BY <1>1, Zenon DEF Places
  <1>7. /\ \A c \in Cpu : ~FreeingAt(c) /\ ~FreeingAt(c)' /\ got[c] = {} /\ live = {}
    BY <1>1, <1>6, Zenon DEF FreeingAt, HallocInv, PlacesInv
  <1>8. \A p : p \in Pointers' <=> p \in Pointers \/ p \in {}
    <2>1. \A p : p \in Pointers' <=> \/ \E o \in live' : o[1] = p
                                     \/ \E d \in Cpu : FreeingAt(d)' /\ arg'[d] = p
      BY Zenon DEF Pointers, FreeingAt
    <2> QED
      BY <1>1, <1>7, <2>1, InPointers, Zenon
  <1> HIDE DEF i
  <1>9. \A p : (\E k \in DOMAIN C : C[k] = p)
               <=> p \notin {} /\ \E k \in DOMAIN ChunksOf(b, i) : ChunksOf(b, i)[k] = p
    BY Zenon
  <1> HIDE DEF C
  <1>10. /\ blocks' \subseteq Frames \X Positive /\ got \in [Cpu -> SUBSET blocks']
         /\ array' \subseteq blocks'
         /\ halloc_flags' \in [Frames -> Int] /\ bins' \in [Bins -> Seq(Nat)]
         /\ \A j \in Bins : j > initialised' => bins'[j] = << >>
         /\ (\A c \in Cpu : got[c] # {} => arg'[c] = arg[c]) => BlocksInv'
         /\ FlagsInv' /\ KeptInv'
         /\ \A j \in Bins : \A k \in DOMAIN bins'[j] : Small(bins[j][k], j)'
         /\ \A j \in Bins : \A k, l \in DOMAIN bins'[j] : bins'[j][k] = bins'[j][l] => k = l
         /\ \A j \in Bins : Listed(j)' \cap Pointers' = {}
         /\ \A a \in live : Fits(a)'
    <2>1. PopulatesWith(b, i, C, {})
      BY <1>1, <1>3, <1>5, <1>8, <1>9, Zenon DEF PopulatesWith
    <2>2. PopulatedWith(i, {})
      BY <1>1, <1>5, <2>1, PopulateStep, Zenon
    <2> QED
      BY <2>2, Zenon DEF PopulatedWith
  <1>11. HallocTypeOK'
    BY <1>1, <1>2, <1>3, <1>6, <1>10, Zenon DEF HallocTypeOK
  <1>12. BlocksInv'
    BY <1>1, <1>10, Zenon
  <1>13. PlacesInv'
    BY <1>1, <1>6, <1>7, <1>10, Zenon DEF PlacesInv
  <1>14. PointersInv'
    BY <1>1, <1>7, <1>10, Zenon DEF HallocInv, PointersInv
  <1> QED
    BY <1>10, <1>11, <1>12, <1>13, <1>14, Zenon DEF HallocInv

\* hmalloc finds its bin empty and takes the first chunk of new pages.
LEMMA AllocRepopulateStep ==
    ASSUME HallocInv, NEW c \in Cpu, NEW b \in Frames \X (1 .. Cardinality(Frames)),
           AllocRepopulate(c, b)
    PROVE  HallocInv'
  <1>0. PICK m : m = arg[c]
    BY Zenon
  <1> DEFINE i == size_to_bin_index(m)
             C == ChunksOf(b, i)
             h == Head(C)
             a == <<h, m>>
  <1>1. /\ UNCHANGED <<contig_allocated, array, initialised, got>>
        /\ pc[c] = "bin" /\ bins[i] = << >> /\ Pool!Take(b)
        /\ halloc_flags' = set_flags(b, ManagedBin(i)) /\ bins' = [bins EXCEPT ![i] = Tail(C)]
        /\ live' = live \cup {a}
        /\ pc' = [pc EXCEPT ![c] = "idle"] /\ arg' = [arg EXCEPT ![c] = 0]
    BY <1>0, Zenon DEF AllocRepopulate, get_pages, Return, booting
  <1>2. i \in Bins /\ m \in Positive /\ i # 0 /\ HallocTypeOK /\ BlocksInv
    BY <1>0, <1>1, ChunkSize DEF HallocInv, PlacesInv
  <1>3. a = <<a[1], a[2]>> /\ a[1] = h /\ a[2] = m /\ size_to_bin_index(a[2]) = i
    BY Zenon
  <1>4. \A d \in Cpu : pc[d] \notin {"boot", "dead"}
    BY <1>1, Zenon DEF HallocInv, PlacesInv
  <1>5. initialised' \in Nat /\ initialised <= initialised' /\ i <= initialised'
    <2>1. initialised = Len(bin_configs)
      BY <1>1, Zenon DEF HallocInv, PlacesInv
    <2> QED
      BY <1>1, <1>2, <2>1, ChunkSize
  <1>6. b \in Frames \X Positive
    BY <1>1, <1>2, NewBlock, Zenon
  <1> HIDE DEF i, a
  <1>7. C \in Seq(Nat) /\ C # << >> /\ \A k, l \in DOMAIN C : C[k] = C[l] => k = l
    BY <1>2, <1>6, ChunkList, Zenon
  <1> DEFINE T == Tail(C)
  <1>8. /\ T \in Seq(Nat) /\ h \in Nat
        /\ \A k, l \in DOMAIN T : T[k] = T[l] => k = l
        /\ \E k \in DOMAIN C : C[k] = h
        /\ \A p : (\E k \in DOMAIN T : T[k] = p) <=> p # h /\ \E k \in DOMAIN C : C[k] = p
    <2> HIDE DEF C
    <2> QED
      BY <1>7, TailList, Zenon
  <1>9. /\ bins' = [bins EXCEPT ![i] = T]
        /\ \A p : (\E k \in DOMAIN T : T[k] = p)
                  <=> p \notin {h} /\ \E k \in DOMAIN ChunksOf(b, i) : ChunksOf(b, i)[k] = p
        /\ \A p \in {h} : \E k \in DOMAIN ChunksOf(b, i) : ChunksOf(b, i)[k] = p
    BY <1>1, <1>8, Zenon
  <1> HIDE DEF C, h, T
  <1>10. /\ pc \in [Cpu -> Places] /\ arg \in [Cpu -> Nat] /\ got[c] = {}
         /\ pc' \in [Cpu -> Places] /\ arg' \in [Cpu -> Nat]
         /\ pc'[c] = "idle" /\ arg'[c] = 0
         /\ \A d \in Cpu \ {c} : pc'[d] = pc[d] /\ arg'[d] = arg[d]
    BY <1>1, Zenon DEF HallocInv, HallocTypeOK, PlacesInv, Places
  <1>11. \A d \in Cpu : FreeingAt(d)' = FreeingAt(d) /\ (FreeingAt(d) => d # c /\ arg'[d] = arg[d])
    BY <1>1, <1>10, Zenon DEF FreeingAt
  <1>12. \A p : p \in Pointers' <=> p \in Pointers \/ p \in {h}
    <2> SUFFICES ASSUME NEW p PROVE p \in Pointers' <=> p \in Pointers \/ p = h
      BY Zenon
    <2>1. p \in Pointers' <=> \/ \E o \in live' : o[1] = p
                              \/ \E d \in Cpu : FreeingAt(d)' /\ arg'[d] = p
      BY Zenon DEF Pointers, FreeingAt
    <2>2. p \in Pointers <=> \/ \E o \in live : o[1] = p
                             \/ \E d \in Cpu : FreeingAt(d) /\ arg[d] = p
      BY InPointers, Zenon
    <2> QED
      BY <1>1, <1>3, <1>11, <2>1, <2>2, Zenon
  <1>13. /\ blocks' \subseteq Frames \X Positive /\ got \in [Cpu -> SUBSET blocks']
         /\ array' \subseteq blocks'
         /\ halloc_flags' \in [Frames -> Int] /\ bins' \in [Bins -> Seq(Nat)]
         /\ \A j \in Bins : j > initialised' => bins'[j] = << >>
         /\ (\A d \in Cpu : got[d] # {} => arg'[d] = arg[d]) => BlocksInv'
         /\ FlagsInv' /\ KeptInv'
         /\ \A j \in Bins : \A k \in DOMAIN bins'[j] : Small(bins[j][k], j)'
         /\ \A j \in Bins : \A k, l \in DOMAIN bins'[j] : bins'[j][k] = bins'[j][l] => k = l
         /\ \A j \in Bins : Listed(j)' \cap Pointers' = {}
         /\ \A o \in live : Fits(o)'
         /\ \A p : Large(p) => Large(p)'
         /\ \A p : \A j \in Bins : Small(p, j) => Small(p, j)'
         /\ \A p \in {h} : Small(p, i)' /\ p \notin Pointers
    <2>1. PopulatesWith(b, i, T, {h})
      BY <1>1, <1>2, <1>5, <1>8, <1>9, <1>12, Zenon DEF PopulatesWith
    <2>2. PopulatedWith(i, {h})
      BY <1>2, <1>8, <2>1, PopulateStep, Zenon
    <2> QED
      BY <2>2, Zenon DEF PopulatedWith
  <1>14. HallocTypeOK'
    <2>1. live' \subseteq Nat \X Positive
      BY <1>1, <1>2, <1>3, <1>8 DEF HallocTypeOK
    <2> QED
      BY <1>1, <1>2, <1>5, <1>10, <1>13, <2>1, Zenon DEF HallocTypeOK
  <1>15. BlocksInv'
    BY <1>10, <1>13, Zenon
  <1>16. PlacesInv'
    BY <1>1, <1>4, <1>10, <1>13, ZenonT(30) DEF HallocInv, PlacesInv
  <1>17. PointersInv'
    <2>1. \A o \in live' : Fits(o)'
      <3>1. Fits(a)'
        BY <1>2, <1>3, <1>13, Zenon DEF Fits
      <3> QED
        BY <1>1, <1>13, <3>1, Zenon
    <2>2. /\ \A o \in live : o[1] # h
          /\ \A d \in Cpu : FreeingAt(d) => arg[d] # h
      BY <1>13, InPointers, Zenon
    <2>3. \A o, u \in live' : o[1] = u[1] => o = u
      BY <1>1, <1>3, <2>2, Zenon DEF HallocInv, PointersInv
    <2>4. ASSUME NEW d \in Cpu, FreeingAt(d)'
          PROVE  /\ Large(arg[d])' \/ \E j \in Bins : Small(arg[d], j)'
                 /\ \A o \in live' : o[1] # arg'[d]
                 /\ \A e \in Cpu : FreeingAt(e)' /\ arg'[e] = arg'[d] => d = e
      <3>1. FreeingAt(d) /\ arg'[d] = arg[d]
        BY <1>11, <2>4, Zenon
      <3>2. Large(arg[d]) \/ \E j \in Bins : Small(arg[d], j)
        BY <3>1, Zenon DEF HallocInv, PointersInv
      <3>3. Large(arg[d])' \/ \E j \in Bins : Small(arg[d], j)'
        BY <1>13, <3>1, <3>2, Zenon
      <3> QED
        BY <1>1, <1>3, <1>11, <2>2, <3>1, <3>3 DEF HallocInv, PointersInv
    <2> QED
      BY <1>13, <2>1, <2>3, <2>4, Zenon DEF PointersInv
  <1> QED
    BY <1>13, <1>14, <1>15, <1>16, <1>17, Zenon DEF HallocInv
-----------------------------------------------------------------------------
\* A pointer points to pages that are managed.
LEMMA PointersManaged ==
    ASSUME HallocInv, NEW p, p \in Pointers \/ \E i \in Bins : p \in Listed(i)
    PROVE  Large(p) \/ \E i \in Bins : Small(p, i)
  <1>1. CASE \E a \in live : a[1] = p
    BY <1>1, Extent, Zenon
  <1>2. CASE \E c \in Cpu : FreeingAt(c) /\ arg[c] = p
    BY <1>2 DEF HallocInv, PointersInv
  <1>3. CASE \E i \in Bins : p \in Listed(i)
    <2>1. PICK i \in Bins : \E k \in DOMAIN bins[i] : bins[i][k] = p
      BY <1>3, InPointers, Zenon
    <2> QED
      BY <2>1 DEF HallocInv, PointersInv
  <1> QED
    BY <1>1, <1>2, <1>3, InPointers, Zenon

\* The pages of a request hold it, and their number fits in a byte but for 256.
LEMMA RoundUp ==
    ASSUME NEW m \in 1 .. MAX_SUPPORTED_ALLOCATION_SIZE, NEW n, n = ROUND_UP(m, PAGE_SIZE)
    PROVE  /\ m \in Nat /\ m # 0 /\ n \in 1 .. 256 /\ m <= n * PAGE_SIZE
           /\ n % 2^8 \in Int /\ (n # 256 => n % 2^8 = n) /\ (n = 256 => n % 2^8 = 0)
  <1>1. m \in Nat /\ m > 0 /\ m <= 256 * PAGE_SIZE
    BY SMT DEF MAX_SUPPORTED_ALLOCATION_SIZE, PAGE_SIZE
  <1>2. n \in 1 .. 256 /\ m <= n * PAGE_SIZE
    BY <1>1, SMT DEF ROUND_UP, PAGE_SIZE
  <1>3. n % 256 \in Int /\ (n # 256 => n % 256 = n) /\ (n = 256 => n % 256 = 0)
    BY <1>2, SMT
  <1> QED
    BY <1>1, <1>2, <1>3, Powers

\* The first byte of a frame is in it.
LEMMA FirstByte ==
    ASSUME NEW f \in Frames
    PROVE  f * PAGE_SIZE \in Nat /\ pfn(f * PAGE_SIZE) = f
  <1>1. f \in Nat
    BY HallocAssumption, Zenon
  <1> QED
    BY <1>1, SMT DEF pfn, PAGE_SIZE

\* pf_fallback_allocation records the pages it got and returns them.
LEMMA FallbackRecordStep ==
    ASSUME HallocInv, NEW c \in Cpu, FallbackRecord(c)
    PROVE  HallocInv'
  <1>0. PICK m : m = arg[c]
    BY Zenon
  <1>1. PICK b \in got[c] :
            /\ contig_allocated' = [contig_allocated EXCEPT ![b[1]] = b[2] % 2^8]
            /\ halloc_flags' = [halloc_flags EXCEPT ![b[1]] = ManagedPages]
            /\ live' = live \cup {<<b[1] * PAGE_SIZE, m>>}
    BY <1>0, Zenon DEF FallbackRecord
  <1> DEFINE f == b[1]
             h == f * PAGE_SIZE
             a == <<h, m>>
  <1>2. /\ UNCHANGED <<blocks, bins, array, initialised>>
        /\ pc[c] = "record" /\ got' = [got EXCEPT ![c] = {}]
        /\ pc' = [pc EXCEPT ![c] = "idle"] /\ arg' = [arg EXCEPT ![c] = 0]
    BY Zenon DEF FallbackRecord, Return, booting
  <1>3. HallocTypeOK /\ BlocksInv /\ PlacesInv /\ FlagsInv /\ PointersInv /\ KeptInv
    BY Zenon DEF HallocInv
  <1>4. /\ b \in blocks /\ b \in Frames \X Positive /\ got[c] = {b} /\ b \in Unrecorded
        /\ b[2] = ROUND_UP(m, PAGE_SIZE) /\ size_to_bin_index(m) = 0
        /\ m \in Sizes /\ m \in 1 .. MAX_SUPPORTED_ALLOCATION_SIZE
    <2>1. b \in blocks /\ b \in Frames \X Positive /\ b \in Unrecorded
      BY <1>3, Zenon DEF HallocTypeOK, Unrecorded
    <2>2. got[c] = {b} /\ b[2] = ROUND_UP(m, PAGE_SIZE)
      <3>1. (\A o \in got[c] : o = b) /\ b[2] = ROUND_UP(arg[c], PAGE_SIZE)
        BY <1>3, Zenon DEF BlocksInv
      <3> QED
        BY <1>0, <3>1, Zenon
    <2>3. size_to_bin_index(m) = 0 /\ m \in Sizes /\ m \in 1 .. MAX_SUPPORTED_ALLOCATION_SIZE
      BY <1>0, <1>2, <1>3, Zenon DEF PlacesInv
    <2> QED
      BY <2>1, <2>2, <2>3, Zenon
  <1>5. /\ b[2] \in 1 .. 256 /\ m <= b[2] * PAGE_SIZE /\ b[2] % 2^8 \in Int
        /\ CountsFit => b[2] % 2^8 # 0
    <2>1. CountsFit => b[2] # 256
      BY <1>4, Zenon DEF CountsFit
    <2>2. /\ b[2] \in 1 .. 256 /\ m <= b[2] * PAGE_SIZE /\ b[2] % 2^8 \in Int
          /\ b[2] # 256 => b[2] % 2^8 = b[2]
      BY <1>4, RoundUp
    <2> QED
      BY <2>1, <2>2
  <1>6. /\ f \in Frames /\ b = <<f, b[2]>> /\ f \in FramesOf(b) /\ FramesOf(b) \subseteq Frames
        /\ h \in Nat /\ pfn(h) = f /\ h = pfn(h) * PAGE_SIZE
        /\ a[1] = h /\ a[2] = m
    BY <1>3, <1>4, BlockType, FirstByte, Zenon DEF BlocksInv
  <1>7. /\ Recorded' = Recorded \cup {b} /\ b \notin Recorded /\ Recorded \subseteq blocks
        /\ Unrecorded' \subseteq Unrecorded
    <2>1. \A o : o \in Unrecorded' <=> \E d \in Cpu : o \in got'[d]
      BY Zenon DEF Unrecorded
    <2>2. \A o : o \in Unrecorded <=> \E d \in Cpu : o \in got[d]
      BY Zenon DEF Unrecorded
    <2>3. got'[c] = {} /\ \A d \in Cpu \ {c} : got'[d] = got[d] /\ b \notin got[d]
      <3>1. got'[c] = {} /\ \A d \in Cpu \ {c} : got'[d] = got[d]
        BY <1>2, <1>3, Zenon DEF HallocTypeOK
      <3>2. \A d \in Cpu \ {c} : got[d] \cap got[c] = {}
        BY <1>3, Zenon DEF BlocksInv
      <3> QED
        BY <3>1, <3>2, Zenon
    <2>4. Unrecorded' = Unrecorded \ {b}
      BY <1>4, <2>1, <2>2, <2>3
    <2>5. b \notin array
      BY <1>3, <1>4, Zenon DEF BlocksInv
    <2> QED
      BY <1>2, <1>4, <2>4, <2>5, Zenon DEF Recorded
  <1>8. \A o \in Recorded : FramesOf(o) \subseteq Frames /\ f \notin FramesOf(o)
    BY <1>3, <1>4, <1>6, <1>7, Zenon DEF BlocksInv
  <1>9. halloc_flags[f] # ManagedPages /\ \A j \in Bins : halloc_flags[f] # ManagedBin(j)
    BY <1>3, <1>6, <1>8, ManagedFrame, Zenon
  <1>10. /\ halloc_flags' \in [Frames -> Int] /\ contig_allocated' \in [Frames -> Int]
         /\ halloc_flags'[f] = ManagedPages /\ contig_allocated'[f] = b[2] % 2^8
         /\ \A g \in Frames \ {f} : /\ halloc_flags'[g] = halloc_flags[g]
                                    /\ contig_allocated'[g] = contig_allocated[g]
    BY <1>1, <1>3, <1>5, <1>6, OtherFlags, Zenon DEF HallocTypeOK
  <1> HIDE DEF a, h, f
  <1>11. /\ \A o \in Recorded : \A j \in Bins : OfBin(o, j) => OfBin(o, j)'
         /\ \A p : \A j \in Bins : Small(p, j)' <=> Small(p, j)
         /\ \A p : Large(p)' <=> Large(p) \/ p = h
    <2>1. ASSUME NEW o \in Recorded, NEW j \in Bins, OfBin(o, j) PROVE OfBin(o, j)'
      <3>1. \A g \in FramesOf(o) : halloc_flags'[g] = ManagedBin(j)
        BY <1>8, <1>10, <2>1, Zenon DEF OfBin
      <3> QED
        BY <3>1, Zenon DEF OfBin, FramesOf
    <2>2. ASSUME NEW p, NEW j \in Bins PROVE Small(p, j)' <=> Small(p, j)
      <3>1. \A g \in Frames : halloc_flags'[g] = ManagedBin(j) <=> halloc_flags[g] = ManagedBin(j)
        BY <1>9, <1>10, FlagValues, Zenon
      <3> QED
        BY <3>1, Zenon DEF Small
    <2>3. ASSUME NEW p PROVE Large(p)' <=> Large(p) \/ p = h
      <3>1. \A g \in Frames : halloc_flags'[g] = ManagedPages
                              <=> halloc_flags[g] = ManagedPages \/ g = f
        BY <1>6, <1>10, Zenon
      <3>2. Large(p)' <=> /\ p \in Nat /\ p = pfn(p) * PAGE_SIZE /\ pfn(p) \in Frames
                          /\ halloc_flags[pfn(p)] = ManagedPages \/ pfn(p) = f
        BY <3>1, Zenon DEF Large
      <3>3. p = h => p \in Nat /\ p = pfn(p) * PAGE_SIZE /\ pfn(p) = f /\ f \in Frames
        BY <1>6, Zenon
      <3>4. p = pfn(p) * PAGE_SIZE /\ pfn(p) = f => p = h
        BY Zenon DEF h
      <3> QED
        BY <3>2, <3>3, <3>4, Zenon DEF Large
    <2> QED
      BY <2>1, <2>2, <2>3, Zenon
  <1>12. h \notin Pointers /\ \A j \in Bins : h \notin Listed(j)
    <2>1. ~Large(h) /\ \A j \in Bins : ~Small(h, j)
      BY <1>6, <1>9, Zenon DEF Large, Small
    <2> QED
      BY <2>1, PointersManaged, Zenon
  <1>13. /\ pc' \in [Cpu -> Places] /\ arg' \in [Cpu -> Nat] /\ got' \in [Cpu -> SUBSET blocks']
         /\ pc'[c] = "idle" /\ arg'[c] = 0 /\ got'[c] = {}
         /\ \A d \in Cpu \ {c} : pc'[d] = pc[d] /\ arg'[d] = arg[d] /\ got'[d] = got[d]
    <2>1. /\ pc' \in [Cpu -> Places] /\ arg' \in [Cpu -> Nat]
          /\ pc'[c] = "idle" /\ arg'[c] = 0 /\ got'[c] = {}
          /\ \A d \in Cpu \ {c} : pc'[d] = pc[d] /\ arg'[d] = arg[d] /\ got'[d] = got[d]
      BY <1>2, <1>3, Zenon DEF HallocTypeOK, Places
    <2>2. got' = [d \in Cpu |-> got'[d]]
      BY <1>2, <1>3, Zenon DEF HallocTypeOK
    <2>3. \A d \in Cpu : got'[d] \subseteq blocks'
      BY <1>2, <1>3, <2>1, Zenon DEF HallocTypeOK
    <2> QED
      BY <2>1, <2>2, <2>3, Zenon
  <1>14. \A d \in Cpu : FreeingAt(d)' = FreeingAt(d) /\ (FreeingAt(d) => d # c /\ arg'[d] = arg[d])
    BY <1>2, <1>13, Zenon DEF FreeingAt
  <1>15. live' = live \cup {a}
    BY <1>1, Zenon DEF a, h, f
  <1>16. \A p : p \in Pointers' <=> p \in Pointers \/ p = h
    <2> SUFFICES ASSUME NEW p PROVE p \in Pointers' <=> p \in Pointers \/ p = h
      BY Zenon
    <2>1. p \in Pointers' <=> \/ \E o \in live' : o[1] = p
                              \/ \E d \in Cpu : FreeingAt(d)' /\ arg'[d] = p
      BY Zenon DEF Pointers, FreeingAt
    <2>2. p \in Pointers <=> \/ \E o \in live : o[1] = p
                             \/ \E d \in Cpu : FreeingAt(d) /\ arg[d] = p
      BY InPointers, Zenon
    <2> QED
      BY <1>6, <1>14, <1>15, <2>1, <2>2, Zenon
  <1>17. \A j \in Bins : Listed(j)' = Listed(j)
    BY <1>2, Zenon DEF Listed
  <1>18. HallocTypeOK'
    <2>1. m \in Positive
      <3>1. m \in Nat /\ m # 0
        BY <1>4, RoundUp, Zenon
      <3> QED
        BY <3>1, Zenon DEF Positive
    <2>2. live' \subseteq Nat \X Positive
      BY <1>3, <1>6, <1>15, <2>1, Zenon DEF HallocTypeOK, a
    <2> QED
      BY <1>2, <1>3, <1>10, <1>13, <2>2, Zenon DEF HallocTypeOK
  <1>19. BlocksInv'
    <2>1. array' \cap Unrecorded' = {}
      BY <1>2, <1>3, <1>7, Zenon DEF BlocksInv
    <2>2. ASSUME NEW d \in Cpu
          PROVE  /\ \A o \in got'[d] : o[2] = ROUND_UP(arg'[d], PAGE_SIZE)
                 /\ \A o, u \in got'[d] : o = u
                 /\ \A e \in Cpu : d # e => got'[d] \cap got'[e] = {}
      <3>1. CASE d = c
        BY <1>13, <3>1, Zenon
      <3>2. CASE d # c
        <4>1. /\ \A o \in got[d] : o[2] = ROUND_UP(arg[d], PAGE_SIZE)
              /\ \A o, u \in got[d] : o = u
              /\ \A e \in Cpu : d # e => got[d] \cap got[e] = {}
          BY <1>3, Zenon DEF BlocksInv
        <4>2. got'[d] = got[d] /\ arg'[d] = arg[d]
          BY <1>13, <3>2, Zenon
        <4>3. ASSUME NEW e \in Cpu, d # e PROVE got[d] \cap got'[e] = {}
          BY <1>13, <4>1, <4>3, Zenon
        <4> QED
          BY <4>1, <4>2, <4>3, Zenon
      <3> QED
        BY <3>1, <3>2, Zenon
    <2> QED
      BY <1>2, <1>3, <2>1, <2>2, Zenon DEF BlocksInv
  <1>20. PlacesInv'
    <2>1. \A d \in Cpu : pc[d] \notin {"boot", "dead"}
      BY <1>2, <1>3, Zenon DEF PlacesInv
    <2> QED
      BY <1>2, <1>3, <1>13, <2>1 DEF PlacesInv
  <1>21. FlagsInv'
    <2> SUFFICES ASSUME NEW g \in Frames
                 PROVE  /\ \/ halloc_flags'[g] \in {Garbage, HALLOC_FLAGS_CLEAR, ManagedPages}
                           \/ \E j \in Bins : halloc_flags'[g] = ManagedBin(j)
                        /\ \A j \in Bins : halloc_flags'[g] = ManagedBin(j) =>
                              /\ j <= initialised'
                              /\ \E o \in Recorded' : g \in FramesOf(o) /\ OfBin(o, j)'
                        /\ halloc_flags'[g] = ManagedPages =>
                              \E n \in 1 .. 256 : /\ <<g, n>> \in Recorded'
                                                  /\ contig_allocated'[g] = n % 2^8
      BY Zenon DEF FlagsInv, FramesOf, Garbage, HALLOC_FLAGS_CLEAR
    <2>1. CASE g = f
      BY <1>5, <1>6, <1>7, <1>10, <2>1, FlagValues, Zenon
    <2>2. CASE g # f
      <3>1. halloc_flags'[g] = halloc_flags[g] /\ contig_allocated'[g] = contig_allocated[g]
        BY <1>10, <2>2, Zenon
      <3>2. ASSUME NEW j \in Bins, halloc_flags[g] = ManagedBin(j)
            PROVE  /\ j <= initialised'
                   /\ \E o \in Recorded' : g \in FramesOf(o) /\ OfBin(o, j)'
        <4>1. j <= initialised /\ \E o \in Recorded : g \in FramesOf(o) /\ OfBin(o, j)
          BY <1>3, <3>2, Zenon DEF FlagsInv
        <4> QED
          BY <1>2, <1>7, <1>11, <4>1, Zenon
      <3>3. halloc_flags[g] = ManagedPages =>
               \E n \in 1 .. 256 : <<g, n>> \in Recorded /\ contig_allocated[g] = n % 2^8
        BY <1>3, Zenon DEF FlagsInv
      <3>4. \/ halloc_flags[g] \in {Garbage, HALLOC_FLAGS_CLEAR, ManagedPages}
            \/ \E j \in Bins : halloc_flags[g] = ManagedBin(j)
        BY <1>3, Zenon DEF FlagsInv
      <3> QED
        BY <1>7, <3>1, <3>2, <3>3, <3>4, Zenon
    <2> QED
      BY <2>1, <2>2, Zenon
  <1>22. PointersInv'
    <2>1. ASSUME NEW o \in live' PROVE Fits(o)'
      <3>1. CASE o = a
        <4>1. Large(h)'
          BY <1>11, Zenon
        <4>2. <<pfn(o[1]), b[2]>> \in Recorded' /\ b[2] \in Nat /\ o[2] <= b[2] * PAGE_SIZE
          BY <1>5, <1>6, <1>7, <3>1
        <4>3. size_to_bin_index(o[2]) = 0 /\ o[1] = h
          BY <1>4, <1>6, <3>1, Zenon
        <4> QED
          BY <4>1, <4>2, <4>3, Zenon DEF Fits
      <3>2. CASE o \in live
        <4>1. Fits(o) /\ (size_to_bin_index(o[2]) # 0 => size_to_bin_index(o[2]) \in Bins)
          BY <1>3, <3>2, Extent, SizeToBin, Zenon DEF PointersInv
        <4> QED
          BY <1>7, <1>11, <4>1, Zenon DEF Fits
      <3> QED
        BY <1>15, <3>1, <3>2, Zenon
    <2>2. /\ \A o \in live : o[1] # h
          /\ \A d \in Cpu : FreeingAt(d) => arg[d] # h
      BY <1>12, InPointers, Zenon
    <2>3. \A o, u \in live' : o[1] = u[1] => o = u
      BY <1>3, <1>6, <1>15, <2>2, Zenon DEF PointersInv
    <2>4. ASSUME NEW d \in Cpu, FreeingAt(d)'
          PROVE  /\ Large(arg[d])' \/ \E j \in Bins : Small(arg[d], j)'
                 /\ \A o \in live' : o[1] # arg'[d]
                 /\ \A e \in Cpu : FreeingAt(e)' /\ arg'[e] = arg'[d] => d = e
      <3>1. FreeingAt(d) /\ arg'[d] = arg[d]
        BY <1>14, <2>4, Zenon
      <3>2. Large(arg[d]) \/ \E j \in Bins : Small(arg[d], j)
        BY <1>3, <3>1, Zenon DEF PointersInv
      <3>3. Large(arg[d])' \/ \E j \in Bins : Small(arg[d], j)'
        BY <1>11, <3>1, <3>2, Zenon
      <3> QED
        BY <1>3, <1>6, <1>14, <1>15, <2>2, <3>1, <3>3, ZenonT(30) DEF PointersInv
    <2>5. \A j \in Bins : \A k \in DOMAIN bins'[j] : Small(bins[j][k], j)'
      BY <1>2, <1>3, <1>11, Zenon DEF PointersInv
    <2>6. \A j \in Bins : Listed(j)' \cap Pointers' = {}
      <3> SUFFICES ASSUME NEW j \in Bins, NEW p \in Listed(j), p \in Pointers' PROVE FALSE
        BY <1>17, Zenon
      <3>1. p \notin Pointers /\ p # h
        BY <1>3, <1>12, Zenon DEF PointersInv
      <3> QED
        BY <1>16, <3>1, Zenon
    <2> QED
      BY <1>2, <1>3, <2>1, <2>3, <2>4, <2>5, <2>6, Zenon DEF PointersInv
  <1>23. KeptInv'
    <2>1. \A j \in Bins : \A p \in Nat : Small(p, j)' => p \in Listed(j)' \cup Pointers'
      BY <1>3, <1>11, <1>16, <1>17, Zenon DEF KeptInv
    <2>2. ASSUME NEW o \in Recorded'
          PROVE  (\E j \in Bins : OfBin(o, j)') \/ halloc_flags'[o[1]] = ManagedPages
      <3>1. CASE o = b
        BY <1>10, <3>1, Zenon DEF f
      <3>2. CASE o \in Recorded
        <4>1. o[1] \in Frames /\ o[1] # f
          BY <1>3, <1>7, <1>8, <3>2, BlockType, Zenon DEF HallocTypeOK
        <4> QED
          BY <1>3, <1>10, <1>11, <3>2, <4>1, Zenon DEF KeptInv
      <3> QED
        BY <1>7, <3>1, <3>2, Zenon
    <2>3. ASSUME CountsFit, NEW g \in Frames, halloc_flags'[g] = ManagedPages
          PROVE  g * PAGE_SIZE \in Pointers' /\ contig_allocated'[g] # 0
      <3>1. CASE g = f
        BY <1>5, <1>10, <1>16, <2>3, <3>1, Zenon DEF h
      <3>2. CASE g # f
        BY <1>3, <1>10, <1>16, <2>3, <3>2, Zenon DEF KeptInv
      <3> QED
        BY <3>1, <3>2, Zenon
    <2> QED
      BY <2>1, <2>2, <2>3, Zenon DEF KeptInv, CountsFit
  <1> QED
    BY <1>18, <1>19, <1>20, <1>21, <1>22, <1>23, Zenon DEF HallocInv

\* hfree of pages, the records: the block at h goes back with its flags, unless it
\* has 256 pages, which are recorded as none.
LEMMA FreedPages ==
    ASSUME HallocInv, NEW c \in Cpu, HfreePages(c), NEW h, h = arg[c]
    PROVE  /\ Large(h) /\ Unrecorded' = Unrecorded /\ halloc_flags' \in [Frames -> Int]
           /\ blocks' \subseteq blocks /\ array \subseteq blocks' /\ Unrecorded \subseteq blocks'
           /\ FlagsInv'
           /\ \A p : \A j \in Bins : Small(p, j)' <=> Small(p, j)
           /\ \A p : Large(p) /\ p # h => Large(p)'
           /\ \A o \in Recorded : o[1] # pfn(h) => o \in Recorded'
           /\ \A o \in Recorded' : (\E j \in Bins : OfBin(o, j)') \/ halloc_flags'[o[1]] = ManagedPages
           /\ CountsFit => \A g \in Frames : halloc_flags'[g] = ManagedPages =>
                              halloc_flags[g] = ManagedPages /\ g # pfn(h)
  <1> DEFINE page == pfn(h)
  <1>1. HallocTypeOK /\ BlocksInv /\ PlacesInv /\ FlagsInv /\ PointersInv /\ KeptInv
    BY Zenon DEF HallocInv
  <1>2. PICK r : r = <<page, contig_allocated[page]>>
    BY Zenon
  <1>3. /\ UNCHANGED <<contig_allocated, array, initialised, got>>
        /\ FreeingAt(c) /\ IsPageGranular(halloc_flags[page])
        /\ blocks' = blocks \ {r}
        /\ halloc_flags' = [f \in Frames |-> IF f \in FramesOf(r) THEN HALLOC_FLAGS_CLEAR
                                             ELSE halloc_flags[f]]
    BY <1>2, Zenon DEF HfreePages, FreeingAt, booting, set_flags
  <1>4. Large(h) /\ page \in Frames /\ halloc_flags[page] = ManagedPages
    <2>1. Large(h) \/ \E j \in Bins : Small(h, j)
      BY <1>1, <1>3, Zenon DEF PointersInv
    <2> QED
      BY <1>3, <2>1, FlagValues, Zenon DEF Small, Large
  <1>5. PICK n \in 1 .. 256 : <<page, n>> \in Recorded /\ contig_allocated[page] = n % 2^8
    BY <1>1, <1>4, Zenon DEF FlagsInv
  <1>6. /\ Unrecorded' = Unrecorded /\ Recorded' = Recorded \ {r} /\ Recorded \subseteq blocks
        /\ Unrecorded \subseteq blocks
    <2>1. Unrecorded' = Unrecorded /\ Unrecorded \subseteq blocks
      BY <1>1, <1>3, Zenon DEF Unrecorded, HallocTypeOK
    <2> QED
      BY <1>3, <2>1, Zenon DEF Recorded
  <1>7. halloc_flags' \in [Frames -> Int]
    BY <1>1, <1>3, OtherFlags, Zenon DEF HallocTypeOK
  <1>8. CASE n = 256
    <2>1. contig_allocated[page] = 0
      BY <1>5, <1>8, Powers, SMT
    <2>2. r = <<page, 0>> /\ page \in Nat
      BY <1>2, <1>4, <2>1, HallocAssumption, Zenon
    <2>3. FramesOf(r) = {}
      BY <2>2 DEF FramesOf
    <2>4. r \notin blocks
      BY <1>1, <2>2, Zenon DEF HallocTypeOK, Positive
    <2>5. blocks' = blocks /\ halloc_flags' = halloc_flags
      BY <1>1, <1>3, <2>3, <2>4, Zenon DEF HallocTypeOK
    <2>6. ~CountsFit
      BY <1>1, <1>4, <2>1, Zenon DEF KeptInv
    <2>7. /\ Recorded' = Recorded /\ FlagsInv'
          /\ \A p, i : Small(p, i)' = Small(p, i)
          /\ \A p : Large(p)' = Large(p)
          /\ \A o, i : OfBin(o, i)' = OfBin(o, i)
      BY <1>1, <1>3, <2>5, PagesKept, Zenon
    <2> QED
      BY <1>1, <1>4, <1>6, <1>7, <2>5, <2>6, <2>7, Zenon DEF KeptInv, HallocTypeOK
  <1>9. CASE n # 256
    <2>1. contig_allocated[page] = n
      <3>1. n \in Nat /\ n < 256 /\ contig_allocated[page] = n % 256
        BY <1>5, <1>9, Powers
      <3> QED
        BY <3>1, SMT
    <2>2. r = <<page, n>> /\ r \in Recorded /\ r \in blocks /\ page \in FramesOf(r)
      <3>1. page \in Nat
        BY <1>4, HallocAssumption, Zenon
      <3>2. page \in FramesOf(<<page, n>>)
        BY <1>5, <3>1 DEF FramesOf
      <3> QED
        BY <1>2, <1>5, <1>6, <2>1, <3>2, Zenon
    <2> HIDE DEF page
    <2>3. /\ FramesOf(r) \subseteq Frames /\ r[1] = page
          /\ \A o \in blocks : o # r => FramesOf(o) \cap FramesOf(r) = {}
      BY <1>1, <2>2, Zenon DEF BlocksInv
    <2>4. \A f \in Frames : halloc_flags'[f] = IF f \in FramesOf(r) THEN HALLOC_FLAGS_CLEAR
                                               ELSE halloc_flags[f]
      BY <1>3, Zenon
    <2>5. ASSUME NEW f \in Frames, f \in FramesOf(r)
          PROVE  /\ \A j \in Bins : halloc_flags[f] # ManagedBin(j)
                 /\ halloc_flags[f] = ManagedPages => f = page
      <3>1. ASSUME NEW j \in Bins, halloc_flags[f] = ManagedBin(j) PROVE FALSE
        <4>1. PICK o \in Recorded : f \in FramesOf(o) /\ OfBin(o, j)
          BY <1>1, <3>1, ManagedFrame, Zenon
        <4>2. o = r
          BY <1>6, <2>3, <2>5, <4>1, Zenon
        <4> QED
          BY <1>4, <2>2, <4>1, <4>2, FlagValues, Zenon DEF OfBin
      <3>2. ASSUME halloc_flags[f] = ManagedPages PROVE f = page
        <4>1. PICK k \in 1 .. 256 : <<f, k>> \in Recorded /\ f \in FramesOf(<<f, k>>)
          BY <1>1, <3>2, ManagedFrame, Zenon
        <4>2. <<f, k>> = r
          BY <1>6, <2>3, <2>5, <4>1, Zenon
        <4> QED
          BY <2>2, <4>2
      <3> QED
        BY <3>1, <3>2, Zenon
    <2>6. /\ \A f \in Frames : \A j \in Bins :
                halloc_flags'[f] = ManagedBin(j) <=> halloc_flags[f] = ManagedBin(j)
          /\ \A f \in Frames :
                halloc_flags'[f] = ManagedPages <=> halloc_flags[f] = ManagedPages /\ f # page
      BY <1>4, <2>2, <2>4, <2>5, FlagValues, OtherFlags, Zenon
    <2>7. ASSUME NEW o \in Recorded, NEW j \in Bins, OfBin(o, j)
          PROVE  o # r /\ OfBin(o, j)'
      <3>1. o # r
        BY <1>4, <2>2, <2>7, FlagValues, Zenon DEF OfBin
      <3>2. \A f \in FramesOf(o) : halloc_flags'[f] = ManagedBin(j)
        BY <1>1, <1>6, <2>6, <2>7, Zenon DEF OfBin, BlocksInv
      <3> QED
        BY <3>1, <3>2, Zenon DEF OfBin, FramesOf
    <2>8. \A p : \A j \in Bins : Small(p, j)' <=> Small(p, j)
      BY <2>6, Zenon DEF Small
    <2>9. ASSUME NEW p, Large(p), p # h PROVE Large(p)'
      <3>1. pfn(p) # page
        BY <1>4, <2>9, Zenon DEF Large, page
      <3> QED
        BY <2>6, <2>9, <3>1, Zenon DEF Large
    <2>10. \A o \in Recorded : o[1] # page => o \in Recorded'
      BY <1>6, <2>3, Zenon
    <2>11. ASSUME NEW o \in Recorded'
           PROVE  (\E j \in Bins : OfBin(o, j)') \/ halloc_flags'[o[1]] = ManagedPages
      <3>1. o \in Recorded /\ o # r /\ o[1] \in Frames /\ o[1] \notin FramesOf(r)
        BY <1>1, <1>6, <2>2, <2>3, <2>11, BlockType, Zenon DEF HallocTypeOK
      <3> QED
        BY <1>1, <2>4, <2>7, <3>1, Zenon DEF KeptInv
    <2>12. FlagsInv'
      <3> SUFFICES ASSUME NEW g \in Frames
                   PROVE  /\ \/ halloc_flags'[g] \in {Garbage, HALLOC_FLAGS_CLEAR, ManagedPages}
                             \/ \E j \in Bins : halloc_flags'[g] = ManagedBin(j)
                          /\ \A j \in Bins : halloc_flags'[g] = ManagedBin(j) =>
                                /\ j <= initialised'
                                /\ \E o \in Recorded' : g \in FramesOf(o) /\ OfBin(o, j)'
                          /\ halloc_flags'[g] = ManagedPages =>
                                \E k \in 1 .. 256 : /\ <<g, k>> \in Recorded'
                                                    /\ contig_allocated'[g] = k % 2^8
        BY Zenon DEF FlagsInv, FramesOf, Garbage, HALLOC_FLAGS_CLEAR
      <3>1. \/ halloc_flags'[g] \in {Garbage, HALLOC_FLAGS_CLEAR, ManagedPages}
            \/ \E j \in Bins : halloc_flags'[g] = ManagedBin(j)
        BY <1>1, <2>4, Zenon DEF FlagsInv
      <3>2. ASSUME NEW j \in Bins, halloc_flags'[g] = ManagedBin(j)
            PROVE  /\ j <= initialised'
                   /\ \E o \in Recorded' : g \in FramesOf(o) /\ OfBin(o, j)'
        <4>1. j <= initialised /\ \E o \in Recorded : g \in FramesOf(o) /\ OfBin(o, j)
          BY <1>1, <2>6, <3>2, Zenon DEF FlagsInv
        <4> QED
          BY <1>3, <1>6, <2>7, <4>1, Zenon
      <3>3. ASSUME halloc_flags'[g] = ManagedPages
            PROVE  \E k \in 1 .. 256 : <<g, k>> \in Recorded' /\ contig_allocated'[g] = k % 2^8
        <4>1. g # page /\ \E k \in 1 .. 256 : <<g, k>> \in Recorded /\ contig_allocated[g] = k % 2^8
          BY <1>1, <2>6, <3>3, Zenon DEF FlagsInv
        <4> QED
          BY <1>3, <2>10, <4>1, Zenon
      <3> QED
        BY <3>1, <3>2, <3>3, Zenon
    <2>13. r \notin array /\ r \notin Unrecorded
      BY <2>2, Zenon DEF Recorded
    <2>14. /\ blocks' \subseteq blocks /\ array \subseteq blocks' /\ Unrecorded \subseteq blocks'
      BY <1>1, <1>3, <1>6, <2>13, Zenon DEF HallocTypeOK
    <2> QED
      BY <1>4, <1>6, <1>7, <2>6, <2>8, <2>9, <2>10, <2>11, <2>12, <2>14, Zenon DEF page
  <1> QED
    BY <1>8, <1>9, Zenon

\* hfree of pages.
LEMMA HfreePagesStep ==
    ASSUME HallocInv, NEW c \in Cpu, HfreePages(c)
    PROVE  HallocInv'
  <1>0. PICK h : h = arg[c]
    BY Zenon
  <1>1. HallocTypeOK /\ BlocksInv /\ PlacesInv /\ FlagsInv /\ PointersInv /\ KeptInv
    BY Zenon DEF HallocInv
  <1>2. /\ UNCHANGED <<bins, contig_allocated, array, initialised, got, live>>
        /\ pc[c] = "free" /\ FreeingAt(c)
        /\ pc' = [pc EXCEPT ![c] = "idle"] /\ arg' = [arg EXCEPT ![c] = 0]
    BY Zenon DEF HfreePages, Return, booting, FreeingAt
  <1>3. /\ Large(h) /\ Unrecorded' = Unrecorded /\ halloc_flags' \in [Frames -> Int]
        /\ blocks' \subseteq blocks /\ array \subseteq blocks' /\ Unrecorded \subseteq blocks'
        /\ FlagsInv'
        /\ \A p : \A j \in Bins : Small(p, j)' <=> Small(p, j)
        /\ \A p : Large(p) /\ p # h => Large(p)'
        /\ \A o \in Recorded : o[1] # pfn(h) => o \in Recorded'
        /\ \A o \in Recorded' : (\E j \in Bins : OfBin(o, j)') \/ halloc_flags'[o[1]] = ManagedPages
        /\ CountsFit => \A g \in Frames : halloc_flags'[g] = ManagedPages =>
                           halloc_flags[g] = ManagedPages /\ g # pfn(h)
    BY <1>0, FreedPages, Zenon
  <1>4. \A j \in Bins : ~Small(h, j)
    BY <1>3, FlagValues, Zenon DEF Small, Large
  <1>5. /\ pc \in [Cpu -> Places] /\ arg \in [Cpu -> Nat] /\ got[c] = {}
        /\ pc' \in [Cpu -> Places] /\ arg' \in [Cpu -> Nat]
        /\ pc'[c] = "idle" /\ arg'[c] = 0
        /\ \A d \in Cpu \ {c} : pc'[d] = pc[d] /\ arg'[d] = arg[d]
    BY <1>1, <1>2, Zenon DEF HallocTypeOK, PlacesInv, Places
  <1>6. ~FreeingAt(c)' /\ \A d \in Cpu \ {c} : FreeingAt(d)' = FreeingAt(d)
    BY <1>2, <1>5, Zenon DEF FreeingAt
  <1>7. /\ \A o \in live : o[1] # h
        /\ \A d \in Cpu \ {c} : FreeingAt(d) => arg[d] # h
    BY <1>0, <1>1, <1>2, Zenon DEF PointersInv
  <1>8. \A p : p \in Pointers' <=> p \in Pointers /\ p # h
    <2> SUFFICES ASSUME NEW p PROVE p \in Pointers' <=> p \in Pointers /\ p # h
      BY Zenon
    <2>1. p \in Pointers' <=> \/ \E o \in live : o[1] = p
                              \/ \E d \in Cpu \ {c} : FreeingAt(d) /\ arg[d] = p
      <3>1. p \in Pointers' <=> \/ \E o \in live' : o[1] = p
                                \/ \E d \in Cpu : FreeingAt(d)' /\ arg'[d] = p
        BY Zenon DEF Pointers, FreeingAt
      <3> QED
        BY <1>2, <1>5, <1>6, <3>1, Zenon
    <2>2. p \in Pointers <=> \/ \E o \in live : o[1] = p
                             \/ \E d \in Cpu : FreeingAt(d) /\ arg[d] = p
      BY InPointers, Zenon
    <2> QED
      BY <1>0, <1>7, <2>1, <2>2, Zenon
  <1>9. \A j \in Bins : Listed(j)' = Listed(j)
    BY <1>2, Zenon DEF Listed
  <1>10. HallocTypeOK'
    <2>1. \A d \in Cpu : got[d] \subseteq blocks'
      BY <1>3, Zenon DEF Unrecorded
    <2>2. got = [d \in Cpu |-> got[d]]
      BY <1>1, Zenon DEF HallocTypeOK
    <2>3. got' \in [Cpu -> SUBSET blocks']
      BY <1>2, <2>1, <2>2, Zenon
    <2> QED
      BY <1>1, <1>2, <1>3, <1>5, <2>3, Zenon DEF HallocTypeOK
  <1>11. BlocksInv'
    <2>1. array' \cap Unrecorded' = {}
      BY <1>1, <1>2, <1>3, Zenon DEF BlocksInv
    <2>2. ASSUME NEW d \in Cpu
          PROVE  /\ \A o \in got'[d] : o[2] = ROUND_UP(arg'[d], PAGE_SIZE)
                 /\ \A o, u \in got'[d] : o = u
                 /\ \A e \in Cpu : d # e => got'[d] \cap got'[e] = {}
      <3>1. \A e \in Cpu : got[e] = {} \/ arg'[e] = arg[e]
        BY <1>5, Zenon
      <3> QED
        BY <1>1, <1>2, <3>1, GotKept, Zenon
    <2>3. /\ \A o \in blocks' : FramesOf(o) \subseteq Frames
          /\ \A o, u \in blocks' : o # u => FramesOf(o) \cap FramesOf(u) = {}
      BY <1>1, <1>3, Zenon DEF BlocksInv
    <2> QED
      BY <2>1, <2>2, <2>3, Zenon DEF BlocksInv
  <1>12. PlacesInv'
    <2>1. \A d \in Cpu : pc[d] \notin {"boot", "dead"}
      BY <1>1, <1>2, Zenon DEF PlacesInv
    <2> QED
      BY <1>1, <1>2, <1>5, <2>1, Zenon DEF PlacesInv
  <1>13. PointersInv'
    <2>1. ASSUME NEW o \in live PROVE Fits(o)'
      <3>1. /\ Fits(o) /\ o[1] # h
            /\ size_to_bin_index(o[2]) # 0 => size_to_bin_index(o[2]) \in Bins
        BY <1>1, <1>7, Extent, SizeToBin, Zenon DEF PointersInv
      <3>2. CASE size_to_bin_index(o[2]) = 0
        <4>1. Large(o[1]) /\ \E n \in Nat : <<pfn(o[1]), n>> \in Recorded /\ o[2] <= n * PAGE_SIZE
          BY <3>1, <3>2, Zenon DEF Fits
        <4>2. pfn(o[1]) # pfn(h)
          BY <1>3, <3>1, <4>1, Zenon DEF Large
        <4>3. \E n \in Nat : <<pfn(o[1]), n>> \in Recorded' /\ o[2] <= n * PAGE_SIZE
          BY <1>3, <4>1, <4>2, Zenon
        <4> QED
          BY <1>3, <3>1, <3>2, <4>1, <4>3, Zenon DEF Fits
      <3>3. CASE size_to_bin_index(o[2]) # 0
        BY <1>3, <3>1, <3>3, Zenon DEF Fits
      <3> QED
        BY <3>2, <3>3, Zenon
    <2>2. ASSUME NEW d \in Cpu, FreeingAt(d)'
          PROVE  /\ Large(arg[d])' \/ \E j \in Bins : Small(arg[d], j)'
                 /\ \A o \in live' : o[1] # arg'[d]
                 /\ \A e \in Cpu : FreeingAt(e)' /\ arg'[e] = arg'[d] => d = e
      <3>1. PICK q : q = arg[d]
        BY Zenon
      <3>2. FreeingAt(d) /\ d # c /\ arg'[d] = q /\ q # h
        BY <1>5, <1>6, <1>7, <2>2, <3>1, Zenon
      <3>3. Large(q) \/ \E j \in Bins : Small(q, j)
        <4>1. Large(arg[d]) \/ \E j \in Bins : Small(arg[d], j)
          BY <1>1, <3>2, Zenon DEF PointersInv
        <4> QED
          BY <3>1, <4>1, Zenon
      <3>4. Large(q)' \/ \E j \in Bins : Small(q, j)'
        BY <1>3, <3>2, <3>3, Zenon
      <3>5. Large(arg[d])' \/ \E j \in Bins : Small(arg[d], j)'
        BY <3>2, <3>4, Zenon DEF Large, Small
      <3> QED
        BY <1>1, <1>2, <1>5, <1>6, <3>1, <3>2, <3>5, ZenonT(30) DEF PointersInv
    <2>3. \A j \in Bins : \A k \in DOMAIN bins'[j] : Small(bins[j][k], j)'
      <3> SUFFICES ASSUME NEW j \in Bins, NEW k \in DOMAIN bins'[j], NEW q, q = bins[j][k]
                   PROVE  Small(q, j)' /\ bins'[j][k] = q
        BY Zenon DEF Small
      <3>1. Small(q, j)
        BY <1>1, <1>2, Zenon DEF PointersInv
      <3> QED
        BY <1>2, <1>3, <3>1, Zenon
    <2>4. \A j \in Bins : Listed(j)' \cap Pointers' = {}
      <3> SUFFICES ASSUME NEW j \in Bins, NEW p \in Listed(j), p \in Pointers' PROVE FALSE
        BY <1>9, Zenon
      <3>1. p \notin Pointers
        BY <1>1, Zenon DEF PointersInv
      <3> QED
        BY <1>8, <3>1, Zenon
    <2> QED
      BY <1>1, <1>2, <2>1, <2>2, <2>3, <2>4, Zenon DEF PointersInv
  <1>14. KeptInv'
    <2>1. \A j \in Bins : \A p \in Nat : Small(p, j)' => p \in Listed(j)' \cup Pointers'
      BY <1>1, <1>3, <1>4, <1>8, <1>9, Zenon DEF KeptInv
    <2>2. ASSUME CountsFit, NEW g \in Frames, halloc_flags'[g] = ManagedPages
          PROVE  g * PAGE_SIZE \in Pointers' /\ contig_allocated'[g] # 0
      <3>1. halloc_flags[g] = ManagedPages /\ g # pfn(h)
        BY <1>3, <2>2, Zenon
      <3>2. g * PAGE_SIZE # h
        BY <3>1, FirstByte, Zenon
      <3> QED
        BY <1>1, <1>2, <1>8, <2>2, <3>1, <3>2, Zenon DEF KeptInv
    <2> QED
      BY <1>3, <2>1, <2>2, Zenon DEF KeptInv, CountsFit
  <1> QED
    BY <1>3, <1>10, <1>11, <1>12, <1>13, <1>14, Zenon DEF HallocInv
-----------------------------------------------------------------------------
\* Nothing is managed before init_halloc.
LEMMA InvInit == Init => HallocInv
  <1> SUFFICES ASSUME Init PROVE HallocInv
    BY Zenon
  <1>1. /\ blocks = {} /\ array = {} /\ initialised = 0 /\ live = {}
        /\ \A i \in Bins : bins[i] = << >>
        /\ \A f \in Frames : halloc_flags[f] = Garbage
        /\ \A c \in Cpu : pc[c] = "boot" /\ got[c] = {} /\ arg[c] = 0
    BY Zenon DEF Init
  <1>2. HallocTypeOK
    <2>1. /\ halloc_flags \in [Frames -> Int] /\ contig_allocated \in [Frames -> Int]
      BY OtherFlags, Zenon DEF Init
    <2>2. bins \in [Bins -> Seq(Nat)]
      BY DEF Init
    <2>3. pc \in [Cpu -> Places] /\ arg \in [Cpu -> Nat] /\ got \in [Cpu -> SUBSET blocks]
      BY Zenon DEF Init, Places
    <2> QED
      BY <1>1, <2>1, <2>2, <2>3, Zenon DEF HallocTypeOK
  <1>3. Unrecorded = {} /\ Recorded = {} /\ Pointers = {}
    BY <1>1, Zenon DEF Unrecorded, Recorded, Pointers
  <1>4. BlocksInv
    BY <1>1, <1>3, Zenon DEF BlocksInv
  <1>5. PlacesInv
    BY <1>1, Zenon DEF PlacesInv
  <1>6. FlagsInv
    BY <1>1, FlagValues, OtherFlags, Zenon DEF FlagsInv
  <1>7. PointersInv
    <2>1. \A i \in Bins : DOMAIN bins[i] = {} /\ Listed(i) = {}
      BY <1>1 DEF Listed
    <2>2. \A c \in Cpu : ~FreeingAt(c)
      BY <1>1, Zenon DEF FreeingAt
    <2> QED
      BY <1>1, <1>3, <2>1, <2>2, Zenon DEF PointersInv
  <1>8. KeptInv
    BY <1>1, <1>3, FlagValues, OtherFlags, Zenon DEF KeptInv, Small
  <1> QED
    BY <1>2, <1>4, <1>5, <1>6, <1>7, <1>8, Zenon DEF HallocInv

\* Every step of the allocator keeps the invariant.
LEMMA InvNext == HallocInv /\ [Next]_vars => HallocInv'
  <1> SUFFICES ASSUME HallocInv, [Next]_vars PROVE HallocInv'
    BY Zenon
  <1>1. CASE UNCHANGED vars
    <2>1. UNCHANGED <<blocks, bins, halloc_flags, contig_allocated, array, initialised, pc, arg,
                      got, live>>
      BY <1>1, Zenon DEF vars, page_array, booting
    <2>2. Pointers' = Pointers /\ (\A i \in Bins : Listed(i)' = Listed(i))
          /\ \A c \in Cpu : FreeingAt(c)' = FreeingAt(c)
      BY <2>1, Zenon DEF Pointers, Listed, FreeingAt
    <2>3. HallocTypeOK' /\ BlocksInv' /\ PlacesInv'
      BY <2>1, PagesKept, Zenon DEF HallocInv, HallocTypeOK, BlocksInv, PlacesInv
    <2>4. FlagsInv'
      BY <2>1, PagesKept, Zenon DEF HallocInv
    <2>5. PointersInv'
      <3>1. Recorded' = Recorded /\ PointersInv
        BY <2>1, PagesKept, Zenon DEF HallocInv
      <3> QED
        BY <2>1, <2>2, <3>1, PointersKept, Zenon
    <2>6. KeptInv'
      BY <2>1, <2>2, PagesKept, Zenon DEF HallocInv, KeptInv
    <2> QED
      BY <2>3, <2>4, <2>5, <2>6, Zenon DEF HallocInv
  <1>2. CASE Boot
    BY <1>2, InitFailsStep, InitArrayStep, InitBinStep, Zenon DEF Boot
  <1>3. ASSUME NEW c \in Cpu, NEW size \in Sizes, CallHmalloc(c, size) PROVE HallocInv'
    <2> DEFINE x == IF size_to_bin_index(size) = 0 THEN "fallback" ELSE "bin"
    <2>1. /\ size \in Nat /\ size \in Positive /\ pc[c] = "idle"
          /\ x = "bin" => size_to_bin_index(size) \in Bins
      BY <1>3, SizeToBin, HallocAssumption, Zenon DEF CallHmalloc, Positive
    <2>2. x = "fallback" => /\ size_to_bin_index(size) = 0
                            /\ size \in Sizes \cap (1 .. MAX_SUPPORTED_ALLOCATION_SIZE)
      <3>1. MAX_SUPPORTED_ALLOCATION_SIZE \in Nat
        BY SMT DEF MAX_SUPPORTED_ALLOCATION_SIZE
      <3> QED
        BY <1>3, <2>1, <3>1 DEF CallHmalloc, Positive
    <2>3. /\ pc' = [pc EXCEPT ![c] = x] /\ arg' = [arg EXCEPT ![c] = size]
          /\ UNCHANGED <<blocks, bins, page_array, booting, got, live>>
      BY <1>3, Zenon DEF CallHmalloc
    <2>4. x \in {"idle", "bin", "fallback"}
      BY Zenon
    <2> HIDE DEF x
    <2> QED
      BY <2>1, <2>2, <2>3, <2>4, QuietStep, Zenon
  <1>4. ASSUME NEW c \in Cpu, AllocOutOfMemory(c) \/ FallbackFails(c) PROVE HallocInv'
    <2>1. /\ pc[c] \in {"idle", "bin", "fallback"}
          /\ pc' = [pc EXCEPT ![c] = "idle"] /\ arg' = [arg EXCEPT ![c] = 0]
          /\ UNCHANGED <<blocks, bins, page_array, booting, got, live>>
      BY <1>4, Zenon DEF AllocOutOfMemory, FallbackFails, Return
    <2> QED
      BY <2>1, QuietStep, Zenon
  <1>5. ASSUME NEW c \in Cpu,
               \/ \E a \in live : CallHfree(c, a)
               \/ \E b \in Frames \X (1 .. Cardinality(Frames)) :
                     AllocRepopulate(c, b) \/ FallbackGetPages(c, b)
               \/ AllocChunk(c) \/ FallbackRecord(c) \/ HfreePages(c) \/ HfreeChunk(c)
        PROVE  HallocInv'
    BY <1>5, CallHfreeStep, AllocRepopulateStep, FallbackGetPagesStep, AllocChunkStep,
       FallbackRecordStep, HfreePagesStep, HfreeChunkStep, Zenon
  <1> QED
    BY <1>1, <1>2, <1>3, <1>4, <1>5, Zenon DEF Next

\* The invariant holds throughout.
LEMMA Invariance == Spec => []HallocInv
  BY InvInit, InvNext, PTL DEF Spec
-----------------------------------------------------------------------------
\* The invariant makes the records exact when every count fits in its byte.
LEMMA InvIsExact == HallocInv /\ CountsFit => PageRecordsExact
  <1> SUFFICES ASSUME HallocInv, CountsFit, NEW a \in live
               PROVE  LET page == pfn(a[1])
                          i == size_to_bin_index(a[2])
                      IN  IF i = 0
                          THEN /\ halloc_flags[page] = ManagedPages
                               /\ <<page, contig_allocated[page]>> \in blocks
                          ELSE halloc_flags[page] = ManagedBin(i)
    BY Zenon DEF PageRecordsExact
  <1> DEFINE page == pfn(a[1])
  <1>1. Fits(a)
    BY Zenon DEF HallocInv, PointersInv
  <1>2. CASE size_to_bin_index(a[2]) = 0
    <2>1. page \in Frames /\ halloc_flags[page] = ManagedPages
      BY <1>1, <1>2, Zenon DEF Fits, Large
    <2>2. PICK n \in 1 .. 256 : <<page, n>> \in Recorded /\ contig_allocated[page] = n % 2^8
      BY <2>1, Zenon DEF HallocInv, FlagsInv
    <2>3. contig_allocated[page] # 0
      BY <2>1, Zenon DEF HallocInv, KeptInv
    <2>4. n \in Nat /\ n <= 256 /\ n % 256 # 0 /\ contig_allocated[page] = n % 256
      BY <2>2, <2>3, Powers
    <2>5. n % 256 = n
      BY <2>4, SMT
    <2> QED
      BY <1>2, <2>1, <2>2, <2>4, <2>5, Zenon DEF Recorded
  <1>3. CASE size_to_bin_index(a[2]) # 0
    BY <1>1, <1>3, Zenon DEF Fits, Small
  <1> QED
    BY <1>2, <1>3, Zenon

\* The chunks of a bin's blocks are the pointers into its pages.
LEMMA BinChunks ==
    ASSUME HallocInv, NEW i \in Bins, NEW p
    PROVE  (\E b \in BinBlocks(i) : \E k \in DOMAIN ChunksOf(b, i) : ChunksOf(b, i)[k] = p)
           <=> Small(p, i)
  <1>1. \A b \in BinBlocks(i) : /\ b \in blocks /\ b \in Frames \X Positive /\ OfBin(b, i)
                                /\ FramesOf(b) \subseteq Frames
    BY Zenon DEF HallocInv, HallocTypeOK, BlocksInv, BinBlocks, OfBin
  <1>2. \A b \in BinBlocks(i) :
           (\E k \in DOMAIN ChunksOf(b, i) : ChunksOf(b, i)[k] = p)
           <=> p \in Nat /\ p % chunk_size(i) = 0 /\ pfn(p) \in FramesOf(b)
    BY <1>1, ChunkList, Zenon
  <1>3. ASSUME NEW b \in BinBlocks(i), \E k \in DOMAIN ChunksOf(b, i) : ChunksOf(b, i)[k] = p
        PROVE  Small(p, i)
    BY <1>1, <1>2, <1>3, Zenon DEF Small, OfBin
  <1>4. ASSUME Small(p, i)
        PROVE  \E b \in BinBlocks(i) : \E k \in DOMAIN ChunksOf(b, i) : ChunksOf(b, i)[k] = p
    <2>1. PICK b \in Recorded : pfn(p) \in FramesOf(b) /\ OfBin(b, i)
      BY <1>4, ManagedFrame, Zenon DEF HallocInv, Small
    <2>2. b \in BinBlocks(i)
      BY <2>1, Zenon DEF Recorded, BinBlocks, OfBin
    <2> QED
      BY <1>2, <1>4, <2>1, <2>2, Zenon DEF Small
  <1> QED
    BY <1>3, <1>4, Zenon

\* The invariant keeps every chunk and every block when every count fits.
LEMMA InvIsKept == HallocInv /\ CountsFit => NothingLost
  <1> SUFFICES ASSUME HallocInv, CountsFit PROVE NothingLost
    BY Zenon
  <1>1. ASSUME NEW i \in Bins
        PROVE  \A k, l \in DOMAIN bins[i] : bins[i][k] = bins[i][l] => k = l
    BY Zenon DEF HallocInv, PointersInv
  <1>2. ASSUME NEW i \in Bins
        PROVE  LET chunks == UNION {{ChunksOf(b, i)[k] : k \in DOMAIN ChunksOf(b, i)} :
                                    b \in BinBlocks(i)}
               IN  /\ Listed(i) \cap Pointers = {}
                   /\ chunks = Listed(i) \cup (chunks \cap Pointers)
    <2> DEFINE chunks == UNION {{ChunksOf(b, i)[k] : k \in DOMAIN ChunksOf(b, i)} :
                                b \in BinBlocks(i)}
    <2>1. ASSUME NEW p PROVE p \in chunks <=> Small(p, i)
      <3>1. p \in chunks <=> \E b \in BinBlocks(i) :
                                \E k \in DOMAIN ChunksOf(b, i) : ChunksOf(b, i)[k] = p
        OBVIOUS
      <3> QED
        BY <3>1, BinChunks, Zenon
    <2> HIDE DEF chunks
    <2>2. \A p : Small(p, i) => p \in Listed(i) \cup Pointers
      BY Zenon DEF HallocInv, KeptInv, Small
    <2>3. \A p \in Listed(i) : Small(p, i)
      <3> SUFFICES ASSUME NEW p \in Listed(i) PROVE Small(p, i)
        BY Zenon
      <3>1. PICK k \in DOMAIN bins[i] : bins[i][k] = p
        BY InPointers, Zenon
      <3>2. Small(bins[i][k], i)
        BY Zenon DEF HallocInv, PointersInv
      <3> QED
        BY <3>1, <3>2, Zenon
    <2>4. Listed(i) \cap Pointers = {}
      BY Zenon DEF HallocInv, PointersInv
    <2>5. chunks = Listed(i) \cup (chunks \cap Pointers)
      BY <2>1, <2>2, <2>3, Zenon
    <2> QED
      BY <2>4, <2>5, Zenon DEF chunks
  <1>3. ASSUME NEW b \in blocks \ (array \cup Unrecorded \cup UNION {BinBlocks(i) : i \in Bins})
        PROVE  b[1] * PAGE_SIZE \in Pointers
    <2>1. b \in Recorded /\ b[1] \in Frames
      BY <1>3, BlockType, Zenon DEF HallocInv, HallocTypeOK, Recorded
    <2>2. \A i \in Bins : ~OfBin(b, i)
      BY <1>3 DEF BinBlocks, OfBin
    <2> QED
      BY <2>1, <2>2, Zenon DEF HallocInv, KeptInv
  <1> QED
    BY <1>1, <1>2, <1>3, Zenon DEF NothingLost

\* Memory is exclusive, whatever the CPUs ask for and give back and however their
\* calls of hmalloc and hfree interleave: no byte is in two allocations, in a free
\* chunk, in the page array, or in pages not recorded yet.
THEOREM MemoryIsExclusive == Spec => []AllocationsDisjoint
  BY Invariance, InvIsDisjoint, PTL

\* hfree finds the right number of pages, or the right bin, in the record of the
\* first page, when no request takes 256 pages: contig_allocated is a uint8_t.
THEOREM RecordsAreExact == Spec => [](CountsFit => PageRecordsExact)
  BY Invariance, InvIsExact, PTL

\* No chunk and no page leaks, and no chunk is in its free list twice, with the
\* same exception: 256 pages are recorded as none and hfree never gives them back.
THEOREM NoMemoryIsLost == Spec => [](CountsFit => NothingLost)
  BY Invariance, InvIsKept, PTL
=============================================================================
