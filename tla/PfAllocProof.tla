---------------------------- MODULE PfAllocProof ----------------------------
(***************************************************************************)
(* Proofs about the page-frame allocator, for every memory map, every set  *)
(* of CPUs and every set of request sizes.                                 *)
(***************************************************************************)
EXTENDS PfAlloc, FiniteSetTheorems, TLAPS

\* The CPU inside the search loop is the one that holds global_pfalloc_lock.
LockInv == \A c \in Cpu : pc[c] = "search" => lock = c

\* The loop invariant of __get_pages: the streak found so far is the run of
\* free bits from area_start up to, and excluding, the current position.
SearchInv ==
    \A c \in Cpu : pc[c] = "search" =>
        /\ nr[c] \in Requests
        /\ remaining_needed[c] \in 1 .. nr[c]
        /\ remaining_needed[c] # nr[c] =>
              /\ area_start[c] + (nr[c] - remaining_needed[c]) = bit_pos[c]
              /\ \A f \in area_start[c] .. (bit_pos[c] - 1) : ~bitmap[f]

\* The blocks of the callers, and those inside free_pages_raw, are apart.
OutstandingInv ==
    /\ \A c \in Cpu : pc[c] = "get" => nr[c] \in Requests
    /\ \A b \in held : b[2] \in Requests /\ b[2] > 0
    /\ \A a, b \in held : a # b => FramesOf(a) \cap FramesOf(b) = {}
    /\ \A c \in Cpu : pc[c] = "free" =>
          /\ nr[c] \in Requests /\ nr[c] > 0
          /\ \A b \in held : FramesOf(b) \cap FramesOf(<<addr[c], nr[c]>>) = {}
    /\ \A c, d \in Cpu : pc[c] = "free" /\ pc[d] = "free" /\ c # d
          => FramesOf(<<addr[c], nr[c]>>) \cap FramesOf(<<addr[d], nr[d]>>) = {}
    /\ \A b \in Blocks : FramesOf(b) \subseteq Frames \ Reserved

\* The inductive invariant.
IInv == TypeOK /\ LockInv /\ SearchInv /\ OutstandingInv /\ BitmapExact
-----------------------------------------------------------------------------
LEMMA BitsAreNatural ==
    /\ total_bits \in Nat
    /\ total_bits > 0
    /\ bitmap_size \in Nat \ {0}
    /\ total_bits = bitmap_size * 8
  BY MemMapAssumption DEF total_bits

LEMMA WordIsNatural == Word \in Nat /\ Word > 2 * total_bits
  BY WordAssumption, Zenon

\* Arithmetic modulo a positive m stays below m.
LEMMA ModRange ==
    ASSUME NEW x \in Int, NEW m \in Nat, m > 0
    PROVE  x % m \in 0 .. (m - 1)
  OBVIOUS

\* The position behind a bit: one further, or 0 behind the last.
LEMMA NextPosValue ==
    ASSUME NEW p \in Frames
    PROVE  NextPos(p) = IF p = total_bits - 1 THEN 0 ELSE p + 1
  BY BitsAreNatural DEF NextPos, Frames

\* The hint is a bit of the bitmap, for every block.
LEMMA NextHintType ==
    ASSUME NEW start \in Nat, NEW n \in Nat
    PROVE  NextHint(start, n) \in Frames
  <1> DEFINE bit == ((start % 8) + (n % 8)) % 8
             offset == (n \div 8) + (IF n % 8 = 0 THEN 1 ELSE 0)
             byte == (start \div 8) + offset + (IF bit = 0 THEN 1 ELSE 0)
             b == byte % bitmap_size
  <1>1. bit \in 0 .. 7 /\ byte \in Nat
    OBVIOUS
  <1>2. b \in 0 .. (bitmap_size - 1)
    <2> HIDE DEF byte
    <2> QED BY <1>1, BitsAreNatural, ModRange
  <1>3. NextHint(start, n) = b * 8 + bit
    BY Zenon DEF NextHint
  <1> HIDE DEF bit, b
  <1> QED BY <1>1, <1>2, <1>3, BitsAreNatural DEF Frames

\* The allocator's metadata lies in the usable region that was found for it.
LEMMA MetaIsUsable == MetaFrames \subseteq UsableFrames
  <1> DEFINE i == find_contiguous_memory_region
  <1>1. i \in DOMAIN MemMap /\ Fits(i)
    BY MemMapAssumption, Zenon DEF find_contiguous_memory_region
  <1>2. MemMap[i] \in UsableEntries
    BY <1>1, Zenon DEF Fits, UsableEntries, Entries
  <1>3. Pages(MemMap[i].base, MemMap[i].length) \subseteq UsableFrames
    BY <1>2, Zenon DEF UsableFrames
  <1>4. MemMap[i].base \in Nat /\ MemMap[i].length \in Nat
    <2> DEFINE Entry == [type : {"usable", "reclaimable", "hypervisor", "reserved"},
                         base : Nat, length : Nat \ {0}]
    <2>1. MemMap \in Seq(Entry)
      BY MemMapAssumption, Zenon
    <2>2. \A j \in DOMAIN MemMap : MemMap[j] \in Entry
      <3> HIDE DEF Entry
      <3> QED BY <2>1
    <2>3. MemMap[i] \in Entry
      <3> HIDE DEF i
      <3> QED BY <1>1, <2>2, Zenon
    <2> QED BY <2>3, Zenon
  <1>5. allocator_region_size \in Nat /\ allocator_region_size <= MemMap[i].length
    BY <1>1, <1>4, BitsAreNatural DEF Fits, allocator_region_size, AllocatorStructSize
  <1>6. \A b, m, n \in Nat : m <= n => Pages(b, m) \subseteq Pages(b, n)
    BY DEF Pages, BYTE_LEN_TO_PAGES, phys_to_pfn, PageSize
  <1>7. Pages(MemMap[i].base, allocator_region_size)
           \subseteq Pages(MemMap[i].base, MemMap[i].length)
    BY <1>4, <1>5, <1>6, Zenon
  <1> QED BY <1>3, <1>7, Zenon DEF MetaFrames

\* The frames are a finite interval, and so is every set of them bounded.
LEMMA FrameSets ==
    ASSUME NEW S \in SUBSET Frames
    PROVE  IsFiniteSet(S) /\ Cardinality(S) \in Nat /\ Cardinality(S) <= total_bits
  <1>1. IsFiniteSet(Frames) /\ Cardinality(Frames) = total_bits
    BY BitsAreNatural, FS_Interval DEF Frames
  <1> QED BY <1>1, FS_Subset, FS_CardinalityType, Zenon

\* A subset's complement has the remaining elements.
LEMMA CardinalityDifference ==
    ASSUME NEW S \in SUBSET Frames, NEW T \in SUBSET S
    PROVE  Cardinality(S \ T) = Cardinality(S) - Cardinality(T)
  <1>1. T \in SUBSET Frames /\ S \ T \in SUBSET Frames
    BY Zenon
  <1>2. IsFiniteSet(S) /\ IsFiniteSet(T) /\ IsFiniteSet(S \ T)
        /\ Cardinality(T) \in Nat /\ Cardinality(S \ T) \in Nat
    BY <1>1, FrameSets, Zenon
  <1>3. Cardinality((S \ T) \cup T)
          = Cardinality(S \ T) + Cardinality(T) - Cardinality((S \ T) \cap T)
    BY <1>2, FS_Union, Zenon
  <1>4. (S \ T) \cup T = S /\ (S \ T) \cap T = {}
    BY Zenon
  <1>5. Cardinality(S) = Cardinality(S \ T) + Cardinality(T) - 0
    BY <1>3, <1>4, FS_EmptySet, Zenon
  <1> QED BY <1>2, <1>5

LEMMA InitIInv == Init => IInv
  <1> SUFFICES ASSUME Init PROVE IInv
    BY Zenon
  <1>1. TypeOK
    <2>1. UsableFrames \in SUBSET Frames /\ MetaFrames \in SUBSET Frames
      BY MemMapAssumption, MetaIsUsable, Zenon
    <2>2. Cardinality(UsableFrames) - Cardinality(MetaFrames) \in 0 .. (Word - 1)
          /\ Cardinality(MetaFrames) \in 0 .. (Word - 1)
      <3>1. Cardinality(UsableFrames) \in Nat /\ Cardinality(MetaFrames) \in Nat
            /\ Cardinality(UsableFrames) <= total_bits /\ Cardinality(MetaFrames) <= total_bits
        BY <2>1, FrameSets, Zenon
      <3>2. Cardinality(MetaFrames) <= Cardinality(UsableFrames)
        BY <2>1, FrameSets, MetaIsUsable, FS_Subset, Zenon
      <3> QED BY <3>1, <3>2, WordIsNatural, BitsAreNatural
    <2>3. 0 \in Frames
      BY BitsAreNatural DEF Frames
    <2> QED BY <2>2, <2>3, Zenon DEF Init, TypeOK
  <1>2. LockInv /\ SearchInv /\ OutstandingInv
    BY Zenon DEF Init, LockInv, SearchInv, OutstandingInv, Blocks
  <1>3. BitmapExact
    BY Zenon DEF Init, BitmapExact, Blocks, Reserved
  <1> QED BY <1>1, <1>2, <1>3, Zenon DEF IInv

LEMMA AreaStartType ==
    ASSUME TypeOK, NEW c \in Cpu
    PROVE  AreaStart(c) \in Frames
  BY Zenon DEF TypeOK, AreaStart

LEMMA TypeStep == TypeOK /\ [Next]_vars => TypeOK'
  <1> SUFFICES ASSUME TypeOK, [Next]_vars PROVE TypeOK'
    BY Zenon
  <1>0. 0 \in Frames /\ Frames \subseteq Nat
    BY BitsAreNatural DEF Frames
  <1>m. \A x \in Int : x % Word \in 0 .. (Word - 1)
    BY WordIsNatural, BitsAreNatural, ModRange
  <1>n. \A q \in Frames : NextPos(q) \in Frames
    BY NextPosValue, BitsAreNatural DEF Frames
  <1>1. CASE UNCHANGED vars
    BY <1>1, Zenon DEF TypeOK, vars, counters, search
  <1>2. ASSUME NEW c \in Cpu, NEW n \in Requests, CallGetPages(c, n) PROVE TypeOK'
    BY <1>2, RequestsAssumption, Zenon DEF TypeOK, CallGetPages, counters, search
  <1>3. ASSUME NEW c \in Cpu, NEW b \in held, CallFreePages(c, b) PROVE TypeOK'
    BY <1>3, Zenon DEF TypeOK, CallFreePages, counters, search
  <1>4. ASSUME NEW c \in Cpu, Refuse(c) PROVE TypeOK'
    BY <1>4, Zenon DEF TypeOK, Refuse, counters, search
  <1>5. ASSUME NEW c \in Cpu, StartSearch(c) PROVE TypeOK'
    BY <1>5, Zenon DEF TypeOK, StartSearch, counters
  <1>6. ASSUME NEW c \in Cpu, SkipUsed(c) PROVE TypeOK'
    BY <1>6, <1>n DEF TypeOK, SkipUsed, counters
  <1>7. ASSUME NEW c \in Cpu, ExtendStreak(c) PROVE TypeOK'
    BY <1>7, <1>n, AreaStartType
       DEF TypeOK, ExtendStreak, Searching, LoopCondition, counters
  <1>8. ASSUME NEW c \in Cpu, Claim(c) PROVE TypeOK'
    <2>1. AreaStart(c) \in Frames /\ nr[c] \in Nat
      BY AreaStartType, Zenon DEF TypeOK
    <2>2. last_alloc_hint' \in Frames
      BY <1>8, <1>0, <2>1, NextHintType, Zenon DEF Claim
    <2>3. allocated_page_frames' \in 0 .. (Word - 1) /\ allocatable_frames' \in 0 .. (Word - 1)
      BY <1>8, <1>m, <2>1, WordIsNatural, BitsAreNatural DEF Claim, TypeOK
    <2>4. bitmap' \in [Frames -> BOOLEAN]
      BY <1>8, Zenon DEF Claim, TypeOK
    <2>5. held' \subseteq (Frames \X Nat)
      BY <1>8, <2>1 DEF Claim, TypeOK
    <2> QED BY <1>8, <1>0, <2>2, <2>3, <2>4, <2>5, Zenon DEF Claim, ReturnFromSearch, TypeOK
  <1>9. ASSUME NEW c \in Cpu, GiveUp(c) PROVE TypeOK'
    BY <1>9, <1>0, Zenon DEF TypeOK, GiveUp, ReturnFromSearch, counters
  <1>10. ASSUME NEW c \in Cpu, FreePagesRaw(c) PROVE TypeOK'
    <2>1. allocated_page_frames' \in 0 .. (Word - 1) /\ allocatable_frames' \in 0 .. (Word - 1)
      BY <1>10, <1>m, WordIsNatural, BitsAreNatural DEF FreePagesRaw, TypeOK
    <2>2. bitmap' \in [Frames -> BOOLEAN]
      BY <1>10, Zenon DEF FreePagesRaw, TypeOK
    <2> QED BY <1>10, <1>0, <2>1, <2>2, Zenon DEF FreePagesRaw, TypeOK, search
  <1> QED
    BY <1>1, <1>2, <1>3, <1>4, <1>5, <1>6, <1>7, <1>8, <1>9, <1>10, Zenon DEF Next, Step

\* Every field and local keeps its type: the hint and the positions stay
\* inside the bitmap, the counters inside 64 bits.
THEOREM TypeCorrect == Spec => []TypeOK
  <1>1. Init => TypeOK
    BY InitIInv, Zenon DEF IInv
  <1> QED BY <1>1, TypeStep, PTL DEF Spec

LEMMA LockStep == IInv /\ [Next]_vars => LockInv'
  <1> SUFFICES ASSUME IInv, [Next]_vars PROVE LockInv'
    BY Zenon
  <1> USE CpuAssumption DEF IInv, LockInv, TypeOK
  <1>1. CASE UNCHANGED vars
    BY <1>1, Zenon DEF vars
  <1>2. ASSUME NEW c \in Cpu, NEW n \in Requests, CallGetPages(c, n) PROVE LockInv'
    BY <1>2, Zenon DEF CallGetPages
  <1>3. ASSUME NEW c \in Cpu, NEW b \in held, CallFreePages(c, b) PROVE LockInv'
    BY <1>3, Zenon DEF CallFreePages
  <1>4. ASSUME NEW c \in Cpu, Step(c) PROVE LockInv'
    BY <1>4 DEF Step, Refuse, StartSearch, SkipUsed, ExtendStreak, Claim, GiveUp,
                FreePagesRaw, ReturnFromSearch, Searching
  <1> QED BY <1>1, <1>2, <1>3, <1>4, Zenon DEF Next

\* The search of one CPU is not disturbed by a step that changes neither its
\* locals nor the bitmap.
LEMMA SearchStep == IInv /\ [Next]_vars => SearchInv'
  <1> SUFFICES ASSUME IInv, [Next]_vars PROVE SearchInv'
    BY Zenon
  <1> USE DEF IInv, TypeOK
  <1>0. Frames = 0 .. (total_bits - 1)
    BY Zenon DEF Frames
  <1>1. CASE UNCHANGED vars
    BY <1>1, Zenon DEF vars, search, SearchInv
  <1>2. ASSUME NEW c \in Cpu, NEW n \in Requests, CallGetPages(c, n) PROVE SearchInv'
    BY <1>2, Zenon DEF CallGetPages, search, SearchInv
  <1>3. ASSUME NEW c \in Cpu, NEW b \in held, CallFreePages(c, b) PROVE SearchInv'
    BY <1>3, Zenon DEF CallFreePages, search, SearchInv
  <1>4. ASSUME NEW c \in Cpu, Refuse(c) PROVE SearchInv'
    BY <1>4, Zenon DEF Refuse, search, SearchInv
  <1>5. ASSUME NEW c \in Cpu, StartSearch(c) PROVE SearchInv'
    BY <1>5 DEF StartSearch, SearchInv, OutstandingInv
  <1>6. ASSUME NEW c \in Cpu, SkipUsed(c) PROVE SearchInv'
    BY <1>6 DEF SkipUsed, Searching, SearchInv
  <1>7. ASSUME NEW c \in Cpu, ExtendStreak(c) PROVE SearchInv'
    <2>1. bit_pos'[c] = IF bit_pos[c] = total_bits - 1 THEN 0 ELSE bit_pos[c] + 1
      BY <1>7, NextPosValue, Zenon DEF ExtendStreak
    <2>2. ASSUME NEW d \in Cpu, pc'[d] = "search", d # c
          PROVE  /\ nr'[d] \in Requests
                 /\ remaining_needed'[d] \in 1 .. nr'[d]
                 /\ remaining_needed'[d] # nr'[d] =>
                       /\ area_start'[d] + (nr'[d] - remaining_needed'[d]) = bit_pos'[d]
                       /\ \A f \in area_start'[d] .. (bit_pos'[d] - 1) : ~bitmap'[f]
      BY <1>7, <2>2, Zenon DEF ExtendStreak, SearchInv
    <2>3. /\ nr'[c] \in Requests
          /\ remaining_needed'[c] \in 1 .. nr'[c]
      BY <1>7, RequestsAssumption DEF ExtendStreak, SearchInv, Searching
    <2>4. ASSUME remaining_needed'[c] # nr'[c]
          PROVE  /\ area_start'[c] + (nr'[c] - remaining_needed'[c]) = bit_pos'[c]
                 /\ \A f \in area_start'[c] .. (bit_pos'[c] - 1) : ~bitmap'[f]
      <3>1. NextPos(bit_pos[c]) # 0 /\ bit_pos'[c] = bit_pos[c] + 1
        BY <1>7, <2>1, <2>4, Zenon DEF ExtendStreak
      <3>2. remaining_needed'[c] = remaining_needed[c] - 1 /\ nr'[c] = nr[c]
            /\ area_start'[c] = AreaStart(c) /\ bitmap' = bitmap /\ ~bitmap[bit_pos[c]]
        BY <1>7, <3>1, Zenon DEF ExtendStreak
      <3>3. AreaStart(c) + (nr[c] - remaining_needed[c]) = bit_pos[c]
            /\ \A f \in AreaStart(c) .. (bit_pos[c] - 1) : ~bitmap[f]
        BY <1>0, <1>7, BitsAreNatural, SMTT(30) DEF AreaStart, SearchInv, ExtendStreak, Searching
      <3>4. AreaStart(c) \in Nat /\ bit_pos[c] \in Nat
            /\ nr[c] \in Nat /\ remaining_needed[c] \in Nat
        BY <1>0, BitsAreNatural DEF AreaStart
      <3>5. area_start'[c] + (nr'[c] - remaining_needed'[c]) = bit_pos'[c]
        BY <3>1, <3>2, <3>3, <3>4
      <3>6. ASSUME NEW f \in area_start'[c] .. (bit_pos'[c] - 1) PROVE ~bitmap'[f]
        <4>1. f \in AreaStart(c) .. bit_pos[c]
          BY <3>1, <3>2, <3>4
        <4>2. f = bit_pos[c] \/ f \in AreaStart(c) .. (bit_pos[c] - 1)
          BY <3>4, <4>1
        <4> QED BY <3>2, <3>3, <4>2, Zenon
      <3> QED BY <3>5, <3>6, Zenon
    <2> QED BY <2>2, <2>3, <2>4, Zenon DEF SearchInv
  <1>8. ASSUME NEW c \in Cpu, Claim(c) PROVE SearchInv'
    BY <1>8, Zenon DEF Claim, ReturnFromSearch, Searching, SearchInv, LockInv
  <1>9. ASSUME NEW c \in Cpu, GiveUp(c) PROVE SearchInv'
    BY <1>9, Zenon DEF GiveUp, ReturnFromSearch, SearchInv
  <1>10. ASSUME NEW c \in Cpu, FreePagesRaw(c) PROVE SearchInv'
    BY <1>10, CpuAssumption, Zenon DEF FreePagesRaw, search, SearchInv, LockInv
  <1> QED
    BY <1>1, <1>2, <1>3, <1>4, <1>5, <1>6, <1>7, <1>8, <1>9, <1>10, Zenon DEF Next, Step

\* out_found_area is reached with an area that is free, whole and unreserved.
LEMMA FoundAreaIsFree ==
    ASSUME IInv, NEW c \in Cpu,
           Searching(c), ~bitmap[bit_pos[c]], remaining_needed[c] = 1
    PROVE  LET b == <<AreaStart(c), nr[c]>>
           IN  /\ nr[c] \in Requests /\ nr[c] > 0
               /\ \A f \in FramesOf(b) : f \in Frames /\ ~bitmap[f]
               /\ FramesOf(b) \subseteq Frames \ Reserved
               /\ \A o \in Blocks : FramesOf(o) \cap FramesOf(b) = {}
  <1> DEFINE b == <<AreaStart(c), nr[c]>>
  <1>1. AreaStart(c) \in Frames /\ bit_pos[c] \in Frames /\ nr[c] \in Nat
    BY AreaStartType, Zenon DEF IInv, TypeOK
  <1>2. nr[c] \in Requests /\ nr[c] > 0
    BY <1>1 DEF IInv, SearchInv, Searching
  <1>3. AreaStart(c) + nr[c] - 1 = bit_pos[c]
        /\ \A f \in AreaStart(c) .. (bit_pos[c] - 1) : ~bitmap[f]
    <2>1. CASE nr[c] = 1
      BY <1>1, <2>1, BitsAreNatural DEF AreaStart, Frames
    <2>2. CASE nr[c] # 1
      BY <1>1, <2>2, BitsAreNatural, Zenon DEF AreaStart, Frames, IInv, SearchInv, Searching
    <2> QED BY <2>1, <2>2, Zenon
  <1>4. \A f \in FramesOf(b) : f \in Frames /\ ~bitmap[f]
    <2> SUFFICES ASSUME NEW f \in FramesOf(b) PROVE f \in Frames /\ ~bitmap[f]
      BY Zenon
    <2>1. f \in AreaStart(c) .. bit_pos[c]
      BY <1>1, <1>3, BitsAreNatural, Zenon DEF FramesOf, Frames
    <2>2. f \in Frames
      BY <1>1, <2>1, BitsAreNatural DEF Frames
    <2>3. f = bit_pos[c] \/ f \in AreaStart(c) .. (bit_pos[c] - 1)
      BY <1>1, <2>1, BitsAreNatural DEF Frames
    <2> QED BY <1>3, <2>2, <2>3, Zenon
  <1>5. FramesOf(b) \subseteq Frames \ Reserved
    BY <1>4, Zenon DEF IInv, BitmapExact
  <1>6. \A o \in Blocks : FramesOf(o) \cap FramesOf(b) = {}
    BY <1>4, Zenon DEF IInv, BitmapExact
  <1> QED BY <1>2, <1>4, <1>5, <1>6, Zenon

\* Steps that neither hand out nor take back a block leave the blocks alone.
LEMMA QuietSteps ==
    ASSUME IInv, NEW c \in Cpu,
           \/ \E n \in Requests : CallGetPages(c, n)
           \/ Refuse(c) \/ StartSearch(c) \/ SkipUsed(c) \/ ExtendStreak(c) \/ GiveUp(c)
    PROVE  /\ held' = held /\ bitmap' = bitmap /\ addr' = addr
           /\ \A d \in Cpu : (pc'[d] = "free") = (pc[d] = "free")
           /\ \A d \in Cpu : pc[d] = "free" => nr'[d] = nr[d]
           /\ \A d \in Cpu : pc'[d] = "get" => nr'[d] \in Requests
           /\ Blocks' = Blocks
  <1> USE DEF IInv, TypeOK
  <1>1. /\ held' = held /\ bitmap' = bitmap /\ addr' = addr
        /\ \A d \in Cpu : (pc'[d] = "free") = (pc[d] = "free")
        /\ \A d \in Cpu : pc[d] = "free" => nr'[d] = nr[d]
    BY Zenon DEF CallGetPages, Refuse, StartSearch, SkipUsed, ExtendStreak, GiveUp,
           ReturnFromSearch, Searching
  <1>2. \A d \in Cpu : pc'[d] = "get" => nr'[d] \in Requests
    BY DEF CallGetPages, Refuse, StartSearch, SkipUsed, ExtendStreak, GiveUp,
           ReturnFromSearch, OutstandingInv
  <1>3. Blocks' = Blocks
    <2>1. \A x : x \in Blocks' <=> \/ x \in held'
                                   \/ \E d \in Cpu : pc'[d] = "free" /\ x = <<addr'[d], nr'[d]>>
      BY Zenon DEF Blocks
    <2>2. \A x : x \in Blocks <=> \/ x \in held
                                  \/ \E d \in Cpu : pc[d] = "free" /\ x = <<addr[d], nr[d]>>
      BY Zenon DEF Blocks
    <2>3. \A x : x \in Blocks' <=> x \in Blocks
      BY <1>1, <2>1, <2>2
    <2> QED
      BY <2>3
  <1> QED BY <1>1, <1>2, <1>3, Zenon

\* How the three other steps change the outstanding blocks.
LEMMA ClaimBlocks ==
    ASSUME IInv, NEW c \in Cpu, Claim(c)
    PROVE  Blocks' = Blocks \cup {<<AreaStart(c), nr[c]>>}
  <1>1. pc[c] = "search" /\ \A d \in Cpu \ {c} : pc'[d] = pc[d] /\ nr'[d] = nr[d]
    BY Zenon DEF Claim, Searching, ReturnFromSearch, IInv, TypeOK
  <1>2. pc'[c] = "idle" /\ addr' = addr /\ held' = held \cup {<<AreaStart(c), nr[c]>>}
    BY Zenon DEF Claim, ReturnFromSearch, IInv, TypeOK
  <1> QED BY <1>1, <1>2, Zenon DEF Blocks

LEMMA CallFreeBlocks ==
    ASSUME IInv, NEW c \in Cpu, NEW b \in held, CallFreePages(c, b)
    PROVE  b = <<addr'[c], nr'[c]>> /\ Blocks' = Blocks
  <1>1. b = <<b[1], b[2]>> /\ addr'[c] = b[1] /\ nr'[c] = b[2]
    BY DEF CallFreePages, IInv, TypeOK
  <1>2. \A d \in Cpu \ {c} : pc'[d] = pc[d] /\ nr'[d] = nr[d] /\ addr'[d] = addr[d]
    BY Zenon DEF CallFreePages, IInv, TypeOK
  <1>3. pc[c] = "idle" /\ pc'[c] = "free" /\ held' = held \ {b}
    BY Zenon DEF CallFreePages, IInv, TypeOK
  <1>4. {<<addr'[d], nr'[d]>> : d \in {e \in Cpu : pc'[e] = "free"}}
          = {<<addr[d], nr[d]>> : d \in {e \in Cpu : pc[e] = "free"}} \cup {b}
    BY <1>1, <1>2, <1>3
  <1> QED BY <1>1, <1>3, <1>4, ZenonT(30) DEF Blocks

LEMMA FreePagesBlocks ==
    ASSUME IInv, NEW c \in Cpu, FreePagesRaw(c)
    PROVE  /\ <<addr[c], nr[c]>> \in Blocks
           /\ Blocks' = Blocks \ {<<addr[c], nr[c]>>}
  <1> DEFINE b == <<addr[c], nr[c]>>
  <1>1. pc[c] = "free" /\ pc'[c] = "idle" /\ held' = held
        /\ \A d \in Cpu \ {c} : pc'[d] = pc[d] /\ nr'[d] = nr[d] /\ addr'[d] = addr[d]
    BY Zenon DEF FreePagesRaw, IInv, TypeOK
  <1>2. addr[c] \in FramesOf(b)
    BY <1>1, BitsAreNatural, SMTT(30) DEF FramesOf, IInv, TypeOK, OutstandingInv, Frames
  <1>3. b \notin held
    BY <1>1, <1>2, Zenon DEF IInv, OutstandingInv
  <1>4. \A d \in Cpu \ {c} : pc[d] = "free" => <<addr[d], nr[d]>> # b
    BY <1>1, <1>2, Zenon DEF IInv, OutstandingInv
  <1> QED BY <1>1, <1>3, <1>4, ZenonT(30) DEF Blocks

\* A block in the hands of a CPU, under either name it goes by.
LEMMA BlockCases ==
    ASSUME NEW b
    PROVE  b \in Blocks <=> \/ b \in held
                            \/ \E c \in Cpu : pc[c] = "free" /\ b = <<addr[c], nr[c]>>
  BY Zenon DEF Blocks

LEMMA OutstandingStep == IInv /\ [Next]_vars => OutstandingInv'
  <1> SUFFICES ASSUME IInv, [Next]_vars PROVE OutstandingInv'
    BY Zenon
  <1>1. CASE UNCHANGED vars
    BY <1>1, Zenon DEF vars, IInv, OutstandingInv, Blocks
  <1>2. ASSUME NEW c \in Cpu,
               \/ \E n \in Requests : CallGetPages(c, n)
               \/ Refuse(c) \/ StartSearch(c) \/ SkipUsed(c) \/ ExtendStreak(c) \/ GiveUp(c)
        PROVE  OutstandingInv'
    BY <1>2, QuietSteps, Zenon DEF IInv, OutstandingInv
  <1>3. ASSUME NEW c \in Cpu, NEW b \in held, CallFreePages(c, b) PROVE OutstandingInv'
    <2>1. b = <<addr'[c], nr'[c]>> /\ Blocks' = Blocks
      BY <1>3, CallFreeBlocks, Zenon
    <2>2. pc'[c] = "free" /\ held' = held \ {b} /\ nr'[c] = b[2]
          /\ \A d \in Cpu \ {c} : pc'[d] = pc[d] /\ nr'[d] = nr[d] /\ addr'[d] = addr[d]
      BY <1>3, Zenon DEF CallFreePages, IInv, TypeOK
    <2> QED BY <2>1, <2>2 DEF IInv, OutstandingInv
  <1>4. ASSUME NEW c \in Cpu, Claim(c) PROVE OutstandingInv'
    <2> DEFINE b == <<AreaStart(c), nr[c]>>
    <2>1. /\ nr[c] \in Requests /\ nr[c] > 0
          /\ FramesOf(b) \subseteq Frames \ Reserved
          /\ \A o \in Blocks : FramesOf(o) \cap FramesOf(b) = {}
      BY <1>4, FoundAreaIsFree, Zenon DEF Claim
    <2>2. pc'[c] = "idle" /\ held' = held \cup {b} /\ b[2] = nr[c]
          /\ \A d \in Cpu \ {c} : pc'[d] = pc[d] /\ nr'[d] = nr[d] /\ addr'[d] = addr[d]
      BY <1>4, Zenon DEF Claim, ReturnFromSearch, IInv, TypeOK
    <2>3. Blocks' = Blocks \cup {b}
      BY <1>4, ClaimBlocks, Zenon
    <2>4. held \subseteq Blocks /\ \A d \in Cpu : pc[d] = "free" => <<addr[d], nr[d]>> \in Blocks
      BY BlockCases, Zenon
    <2> HIDE DEF b
    <2> QED BY <2>1, <2>2, <2>3, <2>4, Zenon DEF IInv, OutstandingInv
  <1>5. ASSUME NEW c \in Cpu, FreePagesRaw(c) PROVE OutstandingInv'
    <2>1. Blocks' \subseteq Blocks
      BY <1>5, FreePagesBlocks, Zenon
    <2>2. pc'[c] = "idle" /\ held' = held
          /\ \A d \in Cpu \ {c} : pc'[d] = pc[d] /\ nr'[d] = nr[d] /\ addr'[d] = addr[d]
      BY <1>5, Zenon DEF FreePagesRaw, IInv, TypeOK
    <2> QED BY <2>1, <2>2, Zenon DEF IInv, OutstandingInv
  <1> QED BY <1>1, <1>2, <1>3, <1>4, <1>5, Zenon DEF Next, Step

LEMMA BitmapStep == IInv /\ [Next]_vars => BitmapExact'
  <1> SUFFICES ASSUME IInv, [Next]_vars PROVE BitmapExact'
    BY Zenon
  <1>1. CASE UNCHANGED vars
    BY <1>1, Zenon DEF vars, IInv, BitmapExact, Blocks
  <1>2. ASSUME NEW c \in Cpu,
               \/ \E n \in Requests : CallGetPages(c, n)
               \/ Refuse(c) \/ StartSearch(c) \/ SkipUsed(c) \/ ExtendStreak(c) \/ GiveUp(c)
        PROVE  BitmapExact'
    BY <1>2, QuietSteps, Zenon DEF IInv, BitmapExact
  <1>3. ASSUME NEW c \in Cpu, NEW b \in held, CallFreePages(c, b) PROVE BitmapExact'
    BY <1>3, CallFreeBlocks, Zenon DEF CallFreePages, IInv, BitmapExact
  <1>4. ASSUME NEW c \in Cpu, Claim(c) PROVE BitmapExact'
    BY <1>4, ClaimBlocks, Zenon DEF Claim, IInv, BitmapExact
  <1>5. ASSUME NEW c \in Cpu, FreePagesRaw(c) PROVE BitmapExact'
    <2> DEFINE b == <<addr[c], nr[c]>>
    <2>1. b \in Blocks /\ Blocks' = Blocks \ {b}
      BY <1>5, FreePagesBlocks, Zenon
    <2>2. \A o \in Blocks : o # b => FramesOf(o) \cap FramesOf(b) = {}
      BY <1>5, BlockCases, Zenon DEF FreePagesRaw, IInv, OutstandingInv
    <2>3. FramesOf(b) \cap Reserved = {}
      BY <2>1, Zenon DEF IInv, OutstandingInv
    <2>4. bitmap' = [f \in Frames |-> bitmap[f] /\ f \notin FramesOf(b)]
      BY <1>5, Zenon DEF FreePagesRaw
    <2> HIDE DEF b
    <2> QED BY <2>1, <2>2, <2>3, <2>4, Zenon DEF IInv, BitmapExact
  <1> QED BY <1>1, <1>2, <1>3, <1>4, <1>5, Zenon DEF Next, Step

\* The inductive invariant holds of every reachable state.
THEOREM Invariance == Spec => []IInv
  <1>1. IInv /\ [Next]_vars => IInv'
    BY TypeStep, LockStep, SearchStep, OutstandingStep, BitmapStep, Zenon DEF IInv
  <1> QED BY InitIInv, <1>1, PTL DEF Spec

\* The blocks are pairwise disjoint.
LEMMA BlocksApart ==
    ASSUME IInv, NEW a \in Blocks, NEW b \in Blocks, a # b
    PROVE  FramesOf(a) \cap FramesOf(b) = {}
  BY BlockCases, Zenon DEF IInv, OutstandingInv

\* No frame is ever in two outstanding blocks or in a block and reserved, and
\* what __get_pages is about to return belongs to nobody: for every memory
\* map, number of CPUs and request size.
THEOREM FramesAreExclusive == Spec => []FramesExclusive
  <1>1. IInv => FramesExclusive
    <2> SUFFICES ASSUME IInv PROVE FramesExclusive
      BY Zenon
    <2>1. \A a, b \in Blocks : a # b => FramesOf(a) \cap FramesOf(b) = {}
      BY BlocksApart, Zenon
    <2>2. \A a \in Blocks : FramesOf(a) \subseteq Frames \ Reserved
      BY Zenon DEF IInv, OutstandingInv
    <2>3. \A c \in Cpu :
            Searching(c) /\ ~bitmap[bit_pos[c]] /\ remaining_needed[c] = 1
            => \A b \in Blocks : FramesOf(b) \cap FramesOf(<<AreaStart(c), nr[c]>>) = {}
      BY FoundAreaIsFree, Zenon
    <2> QED BY <2>1, <2>2, <2>3, Zenon DEF FramesExclusive
  <1> QED BY Invariance, <1>1, PTL

\* The bitmap marks exactly the reserved frames and the outstanding blocks.
THEOREM BitmapIsExact == Spec => []BitmapExact
  <1>1. IInv => BitmapExact
    BY Zenon DEF IInv
  <1> QED BY Invariance, <1>1, PTL
-----------------------------------------------------------------------------
LEMMA FramesOfPool == ASSUME NEW b PROVE Pool!FramesOf(b) = FramesOf(b)
  BY Zenon DEF Pool!FramesOf, FramesOf

\* Every step of the allocator is a Take, a Return or no step of the pool.
LEMMA PoolStep == IInv /\ [Next]_vars => [Pool!Next]_Blocks
  <1> SUFFICES ASSUME IInv, [Next]_vars PROVE [Pool!Next]_Blocks
    BY Zenon
  <1>1. CASE UNCHANGED vars
    BY <1>1, Zenon DEF vars, Blocks
  <1>2. ASSUME NEW c \in Cpu,
               \/ \E n \in Requests : CallGetPages(c, n)
               \/ Refuse(c) \/ StartSearch(c) \/ SkipUsed(c) \/ ExtendStreak(c) \/ GiveUp(c)
        PROVE  Blocks' = Blocks
    BY <1>2, QuietSteps, Zenon
  <1>3. ASSUME NEW c \in Cpu, NEW b \in held, CallFreePages(c, b) PROVE Blocks' = Blocks
    BY <1>3, CallFreeBlocks, Zenon
  <1>4. ASSUME NEW c \in Cpu, Claim(c) PROVE Pool!Next
    <2> DEFINE b == <<AreaStart(c), nr[c]>>
    <2>1. /\ nr[c] \in Requests /\ nr[c] > 0
          /\ FramesOf(b) \subseteq Frames \ Reserved
          /\ \A o \in Blocks : FramesOf(o) \cap FramesOf(b) = {}
      BY <1>4, FoundAreaIsFree, Zenon DEF Claim
    <2>2. b \in Frames \X Requests /\ b[2] = nr[c]
      BY <2>1, AreaStartType, Zenon DEF IInv
    <2>3. Blocks' = Blocks \cup {b}
      BY <1>4, ClaimBlocks, Zenon
    <2> HIDE DEF b
    <2>4. Pool!Take(b)
      BY <2>1, <2>2, <2>3, FramesOfPool, Zenon DEF Pool!Take
    <2> QED BY <2>2, <2>4, Zenon DEF Pool!Next
  <1>5. ASSUME NEW c \in Cpu, FreePagesRaw(c) PROVE Pool!Next
    <2>1. <<addr[c], nr[c]>> \in Frames \X Requests
      BY <1>5, Zenon DEF FreePagesRaw, IInv, TypeOK, OutstandingInv
    <2>2. Pool!Return(<<addr[c], nr[c]>>)
      BY <1>5, FreePagesBlocks, Zenon DEF Pool!Return
    <2> QED BY <2>1, <2>2, Zenon DEF Pool!Next
  <1> QED BY <1>1, <1>2, <1>3, <1>4, <1>5, Zenon DEF Next, Step

\* The allocator implements the frame pool, for every value of the constants.
THEOREM AllocatorImplementsPool == Spec => ImplementsPool
  <1>1. Init => Pool!Init
    BY Zenon DEF Init, Pool!Init, Blocks
  <1> QED BY <1>1, Invariance, PoolStep, PTL DEF Spec, ImplementsPool, Pool!Spec
-----------------------------------------------------------------------------
\* The frames whose bit is clear.
FreeSet == {f \in Frames : ~bitmap[f]}

LEMMA BlockSize ==
    ASSUME NEW a \in Nat, NEW n \in Nat
    PROVE  Cardinality(FramesOf(<<a, n>>)) = n
  <1>1. Cardinality(a .. (a + n - 1)) = IF a > a + n - 1 THEN 0 ELSE (a + n - 1) - a + 1
    BY FS_Interval
  <1> QED BY <1>1 DEF FramesOf

\* Free frames are usable ones, so their number fits the counters.
LEMMA FreeSetBounds ==
    ASSUME IInv
    PROVE  /\ FreeSet \in SUBSET Frames
           /\ FreeSet \subseteq UsableFrames
           /\ Cardinality(FreeSet) \in Nat /\ Cardinality(UsableFrames) \in Nat
           /\ Cardinality(FreeSet) <= Cardinality(UsableFrames)
           /\ Cardinality(UsableFrames) < Word
  <1>1. FreeSet \in SUBSET Frames /\ UsableFrames \in SUBSET Frames
    BY MemMapAssumption, Zenon DEF FreeSet
  <1>2. FreeSet \subseteq UsableFrames
    BY Zenon DEF FreeSet, IInv, BitmapExact, Reserved
  <1>3. Cardinality(FreeSet) <= Cardinality(UsableFrames)
    BY <1>1, <1>2, FrameSets, FS_Subset, Zenon
  <1>4. Cardinality(UsableFrames) \in Nat /\ Cardinality(UsableFrames) <= total_bits
        /\ Cardinality(FreeSet) \in Nat
    BY <1>1, FrameSets, Zenon
  <1> QED BY <1>1, <1>2, <1>3, <1>4, WordIsNatural, BitsAreNatural

LEMMA CountersInit == Init => CountersExact
  <1> SUFFICES ASSUME Init PROVE CountersExact
    BY Zenon
  <1>1. FreeSet = UsableFrames \ MetaFrames
    BY MemMapAssumption, Zenon DEF Init, FreeSet
  <1>2. UsableFrames \in SUBSET Frames /\ MetaFrames \in SUBSET UsableFrames
    BY MemMapAssumption, MetaIsUsable, Zenon
  <1>3. Cardinality(FreeSet) = Cardinality(UsableFrames) - Cardinality(MetaFrames)
    BY <1>1, <1>2, CardinalityDifference, Zenon
  <1>4. Cardinality(UsableFrames) \in Nat /\ Cardinality(MetaFrames) \in Nat
    BY <1>2, FrameSets, Zenon
  <1>5. allocatable_frames = Cardinality(FreeSet)
    BY <1>3, Zenon DEF Init
  <1>6. allocated_page_frames = Cardinality(UsableFrames) - allocatable_frames
    BY <1>3, <1>4 DEF Init
  <1> QED BY <1>5, <1>6, Zenon DEF CountersExact, FreeSet

\* Within its range, 64-bit arithmetic is exact.
LEMMA ModExact ==
    ASSUME NEW m \in Nat, NEW x \in 0 .. (m - 1)
    PROVE  x % m = x
  OBVIOUS

LEMMA CountersStep == IInv /\ IInv' /\ CountersExact /\ [Next]_vars => CountersExact'
  <1> SUFFICES ASSUME IInv, IInv', CountersExact, [Next]_vars PROVE CountersExact'
    BY Zenon
  <1> DEFINE U == Cardinality(UsableFrames)
  <1>a. allocatable_frames = Cardinality(FreeSet)
        /\ allocated_page_frames = U - Cardinality(FreeSet)
    BY Zenon DEF CountersExact, FreeSet
  <1>b. FreeSet \in SUBSET Frames /\ Cardinality(FreeSet) \in Nat /\ U \in Nat /\ U < Word
        /\ Cardinality(FreeSet) <= U
    BY FreeSetBounds, Zenon
  <1>c. FreeSet' \in SUBSET Frames /\ Cardinality(FreeSet') \in Nat /\ Cardinality(FreeSet') <= U
    <2>1. FreeSet' \in SUBSET Frames /\ FreeSet' \subseteq UsableFrames
      BY Zenon DEF FreeSet, IInv, BitmapExact, Reserved
    <2> QED BY <2>1, MemMapAssumption, FrameSets, FS_Subset, Zenon
  <1>d. (allocatable_frames' = Cardinality(FreeSet')
         /\ allocated_page_frames' = U - Cardinality(FreeSet')) => CountersExact'
    BY Zenon DEF CountersExact, FreeSet
  <1>1. CASE UNCHANGED <<bitmap, counters>>
    BY <1>1, Zenon DEF CountersExact, counters
  <1>2. ASSUME NEW c \in Cpu, Claim(c) PROVE CountersExact'
    <2> DEFINE b == <<AreaStart(c), nr[c]>>
    <2>1. nr[c] \in Nat /\ AreaStart(c) \in Nat
      BY BitsAreNatural DEF AreaStart, IInv, TypeOK, Frames
    <2>2. Cardinality(FramesOf(b)) = nr[c]
      BY <2>1, BlockSize, Zenon
    <2>3. FramesOf(b) \in SUBSET FreeSet
      BY <1>2, FoundAreaIsFree, Zenon DEF Claim, FreeSet
    <2>4. FreeSet' = FreeSet \ FramesOf(b)
      BY <1>2, Zenon DEF Claim, FreeSet
    <2> HIDE DEF b
    <2>5. Cardinality(FreeSet') = Cardinality(FreeSet) - nr[c]
      BY <1>b, <2>2, <2>3, <2>4, CardinalityDifference, Zenon
    <2>6. allocatable_frames' = (allocatable_frames - nr[c]) % Word
          /\ allocated_page_frames' = (allocated_page_frames + nr[c]) % Word
      BY <1>2, Zenon DEF Claim
    <2>7. allocatable_frames - nr[c] = Cardinality(FreeSet')
          /\ allocated_page_frames + nr[c] = U - Cardinality(FreeSet')
      BY <1>a, <1>b, <2>1, <2>5
    <2>8. Cardinality(FreeSet') \in 0 .. (Word - 1) /\ U - Cardinality(FreeSet') \in 0 .. (Word - 1)
      BY <1>b, <1>c, WordIsNatural, BitsAreNatural
    <2> QED BY <1>d, <2>6, <2>7, <2>8, ModExact, WordIsNatural, Zenon
  <1>3. ASSUME NEW c \in Cpu, FreePagesRaw(c) PROVE CountersExact'
    <2> DEFINE b == <<addr[c], nr[c]>>
    <2>1. nr[c] \in Nat /\ addr[c] \in Nat
      BY BitsAreNatural DEF IInv, TypeOK, Frames
    <2>2. Cardinality(FramesOf(b)) = nr[c]
      BY <2>1, BlockSize, Zenon
    <2>3. b \in Blocks
      BY <1>3, FreePagesBlocks, Zenon
    <2>4. FramesOf(b) \subseteq Frames /\ \A f \in FramesOf(b) : bitmap[f]
      BY <2>3, Zenon DEF IInv, OutstandingInv, BitmapExact
    <2>5. FreeSet' = {f \in Frames : ~(bitmap[f] /\ f \notin FramesOf(b))}
      BY <1>3, Zenon DEF FreePagesRaw, FreeSet
    <2> HIDE DEF b
    <2>6. FramesOf(b) \in SUBSET FreeSet' /\ FreeSet' \ FramesOf(b) = FreeSet
      BY <2>4, <2>5, Zenon DEF FreeSet
    <2>7. Cardinality(FreeSet) = Cardinality(FreeSet') - nr[c]
      BY <1>c, <2>2, <2>6, CardinalityDifference, Zenon
    <2>8. allocatable_frames' = (allocatable_frames + nr[c]) % Word
          /\ allocated_page_frames' = (allocated_page_frames - nr[c]) % Word
      BY <1>3, Zenon DEF FreePagesRaw
    <2>9. allocatable_frames + nr[c] = Cardinality(FreeSet')
          /\ allocated_page_frames - nr[c] = U - Cardinality(FreeSet')
      BY <1>a, <1>b, <1>c, <2>1, <2>7
    <2>10. Cardinality(FreeSet') \in 0 .. (Word - 1) /\ U - Cardinality(FreeSet') \in 0 .. (Word - 1)
      BY <1>b, <1>c, WordIsNatural, BitsAreNatural
    <2> QED BY <1>d, <2>8, <2>9, <2>10, ModExact, WordIsNatural, Zenon
  <1> QED
    BY <1>1, <1>2, <1>3, Zenon DEF Next, Step, vars, CallGetPages, CallFreePages, Refuse,
       StartSearch, SkipUsed, ExtendStreak, GiveUp

\* The two counters agree with the bitmap in every reachable state: the
\* 64-bit updates of allocated_nr_frames and freed_nr_frames never wrap.
THEOREM CountersAreExact == Spec => []CountersExact
  <1> QED BY Invariance, CountersInit, CountersStep, PTL DEF Spec
-----------------------------------------------------------------------------
\* Where the search stands: e bits behind the hint, which the allocator does not
\* move while the search runs, and at most two rounds of the bitmap further.
Explored(e, p) ==
    LET h == last_alloc_hint IN
    /\ h + e <= 2 * total_bits
    /\ p = IF h + e < total_bits THEN h + e
           ELSE IF h + e < 2 * total_bits THEN h + e - total_bits ELSE 0

\* First bit of the streak that ends at the current position.
StreakStart(c) == bit_pos[c] - (nr[c] - remaining_needed[c])

\* The bits that the search of c has passed, without those of the streak.
Passed(c, f) ==
    LET h == last_alloc_hint
        e == explored_bits[c]
    IN  \/ h + e < total_bits /\ h <= f /\ f < StreakStart(c)
        \/ total_bits <= h + e /\ (h <= f \/ f < StreakStart(c))
        \/ h + e = 2 * total_bits

\* The rest of the loop invariant of __get_pages: no run of nr free frames starts
\* at a bit that the search has left behind.
PassedOf(c) ==
    /\ free_streak[c] <=> remaining_needed[c] # nr[c]
    /\ Explored(explored_bits[c], bit_pos[c])
    /\ last_alloc_hint + explored_bits[c] = 2 * total_bits => ~free_streak[c]
    /\ \A f \in Frames : Passed(c, f) => ~FreeRun(f, nr[c])

PassedInv == \A c \in Cpu : pc[c] = "search" => PassedOf(c)

\* The loop body moves the search one bit further, over the end of the bitmap
\* and back to its start.
LEMMA ExploreOne ==
    ASSUME TypeOK, NEW c \in Cpu, Searching(c), PassedOf(c)
    PROVE  /\ last_alloc_hint + explored_bits[c] < 2 * total_bits
           /\ Explored(explored_bits[c] + 1, NextPos(bit_pos[c]))
           /\ NextPos(bit_pos[c]) = 0 => /\ bit_pos[c] = total_bits - 1
                                         /\ total_bits <= last_alloc_hint + explored_bits[c] + 1
           /\ NextPos(bit_pos[c]) # 0 => NextPos(bit_pos[c]) = bit_pos[c] + 1
           /\ NextPos(bit_pos[c]) \in Nat
<1>1. /\ total_bits \in Nat /\ total_bits > 0 /\ explored_bits[c] \in Nat
      /\ last_alloc_hint \in 0 .. (total_bits - 1) /\ bit_pos[c] \in 0 .. (total_bits - 1)
  BY BitsAreNatural, Zenon DEF Frames, TypeOK
<1>2. NextPos(bit_pos[c]) = IF bit_pos[c] = total_bits - 1 THEN 0 ELSE bit_pos[c] + 1
  BY NextPosValue, Zenon DEF TypeOK
<1>3. last_alloc_hint + explored_bits[c] < 2 * total_bits
  BY <1>1 DEF Searching, LoopCondition, PassedOf, Explored
<1>4. Explored(explored_bits[c], bit_pos[c])
  BY Zenon DEF PassedOf
<1>5. Explored(explored_bits[c] + 1, NextPos(bit_pos[c]))
  BY <1>1, <1>2, <1>3, <1>4 DEF Explored
<1>6. bit_pos[c] = total_bits - 1 => total_bits <= last_alloc_hint + explored_bits[c] + 1
  BY <1>1, <1>4 DEF Explored
<1>. QED  BY <1>1, <1>2, <1>3, <1>5, <1>6

\* A used bit behind a streak too short, and the end of the bitmap behind a free
\* one, rule out every run that starts in the streak.
LEMMA StreakIsNoRun ==
    ASSUME TypeOK, SearchInv, NEW c \in Cpu, Searching(c), NEW f \in Frames,
           StreakStart(c) <= f, f <= bit_pos[c],
           bitmap[bit_pos[c]] \/ (bit_pos[c] = total_bits - 1 /\ remaining_needed[c] # 1)
    PROVE  ~FreeRun(f, nr[c])
<1>1. /\ total_bits \in Nat /\ Frames = 0 .. (total_bits - 1)
      /\ bit_pos[c] \in Frames
      /\ nr[c] \in Nat /\ remaining_needed[c] \in 1 .. nr[c]
  BY BitsAreNatural, Zenon DEF Frames, TypeOK, SearchInv, Searching
<1>2. bit_pos[c] < f + nr[c]
  BY <1>1 DEF StreakStart
<1>3. CASE bitmap[bit_pos[c]]
  BY <1>1, <1>2, <1>3 DEF FreeRun
<1>4. CASE bit_pos[c] = total_bits - 1 /\ remaining_needed[c] # 1
  BY <1>1, <1>4 DEF FreeRun, StreakStart
<1>. QED  BY <1>3, <1>4, Zenon

\* A step of the loop keeps what is known of the bits behind it.
LEMMA PassedStepLoop ==
    ASSUME IInv, NEW c \in Cpu, PassedOf(c), SkipUsed(c) \/ ExtendStreak(c)
    PROVE  PassedOf(c)'
<1> DEFINE h == last_alloc_hint
           e == explored_bits[c]
           p == bit_pos[c]
           s == StreakStart(c)
<1>1. /\ TypeOK /\ SearchInv /\ Searching(c) /\ pc[c] = "search"
  BY Zenon DEF IInv, SkipUsed, ExtendStreak, Searching
<1>2. /\ total_bits \in Nat /\ total_bits > 0 /\ \A f \in Frames : f \in 0 .. (total_bits - 1)
      /\ h \in 0 .. (total_bits - 1) /\ p \in 0 .. (total_bits - 1) /\ e \in Nat
      /\ nr[c] \in Nat /\ remaining_needed[c] \in 1 .. nr[c] /\ s \in Int
  BY <1>1, BitsAreNatural DEF Frames, TypeOK, SearchInv, StreakStart
<1>3. /\ last_alloc_hint' = h /\ bitmap' = bitmap /\ nr'[c] = nr[c]
      /\ explored_bits'[c] = e + 1 /\ bit_pos'[c] = NextPos(p)
  BY <1>1, Zenon DEF SkipUsed, ExtendStreak, TypeOK
<1>4. /\ h + e < 2 * total_bits
      /\ Explored(e + 1, NextPos(p))
      /\ NextPos(p) = 0 => p = total_bits - 1 /\ total_bits <= h + e + 1
      /\ NextPos(p) # 0 => NextPos(p) = p + 1
      /\ NextPos(p) \in Nat
  BY <1>1, ExploreOne, Zenon
<1>5. Explored(explored_bits[c], bit_pos[c])'
  BY <1>3, <1>4, Zenon DEF Explored
<1>6. ASSUME NEW f \in Frames, Passed(c, f)  PROVE ~FreeRun(f, nr[c])
  BY <1>6, Zenon DEF PassedOf
<1>7. \A f \in Frames : FreeRun(f, nr[c])' <=> FreeRun(f, nr[c])
  BY <1>3, Zenon DEF FreeRun
<1>8. CASE SkipUsed(c) \/ NextPos(p) = 0
  <2>1. /\ remaining_needed'[c] = nr[c] /\ free_streak'[c] = FALSE
        /\ bitmap[p] \/ (p = total_bits - 1 /\ remaining_needed[c] # 1)
    BY <1>1, <1>4, <1>8, Zenon DEF SkipUsed, ExtendStreak, TypeOK
  <2>2. StreakStart(c)' = NextPos(p)
    <3>1. StreakStart(c)' = NextPos(p) - (nr[c] - nr[c])
      BY <1>3, <2>1, Zenon DEF StreakStart
    <3>2. \A x, y \in Int : x - (y - y) = x
      OBVIOUS
    <3>3. NextPos(p) \in Int /\ nr[c] \in Int
      BY <1>2, <1>4
    <3>. QED  BY <3>1, <3>2, <3>3, Zenon
  <2>3. ASSUME NEW f \in Frames, Passed(c, f)'  PROVE ~FreeRun(f, nr[c])
    <3>1. CASE s <= f /\ f <= p
      BY <1>1, <2>1, <3>1, StreakIsNoRun, Zenon
    <3>2. CASE f < s \/ p < f
      <4>1. \/ h + (e + 1) < total_bits /\ h <= f /\ f < NextPos(p)
            \/ total_bits <= h + (e + 1) /\ (h <= f \/ f < NextPos(p))
            \/ h + (e + 1) = 2 * total_bits
        BY <1>3, <2>2, <2>3, Zenon DEF Passed
      <4>2. Explored(e, p)
        BY Zenon DEF PassedOf
      <4>3. \/ h + e < total_bits /\ h <= f /\ f < s
            \/ total_bits <= h + e /\ (h <= f \/ f < s)
        <5> HIDE DEF e, p, s
        <5>. QED  BY <1>2, <1>4, <3>2, <4>1, <4>2 DEF Explored
      <4>4. Passed(c, f)
        BY <4>3, Zenon DEF Passed
      <4>. QED  BY <1>6, <4>4, Zenon
    <3>3. f \in Int /\ s \in Int /\ p \in Int
      BY <1>2
    <3>. QED  BY <3>1, <3>2, <3>3
  <2>. QED  BY <1>3, <1>5, <1>7, <2>1, <2>3, Zenon DEF PassedOf
<1>9. CASE ExtendStreak(c) /\ NextPos(p) # 0
  <2>1. /\ remaining_needed'[c] = remaining_needed[c] - 1 /\ free_streak'[c] = TRUE
    BY <1>1, <1>9, Zenon DEF ExtendStreak, TypeOK
  <2>2. StreakStart(c)' = s
    <3>1. bit_pos'[c] = bit_pos[c] + 1
      BY <1>3, <1>4, <1>9, Zenon
    <3>2. StreakStart(c)' = (bit_pos[c] + 1) - (nr[c] - (remaining_needed[c] - 1))
      BY <1>3, <2>1, <3>1, Zenon DEF StreakStart
    <3>3. \A x, y, z \in Int : (x + 1) - (y - (z - 1)) = x - (y - z)
      OBVIOUS
    <3>4. bit_pos[c] \in Int /\ nr[c] \in Int /\ remaining_needed[c] \in Int
      BY <1>2
    <3>. QED  BY <3>2, <3>3, <3>4, Zenon DEF StreakStart
  <2>3. h + (e + 1) # 2 * total_bits /\ h + (e + 1) # total_bits
    <3>1. /\ h \in Int /\ e \in Int /\ total_bits \in Int /\ total_bits > 0
          /\ Explored(e + 1, NextPos(p)) /\ NextPos(p) # 0
      BY <1>2, <1>4, <1>9
    <3> HIDE DEF e, p
    <3>. QED  BY <3>1 DEF Explored
  <2>4. ASSUME NEW f \in Frames, Passed(c, f)'  PROVE Passed(c, f)
    <3>1. \/ h + (e + 1) < total_bits /\ h <= f /\ f < s
          \/ total_bits <= h + (e + 1) /\ (h <= f \/ f < s)
      BY <1>3, <2>2, <2>3, <2>4, Zenon DEF Passed
    <3>2. \/ h + e < total_bits /\ h <= f /\ f < s
          \/ total_bits <= h + e /\ (h <= f \/ f < s)
      <4>1. h \in Nat /\ e \in Nat /\ total_bits \in Nat
        BY <1>2
      <4>. QED  BY <2>3, <3>1, <4>1
    <3>. QED  BY <3>2, Zenon DEF Passed
  <2>5. remaining_needed'[c] # nr'[c] /\ last_alloc_hint' + explored_bits'[c] # 2 * total_bits
    BY <1>2, <1>3, <2>1, <2>3
  <2>. QED  BY <1>3, <1>5, <1>6, <1>7, <2>1, <2>4, <2>5, Zenon DEF PassedOf
<1>. QED  BY <1>8, <1>9, Zenon

\* StartSearch has passed nothing.
LEMMA PassedStepStart ==
    ASSUME IInv, NEW c \in Cpu, StartSearch(c)
    PROVE  PassedOf(c)'
<1>1. /\ total_bits \in Nat /\ total_bits > 0 /\ \A f \in Frames : f \in Nat
      /\ last_alloc_hint \in 0 .. (total_bits - 1) /\ nr[c] \in Nat
  BY BitsAreNatural DEF Frames, IInv, TypeOK
<1>2. /\ last_alloc_hint' = last_alloc_hint /\ nr'[c] = nr[c]
      /\ explored_bits'[c] = 0 /\ bit_pos'[c] = last_alloc_hint
      /\ remaining_needed'[c] = nr[c] /\ free_streak'[c] = FALSE
  BY Zenon DEF StartSearch, IInv, TypeOK
<1>3. StreakStart(c)' = last_alloc_hint
  BY <1>1, <1>2 DEF StreakStart
<1>4. Explored(explored_bits[c], bit_pos[c])'
  <2>1. Explored(0, last_alloc_hint)
    BY <1>1 DEF Explored
  <2>. QED  BY <1>2, <2>1, Zenon DEF Explored
<1>5. \A f \in Frames : ~Passed(c, f)'
  BY <1>1, <1>2, <1>3 DEF Passed
<1>. QED  BY <1>2, <1>4, <1>5, Zenon DEF PassedOf

\* Only the CPU with the lock searches, and nobody else touches the bitmap then.
LEMMA PassedStep == IInv /\ PassedInv /\ [Next]_vars => PassedInv'
<1> SUFFICES ASSUME IInv, PassedInv, [Next]_vars, NEW c \in Cpu, pc'[c] = "search"
             PROVE  PassedOf(c)'
  BY Zenon DEF PassedInv
<1>1. /\ pc \in [Cpu -> {"idle", "get", "search", "free"}]
      /\ \A d \in Cpu : pc[d] = "search" => lock = d
      /\ Free \notin Cpu
  BY CpuAssumption, Zenon DEF IInv, TypeOK, LockInv
<1>2. CASE /\ pc[c] = "search" /\ nr'[c] = nr[c]
           /\ UNCHANGED <<bitmap, last_alloc_hint, search>>
  <2>1. PassedOf(c)
    BY <1>2, Zenon DEF PassedInv
  <2>. QED  BY <1>2, <2>1, Zenon DEF PassedOf, Explored, Passed, StreakStart, FreeRun, search
<1>3. CASE UNCHANGED vars
  BY <1>2, <1>3, Zenon DEF vars
<1>4. ASSUME NEW d \in Cpu, NEW n \in Requests, CallGetPages(d, n)  PROVE PassedOf(c)'
  BY <1>1, <1>2, <1>4, Zenon DEF CallGetPages, IInv, TypeOK
<1>5. ASSUME NEW d \in Cpu, NEW b \in held, CallFreePages(d, b)  PROVE PassedOf(c)'
  BY <1>1, <1>2, <1>5, Zenon DEF CallFreePages, IInv, TypeOK
<1>6. ASSUME NEW d \in Cpu, Refuse(d)  PROVE PassedOf(c)'
  BY <1>1, <1>2, <1>6, Zenon DEF Refuse, IInv, TypeOK
<1>7. ASSUME NEW d \in Cpu, StartSearch(d)  PROVE PassedOf(c)'
  <2>1. c = d
    BY <1>1, <1>7, Zenon DEF StartSearch
  <2>. QED  BY <1>7, <2>1, PassedStepStart, Zenon
<1>8. ASSUME NEW d \in Cpu, SkipUsed(d) \/ ExtendStreak(d)  PROVE PassedOf(c)'
  <2>1. c = d /\ pc[c] = "search"
    BY <1>1, <1>8, Zenon DEF SkipUsed, ExtendStreak, Searching
  <2>. QED  BY <1>8, <2>1, PassedStepLoop, Zenon DEF PassedInv
<1>9. ASSUME NEW d \in Cpu, Claim(d) \/ GiveUp(d)  PROVE FALSE
  BY <1>1, <1>9, Zenon DEF Claim, GiveUp, Searching, ReturnFromSearch
<1>10. ASSUME NEW d \in Cpu, FreePagesRaw(d)  PROVE FALSE
  BY <1>1, <1>10, Zenon DEF FreePagesRaw
<1>. QED  BY <1>3, <1>4, <1>5, <1>6, <1>7, <1>8, <1>9, <1>10, Zenon DEF Next, Step

\* __get_pages returns -1 after a search only if there is no run of nr free
\* frames, for every bitmap, request and hint.
THEOREM SearchIsComplete == Spec => []GivesUpOnlyIfNone
<1>1. Init => PassedInv
  BY Zenon DEF Init, PassedInv
<1>2. ASSUME IInv, PassedInv  PROVE GivesUpOnlyIfNone
  <2> SUFFICES ASSUME NEW c \in Cpu, pc[c] = "search", ~LoopCondition(c), NEW f \in Frames
               PROVE  ~FreeRun(f, nr[c])
    BY Zenon DEF GivesUpOnlyIfNone
  <2>1. /\ total_bits \in Nat /\ Frames = 0 .. (total_bits - 1)
        /\ last_alloc_hint \in Frames /\ bit_pos[c] \in Frames /\ explored_bits[c] \in Nat
        /\ nr[c] \in Nat /\ remaining_needed[c] \in 1 .. nr[c]
    BY <1>2, BitsAreNatural, Zenon DEF Frames, IInv, TypeOK, SearchInv
  <2>2. PassedOf(c)
    BY <1>2, Zenon DEF PassedInv
  <2>3. explored_bits[c] >= total_bits /\ remaining_needed[c] = nr[c]
    BY <2>1, <2>2 DEF LoopCondition, PassedOf
  <2>4. StreakStart(c) = bit_pos[c]
    BY <2>1, <2>3 DEF StreakStart
  <2>5. Passed(c, f)
    BY <2>1, <2>2, <2>3, <2>4 DEF Passed, PassedOf, Explored
  <2>. QED  BY <2>2, <2>5, Zenon DEF PassedOf
<1>. QED  BY <1>1, <1>2, PassedStep, Invariance, PTL DEF Spec
=============================================================================
