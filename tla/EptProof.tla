------------------------------ MODULE EptProof ------------------------------
(***************************************************************************)
(* The address space of the hypervisor and the memory of VMs, for every    *)
(* memory map, every size of pages and tables and every request.           *)
(***************************************************************************)
EXTENDS Ept, TLAPS

OFFSET == HYPERVISOR_DIRECT_MAPPING_OFFSET

ImageOffset == hypervisor_region.vaddr_start - hypervisor_region.paddr_start

\* Whole pages.
Aligned == {a \in Int : a % PAGE_SIZE = 0}

\* By the region of the address space it lies in: what a page is mapped to.
Expected(v) ==
    IF v < OFFSET THEN v
    ELSE IF v < phys_to_virt(DirectRange) THEN v - OFFSET
    ELSE v - ImageOffset

\* The page v is mapped, or the running mapping will come to it.
Reached(v) == v \in DOMAIN ptes \/ (curr_vaddr <= v /\ v <= mapping.end)

EntryPages(i) == {phys_to_virt(p) : p \in PagesOf(mem_map[i].start, mem_map[i].end)}

ImagePages ==
    PagesOf(hypervisor_region.vaddr_start,
            hypervisor_region.vaddr_start + hypervisor_region.length - 1)

\* What has been mapped agrees with the regions, and the walk gets to it.
TablesInv ==
    \A v \in DOMAIN ptes :
        /\ v \in Aligned
        /\ ptes[v] = Expected(v)
        /\ \A l \in PD..PML4 : pgtable_entry(v, l) \in tables

\* What is being mapped stays inside one region.
MappingInv ==
    /\ curr_vaddr \in Int
    /\ mapping \in [end : Int, offset : Int]
    /\ ~ RangeMapped =>
         /\ curr_vaddr \in Aligned
         /\ \/ mapping.offset = 0 /\ mapping.end < OFFSET
            \/ /\ mapping.offset = OFFSET
               /\ OFFSET <= curr_vaddr /\ mapping.end < phys_to_virt(DirectRange)
            \/ mapping.offset = ImageOffset /\ phys_to_virt(DirectRange) <= curr_vaddr

MapInv ==
    /\ \E m \in MemMaps : mem_map = get_boot_mem_info(m)
    /\ next_entry \in Nat \ {0}
    /\ stage \in {"memmap", "hypervisor", "live", "hpet", "up"} => phys_memory_fits(mem_map)

\* Nothing has been left out on the way.
ReachInv ==
    /\ stage \notin {"start", "dead"} => Reached(LapicBase)
    /\ \A i \in DOMAIN mem_map :
          i < next_entry /\ DirectlyMapped(mem_map[i]) => \A v \in EntryPages(i) : Reached(v)
    /\ stage \in {"hypervisor", "live"} => next_entry > Len(mem_map)
    /\ stage \in {"hypervisor", "live"} => \A v \in ImagePages : Reached(v)
    /\ stage = "hpet" => Reached(HPET_BASE)
    /\ stage = "up" => RangeMapped

\* What the hypervisor relies on is mapped before it switches.
CompleteInv ==
    stage \in {"live", "hpet", "up"} =>
        /\ LapicBase \in DOMAIN ptes
        /\ \A i \in DOMAIN mem_map : DirectlyMapped(mem_map[i]) => EntryPages(i) \subseteq DOMAIN ptes
        /\ ImagePages \subseteq DOMAIN ptes

SpaceInv == TablesInv /\ MappingInv /\ MapInv /\ ReachInv /\ CompleteInv

-----------------------------------------------------------------------------
(* Arithmetic *)

\* Division with remainder.
LEMMA DivMod ==
    ASSUME NEW a \in Int, NEW e \in Nat \ {0}
    PROVE  /\ a \div e \in Int /\ a % e \in Int
           /\ a = (a \div e) * e + (a % e)
           /\ 0 <= a % e /\ a % e < e
  OBVIOUS

\* Multiplication keeps the order, and reflects it.
LEMMA MulOrder ==
    ASSUME NEW x \in Int, NEW y \in Int, NEW e \in Nat \ {0}
    PROVE  /\ x <= y => x * e <= y * e
           /\ x < y => x * e + e <= y * e
           /\ x * e < y * e + e => x <= y
  OBVIOUS

\* The quotient is known by its block.
LEMMA DivUnique ==
    ASSUME NEW a \in Int, NEW e \in Nat \ {0}, NEW q \in Int, q * e <= a, a < q * e + e
    PROVE  a \div e = q
  <1>1. (a \div e) * e <= a /\ a < (a \div e) * e + e /\ a \div e \in Int
    BY DivMod
  <1>2. a \div e <= q
    BY <1>1, MulOrder
  <1>3. q <= a \div e
    BY <1>1, MulOrder
  <1> QED
    BY <1>1, <1>2, <1>3

\* Addresses in one block of e bytes are in one block of n * e bytes.
LEMMA SameLargerBlock ==
    ASSUME NEW a \in Int, NEW b \in Int, NEW e \in Nat \ {0}, NEW n \in Nat \ {0},
           a \div e = b \div e
    PROVE  a \div (n * e) = b \div (n * e)
  <1> DEFINE q == a \div e
             r == q \div n
  <1>1. q \in Int /\ q * e <= a /\ a < q * e + e /\ q * e <= b /\ b < q * e + e
    BY DivMod
  <1>2. r \in Int /\ r * n <= q /\ q < r * n + n
    BY <1>1, DivMod
  <1> HIDE DEF q, r
  <1>3. (r * n) * e <= q * e /\ q * e + e <= (r * n + n) * e
    BY <1>1, <1>2, MulOrder
  <1>4. n * e \in Nat \ {0} /\ (r * n) * e = r * (n * e) /\ (r * n + n) * e = r * (n * e) + n * e
    BY <1>2
  <1>5. /\ r * (n * e) <= a /\ a < r * (n * e) + n * e
        /\ r * (n * e) <= b /\ b < r * (n * e) + n * e
    BY <1>1, <1>2, <1>3, <1>4
  <1> DEFINE m == n * e
  <1>6. m \in Nat \ {0}
    BY <1>4, Zenon
  <1>7. /\ r * m <= a /\ a < r * m + m
        /\ r * m <= b /\ b < r * m + m
    BY <1>5, Zenon
  <1> HIDE DEF m
  <1>8. a \div m = r /\ b \div m = r
    BY <1>2, <1>6, <1>7, DivUnique, Zenon
  <1> QED
    BY <1>8, Zenon DEF m

-----------------------------------------------------------------------------
(* Pages *)

\* The constants in terms of whole pages.
LEMMA Constants ==
    /\ PAGE_SIZE \in Nat /\ PAGE_SIZE > 0
    /\ LapicBase \in Aligned /\ HPET_BASE \in Aligned /\ OFFSET \in Aligned
    /\ hypervisor_region.paddr_start \in Aligned /\ hypervisor_region.vaddr_start \in Aligned
    /\ OFFSET \in Nat /\ DirectRange \in Nat /\ hypervisor_region.length \in Nat
    /\ LapicBase < OFFSET /\ HPET_BASE < OFFSET
    /\ OFFSET + DirectRange <= hypervisor_region.vaddr_start
  BY SpaceAssumption, PowerAssumption DEF Aligned, OFFSET, phys_to_virt

\* The multiples of the size of a page are the whole pages.
LEMMA Multiple == ASSUME NEW k \in Int PROVE k * PAGE_SIZE \in Aligned
  <1> DEFINE a == k * PAGE_SIZE
  <1>1. a \in Int /\ a \div PAGE_SIZE = k
    BY PowerAssumption, DivUnique
  <1>2. a = (a \div PAGE_SIZE) * PAGE_SIZE + (a % PAGE_SIZE) /\ a % PAGE_SIZE \in Int
    BY <1>1, PowerAssumption, DivMod, Zenon
  <1>3. a = k * PAGE_SIZE + (a % PAGE_SIZE)
    BY <1>1, <1>2, Zenon
  <1> QED
    BY <1>1, <1>2, <1>3, PowerAssumption DEF Aligned

\* And whole pages are multiples.
LEMMA AlignedIsMultiple ==
    ASSUME NEW a \in Aligned PROVE a \in Int /\ a \div PAGE_SIZE \in Int /\ a = (a \div PAGE_SIZE) * PAGE_SIZE
  BY PowerAssumption, DivMod DEF Aligned

\* Sums and differences of whole pages, and the gap between two of them.
LEMMA AlignedSums ==
    ASSUME NEW a \in Aligned, NEW b \in Aligned
    PROVE  /\ a + b \in Aligned /\ a - b \in Aligned
           /\ a < b => a + PAGE_SIZE <= b
  <1>1. PICK k \in Int : a = k * PAGE_SIZE
    BY AlignedIsMultiple, Zenon
  <1>2. PICK n \in Int : b = n * PAGE_SIZE
    BY AlignedIsMultiple, Zenon
  <1>3. a + b = (k + n) * PAGE_SIZE /\ a - b = (k - n) * PAGE_SIZE
    BY <1>1, <1>2, PowerAssumption
  <1>4. a + b \in Aligned /\ a - b \in Aligned
    BY <1>3, Multiple
  <1>5. a < b => a + PAGE_SIZE <= b
    BY <1>1, <1>2, PowerAssumption, MulOrder
  <1> QED
    BY <1>4, <1>5, Zenon

\* PAGE_ALIGN rounds down to a whole page.
LEMMA PageAlign ==
    ASSUME NEW a \in Int
    PROVE  /\ PAGE_ALIGN(a) \in Aligned /\ PAGE_ALIGN(a) \in Int
           /\ PAGE_ALIGN(a) <= a
           /\ a >= 0 => PAGE_ALIGN(a) >= 0
           /\ a \in Aligned => PAGE_ALIGN(a) = a
  <1>1. a \div PAGE_SIZE \in Int /\ (a \div PAGE_SIZE) * PAGE_SIZE <= a
        /\ a < (a \div PAGE_SIZE) * PAGE_SIZE + PAGE_SIZE
    BY PowerAssumption, DivMod
  <1>2. PAGE_ALIGN(a) \in Aligned /\ PAGE_ALIGN(a) \in Int
    BY <1>1, Multiple, Zenon DEF PAGE_ALIGN, Aligned
  <1>3. a >= 0 => 0 <= a \div PAGE_SIZE
    BY <1>1, PowerAssumption, MulOrder
  <1>4. a >= 0 => PAGE_ALIGN(a) >= 0
    BY <1>1, <1>3, PowerAssumption, MulOrder DEF PAGE_ALIGN
  <1>5. a \in Aligned => PAGE_ALIGN(a) = a
    BY AlignedIsMultiple, Zenon DEF PAGE_ALIGN
  <1> QED
    BY <1>1, <1>2, <1>4, <1>5, Zenon DEF PAGE_ALIGN

\* The pages of a range.
LEMMA PagesOfRange ==
    ASSUME NEW x \in Int, NEW y \in Int
    PROVE  PagesOf(x, y) = {v \in Aligned : PAGE_ALIGN(x) <= v /\ v <= y}
  <1>1. /\ x \div PAGE_SIZE \in Int /\ y \div PAGE_SIZE \in Int
        /\ (y \div PAGE_SIZE) * PAGE_SIZE <= y /\ y < (y \div PAGE_SIZE) * PAGE_SIZE + PAGE_SIZE
    BY PowerAssumption, DivMod
  <1>2. ASSUME NEW k \in Int
        PROVE  /\ PAGE_ALIGN(x) <= k * PAGE_SIZE <=> x \div PAGE_SIZE <= k
               /\ k * PAGE_SIZE <= y <=> k <= y \div PAGE_SIZE
    <2>1. x \div PAGE_SIZE <= k => PAGE_ALIGN(x) <= k * PAGE_SIZE
      BY <1>1, PowerAssumption, MulOrder, Zenon DEF PAGE_ALIGN
    <2>2. PAGE_ALIGN(x) <= k * PAGE_SIZE => x \div PAGE_SIZE <= k
      BY <1>1, PowerAssumption, MulOrder DEF PAGE_ALIGN
    <2>3. k <= y \div PAGE_SIZE => k * PAGE_SIZE <= y
      BY <1>1, PowerAssumption, MulOrder
    <2>4. k * PAGE_SIZE <= y => k <= y \div PAGE_SIZE
      BY <1>1, PowerAssumption, MulOrder
    <2> QED
      BY <2>1, <2>2, <2>3, <2>4, Zenon
  <1>3. ASSUME NEW v \in PagesOf(x, y)
        PROVE  v \in Aligned /\ PAGE_ALIGN(x) <= v /\ v <= y
    <2>1. PICK k \in (x \div PAGE_SIZE)..(y \div PAGE_SIZE) : v = k * PAGE_SIZE
      BY Zenon DEF PagesOf
    <2> QED
      BY <1>1, <1>2, <2>1, Multiple
  <1>4. ASSUME NEW v \in Aligned, PAGE_ALIGN(x) <= v, v <= y
        PROVE  v \in PagesOf(x, y)
    <2>1. PICK k \in Int : v = k * PAGE_SIZE
      BY AlignedIsMultiple, Zenon
    <2>2. k \in (x \div PAGE_SIZE)..(y \div PAGE_SIZE)
      BY <1>1, <1>2, <1>4, <2>1
    <2> QED
      BY <2>1, <2>2, Zenon DEF PagesOf
  <1> QED
    BY <1>3, <1>4, Zenon

\* Tables are larger than pages, and each level's entries cover the next's.
LEMMA Ranges ==
    /\ \A l \in PT..PML4 : ENTRY_RANGE_BYTES(l) \in Nat \ {0}
    /\ \E k \in Int : ENTRY_RANGE_BYTES(PD) = k * PAGE_SIZE
    /\ ENTRY_RANGE_BYTES(PDPT) = 2 ^ TableBits * ENTRY_RANGE_BYTES(PD)
    /\ ENTRY_RANGE_BYTES(PML4) = 2 ^ TableBits * ENTRY_RANGE_BYTES(PDPT)
  <1> DEFINE n == 2 ^ TableBits
             E(l) == ENTRY_RANGE_BYTES(l)
  <1> HIDE DEF n, E
  <1>1. n \in Nat \ {0} /\ PAGE_SIZE \in Nat \ {0}
    BY PowerAssumption, Zenon DEF n
  <1>2. E(1) = PAGE_SIZE /\ E(2) = n * E(1) /\ E(3) = n * E(2) /\ E(4) = n * E(3)
    BY PowerAssumption DEF n, E, PT, PD, PML4
  <1>3. E(1) \in Nat \ {0} /\ E(2) \in Nat \ {0}
    BY <1>1, <1>2
  <1>4. E(3) \in Nat \ {0}
    BY <1>1, <1>2, <1>3
  <1>5. E(4) \in Nat \ {0}
    BY <1>1, <1>2, <1>4
  <1> QED
    BY <1>1, <1>2, <1>3, <1>4, <1>5 DEF n, E, PT, PD, PDPT, PML4

\* Min of two numbers.
LEMMA MinOfTwo ==
    ASSUME NEW a \in Int, NEW b \in Int
    PROVE  Min({a, b}) = IF a <= b THEN a ELSE b
  <1> DEFINE m == IF a <= b THEN a ELSE b
  <1>1. m \in {a, b} /\ \A y \in {a, b} : m <= y
    OBVIOUS
  <1>2. \A x \in {a, b} : (\A y \in {a, b} : x <= y) => x = m
    OBVIOUS
  <1> QED
    BY <1>1, <1>2, Zenon DEF Min

\* The part of a range below one PD entry (get_x_entry_block_end, pgtables.h):
\* it is not empty, the next part begins with a page, and all of it is behind
\* the same entries on every level.
LEMMA Block ==
    ASSUME NEW x \in Int, NEW y \in Int, x <= y
    PROVE  LET b == get_x_entry_block_end(x, y, PD) IN
           /\ b \in Int /\ x <= b /\ b <= y
           /\ b = y \/ b + 1 \in Aligned
           /\ \A v \in Int : x <= v /\ v <= b =>
                 \A l \in PD..PML4 : pgtable_entry(v, l) = pgtable_entry(x, l)
  <1> DEFINE e == ENTRY_RANGE_BYTES(PD)
             q == x \div e
             b == get_x_entry_block_end(x, y, PD)
  <1>1. e \in Nat \ {0}
    BY Ranges DEF PT, PD, PML4
  <1>2. b = Min({y, (q + 1) * e - 1})
    BY Zenon DEF get_x_entry_block_end
  <1> HIDE DEF e, b
  <1>3. q \in Int /\ q * e <= x /\ x < q * e + e
    BY <1>1, DivMod
  <1> HIDE DEF q
  <1>4. (q + 1) * e = q * e + e /\ (q + 1) * e - 1 \in Int
    BY <1>1, <1>3
  <1>5. b = IF y <= (q + 1) * e - 1 THEN y ELSE (q + 1) * e - 1
    BY <1>2, <1>4, MinOfTwo, Zenon
  <1>6. b \in Int /\ x <= b /\ b <= y /\ b < q * e + e
    BY <1>1, <1>3, <1>4, <1>5
  <1>7. b = y \/ b + 1 \in Aligned
    <2>1. PICK k \in Int : e = k * PAGE_SIZE
      BY Ranges, Zenon DEF e
    <2>2. (q + 1) * e = ((q + 1) * k) * PAGE_SIZE
      BY <1>3, <2>1, PowerAssumption
    <2>3. (q + 1) * e \in Aligned
      BY <1>3, <2>2, Multiple
    <2>4. \A z \in Int : (z - 1) + 1 = z
      OBVIOUS
    <2> QED
      BY <1>1, <1>3, <1>5, <2>3, <2>4, Zenon DEF Aligned
  <1>8. ASSUME NEW v \in Int, x <= v, v <= b, NEW l \in PD..PML4
        PROVE  v \div ENTRY_RANGE_BYTES(l) = x \div ENTRY_RANGE_BYTES(l)
    <2> DEFINE f == ENTRY_RANGE_BYTES(PDPT)
               n == 2 ^ TableBits
    <2>1. q * e <= v /\ v < q * e + e
      BY <1>1, <1>3, <1>6, <1>8
    <2>2. v \div e = x \div e
      BY <1>1, <1>3, <2>1, DivUnique, Zenon
    <2>3. n \in Nat \ {0} /\ f = n * e /\ ENTRY_RANGE_BYTES(PML4) = n * f /\ f \in Nat \ {0}
      BY Ranges, PowerAssumption DEF e, PT, PDPT, PML4
    <2> HIDE DEF f, n
    <2>4. v \div f = x \div f
      <3>1. v \div (n * e) = x \div (n * e)
        BY <1>1, <2>2, <2>3, SameLargerBlock, ZenonT(30)
      <3> QED
        BY <2>3, <3>1, Zenon
    <2>5. v \div (n * f) = x \div (n * f)
      BY <2>3, <2>4, SameLargerBlock
    <2>6. l = PD \/ l = PDPT \/ l = PML4
      BY DEF PD, PDPT, PML4
    <2> QED
      BY <2>2, <2>3, <2>4, <2>5, <2>6, Zenon DEF e, f
  <1> QED
    BY <1>6, <1>7, <1>8, Zenon DEF b, pgtable_entry

-----------------------------------------------------------------------------
(* Inductiveness *)

\* The facts about one memory map.
LEMMA MapFacts ==
    ASSUME MapInv
    PROVE  /\ Len(mem_map) \in Nat /\ DOMAIN mem_map = 1..Len(mem_map)
           /\ \A i \in DOMAIN mem_map : mem_map[i].start \in Nat /\ mem_map[i].end \in Int
           /\ phys_memory_fits(mem_map) =>
                \A i \in DOMAIN mem_map : DirectlyMapped(mem_map[i]) => mem_map[i].end < DirectRange
  <1>1. PICK m \in MemMaps : mem_map = get_boot_mem_info(m)
    BY Zenon DEF MapInv
  <1>2. m \in Seq(Nat \X Nat \X STRING)
    BY SpaceAssumption, Zenon
  <1>3. Len(m) \in Nat /\ DOMAIN mem_map = 1..Len(m)
    BY <1>1, <1>2 DEF get_boot_mem_info
  <1>4. \A i \in DOMAIN mem_map :
           /\ m[i] \in Nat \X Nat \X STRING
           /\ mem_map[i].start = m[i][1] /\ mem_map[i].end = m[i][1] + m[i][2] - 1
    BY <1>1, <1>2, <1>3 DEF get_boot_mem_info
  <1>5. Len(mem_map) = Len(m)
    <2> DEFINE S == {mem_map[i] : i \in 1..Len(m)}
    <2>1. mem_map = [i \in 1..Len(m) |-> mem_map[i]]
      BY <1>1, <1>3, Zenon DEF get_boot_mem_info
    <2>2. mem_map \in [1..Len(m) -> S]
      BY <2>1, Zenon
    <2>3. mem_map \in Seq(S)
      BY <1>3, <2>2
    <2> HIDE DEF S
    <2> QED
      BY <1>3, <2>3
  <1>6. phys_memory_fits(mem_map) =>
           \A i \in DOMAIN m : DirectlyMapped(mem_map[i]) => m[i][1] + m[i][2] <= DirectRange
    BY <1>1, SpaceAssumption, Zenon
  <1>7. ASSUME NEW i \in DOMAIN mem_map
        PROVE  /\ mem_map[i].start \in Nat /\ mem_map[i].end \in Int
               /\ m[i][1] + m[i][2] <= DirectRange => mem_map[i].end < DirectRange
    <2>1. m[i][1] \in Nat /\ m[i][2] \in Nat
      BY <1>4, Zenon
    <2> QED
      BY <1>4, <2>1, Constants
  <1>8. DOMAIN m = DOMAIN mem_map
    BY <1>1, Zenon DEF get_boot_mem_info
  <1> QED
    BY <1>3, <1>5, <1>6, <1>7, <1>8, Zenon

\* An empty address space, and a range that is already mapped.
LEMMA InitInv == SpaceInit => SpaceInv
  <1> SUFFICES ASSUME SpaceInit PROVE SpaceInv
    BY Zenon
  <1>1. TablesInv /\ MappingInv /\ MapInv
    BY DEF SpaceInit, TablesInv, MappingInv, MapInv, RangeMapped
  <1>2. DOMAIN mem_map \subseteq Nat \ {0}
    BY <1>1, MapFacts
  <1>3. ReachInv /\ CompleteInv
    BY <1>2 DEF SpaceInit, ReachInv, CompleteInv
  <1> QED
    BY <1>1, <1>3, Zenon DEF SpaceInv

\* The pages of a memory map entry and of the image lie in their regions.
LEMMA NeededPages ==
    ASSUME MapInv
    PROVE  /\ \A i \in DOMAIN mem_map : \A v \in EntryPages(i) :
                /\ v \in Aligned /\ v \in Int
                /\ OFFSET + PAGE_ALIGN(mem_map[i].start) <= v /\ v <= OFFSET + mem_map[i].end
                /\ OFFSET <= v
           /\ \A v \in ImagePages :
                /\ v \in Aligned /\ v \in Int
                /\ hypervisor_region.vaddr_start <= v
                /\ v <= hypervisor_region.vaddr_start + hypervisor_region.length - 1
  <1>1. ASSUME NEW i \in DOMAIN mem_map, NEW v \in EntryPages(i)
        PROVE  /\ v \in Aligned /\ v \in Int
               /\ OFFSET + PAGE_ALIGN(mem_map[i].start) <= v /\ v <= OFFSET + mem_map[i].end
               /\ OFFSET <= v
    <2>1. PICK p \in PagesOf(mem_map[i].start, mem_map[i].end) : v = p + OFFSET
      BY Zenon DEF EntryPages, phys_to_virt, OFFSET
    <2>2. mem_map[i].start \in Nat /\ mem_map[i].end \in Int
      BY MapFacts, Zenon
    <2>3. p \in Aligned /\ PAGE_ALIGN(mem_map[i].start) <= p /\ p <= mem_map[i].end
      BY <2>2, PagesOfRange
    <2>4. PAGE_ALIGN(mem_map[i].start) \in Int /\ PAGE_ALIGN(mem_map[i].start) >= 0
      BY <2>2, PageAlign
    <2>5. v \in Aligned
      BY <2>1, <2>3, AlignedSums, Constants, Zenon
    <2>6. v \in Int /\ p \in Int /\ OFFSET \in Int
      BY <2>3, <2>5, Constants, Zenon DEF Aligned
    <2> QED
      BY <2>1, <2>2, <2>3, <2>4, <2>5, <2>6
  <1>2. ASSUME NEW v \in ImagePages
        PROVE  /\ v \in Aligned /\ v \in Int
               /\ hypervisor_region.vaddr_start <= v
               /\ v <= hypervisor_region.vaddr_start + hypervisor_region.length - 1
    <2> DEFINE x == hypervisor_region.vaddr_start
               y == hypervisor_region.vaddr_start + hypervisor_region.length - 1
    <2>1. x \in Int /\ y \in Int /\ PAGE_ALIGN(x) = x
      BY Constants, PageAlign DEF Aligned
    <2>2. v \in Aligned /\ x <= v /\ v <= y
      BY <2>1, PagesOfRange DEF ImagePages
    <2> QED
      BY <2>2, Zenon DEF Aligned
  <1> QED
    BY <1>1, <1>2, Zenon

\* One PD entry of the mapping loops (direct_mapping.c).
LEMMA MapBlockStep == SpaceInv /\ MapBlock => SpaceInv'
  <1> SUFFICES ASSUME SpaceInv, MapBlock PROVE SpaceInv'
    BY Zenon
  <1> USE DEF SpaceInv
  <1> DEFINE x == curr_vaddr
             y == mapping.end
             b == PdBlockEnd
             W == AbsentPtes
  <1>1. x \in Aligned /\ x \in Int /\ y \in Int /\ mapping.offset \in Int /\ x <= y
    BY DEF MapBlock, MappingInv, RangeMapped
  <1>2. /\ b \in Int /\ x <= b /\ b <= y
        /\ b = y \/ b + 1 \in Aligned
        /\ \A v \in Int : x <= v /\ v <= b =>
              \A l \in PD..PML4 : pgtable_entry(v, l) = pgtable_entry(x, l)
    BY <1>1, Block, ZenonT(60) DEF PdBlockEnd
  <1>3. W = {v \in Aligned : x <= v /\ v <= b} \ DOMAIN ptes
    <2> HIDE DEF b
    <2>1. PagesOf(x, b) = {v \in Aligned : PAGE_ALIGN(x) <= v /\ v <= b}
      BY <1>1, <1>2, PagesOfRange, Zenon
    <2>2. PAGE_ALIGN(x) = x
      BY <1>1, PageAlign, Zenon
    <2> QED
      BY <2>1, <2>2, Zenon DEF AbsentPtes, b
  <1>4. /\ DOMAIN ptes' = DOMAIN ptes \cup W
        /\ \A v \in DOMAIN ptes : ptes'[v] = ptes[v]
        /\ \A v \in W : ptes'[v] = v - mapping.offset
    <2>1. ptes' = [v \in DOMAIN ptes \cup W |-> IF v \in W THEN v - mapping.offset ELSE ptes[v]]
      BY Zenon DEF MapBlock, WritePtes
    <2>2. \A v \in DOMAIN ptes : v \notin W
      BY Zenon DEF AbsentPtes
    <2> HIDE DEF W
    <2> QED
      BY <2>1, <2>2, Zenon
  <1>5. /\ tables' = tables \cup {pgtable_entry(x, l) : l \in PD..PML4}
        /\ x' = b + 1
        /\ UNCHANGED <<mem_map, mapping, next_entry, stage>>
    BY Zenon DEF MapBlock
  <1> HIDE DEF b, W
  <1>6. TablesInv'
    <2>1. ASSUME NEW v \in DOMAIN ptes
          PROVE  /\ v \in Aligned /\ ptes'[v] = Expected(v)
                 /\ \A l \in PD..PML4 : pgtable_entry(v, l) \in tables'
      BY <1>4, <1>5, Zenon DEF TablesInv
    <2>2. ASSUME NEW v \in W
          PROVE  /\ v \in Aligned /\ ptes'[v] = Expected(v)
                 /\ \A l \in PD..PML4 : pgtable_entry(v, l) \in tables'
      <3>1. v \in Aligned /\ v \in Int /\ x <= v /\ v <= b
        BY <1>3, Zenon DEF Aligned
      <3>2. \A l \in PD..PML4 : pgtable_entry(v, l) \in tables'
        BY <1>2, <1>5, <3>1, Zenon
      <3>3. \/ mapping.offset = 0 /\ y < OFFSET
            \/ mapping.offset = OFFSET /\ OFFSET <= x /\ y < OFFSET + DirectRange
            \/ mapping.offset = ImageOffset /\ OFFSET + DirectRange <= x
        BY Constants DEF MapBlock, MappingInv, phys_to_virt, OFFSET
      <3>4. v - mapping.offset = Expected(v)
        <4>1. Expected(v) = IF v < OFFSET THEN v
                            ELSE IF v < OFFSET + DirectRange THEN v - OFFSET ELSE v - ImageOffset
          BY Constants DEF Expected, phys_to_virt, OFFSET
        <4> QED
          BY <1>1, <1>2, <3>1, <3>3, <4>1, Constants
      <3> QED
        BY <1>4, <3>1, <3>2, <3>4, Zenon
    <2> QED
      BY <1>4, <2>1, <2>2, Zenon DEF TablesInv, Expected, pgtable_entry
  <1>7. MappingInv'
    <2>1. curr_vaddr' \in Int /\ mapping' \in [end : Int, offset : Int]
      BY <1>2, <1>5 DEF MappingInv
    <2>2. ~ RangeMapped' => b # y
      BY <1>1, <1>2, <1>5 DEF RangeMapped
    <2>3. ~ RangeMapped' => curr_vaddr' \in Aligned
      BY <1>2, <1>5, <2>2, Zenon
    <2>4. x <= x' /\ ~ RangeMapped
      BY <1>1, <1>2, <1>5 DEF MapBlock
    <2> QED
      BY <1>1, <1>2, <1>5, <2>1, <2>3, <2>4, Constants DEF MappingInv, phys_to_virt, OFFSET
  <1>8. \A v \in Aligned : Reached(v) => Reached(v)'
    BY <1>1, <1>2, <1>3, <1>4, <1>5 DEF Reached, Aligned
  <1>9. DOMAIN ptes \subseteq DOMAIN ptes'
    BY <1>4, Zenon
  <1>10. MapInv' /\ CompleteInv'
    BY <1>5, <1>9, Zenon DEF MapInv, CompleteInv, EntryPages
  <1>11. ReachInv'
    <2>1. stage' # "up"
      BY <1>5, Zenon DEF MapBlock, ReachInv
    <2> QED
      BY <1>5, <1>8, <2>1, NeededPages, Constants, Zenon DEF ReachInv, EntryPages
  <1> QED
    BY <1>6, <1>7, <1>10, <1>11, Zenon

\* When a range has been mapped, what was to be reached is mapped; so the next
\* mapping may start.
LEMMA NextMapping ==
    ASSUME SpaceInv, RangeMapped, UNCHANGED page_tables, NEW v \in Aligned, Reached(v)
    PROVE  v \in DOMAIN ptes /\ Reached(v)'
  BY DEF SpaceInv, MappingInv, RangeMapped, Reached, Aligned, page_tables

\* raw_identity_map_mmio_page maps a page among those of devices.
LEMMA DevicePage ==
    ASSUME SpaceInv, NEW a \in {LapicBase, HPET_BASE}, raw_identity_map_mmio_page(a)
    PROVE  MappingInv' /\ Reached(a)'
  <1>1. a \in Aligned /\ a \in Int /\ a < OFFSET /\ OFFSET \in Int
    BY Constants, Zenon DEF Aligned
  <1>2. a + PAGE_SIZE <= OFFSET
    BY <1>1, AlignedSums, Constants, Zenon
  <1>3. curr_vaddr' = a /\ mapping' = [end |-> a + PAGE_SIZE - 1, offset |-> 0]
    BY <1>1, PageAlign, Constants DEF raw_identity_map_mmio_page, directly_map_phys_range
  <1>4. MappingInv'
    BY <1>1, <1>2, <1>3, Constants DEF MappingInv
  <1>5. Reached(a)'
    BY <1>1, <1>3, Constants DEF Reached
  <1> QED
    BY <1>4, <1>5, Zenon

\* The steps that change no mapping: a failure ends the set-up, and the others
\* leave a range behind that has been mapped.
LEMMA QuietSteps ==
    ASSUME SpaceInv, UNCHANGED <<mem_map, page_tables, mapping, curr_vaddr, next_entry>>,
           \/ stage' = "dead"
           \/ setup_direct_mapping_from_memmap
           \/ SwitchAddrSpace
           \/ compute_tsc_frequency /\ stage' = "up"
           \/ init_hpet
           \/ stage' = stage
    PROVE  SpaceInv'
  <1> USE DEF SpaceInv
  <1>1. TablesInv' /\ MappingInv'
    BY Zenon DEF TablesInv, MappingInv, RangeMapped, Expected, pgtable_entry, page_tables
  <1>2. \A v : Reached(v)' <=> Reached(v)
    BY Zenon DEF Reached, page_tables
  <1>3. \A i : EntryPages(i)' = EntryPages(i)
    BY Zenon DEF EntryPages
  <1>4. DOMAIN ptes' = DOMAIN ptes /\ (RangeMapped' <=> RangeMapped)
    BY Zenon DEF page_tables, RangeMapped
  <1>5. CASE stage' = "dead"
    <2>1. MapInv' /\ ReachInv' /\ CompleteInv'
      BY <1>2, <1>3, <1>5, Zenon DEF MapInv, ReachInv, CompleteInv
    <2> QED
      BY <1>1, <2>1, Zenon
  <1>6. CASE setup_direct_mapping_from_memmap /\ stage' # "dead"
    <2>1. stage = "apic" /\ stage' = "memmap" /\ phys_memory_fits(mem_map)
      BY <1>6, Zenon DEF setup_direct_mapping_from_memmap, At, Die
    <2>2. MapInv' /\ ReachInv' /\ CompleteInv'
      BY <1>2, <1>3, <2>1, Zenon DEF MapInv, ReachInv, CompleteInv
    <2> QED
      BY <1>1, <2>2, Zenon
  <1>7. CASE SwitchAddrSpace
    <2>1. stage = "hypervisor" /\ stage' = "live" /\ RangeMapped
      BY <1>7, Zenon DEF SwitchAddrSpace, At
    <2>2. MapInv' /\ ReachInv'
      BY <1>2, <1>3, <2>1, Zenon DEF MapInv, ReachInv
    <2>3. \A v \in Aligned : Reached(v) => v \in DOMAIN ptes
      BY <2>1, NextMapping, Zenon
    <2>4. LapicBase \in DOMAIN ptes
      BY <2>1, <2>3, Constants, Zenon DEF ReachInv
    <2>5. \A i \in DOMAIN mem_map : DirectlyMapped(mem_map[i]) => EntryPages(i) \subseteq DOMAIN ptes
      <3>1. \A i \in DOMAIN mem_map : i < next_entry
        BY <2>1, MapFacts DEF ReachInv, MapInv
      <3> QED
        BY <2>3, <3>1, NeededPages, Zenon DEF ReachInv
    <2>6. ImagePages \subseteq DOMAIN ptes
      BY <2>1, <2>3, NeededPages, Zenon DEF ReachInv
    <2>7. CompleteInv'
      BY <1>3, <1>4, <2>4, <2>5, <2>6, Zenon DEF CompleteInv
    <2> QED
      BY <1>1, <2>2, <2>7, Zenon
  <1>8. CASE (compute_tsc_frequency \/ init_hpet) /\ stage' = "up"
    <2>1. stage \in {"live", "hpet"} /\ RangeMapped
      BY <1>8, Zenon DEF compute_tsc_frequency, init_hpet, At
    <2>2. MapInv' /\ ReachInv' /\ CompleteInv'
      BY <1>2, <1>3, <1>4, <1>8, <2>1, Zenon DEF MapInv, ReachInv, CompleteInv
    <2> QED
      BY <1>1, <2>2, Zenon
  <1>9. CASE stage' = stage
    <2>1. MapInv' /\ ReachInv' /\ CompleteInv'
      BY <1>2, <1>3, <1>4, <1>9, Zenon DEF MapInv, ReachInv, CompleteInv
    <2> QED
      BY <1>1, <2>1, Zenon
  <1> QED
    BY <1>5, <1>6, <1>7, <1>8, <1>9, Zenon DEF init_hpet, Die

\* The page of the local APIC, or none for the PML4.
LEMMA MapApicPageStep == SpaceInv /\ MapApicPage => SpaceInv'
  <1> SUFFICES ASSUME SpaceInv, MapApicPage PROVE SpaceInv'
    BY Zenon
  <1>1. CASE Die
    BY <1>1, QuietSteps, Zenon DEF Die
  <1>2. CASE ~ Die
    <2>1. /\ stage = "start" /\ stage' = "apic" /\ RangeMapped
          /\ raw_identity_map_mmio_page(LapicBase)
          /\ UNCHANGED <<mem_map, page_tables, next_entry>>
      BY <1>2, Zenon DEF MapApicPage, At
    <2>2. MappingInv' /\ Reached(LapicBase)'
      BY <2>1, DevicePage, Zenon
    <2>3. \A v \in Aligned : Reached(v) => Reached(v)'
      BY <2>1, NextMapping, Zenon
    <2>4. TablesInv'
      BY <2>1, Zenon DEF SpaceInv, TablesInv, Expected, pgtable_entry, page_tables
    <2>5. ReachInv'
      BY <2>1, <2>2, <2>3, NeededPages, Zenon DEF SpaceInv, ReachInv, EntryPages
    <2>6. MapInv' /\ CompleteInv'
      BY <2>1, Zenon DEF SpaceInv, MapInv, CompleteInv
    <2> QED
      BY <2>2, <2>4, <2>5, <2>6, Zenon DEF SpaceInv
  <1> QED
    BY <1>1, <1>2, Zenon

\* The page of the HPET is added to the tables in use.
LEMMA HpetPageStep ==
    ASSUME SpaceInv, At("live"), raw_identity_map_mmio_page(HPET_BASE), stage' = "hpet",
           UNCHANGED <<mem_map, page_tables, next_entry>>
    PROVE  SpaceInv'
  <1>1. MappingInv' /\ Reached(HPET_BASE)'
    BY DevicePage, Zenon
  <1>2. \A v \in Aligned : Reached(v) => Reached(v)'
    BY NextMapping, Zenon DEF At
  <1>3. TablesInv'
    BY Zenon DEF SpaceInv, TablesInv, Expected, pgtable_entry, page_tables
  <1>4. ReachInv'
    BY <1>1, <1>2, NeededPages, Constants, Zenon DEF SpaceInv, ReachInv, EntryPages, At
  <1>5. MapInv' /\ CompleteInv'
    BY Zenon DEF SpaceInv, MapInv, CompleteInv, EntryPages, At, page_tables
  <1> QED
    BY <1>1, <1>3, <1>4, <1>5, Zenon DEF SpaceInv

\* An entry of the memory map is mapped behind phys_to_virt, or passed over.
LEMMA MapEntryStep == SpaceInv /\ MapEntry => SpaceInv'
  <1> SUFFICES ASSUME SpaceInv, MapEntry PROVE SpaceInv'
    BY Zenon
  <1> DEFINE n == next_entry
             first == mem_map[n].start
             last == mem_map[n].end
  <1>1. /\ stage = "memmap" /\ RangeMapped /\ n' = n + 1 /\ n <= Len(mem_map)
        /\ UNCHANGED <<mem_map, page_tables, stage>>
    BY Zenon DEF MapEntry, At
  <1>2. n \in DOMAIN mem_map /\ n \in Nat /\ first \in Nat /\ last \in Int
    BY <1>1, MapFacts DEF SpaceInv, MapInv
  <1>3. DirectlyMapped(mem_map[n]) =>
           /\ curr_vaddr' = PAGE_ALIGN(first) + OFFSET
           /\ mapping' = [end |-> last + OFFSET, offset |-> OFFSET]
    BY Zenon DEF MapEntry, directly_map_phys_range, OFFSET
  <1>4. ~ DirectlyMapped(mem_map[n]) => UNCHANGED <<mapping, curr_vaddr>>
    BY Zenon DEF MapEntry
  <1>5. /\ PAGE_ALIGN(first) \in Aligned /\ PAGE_ALIGN(first) \in Int /\ PAGE_ALIGN(first) >= 0
        /\ DirectlyMapped(mem_map[n]) => last < DirectRange
    BY <1>1, <1>2, PageAlign, MapFacts DEF SpaceInv, MapInv
  <1>6. MappingInv'
    <2>1. CASE DirectlyMapped(mem_map[n])
      <3>1. PAGE_ALIGN(first) + OFFSET \in Aligned
        BY <1>5, AlignedSums, Constants, Zenon
      <3>2. OFFSET <= curr_vaddr' /\ mapping'.end < phys_to_virt(DirectRange)
        BY <1>2, <1>3, <1>5, <2>1, Constants DEF phys_to_virt, OFFSET
      <3> QED
        BY <1>2, <1>3, <1>5, <2>1, <3>1, <3>2, Constants DEF MappingInv
    <2>2. CASE ~ DirectlyMapped(mem_map[n])
      BY <1>4, <2>2, Zenon DEF SpaceInv, MappingInv, RangeMapped
    <2> QED
      BY <2>1, <2>2, Zenon
  <1>7. \A v \in Aligned : Reached(v) => Reached(v)'
    BY <1>1, NextMapping, Zenon
  <1>8. DirectlyMapped(mem_map[n]) => \A v \in EntryPages(n) : Reached(v)'
    <2> SUFFICES ASSUME DirectlyMapped(mem_map[n]), NEW v \in EntryPages(n)
                 PROVE  Reached(v)'
      BY Zenon
    <2>1. v \in Int /\ OFFSET + PAGE_ALIGN(first) <= v /\ v <= OFFSET + last
      BY <1>2, NeededPages, Zenon DEF SpaceInv
    <2>2. curr_vaddr' <= v /\ v <= mapping'.end
      BY <1>2, <1>3, <1>5, <2>1, Constants
    <2> QED
      BY <2>2, Zenon DEF Reached
  <1>9. ReachInv'
    <2>1. ASSUME NEW i \in DOMAIN mem_map, i < n', DirectlyMapped(mem_map[i]), NEW v \in EntryPages(i)
          PROVE  Reached(v)'
      <3>1. i = n \/ i < n
        BY <1>1, <1>2, <2>1, MapFacts DEF SpaceInv
      <3>2. CASE i = n
        BY <1>8, <2>1, <3>2, Zenon
      <3>3. CASE i < n
        BY <1>7, <2>1, <3>3, NeededPages, Zenon DEF SpaceInv, ReachInv
      <3> QED
        BY <3>1, <3>2, <3>3, Zenon
    <2> HIDE DEF n, first, last
    <2>2. Reached(LapicBase)'
      BY <1>1, <1>7, Constants, Zenon DEF SpaceInv, ReachInv
    <2> QED
      BY <1>1, <2>1, <2>2, Zenon DEF ReachInv, EntryPages, n
  <1>10. TablesInv' /\ CompleteInv'
    BY <1>1, Zenon DEF SpaceInv, TablesInv, CompleteInv, Expected, pgtable_entry, page_tables
  <1>11. MapInv'
    BY <1>1, <1>2 DEF SpaceInv, MapInv
  <1> QED
    BY <1>6, <1>9, <1>10, <1>11, Zenon DEF SpaceInv

\* The image is mapped where it is linked.
LEMMA MapHypervisorStep == SpaceInv /\ MapHypervisor => SpaceInv'
  <1> SUFFICES ASSUME SpaceInv, MapHypervisor PROVE SpaceInv'
    BY Zenon
  <1> DEFINE ps == hypervisor_region.paddr_start
             vs == hypervisor_region.vaddr_start
             len == hypervisor_region.length
  <1>1. /\ stage = "memmap" /\ stage' = "hypervisor" /\ RangeMapped /\ next_entry > Len(mem_map)
        /\ UNCHANGED <<mem_map, page_tables, next_entry>>
    BY Zenon DEF MapHypervisor, At
  <1>2. /\ vs \in Aligned /\ vs \in Int /\ ps \in Int /\ len \in Nat /\ PAGE_ALIGN(ps) = ps
        /\ OFFSET + DirectRange <= vs
    BY Constants, PageAlign, Zenon DEF Aligned
  <1>3. /\ curr_vaddr' = PAGE_ALIGN(ps) + (vs - ps)
        /\ mapping' = [end |-> (ps + len - 1) + (vs - ps), offset |-> vs - ps]
    BY Zenon DEF MapHypervisor, directly_map_phys_range
  <1>4. curr_vaddr' = vs /\ mapping' = [end |-> vs + len - 1, offset |-> ImageOffset]
    BY <1>2, <1>3 DEF ImageOffset
  <1>5. MappingInv'
    <2>1. ImageOffset \in Int /\ phys_to_virt(DirectRange) <= curr_vaddr'
      BY <1>2, <1>4, Constants DEF ImageOffset, phys_to_virt, OFFSET
    <2> QED
      BY <1>2, <1>4, <2>1 DEF MappingInv
  <1>6. \A v \in Aligned : Reached(v) => Reached(v)'
    BY <1>1, NextMapping, Zenon
  <1>7. \A v \in ImagePages : Reached(v)'
    BY <1>4, NeededPages, Zenon DEF SpaceInv, Reached
  <1>8. ReachInv'
    BY <1>1, <1>6, <1>7, NeededPages, Constants, Zenon DEF SpaceInv, ReachInv, EntryPages
  <1>9. TablesInv' /\ MapInv' /\ CompleteInv'
    BY <1>1, Zenon DEF SpaceInv, TablesInv, MapInv, CompleteInv, Expected, pgtable_entry, page_tables
  <1> QED
    BY <1>5, <1>8, <1>9, Zenon DEF SpaceInv

\* Every step of the set-up keeps the invariant.
LEMMA SpaceStep == SpaceInv /\ [SpaceNext]_space_vars => SpaceInv'
  <1> SUFFICES ASSUME SpaceInv, [SpaceNext]_space_vars PROVE SpaceInv'
    BY Zenon
  <1>1. CASE MapBlock
    BY <1>1, MapBlockStep, Zenon
  <1>2. CASE InitEntryFails
    BY <1>2, QuietSteps, Zenon DEF InitEntryFails, Die
  <1>3. CASE MapApicPage
    BY <1>3, MapApicPageStep, Zenon
  <1>4. CASE setup_direct_mapping_from_memmap
    BY <1>4, QuietSteps, Zenon DEF setup_direct_mapping_from_memmap, Die
  <1>5. CASE MapEntry
    BY <1>5, MapEntryStep, Zenon
  <1>6. CASE MapHypervisor
    BY <1>6, MapHypervisorStep, Zenon
  <1>7. CASE SwitchAddrSpace
    BY <1>7, QuietSteps, Zenon DEF SwitchAddrSpace
  <1>8. CASE compute_tsc_frequency
    BY <1>8, QuietSteps, HpetPageStep, Zenon DEF compute_tsc_frequency, Die
  <1>9. CASE init_hpet
    BY <1>9, QuietSteps, Zenon DEF init_hpet, Die
  <1>10. CASE UNCHANGED space_vars
    BY <1>10, QuietSteps, Zenon DEF space_vars
  <1> QED
    BY <1>1, <1>2, <1>3, <1>4, <1>5, <1>6, <1>7, <1>8, <1>9, <1>10, Zenon DEF SpaceNext

\* A page that has been mapped resolves to what its region says.
LEMMA MappedResolves ==
    ASSUME SpaceInv, NEW v \in Aligned, v \in DOMAIN ptes
    PROVE  ResolvesTo(v, Expected(v))
  <1>1. PAGE_ALIGN(v) = v /\ v % PAGE_SIZE = 0 /\ v \in Int
    BY PageAlign, Zenon DEF Aligned
  <1>2. Expected(v) \in Int
    BY <1>1, Constants DEF Expected, ImageOffset, OFFSET, Aligned
  <1> QED
    BY <1>1, <1>2 DEF SpaceInv, TablesInv, ResolvesTo, Resolves, Resolved

\* The invariant implies that the address space is complete.
LEMMA InvComplete == SpaceInv => SpaceComplete
  <1> SUFFICES ASSUME SpaceInv PROVE SpaceComplete
    BY Zenon
  <1> USE DEF SpaceInv
  <1>1. ASSUME stage \in {"live", "hpet", "up"}, NEW i \in DOMAIN mem_map, DirectlyMapped(mem_map[i]),
               NEW p \in PagesOf(mem_map[i].start, mem_map[i].end)
        PROVE  ResolvesTo(phys_to_virt(p), p)
    <2> DEFINE v == phys_to_virt(p)
    <2>1. v \in EntryPages(i)
      BY Zenon DEF EntryPages
    <2>2. v \in DOMAIN ptes
      BY <1>1, <2>1, Zenon DEF CompleteInv
    <2>3. v \in Aligned /\ v \in Int /\ OFFSET <= v /\ v <= OFFSET + mem_map[i].end
      BY <2>1, NeededPages, Zenon
    <2>4. mem_map[i].end \in Int /\ mem_map[i].end < DirectRange
      BY <1>1, MapFacts, Zenon DEF MapInv
    <2>5. p \in Int
      BY MapFacts, PagesOfRange DEF Aligned
    <2>6. v = p + OFFSET
      BY Zenon DEF phys_to_virt, OFFSET
    <2>7. Expected(v) = p
      <3>1. ~ (v < OFFSET) /\ v < DirectRange + OFFSET
        BY <2>3, <2>4, Constants
      <3>2. Expected(v) = v - OFFSET
        BY <3>1, Zenon DEF Expected, phys_to_virt, OFFSET
      <3> QED
        BY <2>5, <2>6, <3>2, Constants
    <2> HIDE DEF v
    <2>8. ResolvesTo(v, p)
      BY <2>2, <2>3, <2>7, MappedResolves, Zenon
    <2> QED
      BY <2>8, Zenon DEF v
  <1>2. ASSUME stage \in {"live", "hpet", "up"}, NEW v \in ImagePages
        PROVE  ResolvesTo(v, v - hypervisor_region.vaddr_start + hypervisor_region.paddr_start)
    <2>1. v \in Aligned /\ v \in Int /\ hypervisor_region.vaddr_start <= v
      BY NeededPages, Zenon
    <2>2. hypervisor_region.vaddr_start \in Int /\ hypervisor_region.paddr_start \in Int
      BY Constants, Zenon DEF Aligned
    <2>3. ~ (v < OFFSET) /\ ~ (v < DirectRange + OFFSET)
      BY <2>1, <2>2, Constants
    <2>4. Expected(v) = v - (hypervisor_region.vaddr_start - hypervisor_region.paddr_start)
      BY <2>3, Zenon DEF Expected, phys_to_virt, OFFSET, ImageOffset
    <2>5. Expected(v) = v - hypervisor_region.vaddr_start + hypervisor_region.paddr_start
      BY <2>1, <2>2, <2>4
    <2>6. v \in DOMAIN ptes
      BY <1>2, Zenon DEF CompleteInv
    <2> QED
      BY <2>1, <2>5, <2>6, MappedResolves, Zenon
  <1>3. ASSUME NEW a \in {LapicBase, HPET_BASE}, a \in DOMAIN ptes
        PROVE  ResolvesTo(a, a)
    <2>1. a \in Aligned /\ a < OFFSET
      BY Constants, Zenon
    <2>2. Expected(a) = a
      BY <2>1, Zenon DEF Expected
    <2> QED
      BY <1>3, <2>1, <2>2, MappedResolves, Zenon
  <1>4. At("hpet") => HPET_BASE \in DOMAIN ptes
    BY Constants DEF At, RangeMapped, ReachInv, Reached, MappingInv, Aligned
  <1>5. stage \in {"live", "hpet", "up"} => LapicBase \in DOMAIN ptes
    BY Zenon DEF CompleteInv
  <1> QED
    BY <1>1, <1>2, <1>3, <1>4, <1>5, Zenon DEF SpaceComplete, ImagePages

-----------------------------------------------------------------------------
(* The memory of a VM *)

\* The guest address a translates to the host address h.
Maps(a, h) ==
    \E l \in LeafLevels(a) : entries[EntryOf(a, l)].paddr + (a % BlockSize(l)) = h

EptTypeOK ==
    /\ mb_pages \in BOOLEAN /\ gb_pages \in BOOLEAN
    /\ level \in Levels /\ curr \in Nat
    /\ req \in [guest_paddr_start : Nat, end : Nat, offset : Int,
                use_mb_mappings : BOOLEAN, use_gb_mappings : BOOLEAN]
    /\ phase \in {"start", "ram", "mapped", "apic", "ready", "failed"}
    /\ ram \in [start : Nat, end : Int, req_bytes : Nat]
    /\ apic_page \in Int

\* Where the loops are: inside the range, in tables that are present.
WalkInv ==
    Mapping =>
        /\ curr <= req.end /\ curr \in Aligned /\ req.offset \in Aligned
        /\ \A u \in Levels : u > level =>
              /\ is_ept_entry_present(EntryOf(curr, u))
              /\ ~ entries[EntryOf(curr, u)].maps_page

\* What they work on.
RequestInv ==
    /\ phase = "start" => entries = << >>
    /\ phase = "ram" =>
         /\ req.end = ram.req_bytes /\ req.offset = ram.start
         /\ req.use_mb_mappings = mb_pages
    /\ phase = "apic" =>
         /\ req.end = APIC_MEM_BASE + PAGE_SIZE /\ req.offset = apic_page - APIC_MEM_BASE
         /\ ~ req.use_mb_mappings /\ ~ req.use_gb_mappings
         /\ APIC_MEM_BASE <= curr

\* Where the memory comes from.
HostInv ==
    /\ phase # "start" => stage = "up"
    /\ phase \in {"ram", "mapped", "apic", "ready"} =>
         /\ ram.start \in Aligned
         /\ ram.end = ram.start + bytes_to_nr_pages(ram.req_bytes) * PAGE_SIZE - 1
         /\ Usable(ram.start, ram.end)

\* What has been mapped so far.
CoverInv ==
    /\ ~ mb_pages =>
         /\ phase = "ram" => \A a \in Nat : a < curr => Maps(a, a + ram.start)
         /\ RamMapped => \A a \in Nat : a <= ram.req_bytes => Maps(a, a + ram.start)
         /\ OnlyRequested
    /\ phase = "apic" => curr = APIC_MEM_BASE \/ Maps(APIC_MEM_BASE, apic_page)
    /\ phase = "ready" => Maps(APIC_MEM_BASE, apic_page)

EptInv == EptTypeOK /\ WalkInv /\ RequestInv /\ HostInv /\ CoverInv

-----------------------------------------------------------------------------
(* The address space *)

\* The invariant of the address space is kept while VMs are created.
THEOREM SpaceInvariance == Spec => []SpaceInv
  <1>1. Init => SpaceInv
    BY InitInv, Zenon DEF Init
  <1>2. SpaceInv /\ [Next]_vars => SpaceInv'
    BY SpaceStep, Zenon DEF Next, vars
  <1> QED
    BY <1>1, <1>2, PTL DEF Spec

\* From the write of CR3 on, create_addr_space has mapped everything that the
\* hypervisor uses where it looks for it, for every memory map.
THEOREM AddressSpaceIsComplete == Spec => []SpaceComplete
  BY SpaceInvariance, InvComplete, PTL

\* One step leaves the entries alone that are present.
LEMMA StableStep ==
    [Next]_vars =>
        [/\ \A e \in DOMAIN entries : e \in DOMAIN entries' /\ entries'[e] = entries[e]
         /\ \A v \in DOMAIN ptes : v \in DOMAIN ptes' /\ ptes'[v] = ptes[v]
         /\ tables \subseteq tables']_<<entries, page_tables>>
  <1> SUFFICES ASSUME [Next]_vars
               PROVE  /\ \A e \in DOMAIN entries : e \in DOMAIN entries' /\ entries'[e] = entries[e]
                      /\ \A v \in DOMAIN ptes : v \in DOMAIN ptes' /\ ptes'[v] = ptes[v]
                      /\ tables \subseteq tables'
    BY Zenon
  <1>1. UNCHANGED page_tables \/ MapBlock
    BY Zenon DEF Next, SpaceNext, vars, space_vars, InitEntryFails, MapApicPage, Die,
           setup_direct_mapping_from_memmap, MapEntry, MapHypervisor, SwitchAddrSpace,
           compute_tsc_frequency, init_hpet
  <1>2. \/ UNCHANGED entries
        \/ \E e : /\ e \notin DOMAIN entries
                  /\ \E new : entries' = [x \in DOMAIN entries \cup {e} |->
                                            IF x = e THEN new ELSE entries[x]]
    BY Zenon DEF Next, VmNext, vars, vm_vars, VirtualizeGuestMem, PrepareApic, MapStep, RefuseMapping,
           MapPage, EnterTable, AllocateTableFails, Copy, copy_to_vm_gpaddr, Fail,
           is_ept_entry_present
  <1>3. \A v \in DOMAIN ptes : v \in DOMAIN ptes' /\ ptes'[v] = ptes[v]
    BY <1>1, Zenon DEF page_tables, MapBlock, WritePtes, AbsentPtes
  <1>4. tables \subseteq tables'
    BY <1>1, Zenon DEF page_tables, MapBlock
  <1>5. \A e \in DOMAIN entries : e \in DOMAIN entries' /\ entries'[e] = entries[e]
    BY <1>2, Zenon
  <1> QED
    BY <1>3, <1>4, <1>5, Zenon

\* No mapping changes what an address translates to already, neither in the
\* extended page tables nor in those of the hypervisor.
THEOREM TranslationsAreStable == Spec => TranslationsStable
  BY StableStep, PTL DEF Spec, TranslationsStable

-----------------------------------------------------------------------------
(* Blocks of the four levels *)

\* The size of blocks: a page for a PT entry, and 2 ^ TableBits times more with
\* every level.
LEMMA BlockSizes ==
    /\ \A l \in Levels : BlockSize(l) \in Nat \ {0}
    /\ BlockSize(1) = PAGE_SIZE
    /\ 2 ^ TableBits \in Nat \ {0}
    /\ BlockSize(2) = 2 ^ TableBits * BlockSize(1)
    /\ BlockSize(3) = 2 ^ TableBits * BlockSize(2)
    /\ BlockSize(4) = 2 ^ TableBits * BlockSize(3)
  <1>1. \A l : BlockSize(l) = ENTRY_RANGE_BYTES(l)
    BY Zenon DEF BlockSize, ENTRY_RANGE_BYTES
  <1> QED
    BY <1>1, Ranges, PowerAssumption DEF Levels, PT, PD, PDPT, PML4

\* The levels.
LEMMA LevelNames == Levels = {1, 2, 3, 4} /\ PT = 1 /\ PD = 2 /\ PDPT = 3 /\ PML4 = 4
  BY DEF Levels, PT, PD, PDPT, PML4

\* Addresses in one block are in one block of every higher level.
LEMMA SameBlocks ==
    ASSUME NEW a \in Int, NEW b \in Int, NEW l \in Levels, a \div BlockSize(l) = b \div BlockSize(l),
           NEW u \in Levels, u >= l
    PROVE  EntryOf(a, u) = EntryOf(b, u)
  <1> DEFINE B(k) == BlockSize(k)
             n == 2 ^ TableBits
             Same(k) == a \div B(k) = b \div B(k)
  <1>1. /\ n \in Nat \ {0} /\ \A k \in {1, 2, 3, 4} : B(k) \in Nat \ {0}
        /\ B(2) = n * B(1) /\ B(3) = n * B(2) /\ B(4) = n * B(3)
    BY BlockSizes, LevelNames, Zenon
  <1> HIDE DEF B, n
  <1>2. Same(1) => Same(2)
    BY <1>1, SameLargerBlock
  <1>3. Same(2) => Same(3)
    BY <1>1, SameLargerBlock
  <1>4. Same(3) => Same(4)
    BY <1>1, SameLargerBlock
  <1>5. Same(l)
    BY Zenon DEF B
  <1> HIDE DEF Same
  <1>6. Same(u)
    BY <1>2, <1>3, <1>4, <1>5, LevelNames
  <1> QED
    BY <1>6, Zenon DEF Same, B, EntryOf

\* block_end (ept.h) is the end of the block of an address, and a new page
\* begins behind it.
LEMMA BlockEnd ==
    ASSUME NEW c \in Int, NEW l \in Levels
    PROVE  /\ block_end(c, l) \in Int /\ c <= block_end(c, l)
           /\ block_end(c, l) < c + BlockSize(l)
           /\ c % BlockSize(l) = 0 => block_end(c, l) = c + BlockSize(l) - 1
           /\ (block_end(c, l) + 1) % BlockSize(l) = 0
           /\ \A a \in Int : c <= a /\ a <= block_end(c, l) =>
                 /\ a \div BlockSize(l) = c \div BlockSize(l)
                 /\ \A u \in Levels : u >= l => EntryOf(a, u) = EntryOf(c, u)
  <1> DEFINE B == BlockSize(l)
             q == c \div B
             z == block_end(c, l)
  <1>1. B \in Nat \ {0}
    BY BlockSizes, Zenon
  <1>2. z = (q + 1) * B - 1
    BY Zenon DEF block_end
  <1> HIDE DEF B, z
  <1>3. q \in Int /\ c % B \in Int /\ c = q * B + (c % B) /\ 0 <= c % B /\ c % B < B
    BY <1>1, DivMod, Zenon
  <1> HIDE DEF q
  <1>4. (q + 1) * B = q * B + B /\ q * B \in Int /\ (q + 1) * B \in Int
    BY <1>1, <1>3
  <1>5. /\ z \in Int /\ c <= z /\ z < c + B
        /\ c % B = 0 => z = c + B - 1
    BY <1>1, <1>2, <1>3, <1>4
  <1>6. (z + 1) % B = 0
    <2> DEFINE w == (q + 1) * B
    <2>1. z + 1 = w /\ w \in Int
      BY <1>2, <1>4
    <2>2. w \div B = q + 1
      BY <1>1, <1>3, <1>4, DivUnique
    <2>3. w = (w \div B) * B + (w % B) /\ w % B \in Int
      BY <1>1, <2>1, DivMod, Zenon
    <2>4. w = (q + 1) * B + (w % B)
      BY <2>2, <2>3, Zenon
    <2>5. w % B = 0
      <3> DEFINE r == w % B
      <3>1. r \in Int /\ w = w + r
        BY <2>3, <2>4, Zenon
      <3> HIDE DEF r, w
      <3> QED
        BY <2>1, <3>1 DEF r
    <2> QED
      BY <2>1, <2>5, Zenon
  <1>7. ASSUME NEW a \in Int, c <= a, a <= z
        PROVE  /\ a \div B = q
               /\ \A u \in Levels : u >= l => EntryOf(a, u) = EntryOf(c, u)
    <2>1. q * B <= a /\ a < q * B + B
      BY <1>1, <1>2, <1>3, <1>4, <1>7
    <2>2. a \div B = q
      BY <1>1, <1>3, <2>1, DivUnique, Zenon
    <2> QED
      BY <2>2, SameBlocks, Zenon DEF B, q
  <1> QED
    BY <1>5, <1>6, <1>7, Zenon DEF B, z, q

\* A multiple of a block size is a whole page.
LEMMA BlocksOfPages ==
    ASSUME NEW c \in Int, NEW l \in Levels, c % BlockSize(l) = 0
    PROVE  c \in Aligned
  <1> DEFINE B(k) == BlockSize(k)
             n == 2 ^ TableBits
             P == PAGE_SIZE
  <1>1. /\ n \in Nat \ {0} /\ P \in Nat \ {0}
        /\ B(1) = P /\ B(2) = n * B(1) /\ B(3) = n * B(2) /\ B(4) = n * B(3)
        /\ \A k \in {1, 2, 3, 4} : B(k) \in Nat \ {0}
    BY BlockSizes, LevelNames, PowerAssumption, Zenon
  <1>2. l \in {1, 2, 3, 4} /\ c % B(l) = 0
    BY LevelNames, Zenon
  <1> HIDE DEF B, n
  <1>3. c \div B(l) \in Int /\ c = (c \div B(l)) * B(l)
    <2> DEFINE e == B(l)
    <2>1. e \in Nat \ {0} /\ c % e = 0
      BY <1>1, <1>2, Zenon
    <2> HIDE DEF e
    <2>2. c \div e \in Int /\ c = (c \div e) * e
      BY <2>1, DivMod
    <2> QED
      BY <2>2, Zenon DEF e
  <1>4. \E k \in Nat : B(l) = k * P
    <2>1. B(1) = 1 * P /\ B(2) = n * P
      BY <1>1
    <2>2. B(3) = (n * n) * P
      BY <1>1
    <2>3. B(4) = (n * (n * n)) * P
      BY <1>1
    <2>4. n * n \in Nat /\ n * (n * n) \in Nat
      BY <1>1
    <2> QED
      BY <1>1, <1>2, <2>1, <2>2, <2>3, <2>4, Zenon
  <1>5. PICK k \in Nat : B(l) = k * P
    BY <1>4, Zenon
  <1> DEFINE q == c \div B(l)
  <1>6. q \in Int /\ c = q * (k * P)
    BY <1>3, <1>5, Zenon
  <1> HIDE DEF q
  <1>7. c = (q * k) * P /\ q * k \in Int
    BY <1>1, <1>6
  <1> QED
    BY <1>7, Multiple, Zenon

\* An address that does not begin a block is in the block of the address before.
LEMMA InsideBlock ==
    ASSUME NEW c \in Int, NEW u \in Levels, c % BlockSize(u) # 0
    PROVE  EntryOf(c - 1, u) = EntryOf(c, u)
  <1> DEFINE B == BlockSize(u)
             q == c \div B
  <1>1. B \in Nat \ {0}
    BY BlockSizes, Zenon
  <1> HIDE DEF B
  <1>2. q \in Int /\ c % B \in Int /\ c = q * B + (c % B) /\ 0 <= c % B /\ c % B < B
    BY <1>1, DivMod, Zenon
  <1>3. c % B # 0
    BY Zenon DEF B
  <1> HIDE DEF q
  <1>4. q * B <= c - 1 /\ c - 1 < q * B + B
    BY <1>1, <1>2, <1>3
  <1>5. (c - 1) \div B = q
    BY <1>1, <1>2, <1>4, DivUnique
  <1> QED
    BY <1>5, Zenon DEF EntryOf, B, q

\* The greatest of some levels.
LEMMA GreatestLevel ==
    ASSUME NEW S \in SUBSET Levels, S # {}
    PROVE  Max(S) \in S /\ \A u \in S : u <= Max(S)
  <1>1. S \subseteq {1, 2, 3, 4}
    BY LevelNames, Zenon
  <1>2. \E x \in S : \A y \in S : x >= y
    <2>1. CASE 4 \in S
      BY <1>1, <2>1
    <2>2. CASE 4 \notin S /\ 3 \in S
      BY <1>1, <2>2
    <2>3. CASE 4 \notin S /\ 3 \notin S /\ 2 \in S
      BY <1>1, <2>3
    <2>4. CASE 4 \notin S /\ 3 \notin S /\ 2 \notin S
      <3>1. \A y \in S : y = 1
        BY <1>1, <2>4, Zenon
      <3>2. PICK x \in S : TRUE
        BY Zenon
      <3> QED
        BY <3>1, <3>2
    <2> QED
      BY <2>1, <2>2, <2>3, <2>4, Zenon
  <1> QED
    BY <1>1, <1>2, Zenon DEF Max

-----------------------------------------------------------------------------
(* Translations *)

\* The walk of the processor ends at one entry at most.
LEMMA MapsTranslates ==
    ASSUME NEW a, NEW h, Maps(a, h)
    PROVE  Translates(a) /\ Translation(a) = h
  <1>1. PICK l \in LeafLevels(a) : entries[EntryOf(a, l)].paddr + (a % BlockSize(l)) = h
    BY Zenon DEF Maps
  <1>2. \A k \in LeafLevels(a) : k = l
    BY LevelNames DEF LeafLevels
  <1> QED
    BY <1>1, <1>2, Zenon DEF Translates, Translation

\* What translates goes on doing so when entries are added.
LEMMA MapsGrow ==
    ASSUME \A e \in DOMAIN entries : e \in DOMAIN entries' /\ entries'[e] = entries[e],
           NEW a, NEW h, Maps(a, h)
    PROVE  Maps(a, h)'
  BY Zenon DEF Maps, LeafLevels, is_ept_entry_present, EntryOf, BlockSize

\* The address in an entry of a page, and of 1 GB, is that of the memory.
LEMMA PageEntryAddress ==
    ASSUME NEW x \in Int, NEW l \in {PT, PDPT}, x % BlockSize(l) = 0
    PROVE  PageEntry(l, x) = [maps_page |-> TRUE, paddr |-> x]
  <1> DEFINE e == BlockSize(l)
  <1>1. e \in Nat \ {0} /\ x % e = 0
    BY BlockSizes, LevelNames, Zenon
  <1> HIDE DEF e
  <1>2. x \div e \in Int /\ x = (x \div e) * e
    BY <1>1, DivMod
  <1>3. CASE l = PT
    <2>1. (x \div PAGE_SIZE) * PAGE_SIZE = x
      BY <1>2, <1>3, BlockSizes, LevelNames, Zenon DEF e
    <2>2. ept_pte_set_paddr(x) = x
      BY <2>1, Zenon DEF ept_pte_set_paddr, PAGE_ALIGN
    <2> QED
      BY <1>3, <2>2, LevelNames DEF PageEntry
  <1>4. CASE l = PDPT
    <2> DEFINE n == 2 ^ TableBits
    <2>1. n \in Nat \ {0} /\ PAGE_SIZE \in Nat \ {0} /\ e = n * (n * PAGE_SIZE)
      BY <1>4, BlockSizes, LevelNames, PowerAssumption, Zenon DEF e
    <2>2. 2 ^ (2 * TableBits) = n * n
      BY EptAssumption, Zenon
    <2> DEFINE q == x \div e
    <2>3. q \in Int /\ x = q * e
      BY <1>2, Zenon
    <2> HIDE DEF n, q
    <2>4. (q * (n * n)) * PAGE_SIZE = q * (n * (n * PAGE_SIZE))
      BY <2>1, <2>3
    <2>5. ept_pdpte_set_pf_paddr(x) = x
      BY <1>4, <2>1, <2>2, <2>3, <2>4, Zenon DEF ept_pdpte_set_pf_paddr, GB, q, e
    <2> QED
      BY <1>4, <2>5, LevelNames DEF PageEntry
  <1> QED
    BY <1>3, <1>4, Zenon

-----------------------------------------------------------------------------
(* The mapping loops *)

\* The part of the range the loop is at: it is not empty, and all of it is
\* behind the entry of curr.
LEMMA CurrentPart ==
    ASSUME EptInv, Mapping
    PROVE  /\ CurrEnd \in Nat /\ curr <= CurrEnd /\ CurrEnd <= req.end
           /\ CurrEnd <= block_end(curr, level)
           /\ CurrEnd # req.end => CurrEnd = block_end(curr, level)
           /\ \A a \in Int : curr <= a /\ a <= CurrEnd =>
                 /\ a \div BlockSize(level) = curr \div BlockSize(level)
                 /\ \A u \in Levels : u >= level => EntryOf(a, u) = EntryOf(curr, u)
  <1>1. curr \in Nat /\ level \in Levels /\ req.end \in Nat /\ curr <= req.end
    BY Zenon DEF EptInv, EptTypeOK, WalkInv
  <1>2. /\ block_end(curr, level) \in Int /\ curr <= block_end(curr, level)
        /\ \A a \in Int : curr <= a /\ a <= block_end(curr, level) =>
              /\ a \div BlockSize(level) = curr \div BlockSize(level)
              /\ \A u \in Levels : u >= level => EntryOf(a, u) = EntryOf(curr, u)
    BY <1>1, BlockEnd
  <1>3. CurrEnd = IF req.end <= block_end(curr, level) THEN req.end ELSE block_end(curr, level)
    BY <1>1, <1>2, MinOfTwo DEF CurrEnd
  <1>4. /\ CurrEnd \in Nat /\ curr <= CurrEnd /\ CurrEnd <= req.end
        /\ CurrEnd <= block_end(curr, level)
        /\ CurrEnd # req.end => CurrEnd = block_end(curr, level)
    BY <1>1, <1>2, <1>3
  <1> QED
    BY <1>1, <1>2, <1>4

\* The loops go on behind the part, in tables that are present, or are done.
LEMMA NextBlockWalk ==
    ASSUME EptInv, Mapping, NextBlock, UNCHANGED req,
           \A e \in DOMAIN entries : e \in DOMAIN entries' /\ entries'[e] = entries[e]
    PROVE  /\ curr' = CurrEnd + 1 /\ curr' \in Nat /\ level' \in Levels
           /\ WalkInv'
           /\ \/ phase' = phase /\ curr' <= req.end
              \/ phase = "ram" /\ phase' = "mapped" /\ curr' > req.end
              \/ phase = "apic" /\ phase' = "ready" /\ curr' > req.end
  <1> DEFINE next == CurrEnd + 1
             S == {l \in Levels : next % BlockSize(l) = 0}
  <1>1. /\ curr \in Nat /\ level \in Levels /\ req.end \in Nat /\ curr <= req.end
        /\ curr \in Aligned /\ req.offset \in Aligned
    BY Zenon DEF EptInv, EptTypeOK, WalkInv
  <1>2. curr' = next /\ next \in Nat /\ CurrEnd \in Nat
    BY CurrentPart DEF NextBlock
  <1>3. CASE next <= req.end
    <2>1. level' = Max(S) /\ phase' = phase
      BY <1>3, Zenon DEF NextBlock
    <2>2. CurrEnd # req.end
      BY <1>1, <1>2, <1>3
    <2>3. next = block_end(curr, level) + 1
      BY <2>2, CurrentPart, Zenon
    <2>4. level \in S
      BY <1>1, <2>3, BlockEnd
    <2>5. S \in SUBSET Levels /\ S # {}
      BY <2>4, Zenon
    <2>6. level' \in Levels /\ level' \in S /\ \A u \in S : u <= level'
      <3> HIDE DEF S
      <3>1. Max(S) \in S /\ \A u \in S : u <= Max(S)
        BY <2>5, GreatestLevel, Zenon
      <3> QED
        BY <2>1, <2>5, <3>1, Zenon
    <2>7. next \in Aligned
      <3>1. next % BlockSize(level) = 0
        BY <2>4, Zenon
      <3> HIDE DEF next
      <3> QED
        BY <1>1, <1>2, <3>1, BlocksOfPages
    <2>8. ASSUME NEW u \in Levels, u > level'
          PROVE  /\ EntryOf(next, u) \in DOMAIN entries'
                 /\ ~ entries'[EntryOf(next, u)].maps_page
      <3>1. u > level /\ u >= level
        BY <1>1, <2>4, <2>6, <2>8, LevelNames
      <3>2. next % BlockSize(u) # 0
        <4>1. u \notin S
          BY <2>6, <2>8, LevelNames
        <4> QED
          BY <4>1, Zenon
      <3>3. EntryOf(next - 1, u) = EntryOf(next, u)
        <4> HIDE DEF next
        <4> QED
          BY <1>2, <3>2, InsideBlock
      <3>4. next - 1 = CurrEnd
        BY <1>2
      <3>5. EntryOf(CurrEnd, u) = EntryOf(curr, u)
        BY <1>2, <3>1, CurrentPart
      <3>6. EntryOf(next, u) = EntryOf(curr, u)
        BY <3>3, <3>4, <3>5, Zenon
      <3>7. EntryOf(curr, u) \in DOMAIN entries /\ ~ entries[EntryOf(curr, u)].maps_page
        BY <3>1, Zenon DEF EptInv, WalkInv, is_ept_entry_present
      <3> QED
        BY <3>6, <3>7, Zenon
    <2>9. WalkInv'
      <3> HIDE DEF next, S
      <3> QED
        BY <1>1, <1>2, <1>3, <2>7, <2>8, Zenon DEF WalkInv, is_ept_entry_present, EntryOf, BlockSize
    <2> QED
      BY <1>2, <1>3, <2>1, <2>6, <2>9, Zenon
  <1>4. CASE ~ (next <= req.end)
    <2>1. level' = PML4 /\ phase' = IF phase = "ram" THEN "mapped" ELSE "ready"
      BY <1>4, Zenon DEF NextBlock
    <2>2. ~ Mapping' /\ level' \in Levels
      BY <2>1, LevelNames, Zenon DEF Mapping
    <2>3. next > req.end
      BY <1>1, <1>2, <1>4
    <2> QED
      BY <1>2, <2>1, <2>2, <2>3, Zenon DEF WalkInv, Mapping
  <1> QED
    BY <1>3, <1>4, Zenon

\* A page that is mapped begins with its block, and so does its memory; unless
\* it is one of 2 MB.
LEMMA PageAligned ==
    ASSUME EptInv, MapPage, ~ req.use_mb_mappings
    PROVE  /\ level \in {PT, PDPT}
           /\ curr % BlockSize(level) = 0
           /\ curr + req.offset \in Int /\ (curr + req.offset) % BlockSize(level) = 0
           /\ PAGE_ALIGN(curr + BlockSize(level) - 1) <= CurrEnd
  <1>1. /\ curr \in Nat /\ req.end \in Nat /\ curr \in Aligned
        /\ req.offset \in Aligned /\ req.offset \in Int
    BY Zenon DEF EptInv, EptTypeOK, WalkInv, MapPage
  <1>2. CurrEnd \in Nat /\ curr <= CurrEnd
    BY CurrentPart, Zenon DEF MapPage
  <1>3. CASE level = PT
    <2>1. curr + req.offset \in Aligned
      BY <1>1, AlignedSums, Zenon
    <2>2. BlockSize(level) = PAGE_SIZE
      BY <1>3, BlockSizes, LevelNames, Zenon
    <2>3. PAGE_ALIGN(curr + PAGE_SIZE - 1) <= curr
      <3> DEFINE v == PAGE_ALIGN(curr + PAGE_SIZE - 1)
      <3>1. v \in Aligned /\ v \in Int /\ v <= curr + PAGE_SIZE - 1
        BY <1>1, PageAlign, Constants
      <3> HIDE DEF v
      <3>2. ~ (curr < v)
        BY <1>1, <3>1, AlignedSums, Constants
      <3>3. v <= curr
        BY <1>1, <3>1, <3>2
      <3> QED
        BY <3>3, Zenon DEF v
    <2>4. PAGE_ALIGN(curr + PAGE_SIZE - 1) \in Int
      BY <1>1, PageAlign, Constants
    <2> QED
      BY <1>1, <1>2, <1>3, <2>1, <2>2, <2>3, <2>4 DEF Aligned
  <1>4. CASE level # PT
    <2>1. level = PDPT /\ should_do_gb_mapping(curr, CurrEnd)
      BY <1>4, Zenon DEF MapPage, ShouldDoLarge, should_do_mb_mapping
    <2> DEFINE e == BlockSize(PDPT)
    <2>2. e \in Nat \ {0}
      BY BlockSizes, LevelNames, Zenon
    <2>3. CurrEnd - curr + 1 >= e /\ curr % e = 0 /\ (curr + req.offset) % e = 0
      BY <2>1, Zenon DEF should_do_gb_mapping, GB
    <2> HIDE DEF e
    <2>4. curr + e - 1 \in Int /\ curr + e - 1 <= CurrEnd
      BY <1>1, <1>2, <2>2, <2>3
    <2>5. PAGE_ALIGN(curr + e - 1) \in Int /\ PAGE_ALIGN(curr + e - 1) <= curr + e - 1
      BY <2>4, PageAlign, Zenon
    <2>6. PAGE_ALIGN(curr + e - 1) <= CurrEnd
      BY <1>2, <2>4, <2>5
    <2> QED
      BY <1>1, <2>1, <2>3, <2>6 DEF e
  <1> QED
    BY <1>3, <1>4, Zenon

\* The whole part then translates to its memory.
LEMMA PartTranslates ==
    ASSUME EptInv, MapPage, ~ req.use_mb_mappings, NEW a \in Int, curr <= a, a <= CurrEnd
    PROVE  Maps(a, a + req.offset)'
  <1> DEFINE e == EntryOf(curr, level)
             B == BlockSize(level)
  <1>1. level \in Levels /\ curr \in Nat /\ req.offset \in Int
    BY Zenon DEF EptInv, EptTypeOK
  <1>2. /\ level \in {PT, PDPT} /\ curr % B = 0
        /\ curr + req.offset \in Int /\ (curr + req.offset) % B = 0
    BY PageAligned, Zenon
  <1>3. PageEntry(level, curr + req.offset) = [maps_page |-> TRUE, paddr |-> curr + req.offset]
    BY <1>2, PageEntryAddress, Zenon
  <1>4. /\ e \in DOMAIN entries' /\ entries'[e] = [maps_page |-> TRUE, paddr |-> curr + req.offset]
        /\ \A x \in DOMAIN entries : x # e => x \in DOMAIN entries' /\ entries'[x] = entries[x]
    BY <1>3, Zenon DEF MapPage
  <1>5. /\ a \div B = curr \div B
        /\ \A u \in Levels : u >= level => EntryOf(a, u) = EntryOf(curr, u)
    BY CurrentPart, Zenon DEF MapPage
  <1>6. EntryOf(a, level) = e
    BY <1>1, <1>5, LevelNames
  <1>7. ASSUME NEW u \in Levels, u > level
        PROVE  EntryOf(a, u) \in DOMAIN entries' /\ ~ entries'[EntryOf(a, u)].maps_page
    <2>1. EntryOf(a, u) = EntryOf(curr, u)
      BY <1>1, <1>5, <1>7, LevelNames
    <2>2. EntryOf(curr, u) \in DOMAIN entries /\ ~ entries[EntryOf(curr, u)].maps_page
      BY <1>7, Zenon DEF EptInv, WalkInv, MapPage, is_ept_entry_present
    <2>3. EntryOf(curr, u) # e
      BY <1>1, <1>7, LevelNames DEF EntryOf
    <2> QED
      BY <1>4, <2>1, <2>2, <2>3, Zenon
  <1>8. a % B = a - curr
    <2>1. B \in Nat \ {0}
      BY <1>1, BlockSizes, Zenon
    <2> HIDE DEF B
    <2>2. a = (a \div B) * B + (a % B) /\ curr = (curr \div B) * B + (curr % B)
          /\ curr \div B \in Int /\ a % B \in Int
      BY <1>1, <2>1, DivMod
    <2>3. a = (curr \div B) * B + (a % B) /\ curr = (curr \div B) * B
      BY <1>1, <1>2, <1>5, <2>1, <2>2
    <2> DEFINE w == (curr \div B) * B
               r == a % B
    <2>4. w \in Int /\ r \in Int /\ a = w + r /\ curr = w
      BY <1>1, <2>2, <2>3
    <2> HIDE DEF w, r
    <2>5. r = a - curr
      BY <2>4
    <2> QED
      BY <2>5, Zenon DEF r
  <1>9. entries'[EntryOf(a, level)].paddr + (a % B) = a + req.offset
    BY <1>1, <1>4, <1>6, <1>8
  <1>10. level \in LeafLevels(a)'
    BY <1>1, <1>4, <1>6, <1>7 DEF LeafLevels, is_ept_entry_present, EntryOf, BlockSize
  <1>11. req' = req
    BY Zenon DEF MapPage
  <1> HIDE DEF e
  <1> QED
    BY <1>9, <1>10, <1>11, Zenon DEF Maps, EntryOf, BlockSize

\* A page entry outside the request is never written.
LEMMA MapPageOnly ==
    ASSUME EptInv, MapPage, ~ req.use_mb_mappings
    PROVE  LET e == EntryOf(curr, level)
               first == e[2] * BlockSize(e[1])
           IN  first = curr /\ PAGE_ALIGN(first + BlockSize(e[1]) - 1) <= req.end
  <1> DEFINE e == EntryOf(curr, level)
             B == BlockSize(level)
  <1>1. level \in Levels /\ curr \in Nat /\ req.end \in Nat
    BY Zenon DEF EptInv, EptTypeOK
  <1>2. curr % B = 0 /\ PAGE_ALIGN(curr + B - 1) <= CurrEnd
    BY PageAligned, Zenon
  <1>3. CurrEnd \in Nat /\ CurrEnd <= req.end
    BY CurrentPart, Zenon DEF MapPage
  <1>4. B \in Nat \ {0}
    BY <1>1, BlockSizes, Zenon
  <1>5. e[1] = level /\ e[2] = curr \div B
    BY Zenon DEF EntryOf
  <1> HIDE DEF e, B
  <1>6. (curr \div B) * B = curr
    <2>1. curr = (curr \div B) * B + (curr % B) /\ curr \div B \in Int
      BY <1>1, <1>4, DivMod
    <2> QED
      BY <1>1, <1>2, <1>4, <2>1
  <1>7. PAGE_ALIGN(curr + B - 1) \in Int
    BY <1>1, <1>4, PageAlign
  <1>8. PAGE_ALIGN(curr + B - 1) <= req.end
    BY <1>1, <1>2, <1>3, <1>7
  <1> QED
    BY <1>5, <1>6, <1>8, Zenon DEF e, B

-----------------------------------------------------------------------------
(* The steps of VM creation *)

\* A page that is mapped extends what has been mapped.
LEMMA MapPageStep ==
    ASSUME EptInv, MapPage, UNCHANGED space_vars
    PROVE  EptInv'
  <1>1. Mapping /\ NextBlock /\ UNCHANGED <<capabilities, req, ram, apic_page, memory>>
    BY Zenon DEF MapPage
  <1>2. UNCHANGED <<mb_pages, gb_pages, req, ram, apic_page, stage, mem_map>>
    BY <1>1, Zenon DEF capabilities, space_vars
  <1>3. \A e \in DOMAIN entries : e \in DOMAIN entries' /\ entries'[e] = entries[e]
    BY Zenon DEF MapPage, is_ept_entry_present
  <1>4. /\ curr' = CurrEnd + 1 /\ curr' \in Nat /\ level' \in Levels
        /\ WalkInv'
        /\ \/ phase' = phase /\ curr' <= req.end
           \/ phase = "ram" /\ phase' = "mapped" /\ curr' > req.end
           \/ phase = "apic" /\ phase' = "ready" /\ curr' > req.end
    BY <1>1, <1>2, <1>3, NextBlockWalk, Zenon
  <1>5. /\ curr \in Nat /\ CurrEnd \in Nat /\ curr <= CurrEnd /\ CurrEnd <= req.end
        /\ req.end \in Nat /\ ram.start \in Nat /\ ram.req_bytes \in Nat
        /\ apic_page \in Int /\ mb_pages \in BOOLEAN
    BY <1>1, CurrentPart, Zenon DEF EptInv, EptTypeOK
  <1>6. EptTypeOK'
    BY <1>1, <1>2, <1>4, Zenon DEF EptInv, EptTypeOK, Mapping
  <1>7. RequestInv'
    <2>1. APIC_MEM_BASE \in Nat
      BY EptAssumption, Zenon
    <2> QED
      BY <1>1, <1>2, <1>4, <1>5, <2>1 DEF EptInv, RequestInv, Mapping
  <1>8. HostInv'
    BY <1>1, <1>2, <1>4, Zenon DEF EptInv, HostInv, Mapping, Usable, bytes_to_nr_pages
  <1>9. ASSUME ~ mb_pages, phase = "ram", NEW a \in Nat, a < curr'
        PROVE  Maps(a, a + ram.start)'
    <2>1. req.offset = ram.start /\ ~ req.use_mb_mappings
      BY <1>9, Zenon DEF EptInv, RequestInv
    <2>2. CASE a < curr
      <3>1. Maps(a, a + ram.start)
        BY <1>9, <2>2, Zenon DEF EptInv, CoverInv
      <3> QED
        BY <1>2, <1>3, <3>1, MapsGrow, Zenon
    <2>3. CASE ~ (a < curr)
      <3>1. curr <= a /\ a <= CurrEnd
        BY <1>4, <1>5, <1>9, <2>3
      <3>2. Maps(a, a + req.offset)'
        BY <2>1, <3>1, PartTranslates
      <3> QED
        BY <1>2, <2>1, <3>2, Zenon
    <2> QED
      BY <2>2, <2>3, Zenon
  <1>10. ASSUME ~ mb_pages PROVE OnlyRequested'
    <2> DEFINE new == EntryOf(curr, level)
    <2> SUFFICES ASSUME NEW e \in DOMAIN entries', entries'[e].maps_page
                 PROVE  LET first == e[2] * BlockSize(e[1])
                            last == PAGE_ALIGN(first + BlockSize(e[1]) - 1)
                        IN  \/ last <= MappingEnd(0, ram.req_bytes)
                            \/ /\ first >= APIC_MEM_BASE
                               /\ last <= MappingEnd(APIC_MEM_BASE, PAGE_SIZE)
      BY <1>2, Zenon DEF OnlyRequested, BlockSize, PAGE_ALIGN, MappingEnd, PAGE_SIZE
    <2>1. CASE e \in DOMAIN entries
      BY <1>3, <1>10, <2>1, Zenon DEF EptInv, CoverInv, OnlyRequested
    <2>2. CASE e = new
      <3>1. ~ req.use_mb_mappings
        BY <1>1, <1>10, Zenon DEF EptInv, RequestInv, Mapping
      <3>2. LET first == e[2] * BlockSize(e[1])
            IN  first = curr /\ PAGE_ALIGN(first + BlockSize(e[1]) - 1) <= req.end
        BY <2>2, <3>1, MapPageOnly, Zenon
      <3>3. \/ req.end = MappingEnd(0, ram.req_bytes)
            \/ curr >= APIC_MEM_BASE /\ req.end = MappingEnd(APIC_MEM_BASE, PAGE_SIZE)
        BY <1>1, <1>5, EptAssumption DEF EptInv, RequestInv, Mapping, MappingEnd
      <3> HIDE DEF new
      <3> QED
        BY <3>2, <3>3, Zenon
    <2>3. e \in DOMAIN entries \/ e = new
      BY Zenon DEF MapPage
    <2> QED
      BY <2>1, <2>2, <2>3, Zenon
  <1>11. ASSUME phase = "apic" PROVE Maps(APIC_MEM_BASE, apic_page)'
    <2>1. /\ APIC_MEM_BASE \in Nat /\ APIC_MEM_BASE <= curr /\ ~ req.use_mb_mappings
          /\ req.offset = apic_page - APIC_MEM_BASE
      BY <1>11, EptAssumption, Zenon DEF EptInv, RequestInv
    <2>2. CASE curr = APIC_MEM_BASE
      <3>1. Maps(APIC_MEM_BASE, APIC_MEM_BASE + req.offset)'
        BY <1>5, <2>1, <2>2, PartTranslates
      <3>2. APIC_MEM_BASE + req.offset = apic_page
        BY <1>5, <2>1
      <3> QED
        BY <1>2, <3>1, <3>2, Zenon
    <2>3. CASE Maps(APIC_MEM_BASE, apic_page)
      BY <1>2, <1>3, <2>3, MapsGrow, Zenon
    <2> QED
      BY <1>11, <2>2, <2>3, Zenon DEF EptInv, CoverInv
  <1>12. ASSUME ~ mb_pages, RamMapped', NEW a \in Nat, a <= ram.req_bytes
         PROVE  Maps(a, a + ram.start)'
    <2>1. CASE phase = "ram"
      <3>1. req.end = ram.req_bytes /\ curr' > req.end
        BY <1>4, <1>12, <2>1, Zenon DEF EptInv, RequestInv, RamMapped
      <3> QED
        BY <1>4, <1>5, <1>9, <1>12, <2>1, <3>1
    <2>2. CASE phase = "apic"
      <3>1. Maps(a, a + ram.start)
        BY <1>12, <2>2, Zenon DEF EptInv, CoverInv, RamMapped
      <3> QED
        BY <1>2, <1>3, <3>1, MapsGrow, Zenon
    <2> QED
      BY <1>1, <2>1, <2>2, Zenon DEF Mapping
  <1>13. CoverInv'
    BY <1>1, <1>2, <1>4, <1>9, <1>10, <1>11, <1>12, Zenon DEF CoverInv, Mapping, RamMapped
  <1> QED
    BY <1>4, <1>6, <1>7, <1>8, <1>13, Zenon DEF EptInv

\* Going down a level needs the table, and adds no page.
LEMMA EnterTableStep ==
    ASSUME EptInv, EnterTable, UNCHANGED space_vars
    PROVE  EptInv'
  <1> DEFINE e == EntryOf(curr, level)
  <1>1. /\ Mapping /\ level # PT /\ level' = level - 1
        /\ UNCHANGED <<mb_pages, gb_pages, req, curr, phase, ram, apic_page, stage, mem_map>>
    BY Zenon DEF EnterTable, capabilities, space_vars
  <1>2. \A x \in DOMAIN entries : x \in DOMAIN entries' /\ entries'[x] = entries[x]
    BY Zenon DEF EnterTable, is_ept_entry_present
  <1>3. e \in DOMAIN entries' /\ ~ entries'[e].maps_page
    BY DEF EnterTable, is_ept_entry_present, TableEntry
  <1>4. \A x \in DOMAIN entries' : entries'[x].maps_page =>
            x \in DOMAIN entries /\ entries[x].maps_page
    BY DEF EnterTable, TableEntry
  <1>5. level \in Levels /\ level' \in Levels /\ \A u \in Levels : u > level' => u = level \/ u > level
    BY <1>1, LevelNames DEF EptInv, EptTypeOK
  <1>6. EptTypeOK' /\ RequestInv' /\ HostInv'
    BY <1>1, <1>5, Zenon DEF EptInv, EptTypeOK, RequestInv, HostInv, Usable, bytes_to_nr_pages, Mapping
  <1>7. WalkInv'
    <2>1. ASSUME NEW u \in Levels, u > level'
          PROVE  EntryOf(curr, u) \in DOMAIN entries' /\ ~ entries'[EntryOf(curr, u)].maps_page
      <3>1. CASE u = level
        BY <1>3, <3>1, Zenon
      <3>2. CASE u > level
        BY <1>1, <1>2, <2>1, <3>2, Zenon DEF EptInv, WalkInv, is_ept_entry_present
      <3> QED
        BY <1>5, <2>1, <3>1, <3>2, Zenon
    <2> QED
      BY <1>1, <2>1, Zenon DEF EptInv, WalkInv, is_ept_entry_present, EntryOf, BlockSize
  <1>8. ASSUME NEW a, NEW h, Maps(a, h) PROVE Maps(a, h)'
    BY <1>2, <1>8, MapsGrow, Zenon
  <1>9. OnlyRequested => OnlyRequested'
    BY <1>1, <1>4, Zenon DEF OnlyRequested, BlockSize, PAGE_ALIGN, MappingEnd, PAGE_SIZE
  <1>10. CoverInv'
    <2>1. ASSUME ~ mb_pages, phase = "ram", NEW a \in Nat, a < curr PROVE Maps(a, a + ram.start)'
      BY <1>1, <1>8, <2>1, Zenon DEF EptInv, CoverInv
    <2>2. ASSUME ~ mb_pages, RamMapped, NEW a \in Nat, a <= ram.req_bytes
          PROVE  Maps(a, a + ram.start)'
      BY <1>1, <1>8, <2>2, Zenon DEF EptInv, CoverInv
    <2>3. Maps(APIC_MEM_BASE, apic_page) => Maps(APIC_MEM_BASE, apic_page)'
      BY <1>1, <1>8, Zenon
    <2> QED
      BY <1>1, <1>9, <2>1, <2>2, <2>3, Zenon DEF EptInv, CoverInv, RamMapped
  <1> QED
    BY <1>6, <1>7, <1>10, Zenon DEF EptInv

\* A failure keeps what has been mapped.
LEMMA FailStep ==
    ASSUME EptInv, Fail, phase # "start" \/ stage = "up", UNCHANGED space_vars
    PROVE  EptInv'
  <1>1. /\ phase' = "failed"
        /\ UNCHANGED <<mb_pages, gb_pages, entries, req, level, curr, ram, apic_page, stage, mem_map>>
    BY Zenon DEF Fail, capabilities, space_vars
  <1>2. OnlyRequested => OnlyRequested'
    BY <1>1, Zenon DEF OnlyRequested, BlockSize, PAGE_ALIGN, MappingEnd, PAGE_SIZE
  <1> QED
    BY <1>1, <1>2, Zenon DEF EptInv, EptTypeOK, WalkInv, RequestInv, HostInv, CoverInv, Mapping, RamMapped

\* A page is rounded to itself.
LEMMA AlignAligned == ASSUME NEW a \in Aligned PROVE PAGE_ALIGN(a) = a
  BY AlignedIsMultiple, Zenon DEF PAGE_ALIGN

\* virtualize_guest_physical_mem begins with tables that are empty.
LEMMA VirtualizeStep ==
    ASSUME EptInv, VirtualizeGuestMem, UNCHANGED space_vars
    PROVE  EptInv'
  <1>1. CASE Fail
    BY <1>1, FailStep, Zenon DEF VirtualizeGuestMem
  <1>2. ASSUME NEW bytes \in ReqBytes, NEW host \in HostStarts,
               Usable(host, host + bytes_to_nr_pages(bytes) * PAGE_SIZE - 1),
               BeginMapping(create_ept_mapping_info(0, bytes, host, mb_pages, gb_pages)),
               phase' = "ram",
               ram' = [start |-> host,
                       end |-> host + bytes_to_nr_pages(bytes) * PAGE_SIZE - 1,
                       req_bytes |-> bytes],
               UNCHANGED <<capabilities, entries, apic_page, memory>>
        PROVE  EptInv'
    <2>1. phase = "start" /\ stage = "up" /\ entries = << >>
      BY Zenon DEF VirtualizeGuestMem, EptInv, RequestInv
    <2>2. /\ bytes \in Nat /\ host \in Nat /\ host \in Aligned /\ 0 \in Aligned
          /\ PAGE_SIZE \in Nat \ {0}
      <3>1. 0 * PAGE_SIZE \in Aligned
        BY Multiple
      <3> QED
        BY <3>1, EptAssumption, PowerAssumption DEF Aligned
    <2>3. /\ req' = [guest_paddr_start |-> 0, end |-> bytes, offset |-> host,
                     use_mb_mappings |-> mb_pages, use_gb_mappings |-> gb_pages]
          /\ level' = PML4 /\ curr' = 0
      BY <1>2, <2>2, AlignAligned DEF BeginMapping, create_ept_mapping_info, MappingEnd
    <2>4. UNCHANGED <<mb_pages, gb_pages, entries, apic_page, stage, mem_map>>
      BY <1>2, Zenon DEF capabilities, space_vars
    <2>5. bytes_to_nr_pages(bytes) * PAGE_SIZE \in Int
      <3>1. bytes + PAGE_SIZE - 1 \in Int
        BY <2>2
      <3>2. bytes_to_nr_pages(bytes) \in Int
        BY <2>2, <3>1, DivMod, Zenon DEF bytes_to_nr_pages
      <3> QED
        BY <2>2, <3>2
    <2>6. EptTypeOK'
      BY <1>2, <2>2, <2>3, <2>4, <2>5, LevelNames DEF EptInv, EptTypeOK
    <2>7. WalkInv'
      BY <1>2, <2>2, <2>3, LevelNames DEF WalkInv
    <2>8. RequestInv' /\ HostInv'
      BY <1>2, <2>1, <2>2, <2>3, <2>4, Zenon DEF RequestInv, HostInv, Usable, bytes_to_nr_pages
    <2>9. CoverInv'
      BY <1>2, <2>1, <2>3, <2>4, SMTT(30) DEF CoverInv, OnlyRequested, RamMapped
    <2> QED
      BY <2>6, <2>7, <2>8, <2>9, Zenon DEF EptInv
  <1> QED
    BY <1>1, <1>2, Zenon DEF VirtualizeGuestMem

\* prepare_apic_virtualization adds a request for one page.
LEMMA PrepareApicStep ==
    ASSUME EptInv, PrepareApic, UNCHANGED space_vars
    PROVE  EptInv'
  <1>1. CASE Fail
    BY <1>1, FailStep, Zenon DEF PrepareApic
  <1>2. ASSUME NEW page \in ApicPages,
               BeginMapping(create_ept_mapping_info(APIC_MEM_BASE, PAGE_SIZE, page, FALSE, FALSE)),
               phase' = "apic", apic_page' = page,
               UNCHANGED <<capabilities, entries, ram, memory>>
        PROVE  EptInv'
    <2>1. phase = "mapped" /\ stage = "up"
      BY Zenon DEF PrepareApic, EptInv, HostInv
    <2>2. /\ page \in Nat /\ page \in Aligned
          /\ APIC_MEM_BASE \in Nat /\ APIC_MEM_BASE \in Aligned
          /\ PAGE_SIZE \in Nat \ {0}
      BY EptAssumption, PowerAssumption DEF Aligned
    <2>3. /\ req' = [guest_paddr_start |-> APIC_MEM_BASE, end |-> APIC_MEM_BASE + PAGE_SIZE,
                     offset |-> page - APIC_MEM_BASE,
                     use_mb_mappings |-> FALSE, use_gb_mappings |-> FALSE]
          /\ level' = PML4 /\ curr' = APIC_MEM_BASE
      BY <1>2, <2>2, AlignAligned, Zenon DEF BeginMapping, create_ept_mapping_info, MappingEnd
    <2>4. UNCHANGED <<mb_pages, gb_pages, entries, ram, stage, mem_map>>
      BY <1>2, Zenon DEF capabilities, space_vars
    <2>5. page - APIC_MEM_BASE \in Aligned /\ page - APIC_MEM_BASE \in Int
      BY <2>2, AlignedSums
    <2>6. EptTypeOK'
      BY <1>2, <2>2, <2>3, <2>4, <2>5, LevelNames DEF EptInv, EptTypeOK
    <2>7. WalkInv'
      BY <1>2, <2>2, <2>3, <2>5, LevelNames DEF WalkInv
    <2>8. RequestInv' /\ HostInv'
      BY <1>2, <2>1, <2>2, <2>3, <2>4 DEF EptInv, RequestInv, HostInv, Usable, bytes_to_nr_pages
    <2>9. ASSUME NEW a, NEW h, Maps(a, h) PROVE Maps(a, h)'
      BY <2>4, <2>9, MapsGrow, Zenon
    <2>10. OnlyRequested => OnlyRequested'
      BY <2>4, Zenon DEF OnlyRequested, BlockSize, PAGE_ALIGN, MappingEnd, PAGE_SIZE
    <2>11. ASSUME ~ mb_pages, NEW a \in Nat, a <= ram.req_bytes PROVE Maps(a, a + ram.start)'
      BY <2>1, <2>4, <2>9, <2>11, Zenon DEF EptInv, CoverInv, RamMapped
    <2>12. CoverInv'
      BY <1>2, <2>3, <2>4, <2>10, <2>11, Zenon DEF EptInv, CoverInv, RamMapped
    <2> QED
      BY <2>6, <2>7, <2>8, <2>12, Zenon DEF EptInv
  <1> QED
    BY <1>1, <1>2, Zenon DEF PrepareApic

\* While a VM is created the address space does not change: create_addr_space
\* and the set-up of the timers are over.
LEMMA SpaceIsUp ==
    ASSUME SpaceInv, EptInv, SpaceNext
    PROVE  phase = "start"
  <1> SUFFICES ASSUME stage = "up" PROVE FALSE
    BY Zenon DEF EptInv, HostInv
  <1>1. RangeMapped
    BY Zenon DEF SpaceInv, ReachInv
  <1> QED
    BY <1>1, Zenon DEF SpaceNext, MapBlock, InitEntryFails, At, MapApicPage,
                setup_direct_mapping_from_memmap, MapEntry, MapHypervisor, SwitchAddrSpace,
                compute_tsc_frequency, init_hpet

\* What does not change the tables, and keeps the address space or comes before
\* the VM, keeps the invariant.
LEMMA IdleStep ==
    ASSUME EptInv,
           UNCHANGED <<mb_pages, gb_pages, entries, req, level, curr, phase, ram, apic_page>>,
           phase = "start" \/ UNCHANGED <<stage, mem_map>>
    PROVE  EptInv'
  <1>1. EptTypeOK' /\ WalkInv' /\ RequestInv'
    BY Zenon DEF EptInv, EptTypeOK, WalkInv, RequestInv, Mapping, is_ept_entry_present, EntryOf, BlockSize
  <1>2. HostInv'
    BY Zenon DEF EptInv, HostInv, Usable, bytes_to_nr_pages
  <1>3. \A a, h : Maps(a, h) => Maps(a, h)'
    BY MapsGrow, Zenon
  <1>4. OnlyRequested => OnlyRequested'
    BY Zenon DEF OnlyRequested, BlockSize, PAGE_ALIGN, MappingEnd, PAGE_SIZE
  <1>5. CoverInv'
    <2>1. ASSUME ~ mb_pages, phase = "ram", NEW a \in Nat, a < curr PROVE Maps(a, a + ram.start)'
      BY <1>3, <2>1, Zenon DEF EptInv, CoverInv
    <2>2. ASSUME ~ mb_pages, RamMapped, NEW a \in Nat, a <= ram.req_bytes
          PROVE  Maps(a, a + ram.start)'
      BY <1>3, <2>2, Zenon DEF EptInv, CoverInv
    <2>3. Maps(APIC_MEM_BASE, apic_page) => Maps(APIC_MEM_BASE, apic_page)'
      BY <1>3, Zenon
    <2> QED
      BY <1>4, <2>1, <2>2, <2>3, Zenon DEF EptInv, CoverInv, RamMapped
  <1> QED
    BY <1>1, <1>2, <1>5, Zenon DEF EptInv

\* The invariant of the extended page tables holds at first ...
LEMMA EptInitInv == Init => EptInv
  <1> SUFFICES ASSUME VmInit PROVE EptInv
    BY Zenon DEF Init
  <1>1. EptTypeOK
    <2>1. level \in Levels
      BY LevelNames, Zenon DEF VmInit
    <2>2. /\ curr \in Nat /\ req.offset \in Int /\ apic_page \in Int
          /\ ram \in [start : Nat, end : Int, req_bytes : Nat]
      BY DEF VmInit
    <2>3. req \in [guest_paddr_start : Nat, end : Nat, offset : Int,
                   use_mb_mappings : BOOLEAN, use_gb_mappings : BOOLEAN]
      BY DEF VmInit
    <2> QED
      BY <2>1, <2>2, <2>3, Zenon DEF VmInit, EptTypeOK
  <1>2. WalkInv
    BY SMTT(30) DEF VmInit, WalkInv, Mapping
  <1>3. RequestInv
    BY SMTT(30) DEF VmInit, RequestInv
  <1>4. HostInv
    BY SMTT(30) DEF VmInit, HostInv
  <1>5. CoverInv
    <2>1. phase = "start" /\ DOMAIN entries = {}
      BY DEF VmInit
    <2>2. OnlyRequested
      BY <2>1, Zenon DEF OnlyRequested
    <2> QED
      BY <2>1, <2>2, Zenon DEF CoverInv, RamMapped
  <1> QED
    BY <1>1, <1>2, <1>3, <1>4, <1>5, Zenon DEF EptInv

\* ... and every step keeps it.
LEMMA EptStep == SpaceInv /\ EptInv /\ [Next]_vars => EptInv'
  <1> SUFFICES ASSUME SpaceInv, EptInv, [Next]_vars PROVE EptInv'
    BY Zenon
  <1>1. CASE SpaceNext /\ UNCHANGED vm_vars
    <2>1. phase = "start"
      BY <1>1, SpaceIsUp, Zenon
    <2> QED
      BY <1>1, <2>1, IdleStep, Zenon DEF vm_vars, capabilities
  <1>2. CASE VmNext /\ UNCHANGED space_vars
    <2>1. CASE VirtualizeGuestMem
      BY <1>2, <2>1, VirtualizeStep, Zenon
    <2>2. CASE PrepareApic
      BY <1>2, <2>2, PrepareApicStep, Zenon
    <2>3. CASE RefuseMapping
      BY <1>2, <2>3, FailStep, Zenon DEF RefuseMapping, Mapping
    <2>4. CASE MapPage
      BY <1>2, <2>4, MapPageStep, Zenon
    <2>5. CASE EnterTable
      BY <1>2, <2>5, EnterTableStep, Zenon
    <2>6. CASE AllocateTableFails
      BY <1>2, <2>6, FailStep, Zenon DEF AllocateTableFails, Mapping
    <2>7. CASE Copy
      BY <1>2, <2>7, IdleStep, Zenon DEF Copy, copy_to_vm_gpaddr, capabilities, space_vars
    <2> QED
      BY <1>2, <2>1, <2>2, <2>3, <2>4, <2>5, <2>6, <2>7, Zenon DEF VmNext, MapStep
  <1>3. CASE UNCHANGED vars
    BY <1>3, IdleStep, Zenon DEF vars, vm_vars, capabilities, space_vars
  <1> QED
    BY <1>1, <1>2, <1>3, Zenon DEF Next

\* The invariant of the extended page tables.
THEOREM EptInvariance == Spec => []EptInv
  <1>1. SpaceInv /\ EptInv /\ [Next]_vars => EptInv'
    BY EptStep, Zenon
  <1> QED
    BY <1>1, EptInitInv, SpaceInvariance, PTL DEF Spec

\* remap_vlapic_base leaves no ready VM without the page of its APIC, wherever
\* the page lies and whatever the RAM covers.
THEOREM ApicIsReachable == Spec => []ApicReachable
  <1>1. EptInv => ApicReachable
    BY MapsTranslates, Zenon DEF EptInv, CoverInv, ApicReachable
  <1> QED
    BY <1>1, EptInvariance, PTL

\* Both sets of page tables take a page of RAM to the same host page.
LEMMA RamIsReachable ==
    ASSUME SpaceInv, EptInv, ~ mb_pages, RamMapped
    PROVE  RamReachable
  <1> SUFFICES ASSUME NEW a \in RamPages
               PROVE  Translates(a) /\ ResolvesTo(phys_to_virt(ram.start + a), Translation(a))
    BY Zenon DEF RamReachable
  <1> DEFINE P == PAGE_SIZE
             n == bytes_to_nr_pages(ram.req_bytes)
             bytes == ram.req_bytes
  <1>1. P \in Nat \ {0} /\ bytes \in Nat /\ ram.start \in Nat /\ ram.start \in Aligned
    BY PowerAssumption, Zenon DEF EptInv, EptTypeOK, HostInv, RamMapped
  <1>2. n = (bytes + P - 1) \div P
    BY Zenon DEF bytes_to_nr_pages
  <1> HIDE DEF n, P
  <1>3. n \in Int /\ n * P <= bytes + P - 1
    <2>1. bytes + P - 1 \in Int
      BY <1>1
    <2> DEFINE x == bytes + P - 1
    <2> HIDE DEF x
    <2>2. x \in Int /\ n = x \div P
      BY <1>2, <2>1, Zenon DEF x
    <2>3. n \in Int /\ x = n * P + (x % P) /\ 0 <= x % P /\ x % P \in Int
      BY <1>1, <2>2, DivMod, Zenon
    <2>4. n * P <= x
      BY <1>1, <2>2, <2>3
    <2> QED
      BY <2>3, <2>4, Zenon DEF x
  <1>4. PICK p \in 0..(n - 1) : a = p * P
    BY Zenon DEF RamPages, n, P
  <1>5. p \in Nat /\ a \in Nat /\ a + P <= n * P
    BY <1>1, <1>3, <1>4, MulOrder
  <1>6. a <= bytes
    BY <1>1, <1>3, <1>5
  <1>7. Maps(a, a + ram.start)
    BY <1>5, <1>6, Zenon DEF EptInv, CoverInv
  <1>8. Translates(a) /\ Translation(a) = a + ram.start
    BY <1>7, MapsTranslates, Zenon
  <1>9. PICK i \in DOMAIN mem_map :
             /\ mem_map[i].type = "USABLE"
             /\ mem_map[i].start <= ram.start /\ ram.end <= mem_map[i].end
    BY Zenon DEF EptInv, HostInv, RamMapped, Usable
  <1>10. ram.end = ram.start + n * P - 1
    BY Zenon DEF EptInv, HostInv, RamMapped, n, P
  <1>11. mem_map[i].start \in Nat /\ mem_map[i].end \in Int
    BY <1>9, MapFacts, Zenon DEF SpaceInv
  <1> DEFINE h == ram.start + a
             first == mem_map[i].start
             last == mem_map[i].end
  <1>12. h \in Aligned /\ h \in Int
    <2>1. a \in Aligned
      BY <1>4, <1>5, Multiple DEF P
    <2>2. h \in Aligned
      BY <1>1, <2>1, AlignedSums, Zenon
    <2> QED
      BY <2>2, Zenon DEF Aligned
  <1>13. h <= last /\ PAGE_ALIGN(first) <= h
    <2>1. n * P \in Int
      BY <1>1, <1>3
    <2>2. h <= ram.end /\ ram.end \in Int
      BY <1>1, <1>5, <1>10, <2>1
    <2>3. PAGE_ALIGN(first) <= first /\ PAGE_ALIGN(first) \in Int
      BY <1>11, PageAlign
    <2> QED
      BY <1>1, <1>5, <1>9, <1>11, <2>2, <2>3
  <1>14. h \in PagesOf(first, last)
    BY <1>11, <1>12, <1>13, PagesOfRange
  <1>15. stage = "up" /\ SpaceComplete /\ DirectlyMapped(mem_map[i])
    BY <1>9, InvComplete, Zenon DEF EptInv, HostInv, RamMapped, DirectlyMapped
  <1>16. ResolvesTo(phys_to_virt(h), h)
    BY <1>9, <1>14, <1>15, Zenon DEF SpaceComplete
  <1>17. h = a + ram.start
    BY <1>1, <1>5
  <1> QED
    BY <1>8, <1>16, <1>17, Zenon

\* On a processor without 2 MB pages, whatever size of RAM is asked for and
\* wherever it lies, the guest finds it where the loader writes to it, and
\* add_ept_mapping maps nothing past its request.
THEOREM GuestMemoryIsExact == Spec => []GuestMemoryExact
  <1>1. SpaceInv /\ EptInv => GuestMemoryExact
    BY RamIsReachable, Zenon DEF GuestMemoryExact, EptInv, CoverInv
  <1> QED
    BY <1>1, SpaceInvariance, EptInvariance, PTL
=============================================================================
