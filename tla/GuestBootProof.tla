--------------------------- MODULE GuestBootProof ---------------------------
(***************************************************************************)
(* The boot of the guests, for every set of files, headers and sizes.      *)
(* Four invariants carry the proofs: what the requests and configurations  *)
(* are, who owns a string, where a scan of the file may begin, and what    *)
(* each copy of the loader leaves in the memory of the guest.              *)
(***************************************************************************)
EXTENDS GuestBoot, TLAPS

-----------------------------------------------------------------------------
(* Requests and configurations *)

IsSequence(s) == Len(s) \in Nat /\ s = [i \in 1..Len(s) |-> s[i]]

RequestMembers ==
    {"id", "name", "type", "vcpus", "mem_size", "granularity", "bzImage_name",
     "initramfs_name", "cmdline_str", "serial_id"}

GoodRequest(r) ==
    /\ DOMAIN r = RequestMembers
    /\ r.mem_size \in Nat /\ r.granularity \in mem_granularities

GoodConfig(c) ==
    /\ c.mem_size \in Nat /\ c.granularity \in mem_granularities
    /\ c.type = LINUX_DIRECT_BOOT_32BIT => {c.bzImage, c.initramfs} \subseteq Modules

ParserInv ==
    /\ IsSequence(requests) /\ IsSequence(configs) /\ IsSequence(vms)
    /\ GoodRequest(request)
    /\ \A i \in 1..Len(requests) : GoodRequest(requests[i])
    /\ \A i \in 1..Len(configs) : GoodConfig(configs[i])

\* The strings that are live were allocated, and the next one is new.
Allocated(strings, next) == next \in Nat \ {0} /\ strings \subseteq 1..(next - 1)

OwnerInv == Allocated(heap, fresh) /\ StringsOwnedOnce

-----------------------------------------------------------------------------
(* The scans *)

QuotesBefore(text, p) == {q \in Quotes(text) : q < p}

\* A scan may begin here: inside the file or at its end, and not in quotes.
Outside(text, p) ==
    /\ p \in Nat \ {0} /\ p <= Len(text) + 1
    /\ Cardinality(QuotesBefore(text, p)) % 2 = 0

ScanInv ==
    /\ phase \in {"start", "keys"} => pos = 1
    /\ phase = "parse" => /\ file \in Files
                          /\ Closed(file.text) => Outside(file.text, pos)

-----------------------------------------------------------------------------
(* The loader *)

\* The copies that are done at a step.
KernelCopied == load_step \in {"initramfs", "gdt", "command_line", "zero_page", "loaded"}
InitramfsCopied == load_step \in {"gdt", "command_line", "zero_page", "loaded"}
GdtCopied == load_step \in {"command_line", "zero_page", "loaded"}
CommandLineCopied == load_step \in {"zero_page", "loaded"}

LoaderTypes ==
    /\ load_step = "idle" => mem_size = 0
    /\ load_step \in {"idle", "image", "kernel"} => DOMAIN guest_memory = {}
    /\ load_step # "idle" => /\ setup_header \in Headers /\ mem_size \in Nat
                             /\ {image.bzImage, image.initramfs} \subseteq Modules
    /\ CopiesInsideMemory

Kernel(h) ==
    /\ Holds(h.code32_start, declared_pm_kernel_size(h), "kernel")
    /\ \A a \in Bytes(h.pref_address, h.init_size) :
          a \in DOMAIN guest_memory => guest_memory[a] = "kernel"

Initramfs(h) ==
    /\ Holds(initramfs_gpaddr(h), FileSize[image.initramfs], "initramfs")
    /\ initramfs_gpaddr(h) + FileSize[image.initramfs] <= mem_size

CommandLine(h) ==
    /\ Holds(COMMAND_LINE_GPADDR, strlen(image.cmdline_str) + 1, "command_line")
    /\ strlen(image.cmdline_str) <= h.cmdline_size

\* What has been copied is still there.
PartsInv ==
    KernelCopied /\ ExpectedHeader(setup_header) =>
        /\ Kernel(setup_header)
        /\ InitramfsCopied => Initramfs(setup_header)
        /\ GdtCopied => Holds(GDT_GPADDR, PAGE_SIZE, "gdt")
        /\ CommandLineCopied => CommandLine(setup_header)
        /\ load_step = "loaded" => /\ Holds(ZERO_PAGE_GPADDR, PAGE_SIZE, "zero_page")
                                   /\ boot_params = BootParams

LoaderInv == LoaderTypes /\ PartsInv

BootInv == ParserInv /\ OwnerInv /\ ScanInv /\ LoaderInv

-----------------------------------------------------------------------------
(* Proofs about the loader *)

\* The members of a header and the constants of the loader are numbers.
LEMMA LoaderNumbers ==
    /\ \A h \in Headers :
          /\ h.code32_start \in Nat /\ h.pref_address \in Nat /\ h.init_size \in Nat
          /\ h.cmdline_size \in Nat /\ h.syssize \in Nat
    /\ PAGE_SIZE \in Nat /\ PAGE_SIZE > 0 /\ SyssizeUnit \in Nat
    /\ Uint32Range \in Nat /\ Uint32Range > 0 /\ Uint64Range \in Nat /\ Uint64Range > 0
    /\ GDT_GPADDR \in Nat /\ COMMAND_LINE_GPADDR \in Nat /\ ZERO_PAGE_GPADDR \in Nat
  BY LinuxLoaderAssumption DEF HeaderMembers

\* strlen is a number for every string.
LEMMA StrlenIsNat == \A s : strlen(s) \in Nat
  BY LinuxLoaderAssumption, Zenon DEF strlen

\* align_forward moves an address up, by less than the unit.
LEMMA AlignForward ==
    ASSUME NEW a \in Nat, NEW u \in Nat, u > 0
    PROVE  /\ align_forward(a, u) \in Nat
           /\ a <= align_forward(a, u) /\ align_forward(a, u) < a + u
  <1> DEFINE b == a + u - 1
  <1>1. b \in Nat
    OBVIOUS
  <1> HIDE DEF b
  <1>2. (b \div u) * u \in Nat /\ (b \div u) * u <= b /\ b < (b \div u) * u + u
    BY <1>1
  <1> QED
    BY <1>2 DEF b, align_forward

\* The sizes of the kernel are numbers, and init_size fits what is checked.
LEMMA KernelSizes ==
    ASSUME NEW h \in Headers
    PROVE  /\ declared_pm_kernel_size(h) \in Nat
           /\ effective_pm_kernel_load_size(h) \in Nat
           /\ declared_pm_kernel_size(h) <= effective_pm_kernel_load_size(h)
           /\ h.init_size <= effective_pm_kernel_load_size(h)
  <1> DEFINE d == declared_pm_kernel_size(h)
  <1>1. d \in Nat
    BY LoaderNumbers DEF declared_pm_kernel_size
  <1>2. h.init_size \in Nat
    BY LoaderNumbers, Zenon
  <1> HIDE DEF d
  <1> QED
    BY <1>1, <1>2 DEF d, effective_pm_kernel_load_size

\* The initramfs has an address, whatever the header says ...
LEMMA InitramfsAddress == \A h \in Headers : initramfs_gpaddr(h) \in Nat
  <1> TAKE h \in Headers
  <1> DEFINE a == (h.pref_address + effective_pm_kernel_load_size(h) + 1) % Uint64Range
  <1>1. a \in Nat
    BY KernelSizes, LoaderNumbers
  <1> HIDE DEF a
  <1>2. align_forward(a, PAGE_SIZE) \in Nat
    BY <1>1, AlignForward, LoaderNumbers, Zenon
  <1> HIDE DEF align_forward
  <1> QED
    BY <1>2, LoaderNumbers DEF a, initramfs_gpaddr

\* ... and it is behind the kernel when that ends below 4 GB.
LEMMA InitramfsBehindKernel ==
    ASSUME NEW h \in Headers,
           h.pref_address + effective_pm_kernel_load_size(h) <= Uint32Range
    PROVE  h.pref_address + effective_pm_kernel_load_size(h) < initramfs_gpaddr(h)
  <1> DEFINE e == h.pref_address + effective_pm_kernel_load_size(h) + 1
  <1>1. e \in Nat /\ e <= Uint32Range + 1
    BY KernelSizes, LoaderNumbers
  <1> DEFINE a == align_forward(e, PAGE_SIZE)
  <1> HIDE DEF e
  <1>2. a \in Nat /\ e <= a /\ a < e + PAGE_SIZE
    BY <1>1, AlignForward, LoaderNumbers, Zenon
  <1> HIDE DEF a
  <1>3. e < Uint64Range /\ a < Uint64Range
    BY <1>1, <1>2, LoaderNumbers, LinuxLoaderAssumption
  <1>4. e % Uint64Range = e /\ a % Uint64Range = a
    BY <1>1, <1>2, <1>3, LoaderNumbers
  <1>5. initramfs_gpaddr(h) = a
    BY <1>4, Zenon DEF initramfs_gpaddr, e, a
  <1> QED
    BY <1>1, <1>2, <1>5, KernelSizes, LoaderNumbers DEF e

\* The memory after a copy of so many bytes to a place.
Overlaid(start, size, part) ==
    /\ DOMAIN guest_memory' = DOMAIN guest_memory \cup Bytes(start, size)
    /\ \A a \in Bytes(start, size) : guest_memory'[a] = part
    /\ \A a \in DOMAIN guest_memory \ Bytes(start, size) : guest_memory'[a] = guest_memory[a]

\* The loader fails, and leaves all else alone ...
LEMMA FailKeeps == LoaderInv /\ load_step # "idle" /\ FailLoad => LoaderInv'
  <1> SUFFICES ASSUME LoaderInv, load_step # "idle", FailLoad PROVE LoaderInv'
    BY Zenon
  <1>1. load_step' = "failed" /\ UNCHANGED <<image, mem_size, setup_header, guest_memory, boot_params>>
    BY Zenon DEF FailLoad
  <1>2. LoaderTypes'
    <2>1. CopiesInsideMemory'
      BY <1>1, Zenon DEF LoaderInv, LoaderTypes, CopiesInsideMemory
    <2> QED
      BY <1>1, <2>1, Zenon DEF LoaderInv, LoaderTypes
  <1>3. PartsInv'
    BY <1>1, Zenon DEF PartsInv, KernelCopied
  <1> QED
    BY <1>2, <1>3, Zenon DEF LoaderInv

\* ... or it copies a part, inside the memory of the VM.
LEMMA CopyStep ==
    ASSUME LoaderInv, load_step # "idle",
           NEW start \in Nat, NEW size \in Nat, NEW part, NEW next, NEW params,
           CopyAndGoTo(start, size, part, next, params),
           next \notin {"idle", "image", "kernel"}
    PROVE  \/ LoaderInv' /\ load_step' = "failed"
           \/ /\ load_step' = next /\ boot_params' = params
              /\ UNCHANGED <<image, mem_size, setup_header>>
              /\ LoaderTypes'
              /\ start + size <= mem_size
              /\ Overlaid(start, size, part)
  <1>1. CASE FailLoad
    BY <1>1, FailKeeps, Zenon DEF FailLoad
  <1>2. CASE ~ FailLoad
    <2>1. /\ RangeFits(start, size)
          /\ guest_memory' = [a \in DOMAIN guest_memory \cup Bytes(start, size) |->
                               IF a \in Bytes(start, size) THEN part ELSE guest_memory[a]]
          /\ load_step' = next /\ boot_params' = params
          /\ UNCHANGED <<image, mem_size, setup_header>>
      BY <1>2, Zenon DEF CopyAndGoTo
    <2>2. mem_size \in Nat /\ CopiesInsideMemory
      BY Zenon DEF LoaderInv, LoaderTypes
    <2>3. start + size <= mem_size /\ Bytes(start, size) \subseteq 0..(mem_size - 1)
      BY <2>1, <2>2 DEF RangeFits, Bytes
    <2>4. Overlaid(start, size, part)
      <3> DEFINE B == Bytes(start, size)
      <3> HIDE DEF B
      <3>1. guest_memory' = [a \in DOMAIN guest_memory \cup B |->
                               IF a \in B THEN part ELSE guest_memory[a]]
        BY <2>1, Zenon DEF B
      <3>2. /\ DOMAIN guest_memory' = DOMAIN guest_memory \cup B
            /\ \A a \in B : guest_memory'[a] = part
            /\ \A a \in DOMAIN guest_memory \ B : guest_memory'[a] = guest_memory[a]
        BY <3>1, Zenon
      <3> QED
        BY <3>2, Zenon DEF Overlaid, B
    <2>5. CopiesInsideMemory'
      <3>1. DOMAIN guest_memory \cup Bytes(start, size) \subseteq 0..(mem_size - 1)
        BY <2>2, <2>3, Zenon DEF CopiesInsideMemory
      <3> QED
        BY <2>1, <2>4, <3>1, Zenon DEF CopiesInsideMemory, Overlaid
    <2>6. LoaderTypes'
      BY <2>1, <2>5, Zenon DEF LoaderInv, LoaderTypes
    <2> QED
      BY <2>1, <2>3, <2>4, <2>6, Zenon
  <1> QED
    BY <1>1, <1>2, Zenon

\* A copy elsewhere does not touch a part.
LEMMA HoldsKept ==
    ASSUME NEW start \in Nat, NEW size \in Nat, NEW part, Overlaid(start, size, part),
           NEW x \in Nat, NEW n \in Nat, NEW other, Holds(x, n, other),
           x + n <= start \/ start + size <= x
    PROVE  \A a \in Bytes(x, n) : a \in DOMAIN guest_memory' /\ guest_memory'[a] = other
  <1> TAKE a \in Bytes(x, n)
  <1>1. a \notin Bytes(start, size)
    BY DEF Bytes
  <1>2. a \in DOMAIN guest_memory /\ guest_memory[a] = other
    BY Zenon DEF Holds
  <1> QED
    BY <1>1, <1>2, Zenon DEF Overlaid

\* ... such as the kernel with the memory it unpacks itself in ...
LEMMA KernelKept ==
    ASSUME setup_header \in Headers, UNCHANGED <<mem_size, setup_header>>,
           NEW start \in Nat, NEW size \in Nat, NEW part, Overlaid(start, size, part),
           setup_header.code32_start <= setup_header.pref_address,
           \/ start + size <= setup_header.code32_start
           \/ setup_header.pref_address + effective_pm_kernel_load_size(setup_header) <= start,
           Kernel(setup_header)
    PROVE  Kernel(setup_header)'
  <1> PICK h \in Headers : h = setup_header
    BY Zenon
  <1> DEFINE e == effective_pm_kernel_load_size(h)
             d == declared_pm_kernel_size(h)
  <1>1. /\ h.code32_start \in Nat /\ h.pref_address \in Nat /\ h.init_size \in Nat
        /\ d \in Nat /\ e \in Nat /\ d <= e /\ h.init_size <= e
    BY KernelSizes, LoaderNumbers, Zenon
  <1>2. /\ h.code32_start <= h.pref_address
        /\ start + size <= h.code32_start \/ h.pref_address + e <= start
    BY Zenon
  <1>3. /\ Holds(h.code32_start, d, "kernel")
        /\ \A a \in Bytes(h.pref_address, h.init_size) :
              a \in DOMAIN guest_memory => guest_memory[a] = "kernel"
    BY Zenon DEF Kernel
  <1> HIDE DEF e, d
  <1>4. \A a \in Bytes(h.code32_start, d) : a \in DOMAIN guest_memory' /\ guest_memory'[a] = "kernel"
    <2>1. h.code32_start + d <= start \/ start + size <= h.code32_start
      BY <1>1, <1>2
    <2> QED
      BY <1>1, <1>3, <2>1, HoldsKept
  <1>5. \A a \in Bytes(h.pref_address, h.init_size) :
           a \in DOMAIN guest_memory' => guest_memory'[a] = "kernel"
    <2> TAKE a \in Bytes(h.pref_address, h.init_size)
    <2>1. a \notin Bytes(start, size)
      BY <1>1, <1>2 DEF Bytes
    <2> QED
      BY <1>3, <2>1, Zenon DEF Overlaid
  <1>6. setup_header' = h /\ mem_size' = mem_size
    BY Zenon
  <1> QED
    BY <1>3, <1>4, <1>5, <1>6, Zenon DEF Kernel, Holds, e, d

\* ... and the initramfs behind it, by a copy below the kernel.
LEMMA LowCopyKeeps ==
    ASSUME LoaderInv, KernelCopied, ExpectedHeader(setup_header),
           UNCHANGED <<image, mem_size, setup_header>>,
           NEW start \in Nat, NEW size \in Nat, NEW part, Overlaid(start, size, part),
           start + size <= setup_header.code32_start
    PROVE  /\ Kernel(setup_header)'
           /\ InitramfsCopied => Initramfs(setup_header)'
  <1>1. /\ setup_header \in Headers /\ mem_size \in Nat /\ image.initramfs \in Modules
        /\ Kernel(setup_header) /\ (InitramfsCopied => Initramfs(setup_header))
    BY Zenon DEF LoaderInv, LoaderTypes, PartsInv, KernelCopied
  <1>2. /\ setup_header.code32_start <= setup_header.pref_address
        /\ setup_header.pref_address + effective_pm_kernel_load_size(setup_header) <= Uint32Range
    BY Zenon DEF ExpectedHeader
  <1>3. Kernel(setup_header)'
    BY <1>1, <1>2, KernelKept, Zenon
  <1>4. ASSUME InitramfsCopied PROVE Initramfs(setup_header)'
    <2> PICK h \in Headers : h = setup_header
      BY <1>1, Zenon
    <2> DEFINE e == effective_pm_kernel_load_size(h)
               i == initramfs_gpaddr(h)
               n == FileSize[image.initramfs]
    <2>1. /\ h.code32_start \in Nat /\ h.pref_address \in Nat
          /\ e \in Nat /\ i \in Nat /\ n \in Nat
      BY <1>1, KernelSizes, LoaderNumbers, InitramfsAddress, GuestBootAssumption, Zenon
    <2>2. Holds(i, n, "initramfs") /\ i + n <= mem_size
      BY <1>1, <1>4, Zenon DEF Initramfs
    <2>3. h.pref_address + e < i
      BY <1>2, InitramfsBehindKernel, Zenon
    <2>4. start + size <= h.code32_start /\ h.code32_start <= h.pref_address
      BY <1>2, Zenon
    <2> HIDE DEF e, i, n
    <2>5. start + size <= i
      BY <2>1, <2>3, <2>4
    <2>6. \A a \in Bytes(i, n) : a \in DOMAIN guest_memory' /\ guest_memory'[a] = "initramfs"
      BY <2>1, <2>2, <2>5, HoldsKept
    <2>7. setup_header' = h /\ mem_size' = mem_size /\ image' = image
      BY Zenon
    <2> QED
      BY <2>2, <2>6, <2>7, Zenon DEF Initramfs, Holds, i, n
  <1> QED
    BY <1>3, <1>4, Zenon

\* The first copy: the kernel is all there is.
LEMMA LoadKernelKeeps == LoaderInv /\ LoadKernel => LoaderInv'
  <1> SUFFICES ASSUME LoaderInv, LoadKernel PROVE LoaderInv'
    BY Zenon
  <1>1. /\ load_step = "kernel" /\ load_step # "idle" /\ setup_header \in Headers
        /\ mem_size \in Nat /\ DOMAIN guest_memory = {}
    <2>1. load_step = "kernel"
      BY Zenon DEF LoadKernel
    <2> QED
      BY <2>1, Zenon DEF LoaderInv, LoaderTypes
  <1> PICK h \in Headers : h = setup_header
    BY <1>1, Zenon
  <1> DEFINE e == effective_pm_kernel_load_size(h)
             d == declared_pm_kernel_size(h)
             c == h.code32_start
  <1>2. c \in Nat /\ d \in Nat /\ e \in Nat
    BY KernelSizes, LoaderNumbers, Zenon
  <1>3. \/ FailLoad
        \/ RangeFits(c, e) /\ CopyAndGoTo(c, d, "kernel", "initramfs", boot_params)
    BY Zenon DEF LoadKernel
  <1>4. CASE FailLoad
    BY <1>1, <1>4, FailKeeps, Zenon
  <1>5. CASE RangeFits(c, e) /\ CopyAndGoTo(c, d, "kernel", "initramfs", boot_params)
    <2> HIDE DEF e, d, c
    <2>1. \/ LoaderInv'
          \/ /\ load_step' = "initramfs" /\ UNCHANGED <<image, mem_size, setup_header>>
             /\ LoaderTypes' /\ Overlaid(c, d, "kernel")
      BY <1>1, <1>2, <1>5, CopyStep, Zenon
    <2>2. ASSUME load_step' = "initramfs", UNCHANGED <<image, mem_size, setup_header>>,
                 LoaderTypes', Overlaid(c, d, "kernel")
          PROVE  LoaderInv'
      <3>1. \A a \in Bytes(c, d) : a \in DOMAIN guest_memory' /\ guest_memory'[a] = "kernel"
        BY <1>1, <2>2, Zenon DEF Overlaid
      <3>2. \A a \in DOMAIN guest_memory' : guest_memory'[a] = "kernel"
        BY <1>1, <2>2, Zenon DEF Overlaid
      <3>3. Kernel(setup_header)'
        <4>1. setup_header' = h /\ mem_size' = mem_size
          BY <2>2, Zenon
        <4> QED
          BY <3>1, <3>2, <4>1, Zenon DEF Kernel, Holds, c, d
      <3> QED
        BY <2>2, <3>3, Zenon DEF LoaderInv, PartsInv, InitramfsCopied, GdtCopied, CommandLineCopied
    <2> QED
      BY <2>1, <2>2, Zenon
  <1> QED
    BY <1>3, <1>4, <1>5, Zenon

\* The second goes behind the kernel, even when init_size is the larger size.
LEMMA LoadInitramfsKeeps == LoaderInv /\ LoadInitramfs => LoaderInv'
  <1> SUFFICES ASSUME LoaderInv, LoadInitramfs PROVE LoaderInv'
    BY Zenon
  <1>1. /\ load_step = "initramfs" /\ load_step # "idle" /\ setup_header \in Headers
        /\ mem_size \in Nat /\ image.initramfs \in Modules
    <2>1. load_step = "initramfs"
      BY Zenon DEF LoadInitramfs
    <2> QED
      BY <2>1, Zenon DEF LoaderInv, LoaderTypes
  <1> PICK h \in Headers : h = setup_header
    BY <1>1, Zenon
  <1> DEFINE e == effective_pm_kernel_load_size(h)
             i == initramfs_gpaddr(h)
             n == FileSize[image.initramfs]
  <1>2. h.pref_address \in Nat /\ e \in Nat /\ i \in Nat /\ n \in Nat
    BY <1>1, KernelSizes, LoaderNumbers, InitramfsAddress, GuestBootAssumption, Zenon
  <1>3. CopyAndGoTo(i, n, "initramfs", "gdt", boot_params)
    BY Zenon DEF LoadInitramfs
  <1>4. h.pref_address + e <= Uint32Range => h.pref_address + e < i
    BY InitramfsBehindKernel, Zenon
  <1> HIDE DEF e, i, n
  <1>5. \/ LoaderInv'
        \/ /\ load_step' = "gdt" /\ UNCHANGED <<image, mem_size, setup_header>>
           /\ LoaderTypes' /\ i + n <= mem_size /\ Overlaid(i, n, "initramfs")
    BY <1>1, <1>2, <1>3, CopyStep, Zenon
  <1>6. ASSUME load_step' = "gdt", UNCHANGED <<image, mem_size, setup_header>>,
               LoaderTypes', i + n <= mem_size, Overlaid(i, n, "initramfs")
        PROVE  LoaderInv'
    <2>1. ASSUME ExpectedHeader(setup_header) PROVE Kernel(setup_header)' /\ Initramfs(setup_header)'
      <3>1. /\ h.code32_start <= h.pref_address /\ h.pref_address + e <= Uint32Range
            /\ Kernel(h)
        BY <1>1, <2>1, Zenon DEF ExpectedHeader, LoaderInv, PartsInv, KernelCopied, e
      <3>2. h.pref_address + e <= i
        BY <1>2, <1>4, <3>1
      <3>3. Kernel(setup_header)'
        BY <1>1, <1>2, <1>6, <3>1, <3>2, KernelKept, Zenon DEF e
      <3>4. \A a \in Bytes(i, n) : a \in DOMAIN guest_memory' /\ guest_memory'[a] = "initramfs"
        BY <1>6, Zenon DEF Overlaid
      <3>5. setup_header' = h /\ mem_size' = mem_size /\ image' = image
        BY <1>6, Zenon
      <3>6. Initramfs(setup_header)'
        BY <1>6, <3>4, <3>5, Zenon DEF Initramfs, Holds, i, n
      <3> QED
        BY <3>3, <3>6, Zenon
    <2>2. ExpectedHeader(setup_header)' => ExpectedHeader(setup_header)
      BY <1>6, Zenon DEF ExpectedHeader
    <2>3. PartsInv'
      BY <1>6, <2>1, <2>2, Zenon DEF PartsInv, InitramfsCopied, GdtCopied, CommandLineCopied
    <2> QED
      BY <1>6, <2>3, Zenon DEF LoaderInv
  <1> QED
    BY <1>5, <1>6, Zenon

\* The other three go below the kernel: the GDT ...
LEMMA LoadGdtKeeps == LoaderInv /\ LoadGdt => LoaderInv'
  <1> SUFFICES ASSUME LoaderInv, LoadGdt PROVE LoaderInv'
    BY Zenon
  <1>1. /\ load_step = "gdt" /\ load_step # "idle" /\ setup_header \in Headers
    <2>1. load_step = "gdt"
      BY Zenon DEF LoadGdt
    <2> QED
      BY <2>1, Zenon DEF LoaderInv, LoaderTypes
  <1>2. CASE FailLoad
    BY <1>1, <1>2, FailKeeps, Zenon
  <1>3. CASE CopyAndGoTo(GDT_GPADDR, PAGE_SIZE, "gdt", "command_line", boot_params)
    <2>1. \/ LoaderInv'
          \/ /\ load_step' = "command_line" /\ UNCHANGED <<image, mem_size, setup_header>>
             /\ LoaderTypes' /\ Overlaid(GDT_GPADDR, PAGE_SIZE, "gdt")
      BY <1>1, <1>3, CopyStep, LoaderNumbers, Zenon
    <2>2. ASSUME load_step' = "command_line", UNCHANGED <<image, mem_size, setup_header>>,
                 LoaderTypes', Overlaid(GDT_GPADDR, PAGE_SIZE, "gdt")
          PROVE  LoaderInv'
      <3>1. ASSUME ExpectedHeader(setup_header)
            PROVE  Kernel(setup_header)' /\ Initramfs(setup_header)'
        <4>1. GDT_GPADDR + PAGE_SIZE <= setup_header.code32_start
          BY <1>1, <3>1, LoaderNumbers, LinuxLoaderAssumption DEF ExpectedHeader
        <4>2. KernelCopied /\ InitramfsCopied
          BY <1>1, Zenon DEF KernelCopied, InitramfsCopied
        <4> QED
          BY <2>2, <3>1, <4>1, <4>2, LowCopyKeeps, LoaderNumbers, Zenon
      <3>2. Holds(GDT_GPADDR, PAGE_SIZE, "gdt")'
        BY <2>2, Zenon DEF Overlaid, Holds
      <3>3. ExpectedHeader(setup_header)' => ExpectedHeader(setup_header)
        BY <2>2, Zenon DEF ExpectedHeader
      <3>4. PartsInv'
        BY <2>2, <3>1, <3>2, <3>3, Zenon DEF PartsInv, CommandLineCopied
      <3> QED
        BY <2>2, <3>4, Zenon DEF LoaderInv
    <2> QED
      BY <2>1, <2>2, Zenon
  <1> QED
    BY <1>2, <1>3, Zenon DEF LoadGdt

\* ... the command line, which ends before the zero page ...
LEMMA LoadCommandLineKeeps == LoaderInv /\ LoadCommandLine => LoaderInv'
  <1> SUFFICES ASSUME LoaderInv, LoadCommandLine PROVE LoaderInv'
    BY Zenon
  <1>1. /\ load_step = "command_line" /\ load_step # "idle" /\ setup_header \in Headers
    <2>1. load_step = "command_line"
      BY Zenon DEF LoadCommandLine
    <2> QED
      BY <2>1, Zenon DEF LoaderInv, LoaderTypes
  <1> DEFINE n == strlen(image.cmdline_str)
             c == COMMAND_LINE_GPADDR
  <1>2. n \in Nat /\ n + 1 \in Nat /\ c \in Nat
    BY StrlenIsNat, LoaderNumbers
  <1>3. \/ FailLoad
        \/ /\ n <= setup_header.cmdline_size
           /\ CopyAndGoTo(c, n + 1, "command_line", "zero_page", boot_params)
    BY Zenon DEF LoadCommandLine
  <1>4. CASE FailLoad
    BY <1>1, <1>4, FailKeeps, Zenon
  <1>5. CASE /\ n <= setup_header.cmdline_size
             /\ CopyAndGoTo(c, n + 1, "command_line", "zero_page", boot_params)
    <2> HIDE DEF n, c
    <2>1. \/ LoaderInv'
          \/ /\ load_step' = "zero_page" /\ UNCHANGED <<image, mem_size, setup_header>>
             /\ LoaderTypes' /\ Overlaid(c, n + 1, "command_line")
      BY <1>1, <1>2, <1>5, CopyStep
    <2>2. ASSUME load_step' = "zero_page", UNCHANGED <<image, mem_size, setup_header>>,
                 LoaderTypes', Overlaid(c, n + 1, "command_line")
          PROVE  LoaderInv'
      <3>1. ASSUME ExpectedHeader(setup_header)
            PROVE  /\ Kernel(setup_header)' /\ Initramfs(setup_header)'
                   /\ Holds(GDT_GPADDR, PAGE_SIZE, "gdt")'
        <4>1. /\ c + (n + 1) <= setup_header.code32_start
              /\ GDT_GPADDR + PAGE_SIZE <= c
          BY <1>1, <1>2, <1>5, <3>1, LoaderNumbers, LinuxLoaderAssumption DEF ExpectedHeader, c
        <4>2. KernelCopied /\ InitramfsCopied /\ Holds(GDT_GPADDR, PAGE_SIZE, "gdt")
          BY <1>1, <3>1, Zenon DEF KernelCopied, InitramfsCopied, LoaderInv, PartsInv, GdtCopied
        <4>3. Kernel(setup_header)' /\ Initramfs(setup_header)'
          BY <1>2, <2>2, <3>1, <4>1, <4>2, LowCopyKeeps, Zenon
        <4>4. \A a \in Bytes(GDT_GPADDR, PAGE_SIZE) :
                 a \in DOMAIN guest_memory' /\ guest_memory'[a] = "gdt"
          BY <1>2, <2>2, <4>1, <4>2, HoldsKept, LoaderNumbers
        <4> QED
          BY <4>3, <4>4, Zenon DEF Holds
      <3>2. CommandLine(setup_header)'
        <4>1. \A a \in Bytes(c, n + 1) : a \in DOMAIN guest_memory' /\ guest_memory'[a] = "command_line"
          BY <2>2, Zenon DEF Overlaid
        <4> QED
          BY <1>5, <2>2, <4>1, Zenon DEF CommandLine, Holds, n, c
      <3>3. ExpectedHeader(setup_header)' => ExpectedHeader(setup_header)
        BY <2>2, Zenon DEF ExpectedHeader
      <3>4. PartsInv'
        BY <2>2, <3>1, <3>2, <3>3, Zenon DEF PartsInv
      <3> QED
        BY <2>2, <3>4, Zenon DEF LoaderInv
    <2> QED
      BY <2>1, <2>2, Zenon
  <1> QED
    BY <1>3, <1>4, <1>5, Zenon

\* ... and the zero page, which says where the others are.
LEMMA LoadZeroPageKeeps == LoaderInv /\ LoadZeroPage => LoaderInv'
  <1> SUFFICES ASSUME LoaderInv, LoadZeroPage PROVE LoaderInv'
    BY Zenon
  <1>1. /\ load_step = "zero_page" /\ load_step # "idle" /\ setup_header \in Headers
    <2>1. load_step = "zero_page"
      BY Zenon DEF LoadZeroPage
    <2> QED
      BY <2>1, Zenon DEF LoaderInv, LoaderTypes
  <1> DEFINE z == ZERO_PAGE_GPADDR
  <1>2. CASE FailLoad
    BY <1>1, <1>2, FailKeeps, Zenon
  <1>3. CASE CopyAndGoTo(z, PAGE_SIZE, "zero_page", "loaded", BootParams)
    <2>1. \/ LoaderInv'
          \/ /\ load_step' = "loaded" /\ UNCHANGED <<image, mem_size, setup_header>>
             /\ LoaderTypes' /\ Overlaid(z, PAGE_SIZE, "zero_page") /\ boot_params' = BootParams
      <3> DEFINE params == BootParams
      <3> HIDE DEF params
      <3>1. CopyAndGoTo(z, PAGE_SIZE, "zero_page", "loaded", params)
        BY <1>3, Zenon DEF params
      <3>2. \/ LoaderInv'
            \/ /\ load_step' = "loaded" /\ UNCHANGED <<image, mem_size, setup_header>>
               /\ LoaderTypes' /\ Overlaid(z, PAGE_SIZE, "zero_page") /\ boot_params' = params
        BY <1>1, <3>1, CopyStep, LoaderNumbers
      <3> QED
        BY <3>2, Zenon DEF params
    <2>2. ASSUME load_step' = "loaded", UNCHANGED <<image, mem_size, setup_header>>,
                 LoaderTypes', Overlaid(z, PAGE_SIZE, "zero_page"), boot_params' = BootParams
          PROVE  LoaderInv'
      <3>1. ASSUME ExpectedHeader(setup_header)
            PROVE  /\ Kernel(setup_header)' /\ Initramfs(setup_header)'
                   /\ Holds(GDT_GPADDR, PAGE_SIZE, "gdt")' /\ CommandLine(setup_header)'
        <4> DEFINE n == strlen(image.cmdline_str) + 1
                   c == COMMAND_LINE_GPADDR
        <4>1. /\ KernelCopied /\ InitramfsCopied /\ Holds(GDT_GPADDR, PAGE_SIZE, "gdt")
              /\ CommandLine(setup_header)
          BY <1>1, <3>1, Zenon
             DEF KernelCopied, InitramfsCopied, LoaderInv, PartsInv, GdtCopied, CommandLineCopied
        <4>2. Holds(c, n, "command_line") /\ n \in Nat /\ n <= setup_header.cmdline_size + 1
          BY <1>1, <4>1, StrlenIsNat, LoaderNumbers DEF CommandLine
        <4> HIDE DEF n
        <4>3. /\ z + PAGE_SIZE <= setup_header.code32_start
              /\ GDT_GPADDR + PAGE_SIZE <= z /\ c + n <= z
          BY <1>1, <3>1, <4>2, LoaderNumbers, LinuxLoaderAssumption DEF ExpectedHeader
        <4>4. Kernel(setup_header)' /\ Initramfs(setup_header)'
          BY <2>2, <3>1, <4>1, <4>3, LowCopyKeeps, LoaderNumbers, Zenon
        <4>5. /\ \A a \in Bytes(GDT_GPADDR, PAGE_SIZE) :
                    a \in DOMAIN guest_memory' /\ guest_memory'[a] = "gdt"
              /\ \A a \in Bytes(c, n) :
                    a \in DOMAIN guest_memory' /\ guest_memory'[a] = "command_line"
          BY <2>2, <4>1, <4>2, <4>3, HoldsKept, LoaderNumbers
        <4>6. CommandLine(setup_header)'
          BY <2>2, <4>1, <4>5, Zenon DEF CommandLine, Holds, n
        <4> QED
          BY <4>4, <4>5, <4>6, Zenon DEF Holds
      <3>2. Holds(ZERO_PAGE_GPADDR, PAGE_SIZE, "zero_page")'
        BY <2>2, Zenon DEF Overlaid, Holds
      <3>3. ExpectedHeader(setup_header)' => ExpectedHeader(setup_header)
        BY <2>2, Zenon DEF ExpectedHeader
      <3>4. boot_params' = BootParams'
        BY <2>2, Zenon DEF BootParams
      <3>5. PartsInv'
        BY <2>2, <3>1, <3>2, <3>3, <3>4, Zenon DEF PartsInv
      <3> QED
        BY <2>2, <3>5, Zenon DEF LoaderInv
    <2> QED
      BY <2>1, <2>2, Zenon
  <1> QED
    BY <1>2, <1>3, Zenon DEF LoadZeroPage

\* Every step of load_linux_32bit_direct_boot_for_vm keeps the invariant.
LEMMA LoaderStep == LoaderInv /\ LoaderNext => LoaderInv'
  <1> SUFFICES ASSUME LoaderInv, LoaderNext PROVE LoaderInv'
    BY Zenon
  <1>1. CASE CheckImage
    <2>1. load_step = "image" /\ load_step # "idle"
      BY <1>1, Zenon DEF CheckImage
    <2>2. CASE FailLoad
      BY <2>1, <2>2, FailKeeps, Zenon
    <2>3. CASE ~ FailLoad
      <3>1. load_step' = "kernel" /\ UNCHANGED <<image, mem_size, setup_header, guest_memory, boot_params>>
        BY <1>1, <2>3, Zenon DEF CheckImage
      <3>2. LoaderTypes'
        BY <2>1, <3>1, Zenon DEF LoaderInv, LoaderTypes, CopiesInsideMemory
      <3>3. PartsInv'
        BY <3>1, Zenon DEF PartsInv, KernelCopied
      <3> QED
        BY <3>2, <3>3, Zenon DEF LoaderInv
    <2> QED
      BY <2>2, <2>3, Zenon
  <1> QED
    BY <1>1, LoadKernelKeeps, LoadInitramfsKeeps, LoadGdtKeeps, LoadCommandLineKeeps,
       LoadZeroPageKeeps, Zenon DEF LoaderNext

\* It begins with an empty memory of any size ...
LEMMA BeginKeeps ==
    ASSUME NEW config, NEW bytes \in Nat, BeginLoad(config, bytes),
           {config.bzImage, config.initramfs} \subseteq Modules
    PROVE  LoaderInv'
  <1>1. /\ load_step' = "image" /\ mem_size' = bytes /\ setup_header' \in Headers
        /\ image'.bzImage = config.bzImage /\ image'.initramfs = config.initramfs
        /\ DOMAIN guest_memory' = {}
    BY DEF BeginLoad
  <1>2. LoaderTypes'
    BY <1>1, Zenon DEF LoaderTypes, CopiesInsideMemory
  <1>3. PartsInv'
    BY <1>1, Zenon DEF PartsInv, KernelCopied
  <1> QED
    BY <1>2, <1>3, Zenon DEF LoaderInv

\* ... and without a guest there is nothing.
LEMMA IdleLoader == load_step = "idle" /\ mem_size = 0 /\ guest_memory = << >> => LoaderInv
  <1> SUFFICES ASSUME load_step = "idle", mem_size = 0, guest_memory = << >> PROVE LoaderInv
    BY Zenon
  <1>1. LoaderTypes
    BY DEF LoaderTypes, CopiesInsideMemory
  <1>2. PartsInv
    BY Zenon DEF PartsInv, KernelCopied
  <1> QED
    BY <1>1, <1>2, Zenon DEF LoaderInv

\* A step of others.
LEMMA LoaderKept == LoaderInv /\ UNCHANGED loader_vars => LoaderInv'
  <1> SUFFICES ASSUME LoaderInv, UNCHANGED loader_vars PROVE LoaderInv'
    BY Zenon
  <1>1. UNCHANGED <<load_step, image, mem_size, setup_header, guest_memory, boot_params>>
    BY Zenon DEF loader_vars
  <1>2. LoaderTypes'
    BY <1>1, Zenon DEF LoaderInv, LoaderTypes, CopiesInsideMemory
  <1>3. KernelCopied' = KernelCopied /\ InitramfsCopied' = InitramfsCopied /\ GdtCopied' = GdtCopied
        /\ CommandLineCopied' = CommandLineCopied /\ ExpectedHeader(setup_header)' = ExpectedHeader(setup_header)
    BY <1>1, Zenon DEF KernelCopied, InitramfsCopied, GdtCopied, CommandLineCopied, ExpectedHeader
  <1>4. /\ Kernel(setup_header)' = Kernel(setup_header)
        /\ Initramfs(setup_header)' = Initramfs(setup_header)
        /\ CommandLine(setup_header)' = CommandLine(setup_header)
        /\ Holds(GDT_GPADDR, PAGE_SIZE, "gdt")' = Holds(GDT_GPADDR, PAGE_SIZE, "gdt")
        /\ Holds(ZERO_PAGE_GPADDR, PAGE_SIZE, "zero_page")' = Holds(ZERO_PAGE_GPADDR, PAGE_SIZE, "zero_page")
        /\ BootParams' = BootParams
    BY <1>1, Zenon DEF Kernel, Initramfs, CommandLine, Holds, BootParams
  <1>5. PartsInv'
    BY <1>1, <1>3, <1>4, Zenon DEF LoaderInv, PartsInv
  <1> QED
    BY <1>2, <1>5, Zenon DEF LoaderInv

\* The 32-bit fields of the zero page hold the address and the size of the
\* initramfs, because it ends in the first 4 GB and does not begin at 0.
LEMMA PartsAreFound == LoaderInv => GuestFindsItsParts
  <1> SUFFICES ASSUME LoaderInv, load_step = "loaded", ExpectedHeader(setup_header)
               PROVE  GuestFindsItsParts
    BY Zenon DEF GuestFindsItsParts
  <1>1. /\ setup_header \in Headers /\ mem_size \in Nat /\ image.initramfs \in Modules
    BY Zenon DEF LoaderInv, LoaderTypes
  <1>2. /\ Kernel(setup_header) /\ Initramfs(setup_header) /\ CommandLine(setup_header)
        /\ Holds(GDT_GPADDR, PAGE_SIZE, "gdt") /\ Holds(ZERO_PAGE_GPADDR, PAGE_SIZE, "zero_page")
        /\ boot_params = BootParams
    BY Zenon DEF LoaderInv, PartsInv, KernelCopied, InitramfsCopied, GdtCopied, CommandLineCopied
  <1> PICK h \in Headers : h = setup_header
    BY <1>1, Zenon
  <1> DEFINE e == effective_pm_kernel_load_size(h)
             i == initramfs_gpaddr(h)
             n == FileSize[image.initramfs]
  <1>3. /\ h.pref_address \in Nat /\ h.init_size \in Nat /\ h.init_size <= e
        /\ e \in Nat /\ i \in Nat /\ n \in Nat
    BY <1>1, KernelSizes, LoaderNumbers, InitramfsAddress, GuestBootAssumption, Zenon
  <1>4. h.pref_address + e <= Uint32Range /\ mem_size <= Uint32Range
    BY Zenon DEF ExpectedHeader
  <1>5. i + n <= mem_size
    BY <1>2, Zenon DEF Initramfs
  <1>6. h.pref_address + e < i
    BY <1>4, InitramfsBehindKernel, Zenon
  <1>7. /\ boot_params.ramdisk_image = i % Uint32Range
        /\ boot_params.ramdisk_size = n % Uint32Range
        /\ boot_params.cmd_line_ptr = COMMAND_LINE_GPADDR
        /\ boot_params.e820_size = mem_size
    BY <1>2, Zenon DEF BootParams
  <1> HIDE DEF e, i, n
  <1>8. i < Uint32Range \/ n = 0
    BY <1>1, <1>3, <1>4, <1>5, LoaderNumbers
  <1>9. n < Uint32Range
    BY <1>1, <1>3, <1>4, <1>5, <1>6, LoaderNumbers
  <1>10. Holds(boot_params.ramdisk_image, boot_params.ramdisk_size, "initramfs")
    <2>1. CASE n = 0
      <3>1. boot_params.ramdisk_size = 0 /\ boot_params.ramdisk_image \in Nat
        BY <1>3, <1>7, <2>1, LoaderNumbers
      <3> QED
        BY <3>1 DEF Holds, Bytes
    <2>2. CASE i < Uint32Range
      <3>1. boot_params.ramdisk_image = i /\ boot_params.ramdisk_size = n
        BY <1>3, <1>7, <1>9, <2>2, LoaderNumbers
      <3> QED
        BY <1>2, <3>1, Zenon DEF Initramfs, i, n
    <2> QED
      BY <1>8, <2>1, <2>2, Zenon
  <1>11. \A a \in Bytes(h.pref_address, h.init_size) :
           /\ a < boot_params.e820_size
           /\ a \in DOMAIN guest_memory => guest_memory[a] = "kernel"
    <2> TAKE a \in Bytes(h.pref_address, h.init_size)
    <2>1. a < mem_size
      BY <1>1, <1>3, <1>5, <1>6 DEF Bytes
    <2> QED
      BY <1>2, <1>7, <2>1, Zenon DEF Kernel
  <1>12. Holds(boot_params.cmd_line_ptr, strlen(image.cmdline_str) + 1, "command_line")
    BY <1>2, <1>7, Zenon DEF CommandLine
  <1> QED
    BY <1>2, <1>10, <1>11, <1>12, Zenon DEF GuestFindsItsParts, Kernel

-----------------------------------------------------------------------------
(* Proofs about the requests, the configurations and their strings *)

\* t is s and one element more.
Extends(t, s, e) ==
    /\ IsSequence(t) /\ Len(t) = Len(s) + 1 /\ t[Len(s) + 1] = e
    /\ \A i \in DOMAIN s : i \in DOMAIN t /\ t[i] = s[i]
    /\ \A i \in 1..Len(s) : t[i] = s[i]
    /\ \A i \in DOMAIN t : i \in DOMAIN s \/ i = Len(s) + 1
    /\ \A i \in 1..Len(t) : i \in 1..Len(s) \/ i = Len(s) + 1
    /\ Len(s) + 1 \in DOMAIN t /\ Len(s) + 1 \notin DOMAIN s

\* What Append does to a sequence of anything.
LEMMA Appended ==
    ASSUME NEW s, IsSequence(s), NEW e, NEW t, t = Append(s, e)
    PROVE  Extends(t, s, e)
  <1> DEFINE S == {s[i] : i \in 1..Len(s)} \cup {e}
  <1>1. s \in Seq(S) /\ e \in S
    <2>1. PICK n \in Nat : n = Len(s)
      BY Zenon DEF IsSequence
    <2>2. s = [i \in 1..n |-> s[i]] /\ \A i \in 1..n : s[i] \in S
      BY <2>1, Zenon DEF IsSequence
    <2> HIDE DEF S
    <2>3. s \in [1..n -> S]
      BY <2>2, Zenon
    <2> QED
      BY <2>3 DEF S
  <1> HIDE DEF S
  <1>2. t \in Seq(S) /\ Len(t) = Len(s) + 1 /\ Len(s) \in Nat
    BY <1>1
  <1>3. DOMAIN s = 1..Len(s) /\ DOMAIN t = 1..(Len(s) + 1)
    BY <1>1, <1>2
  <1>4. (\A i \in 1..Len(s) : t[i] = s[i]) /\ t[Len(s) + 1] = e
    BY <1>1, <1>2
  <1>5. IsSequence(t)
    <2>1. Len(t) \in Nat /\ t \in [1..Len(t) -> S]
      <3>1. PICK u \in Seq(S) : u = t
        BY <1>2, Zenon
      <3>2. Len(u) \in Nat /\ u \in [1..Len(u) -> S]
        OBVIOUS
      <3> QED
        BY <3>1, <3>2, Zenon
    <2>2. PICK n \in Nat : n = Len(t)
      BY <2>1, Zenon
    <2>3. t = [i \in 1..n |-> t[i]]
      BY <2>1, <2>2, Zenon
    <2> QED
      BY <2>2, <2>3, Zenon DEF IsSequence
  <1>6. \A i \in 1..(Len(s) + 1) : i \in 1..Len(s) \/ i = Len(s) + 1
    BY <1>2
  <1>7. Len(s) + 1 \in 1..(Len(s) + 1) /\ Len(s) + 1 \notin 1..Len(s)
        /\ \A i \in 1..Len(s) : i \in 1..(Len(s) + 1)
    BY <1>2
  <1> QED
    BY <1>2, <1>3, <1>4, <1>5, <1>6, <1>7, Zenon DEF Extends

LEMMA EmptyIsSequence == IsSequence(<< >>) /\ Len(<< >>) = 0 /\ DOMAIN << >> = {}
  BY DEF IsSequence

\* The positions of a sequence.
LEMMA Positions == \A s : IsSequence(s) => Len(s) \in Nat /\ DOMAIN s = 1..Len(s)
  BY Zenon DEF IsSequence

\* The members of a request that are strings.
LEMMA TextKeys ==
    /\ TextMembers = {"name", "bzImage_name", "initramfs_name", "cmdline_str"}
    /\ \A k \in DOMAIN TextMember : TextMember[k] \in TextMembers
    /\ TextMembers \subseteq RequestMembers
  <1>1. DOMAIN TextMember = {"vm.name", "vm.boot.linux.bzimage", "vm.boot.linux.initramfs",
                             "vm.boot.linux.cmdline"}
    BY Zenon DEF TextMember
  <1>2. /\ TextMember["vm.name"] = "name"
        /\ TextMember["vm.boot.linux.bzimage"] = "bzImage_name"
        /\ TextMember["vm.boot.linux.initramfs"] = "initramfs_name"
        /\ TextMember["vm.boot.linux.cmdline"] = "cmdline_str"
    BY Zenon DEF TextMember
  <1>3. TextMembers = {"name", "bzImage_name", "initramfs_name", "cmdline_str"}
    BY <1>1, <1>2, Zenon DEF TextMembers
  <1>4. \A k \in DOMAIN TextMember : TextMember[k] \in TextMembers
    BY Zenon DEF TextMembers
  <1> QED
    BY <1>3, <1>4, Zenon DEF RequestMembers

\* A new request has no strings.
LEMMA EmptyRequestIsGood == \A id : GoodRequest(EmptyRequest(id)) /\ StringsOf(EmptyRequest(id)) = {}
  <1> TAKE id
  <1>1. GoodRequest(EmptyRequest(id))
    BY Zenon DEF GoodRequest, EmptyRequest, RequestMembers, mem_granularities
  <1>2. \A m \in TextMembers : EmptyRequest(id)[m].id = 0
    <2>1. /\ EmptyRequest(id).name.id = 0 /\ EmptyRequest(id).bzImage_name.id = 0
          /\ EmptyRequest(id).initramfs_name.id = 0 /\ EmptyRequest(id).cmdline_str.id = 0
      BY Zenon DEF EmptyRequest, NULL
    <2> QED
      BY <2>1, TextKeys, Zenon
  <1> QED
    BY <1>1, <1>2, Zenon DEF StringsOf

\* A number from the file is a natural number, whatever is cut off.
LEMMA ConvertedIsNat == \A v : is_positive_integer(v) => Converted(v) \in Nat
  BY VmConfigAssumption DEF is_positive_integer, Converted

\* set_vm_request_val takes a new string or none, and drops what it replaces.
LEMMA ValueSet ==
    ASSUME GoodRequest(request), NEW key, NEW value,
           ValueAccepted(key, value), set_vm_request_val(key, value)
    PROVE  /\ GoodRequest(request')
           /\ \/ /\ heap' = heap \cup {fresh} /\ fresh' = fresh + 1
                 /\ StringsOf(request') \subseteq StringsOf(request) \cup {fresh}
              \/ /\ UNCHANGED <<heap, fresh>>
                 /\ StringsOf(request') \subseteq StringsOf(request)
  <1>1. CASE key \in DOMAIN TextMember
    <2>1. PICK m \in TextMembers : m = TextMember[key]
      BY <1>1, TextKeys, Zenon
    <2>2. request' = [request EXCEPT ![m] = [id |-> fresh, text |-> value]]
      <3>1. /\ key \notin DOMAIN NumberMember /\ key # "vm.type"
            /\ key # "vm.mem.granularity" /\ key # "vm.dev.serial"
        BY <1>1, Zenon DEF TextMember, NumberMember
      <3> QED
        BY <1>1, <2>1, <3>1, Zenon DEF set_vm_request_val
    <2>3. heap' = heap \cup {fresh} /\ fresh' = fresh + 1
      BY <1>1, Zenon DEF set_vm_request_val
    <2>4. DOMAIN request = RequestMembers /\ m \in RequestMembers
      BY TextKeys, Zenon DEF GoodRequest
    <2>5. /\ DOMAIN request' = RequestMembers /\ request'[m].id = fresh
          /\ \A x \in RequestMembers \ {m} : request'[x] = request[x]
      BY <2>2, <2>4, Zenon
    <2>6. GoodRequest(request')
      <3>1. "mem_size" \in RequestMembers \ {m} /\ "granularity" \in RequestMembers \ {m}
        BY TextKeys, Zenon DEF RequestMembers
      <3> QED
        BY <2>5, <3>1, Zenon DEF GoodRequest
    <2>7. StringsOf(request') \subseteq StringsOf(request) \cup {fresh}
      BY <2>5, TextKeys, Zenon DEF StringsOf
    <2> QED
      BY <2>3, <2>6, <2>7, Zenon
  <1>2. ASSUME NEW m \in RequestMembers \ TextMembers, NEW v,
               request' = [request EXCEPT ![m] = v], UNCHANGED <<heap, fresh>>,
               m = "mem_size" => v \in Nat, m = "granularity" => v \in mem_granularities
        PROVE  /\ GoodRequest(request') /\ UNCHANGED <<heap, fresh>>
               /\ StringsOf(request') \subseteq StringsOf(request)
    <2>1. DOMAIN request = RequestMembers
      BY Zenon DEF GoodRequest
    <2>2. /\ DOMAIN request' = RequestMembers /\ request'[m] = v
          /\ \A x \in RequestMembers \ {m} : request'[x] = request[x]
      BY <1>2, <2>1, Zenon
    <2>3. GoodRequest(request')
      <3>1. "mem_size" \in RequestMembers /\ "granularity" \in RequestMembers
        BY Zenon DEF RequestMembers
      <3> QED
        BY <1>2, <2>2, <3>1, Zenon DEF GoodRequest
    <2>4. \A x \in TextMembers : request'[x] = request[x]
      BY <2>2, TextKeys, Zenon
    <2> QED
      BY <1>2, <2>3, <2>4, Zenon DEF StringsOf
  <1>3. CASE key \notin DOMAIN TextMember
    <2>1. UNCHANGED <<heap, fresh>>
      BY <1>3, Zenon DEF set_vm_request_val
    <2>2. {"vcpus", "mem_size", "type", "granularity", "serial_id"} \subseteq RequestMembers \ TextMembers
      BY TextKeys, Zenon DEF RequestMembers
    <2>3. CASE key \in DOMAIN NumberMember /\ request' = [request EXCEPT ![NumberMember[key]] = Converted(value)]
      <3>1. NumberMember[key] \in {"vcpus", "mem_size"}
        BY <2>3, Zenon DEF NumberMember
      <3>2. key \notin {"vm.type", "vm.mem.granularity", "vm.dev.serial"}
        BY <2>3, Zenon DEF NumberMember
      <3>3. Converted(value) \in Nat
        BY <1>3, <2>3, <3>2, ConvertedIsNat, Zenon DEF ValueAccepted
      <3>4. NumberMember[key] \in RequestMembers \ TextMembers /\ NumberMember[key] # "granularity"
        BY <2>2, <3>1, Zenon
      <3> QED
        BY <1>2, <2>1, <2>3, <3>3, <3>4, Zenon
    <2>4. CASE key = "vm.type" /\ request' = [request EXCEPT !.type = value]
      BY <1>2, <2>1, <2>2, <2>4, Zenon
    <2>5. CASE key = "vm.mem.granularity" /\ request' = [request EXCEPT !.granularity = value]
      <3>1. value \in mem_granularities
        <4>1. key \notin DOMAIN NumberMember /\ key # "vm.type" /\ key # "vm.dev.serial"
          BY <2>5, Zenon DEF NumberMember
        <4> QED
          BY <1>3, <4>1, Zenon DEF ValueAccepted
      <3> QED
        BY <1>2, <2>1, <2>2, <2>5, <3>1, Zenon
    <2>6. CASE key = "vm.dev.serial" /\ request' = [request EXCEPT !.serial_id = Converted(value)]
      BY <1>2, <2>1, <2>2, <2>6, Zenon
    <2> QED
      BY <1>3, <2>3, <2>4, <2>5, <2>6, Zenon DEF set_vm_request_val
  <1> QED
    BY <1>1, <1>3, Zenon

-----------------------------------------------------------------------------
(* What a step of get_vm_configs does to the requests and their strings *)

Untouched == UNCHANGED <<request, requests, configs, heap, fresh>>

Sets(key, value) ==
    /\ ValueAccepted(key, value) /\ set_vm_request_val(key, value)
    /\ UNCHANGED <<requests, configs>>

Completes ==
    /\ requests' = Append(requests, request) /\ request' = NextRequest
    /\ UNCHANGED <<configs, heap, fresh>>

Drops ==
    /\ requests' = << >> /\ heap' = heap \ StringsOfAll(requests)
    /\ UNCHANGED <<request, configs, fresh>>

DropsAll ==
    /\ requests' = << >> /\ configs' = << >>
    /\ heap' = heap \ (ConfigStringsOfAll(configs) \cup StringsOfAll(requests))
    /\ UNCHANGED <<request, fresh>>

Converts ==
    /\ Len(configs) < Len(requests) /\ FilesFound(requests[Len(configs) + 1])
    /\ configs' = Append(configs, vm_req_to_vm_config(requests[Len(configs) + 1]))
    /\ heap' = heap \cup ConfigStrings(vm_req_to_vm_config(requests[Len(configs) + 1]))
    /\ fresh' = fresh + 2
    /\ UNCHANGED <<request, requests>>

\* What a step does to where the file is read.
Scans ==
    \/ phase' \notin {"start", "keys", "parse"}
    \/ phase \in {"start", "keys"} /\ phase' = "keys" /\ UNCHANGED pos
    \/ phase = "keys" /\ phase' = "parse" /\ file' \in Files /\ UNCHANGED pos
    \/ /\ phase = "parse" /\ phase' = "parse" /\ UNCHANGED file
       /\ \E found \in {seek_token_in_line(file, pos)} :
             \/ found.status = NoTokenInLine /\ pos' = found.pos + 1
             \/ HasToken(found) /\ pos' = found.pos

RequestEffect ==
    \/ Untouched
    \/ \E key, value : Sets(key, value)
    \/ Completes \/ Drops \/ DropsAll \/ Converts

\* Leaving a function touches nothing.
LEMMA LeaveEffect == \A where : Leave(where) => Untouched /\ phase' = where
  BY Zenon DEF Leave, parser_vars, Untouched

\* A parsing error releases the requests that are complete.
LEMMA ErrorEffect == ParsingError => Drops /\ phase' = "failed"
  BY Zenon DEF ParsingError, destroy_vm_reqs, Drops

\* A token is handled by one of the four handlers.
LEMMA TokenEffect ==
    ASSUME NEW found, found \in {seek_token_in_line(file, pos)}, phase = "parse",
           HandleToken(found)
    PROVE  RequestEffect /\ Scans
  <1>1. CASE ParsingError
    BY <1>1, ErrorEffect, Zenon DEF RequestEffect, Scans
  <1>2. CASE Leave("dead")
    BY <1>2, LeaveEffect DEF RequestEffect, Scans
  <1>3. ASSUME NEW what, HasToken(found), Expect(found, what), UNCHANGED phase PROVE Scans
    BY <1>3, Zenon DEF Expect, Scans
  <1>4. CASE handle_search_start_marker(found)
    <2>1. CASE AtEnd(found) /\ phase' = "convert" /\ UNCHANGED <<request, requests, configs, heap, fresh>>
      BY <2>1, Zenon DEF RequestEffect, Untouched, Scans
    <2>2. CASE is_token_equal_to(CONFIG_SECTION_START, found) /\ Expect(found, "CONFIG_ENTRY_START")
               /\ UNCHANGED <<request, requests, heap, fresh, phase>>
      <3>1. Untouched
        BY <2>2, Zenon DEF Expect, Untouched
      <3> QED
        BY <1>3, <2>2, <3>1, Zenon DEF is_token_equal_to, RequestEffect
    <2> QED
      BY <1>1, <1>4, <2>1, <2>2, Zenon DEF handle_search_start_marker
  <1>5. CASE handle_search_config_entry_start(found)
    <2>1. CASE is_token_equal_to(CONFIG_SECTION_END, found) /\ CompleteEntry(found)
      <3>1. CASE /\ requests' = Append(requests, request) /\ request' = NextRequest
                 /\ Expect(found, "START_MARKER") /\ UNCHANGED <<heap, fresh, phase>>
        <4>1. Completes
          BY <3>1, Zenon DEF Expect, Completes
        <4> QED
          BY <1>3, <2>1, <3>1, <4>1, Zenon DEF is_token_equal_to, RequestEffect
      <3> QED
        BY <1>1, <1>2, <2>1, <3>1, Zenon DEF CompleteEntry
    <2>2. CASE /\ IsOtherToken(CONFIG_SECTION_END, found) /\ Expect(found, "ENTRY_DELIM")
               /\ UNCHANGED <<request, requests, heap, fresh, phase>>
      <3>1. Untouched
        BY <2>2, Zenon DEF Expect, Untouched
      <3> QED
        BY <1>3, <2>2, <3>1, Zenon DEF IsOtherToken, RequestEffect
    <2> QED
      BY <1>1, <1>5, <2>1, <2>2, Zenon DEF handle_search_config_entry_start
  <1>6. CASE handle_search_delim(found)
    <2>1. CASE /\ is_token_equal_to(CONFIG_SECTION_DELIM, found) /\ Expect(found, "ENTRY_VAL")
               /\ UNCHANGED <<request, requests, heap, fresh, phase>>
      <3>1. Untouched
        BY <2>1, Zenon DEF Expect, Untouched
      <3> QED
        BY <1>3, <2>1, <3>1, Zenon DEF is_token_equal_to, RequestEffect
    <2> QED
      BY <1>1, <1>6, <2>1, Zenon DEF handle_search_delim
  <1>7. CASE handle_search_value(found)
    <2>1. CASE /\ IsValue(found) /\ ValueAccepted(curr_line, Token(found))
               /\ set_vm_request_val(curr_line, Token(found))
               /\ Expect(found, "CONFIG_ENTRY_START") /\ UNCHANGED <<requests, phase>>
      <3>1. UNCHANGED <<requests, configs, phase>>
        BY <2>1, Zenon DEF Expect
      <3>2. Sets(curr_line, Token(found))
        BY <2>1, <3>1, Zenon DEF Sets
      <3>3. RequestEffect
        BY <3>2, Zenon DEF RequestEffect
      <3> QED
        BY <1>3, <2>1, <3>1, <3>3, Zenon DEF IsValue
    <2> QED
      BY <1>1, <1>7, <2>1, Zenon DEF handle_search_value
  <1> QED
    BY <1>4, <1>5, <1>6, <1>7, Zenon DEF HandleToken

\* Every step of get_vm_configs.
LEMMA ConfigEffect == ConfigNext => RequestEffect /\ Scans
  <1> SUFFICES ASSUME ConfigNext PROVE RequestEffect /\ Scans
    BY Zenon
  <1>1. ASSUME NEW where, Leave(where), where \notin {"start", "keys", "parse"}
        PROVE  RequestEffect /\ Scans
    BY <1>1, LeaveEffect, Zenon DEF RequestEffect, Scans
  <1>2. ASSUME UNCHANGED parser_vars PROVE RequestEffect /\ UNCHANGED pos
    BY <1>2, Zenon DEF parser_vars, RequestEffect, Untouched
  <1>3. ASSUME UNCHANGED parser_vars, phase' \notin {"start", "keys", "parse"}
        PROVE  RequestEffect /\ Scans
    BY <1>2, <1>3, Zenon DEF Scans
  <1>4. CASE get_vm_requests
    <2>1. CASE phase = "start" /\ phase' = "keys" /\ UNCHANGED parser_vars
      BY <1>2, <2>1, Zenon DEF Scans
    <2> QED
      BY <1>1, <1>4, <2>1, Zenon DEF get_vm_requests
  <1>5. CASE AddKey
    <2>1. phase = "keys" /\ phase' = "keys" /\ UNCHANGED parser_vars
      BY <1>5, Zenon DEF AddKey
    <2> QED
      BY <1>2, <2>1, Zenon DEF Scans
  <1>6. CASE NoKeyMemory
    BY <1>1, <1>3, <1>6, Zenon DEF NoKeyMemory
  <1>7. CASE CreateRequests
    <2>1. CASE phase = "keys" /\ phase' = "parse" /\ file' \in Files /\ UNCHANGED parser_vars
      BY <1>2, <2>1, Zenon DEF Scans
    <2> QED
      BY <1>1, <1>3, <1>7, <2>1, Zenon DEF CreateRequests
  <1>8. CASE ParseToken
    <2>1. PICK found \in {seek_token_in_line(file, pos)} :
              SkipLine(found) \/ InvalidSymbol(found) \/ ScanFaults(found) \/ HandleToken(found)
      BY <1>8, Zenon DEF ParseToken
    <2>2. phase = "parse"
      BY <1>8, Zenon DEF ParseToken
    <2>3. CASE SkipLine(found)
      <3>1. /\ Untouched /\ UNCHANGED <<phase, file>>
            /\ found.status = NoTokenInLine /\ pos' = found.pos + 1
        BY <2>3, Zenon DEF SkipLine, Untouched, seek_newline
      <3> QED
        BY <2>2, <3>1, Zenon DEF RequestEffect, Scans
    <2>4. CASE InvalidSymbol(found)
      BY <2>4, ErrorEffect, Zenon DEF InvalidSymbol, RequestEffect, Scans
    <2>5. CASE ScanFaults(found)
      BY <1>1, <2>5, Zenon DEF ScanFaults
    <2> QED
      BY <2>1, <2>2, <2>3, <2>4, <2>5, TokenEffect, Zenon
  <1>9. CASE NoMemory
    BY <1>1, <1>9, Zenon DEF NoMemory
  <1>10. CASE NoConfigVector
    BY <1>10, Zenon DEF NoConfigVector, destroy_vm_reqs, RequestEffect, Drops, Scans
  <1>11. CASE ConvertRequest
    <2>1. phase = "convert" /\ Len(configs) < Len(requests) /\ UNCHANGED request
      BY <1>11, Zenon DEF ConvertRequest
    <2>2. CASE ~ FilesFound(requests[Len(configs) + 1])
      <3>1. ~ NoCommandLine(requests[Len(configs) + 1])
        BY <2>2, Zenon DEF NoCommandLine
      <3>2. DropsAll /\ phase' = "failed"
        BY <1>11, <2>1, <2>2, <3>1, Zenon DEF ConvertRequest, DropsAll
      <3> QED
        BY <3>2, Zenon DEF RequestEffect, Scans
    <2>3. CASE NoCommandLine(requests[Len(configs) + 1]) /\ FilesFound(requests[Len(configs) + 1])
      BY <1>11, <2>1, <2>3, Zenon DEF ConvertRequest, RequestEffect, Untouched, Scans
    <2>4. CASE FilesFound(requests[Len(configs) + 1]) /\ ~ NoCommandLine(requests[Len(configs) + 1])
      <3>1. Converts /\ UNCHANGED phase
        BY <1>11, <2>1, <2>4, Zenon DEF ConvertRequest, Converts
      <3> QED
        BY <2>1, <3>1, Zenon DEF RequestEffect, Scans
    <2> QED
      BY <2>2, <2>3, <2>4, Zenon
  <1>12. CASE FinishConfigs
    BY <1>12, Zenon DEF FinishConfigs, destroy_vm_reqs, RequestEffect, Drops, Scans
  <1> QED
    BY <1>4, <1>5, <1>6, <1>7, <1>8, <1>9, <1>10, <1>11, <1>12, Zenon DEF ConfigNext

\* A request becomes a configuration of which the loader finds the files.
LEMMA ConfigOf ==
    ASSUME NEW r, GoodRequest(r), FilesFound(r), fresh \in Nat \ {0}
    PROVE  /\ GoodConfig(vm_req_to_vm_config(r))
           /\ ConfigStrings(vm_req_to_vm_config(r)) \subseteq {fresh, fresh + 1}
  <1>1. GoodConfig(vm_req_to_vm_config(r))
    BY Zenon DEF GoodRequest, FilesFound, vm_req_to_vm_config, GoodConfig
  <1>2. ConfigStrings(vm_req_to_vm_config(r)) \subseteq {fresh, fresh + 1}
    BY Zenon DEF vm_req_to_vm_config, NameCopy, NULL, ConfigStrings
  <1> QED
    BY <1>1, <1>2, Zenon

\* The requests and configurations stay what they are.
LEMMA ParserKept ==
    ASSUME ParserInv, fresh \in Nat \ {0}, RequestEffect, UNCHANGED vms
    PROVE  ParserInv'
  <1>1. /\ IsSequence(requests) /\ IsSequence(configs) /\ IsSequence(vms) /\ GoodRequest(request)
        /\ Len(requests) \in Nat /\ Len(configs) \in Nat
        /\ \A i \in 1..Len(requests) : GoodRequest(requests[i])
        /\ \A i \in 1..Len(configs) : GoodConfig(configs[i])
    BY Positions, Zenon DEF ParserInv
  <1> SUFFICES /\ IsSequence(requests') /\ IsSequence(configs') /\ GoodRequest(request')
               /\ \A i \in 1..Len(requests') : GoodRequest(requests'[i])
               /\ \A i \in 1..Len(configs') : GoodConfig(configs'[i])
    BY <1>1, Zenon DEF ParserInv, IsSequence, GoodRequest, GoodConfig
  <1>2. CASE Untouched
    BY <1>1, <1>2, Zenon DEF Untouched
  <1>3. ASSUME NEW key, NEW value, Sets(key, value) PROVE GoodRequest(request') /\ UNCHANGED <<requests, configs>>
    BY <1>1, <1>3, ValueSet, Zenon DEF Sets
  <1>4. \A s : s = << >> => IsSequence(s) /\ ~ \E i \in 1..Len(s) : TRUE
    BY EmptyIsSequence
  <1>5. CASE Completes
    <2>1. requests' = Append(requests, request) /\ UNCHANGED configs
      BY <1>5, Zenon DEF Completes
    <2>2. GoodRequest(request')
      BY <1>5, EmptyRequestIsGood, Zenon DEF Completes, NextRequest
    <2>3. Extends(requests', requests, request)
      BY <1>1, <2>1, Appended, Zenon
    <2> QED
      BY <1>1, <2>1, <2>2, <2>3, Zenon DEF Extends
  <1>6. CASE Drops
    BY <1>1, <1>4, <1>6, Zenon DEF Drops
  <1>7. CASE DropsAll
    BY <1>1, <1>4, <1>7, Zenon DEF DropsAll
  <1>8. CASE Converts
    <2> DEFINE r == requests[Len(configs) + 1]
    <2>1. UNCHANGED <<request, requests>> /\ configs' = Append(configs, vm_req_to_vm_config(r))
      BY <1>8, Zenon DEF Converts
    <2>2. GoodConfig(vm_req_to_vm_config(r))
      <3>1. Len(configs) + 1 \in 1..Len(requests)
        BY <1>1, <1>8 DEF Converts
      <3> QED
        BY <1>1, <1>8, <3>1, ConfigOf, Zenon DEF Converts
    <2> HIDE DEF r
    <2>3. Extends(configs', configs, vm_req_to_vm_config(r))
      BY <1>1, <2>1, Appended, Zenon
    <2> QED
      BY <1>1, <2>1, <2>2, <2>3, Zenon DEF Extends
  <1> QED
    BY <1>1, <1>2, <1>3, <1>5, <1>6, <1>7, <1>8, Zenon DEF RequestEffect

-----------------------------------------------------------------------------
(* Who owns a string *)

VmStringsOfAll(vs) == {vs[i].name.id : i \in DOMAIN vs}

\* The sets of strings are live and have none in common.
Apart(rs, r, cs, vs, h) ==
    /\ rs \cup r \cup cs \cup vs \subseteq h
    /\ (rs \cup r) \cap cs = {}
    /\ vs \cap (rs \cup r \cup cs) = {}
    /\ rs \cap r = {}

\* StringsOwnedOnce, of any requests, configurations, VMs and heap.
OwnedOnce(rs, r, cs, vs, h) ==
    /\ Apart(StringsOfAll(rs), StringsOf(r), ConfigStringsOfAll(cs), VmStringsOfAll(vs), h)
    /\ \A i, j \in DOMAIN rs : i # j => StringsOf(rs[i]) \cap StringsOf(rs[j]) = {}
    /\ \A i, j \in DOMAIN cs : i # j => ConfigStrings(cs[i]) \cap ConfigStrings(cs[j]) = {}
    /\ \A i, j \in DOMAIN vs : i # j => vs[i].name.id # vs[j].name.id

LEMMA OwnedOnceIsProperty ==
    /\ StringsOwnedOnce <=> OwnedOnce(requests, request, configs, vms, heap)
    /\ StringsOwnedOnce' <=> OwnedOnce(requests', request', configs', vms', heap')
  <1>1. StringsOwnedOnce <=> OwnedOnce(requests, request, configs, vms, heap)
    BY Zenon DEF StringsOwnedOnce, OwnedOnce, Apart, OwnedByRequests, OwnedByVms, VmStringsOfAll
  <1>2. StringsOwnedOnce' <=> OwnedOnce(requests', request', configs', vms', heap')
    BY Zenon DEF StringsOwnedOnce, OwnedOnce, Apart, OwnedByRequests, OwnedByVms, VmStringsOfAll,
                 StringsOfAll, StringsOf, ConfigStringsOfAll, ConfigStrings
  <1> QED
    BY <1>1, <1>2, Zenon

\* An empty sequence owns nothing, and one more element adds its own.
LEMMA OwnedByNone ==
    /\ StringsOfAll(<< >>) = {} /\ ConfigStringsOfAll(<< >>) = {}
    /\ \A i \in DOMAIN << >> : FALSE
  BY EmptyIsSequence, Zenon DEF StringsOfAll, ConfigStringsOfAll

LEMMA OwnedByMore ==
    ASSUME NEW t, NEW s, NEW e, Extends(t, s, e)
    PROVE  /\ StringsOfAll(t) = StringsOfAll(s) \cup StringsOf(e)
           /\ ConfigStringsOfAll(t) = ConfigStringsOfAll(s) \cup ConfigStrings(e)
           /\ VmStringsOfAll(t) = VmStringsOfAll(s) \cup {e.name.id}
  <1>1. StringsOfAll(t) = StringsOfAll(s) \cup StringsOf(e)
    BY Zenon DEF Extends, StringsOfAll
  <1>2. ConfigStringsOfAll(t) = ConfigStringsOfAll(s) \cup ConfigStrings(e)
    BY Zenon DEF Extends, ConfigStringsOfAll
  <1>3. VmStringsOfAll(t) = VmStringsOfAll(s) \cup {e.name.id}
    BY Zenon DEF Extends, VmStringsOfAll
  <1> QED
    BY <1>1, <1>2, <1>3, Zenon

\* The strings of one element are among those of all.
LEMMA OwnedByOne ==
    /\ \A s : \A i \in DOMAIN s : StringsOf(s[i]) \subseteq StringsOfAll(s)
    /\ \A s : \A i \in DOMAIN s : ConfigStrings(s[i]) \subseteq ConfigStringsOfAll(s)
    /\ \A s : \A i \in DOMAIN s : s[i].name.id \in VmStringsOfAll(s)
  BY Zenon DEF StringsOfAll, ConfigStringsOfAll, VmStringsOfAll

\* What the steps do to sets that are apart.
LEMMA ApartKept ==
    ASSUME NEW rs, NEW r, NEW cs, NEW vs, NEW h, Apart(rs, r, cs, vs, h)
    PROVE  /\ \A q : q \subseteq r => Apart(rs, q, cs, vs, h)
           /\ \A q, n : n \notin h /\ q \subseteq r \cup {n} => Apart(rs, q, cs, vs, h \cup {n})
           /\ \A q : q = {} => Apart(rs \cup r, q, cs, vs, h)
           /\ \A new : new \cap h = {} => Apart(rs, r, cs \cup new, vs, h \cup new)
           /\ \A n : n \notin h => Apart(rs, r, cs, vs \cup {n}, h \cup {n})
           /\ Apart({}, r, cs, vs, h \ rs)
           /\ Apart(rs, r, {}, vs, h \ cs)
           /\ Apart({}, r, {}, vs, h \ (cs \cup rs))
  <1>1. \A q : q \subseteq r => Apart(rs, q, cs, vs, h)
    BY Zenon DEF Apart
  <1>2. \A q, n : n \notin h /\ q \subseteq r \cup {n} => Apart(rs, q, cs, vs, h \cup {n})
    BY Zenon DEF Apart
  <1>3. \A q : q = {} => Apart(rs \cup r, q, cs, vs, h)
    BY Zenon DEF Apart
  <1>4. \A new : new \cap h = {} => Apart(rs, r, cs \cup new, vs, h \cup new)
    BY Zenon DEF Apart
  <1>5. \A n : n \notin h => Apart(rs, r, cs, vs \cup {n}, h \cup {n})
    BY Zenon DEF Apart
  <1>6. Apart({}, r, cs, vs, h \ rs)
    BY Zenon DEF Apart
  <1>7. Apart(rs, r, {}, vs, h \ cs)
    BY Zenon DEF Apart
  <1>8. Apart({}, r, {}, vs, h \ (cs \cup rs))
    BY Zenon DEF Apart
  <1> QED
    BY <1>1, <1>2, <1>3, <1>4, <1>5, <1>6, <1>7, <1>8, Zenon

LEMMA OnceSet ==
    ASSUME NEW rs, NEW r, NEW cs, NEW vs, NEW h, OwnedOnce(rs, r, cs, vs, h),
           NEW n, n \notin h, NEW q
    PROVE  /\ StringsOf(q) \subseteq StringsOf(r) => OwnedOnce(rs, q, cs, vs, h)
           /\ StringsOf(q) \subseteq StringsOf(r) \cup {n} => OwnedOnce(rs, q, cs, vs, h \cup {n})
  BY ApartKept, Zenon DEF OwnedOnce

LEMMA OnceComplete ==
    ASSUME NEW rs, NEW r, NEW cs, NEW vs, NEW h, OwnedOnce(rs, r, cs, vs, h),
           NEW rs2, Extends(rs2, rs, r), NEW q, StringsOf(q) = {}
    PROVE  OwnedOnce(rs2, q, cs, vs, h)
  <1>1. StringsOfAll(rs2) = StringsOfAll(rs) \cup StringsOf(r)
    BY OwnedByMore
  <1>2. \A i, j \in DOMAIN rs2 : i # j => StringsOf(rs2[i]) \cap StringsOf(rs2[j]) = {}
    <2> SUFFICES ASSUME NEW i \in DOMAIN rs2, NEW j \in DOMAIN rs2, i # j
                 PROVE  StringsOf(rs2[i]) \cap StringsOf(rs2[j]) = {}
      BY Zenon
    <2>1. StringsOfAll(rs) \cap StringsOf(r) = {}
      BY Zenon DEF OwnedOnce, Apart
    <2>2. CASE i \in DOMAIN rs /\ j \in DOMAIN rs
      BY <2>2, Zenon DEF OwnedOnce, Extends
    <2>3. CASE i \in DOMAIN rs /\ j = Len(rs) + 1
      <3>1. rs2[i] = rs[i] /\ rs2[j] = r /\ StringsOf(rs[i]) \subseteq StringsOfAll(rs)
        BY <2>3, OwnedByOne, Zenon DEF Extends
      <3> QED
        BY <2>1, <3>1, Zenon
    <2>4. CASE j \in DOMAIN rs /\ i = Len(rs) + 1
      <3>1. rs2[j] = rs[j] /\ rs2[i] = r /\ StringsOf(rs[j]) \subseteq StringsOfAll(rs)
        BY <2>4, OwnedByOne, Zenon DEF Extends
      <3> QED
        BY <2>1, <3>1, Zenon
    <2> QED
      BY <2>2, <2>3, <2>4, Zenon DEF Extends
  <1>3. Apart(StringsOfAll(rs2), StringsOf(q), ConfigStringsOfAll(cs), VmStringsOfAll(vs), h)
    <2> DEFINE R == StringsOfAll(rs)  Q == StringsOf(r)
               C == ConfigStringsOfAll(cs)  V == VmStringsOfAll(vs)
    <2>1. Apart(R, Q, C, V, h)
      BY Zenon DEF OwnedOnce
    <2>2. Apart(R \cup Q, {}, C, V, h)
      <3> HIDE DEF R, Q, C, V
      <3> QED
        BY <2>1, ApartKept, Zenon
    <2> QED
      BY <1>1, <2>2, Zenon
  <1> QED
    BY <1>2, <1>3, Zenon DEF OwnedOnce

LEMMA OnceConvert ==
    ASSUME NEW rs, NEW r, NEW cs, NEW vs, NEW h, OwnedOnce(rs, r, cs, vs, h),
           NEW cs2, NEW c, Extends(cs2, cs, c), ConfigStrings(c) \cap h = {}
    PROVE  OwnedOnce(rs, r, cs2, vs, h \cup ConfigStrings(c))
  <1>1. ConfigStringsOfAll(cs2) = ConfigStringsOfAll(cs) \cup ConfigStrings(c)
    BY OwnedByMore
  <1>2. \A i, j \in DOMAIN cs2 : i # j => ConfigStrings(cs2[i]) \cap ConfigStrings(cs2[j]) = {}
    <2> SUFFICES ASSUME NEW i \in DOMAIN cs2, NEW j \in DOMAIN cs2, i # j
                 PROVE  ConfigStrings(cs2[i]) \cap ConfigStrings(cs2[j]) = {}
      BY Zenon
    <2>1. ConfigStringsOfAll(cs) \cap ConfigStrings(c) = {}
      BY Zenon DEF OwnedOnce, Apart
    <2>2. CASE i \in DOMAIN cs /\ j \in DOMAIN cs
      BY <2>2, Zenon DEF OwnedOnce, Extends
    <2>3. CASE i \in DOMAIN cs /\ j = Len(cs) + 1
      <3>1. cs2[i] = cs[i] /\ cs2[j] = c /\ ConfigStrings(cs[i]) \subseteq ConfigStringsOfAll(cs)
        BY <2>3, OwnedByOne, Zenon DEF Extends
      <3> QED
        BY <2>1, <3>1, Zenon
    <2>4. CASE j \in DOMAIN cs /\ i = Len(cs) + 1
      <3>1. cs2[j] = cs[j] /\ cs2[i] = c /\ ConfigStrings(cs[j]) \subseteq ConfigStringsOfAll(cs)
        BY <2>4, OwnedByOne, Zenon DEF Extends
      <3> QED
        BY <2>1, <3>1, Zenon
    <2> QED
      BY <2>2, <2>3, <2>4, Zenon DEF Extends
  <1>3. Apart(StringsOfAll(rs), StringsOf(r), ConfigStringsOfAll(cs2), VmStringsOfAll(vs),
              h \cup ConfigStrings(c))
    <2> DEFINE R == StringsOfAll(rs)  Q == StringsOf(r)
               C == ConfigStringsOfAll(cs)  V == VmStringsOfAll(vs)
    <2>1. Apart(R, Q, C, V, h)
      BY Zenon DEF OwnedOnce
    <2>2. \A new : new \cap h = {} => Apart(R, Q, C \cup new, V, h \cup new)
      <3> HIDE DEF R, Q, C, V
      <3> QED
        BY <2>1, ApartKept, Zenon
    <2> QED
      BY <1>1, <2>2, Zenon
  <1> QED
    BY <1>2, <1>3, Zenon DEF OwnedOnce

LEMMA OnceVm ==
    ASSUME NEW rs, NEW r, NEW cs, NEW vs, NEW h, OwnedOnce(rs, r, cs, vs, h),
           NEW vs2, NEW v, Extends(vs2, vs, v), v.name.id \notin h
    PROVE  OwnedOnce(rs, r, cs, vs2, h \cup {v.name.id})
  <1>1. VmStringsOfAll(vs2) = VmStringsOfAll(vs) \cup {v.name.id}
    BY OwnedByMore
  <1>2. \A i \in DOMAIN vs : vs[i].name.id \in h
    BY OwnedByOne, Zenon DEF OwnedOnce, Apart
  <1>3. \A i, j \in DOMAIN vs2 : i # j => vs2[i].name.id # vs2[j].name.id
    <2>1. \A i, j \in DOMAIN vs : i # j => vs[i].name.id # vs[j].name.id
      BY Zenon DEF OwnedOnce
    <2>2. /\ \A i \in DOMAIN vs2 : i \in DOMAIN vs \/ i = Len(vs) + 1
          /\ \A i \in DOMAIN vs : vs2[i] = vs[i]
          /\ vs2[Len(vs) + 1] = v
      BY Zenon DEF Extends
    <2> QED
      BY <1>2, <2>1, <2>2, Zenon
  <1>4. Apart(StringsOfAll(rs), StringsOf(r), ConfigStringsOfAll(cs), VmStringsOfAll(vs2),
              h \cup {v.name.id})
    <2> DEFINE R == StringsOfAll(rs)  Q == StringsOf(r)
               C == ConfigStringsOfAll(cs)  V == VmStringsOfAll(vs)
    <2>1. Apart(R, Q, C, V, h)
      BY Zenon DEF OwnedOnce
    <2>2. \A n : n \notin h => Apart(R, Q, C, V \cup {n}, h \cup {n})
      <3> HIDE DEF R, Q, C, V
      <3> QED
        BY <2>1, ApartKept, Zenon
    <2> QED
      BY <1>1, <2>2, Zenon
  <1> QED
    BY <1>3, <1>4, Zenon DEF OwnedOnce

\* The strings of all requests, of all configurations, or of both are released.
LEMMA OnceDropped ==
    ASSUME NEW rs, NEW r, NEW cs, NEW vs, NEW h, OwnedOnce(rs, r, cs, vs, h)
    PROVE  /\ OwnedOnce(<< >>, r, cs, vs, h \ StringsOfAll(rs))
           /\ OwnedOnce(rs, r, << >>, vs, h \ ConfigStringsOfAll(cs))
           /\ OwnedOnce(<< >>, r, << >>, vs, h \ (ConfigStringsOfAll(cs) \cup StringsOfAll(rs)))
  <1> DEFINE R == StringsOfAll(rs)  Q == StringsOf(r)
             C == ConfigStringsOfAll(cs)  V == VmStringsOfAll(vs)
  <1>1. Apart(R, Q, C, V, h)
    BY Zenon DEF OwnedOnce
  <1>2. Apart({}, Q, C, V, h \ R) /\ Apart(R, Q, {}, V, h \ C) /\ Apart({}, Q, {}, V, h \ (C \cup R))
    <2> HIDE DEF R, Q, C, V
    <2> QED
      BY <1>1, ApartKept, Zenon
  <1>3. OwnedOnce(<< >>, r, cs, vs, h \ StringsOfAll(rs))
    BY <1>2, OwnedByNone, Zenon DEF OwnedOnce
  <1>4. OwnedOnce(rs, r, << >>, vs, h \ ConfigStringsOfAll(cs))
    BY <1>2, OwnedByNone, Zenon DEF OwnedOnce
  <1>5. OwnedOnce(<< >>, r, << >>, vs, h \ (ConfigStringsOfAll(cs) \cup StringsOfAll(rs)))
    BY <1>2, OwnedByNone, Zenon DEF OwnedOnce
  <1> QED
    BY <1>3, <1>4, <1>5, Zenon

\* The heap grows by strings it has not had.
LEMMA FreshStrings ==
    ASSUME NEW h, NEW n, Allocated(h, n)
    PROVE  /\ n \notin h /\ n + 1 \notin h
           /\ Allocated(h \cup {n}, n + 1)
           /\ \A new : new \subseteq {n, n + 1} => Allocated(h \cup new, n + 2)
           /\ \A old : Allocated(h \ old, n)
  <1>1. n \notin h /\ n + 1 \notin h /\ n \in Nat \ {0}
    BY DEF Allocated
  <1>2. Allocated(h \cup {n}, n + 1)
    BY DEF Allocated
  <1>3. ASSUME NEW new, new \subseteq {n, n + 1} PROVE Allocated(h \cup new, n + 2)
    BY <1>3 DEF Allocated
  <1>4. \A old : Allocated(h \ old, n)
    BY Zenon DEF Allocated
  <1> QED
    BY <1>1, <1>2, <1>3, <1>4, Zenon

\* get_vm_configs keeps the owners of the strings apart.
LEMMA OwnerKept ==
    ASSUME ParserInv, OwnerInv, RequestEffect, UNCHANGED vms
    PROVE  OwnerInv'
  <1>1. /\ OwnedOnce(requests, request, configs, vms, heap)
        /\ Allocated(heap, fresh)
    BY OwnedOnceIsProperty, Zenon DEF OwnerInv
  <1>2. /\ IsSequence(requests) /\ IsSequence(configs) /\ GoodRequest(request)
        /\ Len(requests) \in Nat /\ Len(configs) \in Nat
        /\ \A i \in 1..Len(requests) : GoodRequest(requests[i])
    BY Positions, Zenon DEF ParserInv
  <1> SUFFICES /\ OwnedOnce(requests', request', configs', vms, heap')
               /\ Allocated(heap', fresh')
    BY OwnedOnceIsProperty, Zenon DEF OwnerInv
  <1>3. CASE Untouched
    BY <1>1, <1>3, Zenon DEF Untouched
  <1>4. ASSUME NEW key, NEW value, Sets(key, value)
        PROVE  /\ OwnedOnce(requests', request', configs', vms, heap')
               /\ Allocated(heap', fresh')
    <2>1. UNCHANGED <<requests, configs>>
      BY <1>4, Zenon DEF Sets
    <2>2. fresh \notin heap /\ Allocated(heap \cup {fresh}, fresh + 1)
      BY <1>1, FreshStrings, Zenon
    <2>3. \/ /\ heap' = heap \cup {fresh} /\ fresh' = fresh + 1
             /\ StringsOf(request') \subseteq StringsOf(request) \cup {fresh}
          \/ /\ UNCHANGED <<heap, fresh>>
             /\ StringsOf(request') \subseteq StringsOf(request)
      BY <1>2, <1>4, ValueSet, Zenon DEF Sets
    <2>4. CASE heap' = heap \cup {fresh} /\ fresh' = fresh + 1
               /\ StringsOf(request') \subseteq StringsOf(request) \cup {fresh}
      <3>1. OwnedOnce(requests, request', configs, vms, heap \cup {fresh})
        BY <1>1, <2>2, <2>4, OnceSet, Zenon
      <3> QED
        BY <2>1, <2>2, <2>4, <3>1, Zenon
    <2>5. CASE UNCHANGED <<heap, fresh>> /\ StringsOf(request') \subseteq StringsOf(request)
      <3>1. OwnedOnce(requests, request', configs, vms, heap)
        BY <1>1, <2>2, <2>5, OnceSet, Zenon
      <3> QED
        BY <1>1, <2>1, <2>5, <3>1, Zenon
    <2> QED
      BY <2>3, <2>4, <2>5, Zenon
  <1>5. CASE Completes
    <2>1. Extends(requests', requests, request)
      BY <1>2, <1>5, Appended, Zenon DEF Completes
    <2>2. StringsOf(request') = {} /\ UNCHANGED <<configs, heap, fresh>>
      BY <1>5, EmptyRequestIsGood, Zenon DEF Completes, NextRequest
    <2>3. OwnedOnce(requests', request', configs, vms, heap)
      BY <1>1, <2>1, <2>2, OnceComplete, Zenon
    <2> QED
      BY <1>1, <2>2, <2>3, Zenon
  <1>6. CASE Drops
    <2>1. OwnedOnce(<< >>, request, configs, vms, heap \ StringsOfAll(requests))
      BY <1>1, OnceDropped, Zenon
    <2> QED
      BY <1>1, <1>6, <2>1, FreshStrings, Zenon DEF Drops
  <1>7. CASE DropsAll
    <2>1. OwnedOnce(<< >>, request, << >>, vms,
                    heap \ (ConfigStringsOfAll(configs) \cup StringsOfAll(requests)))
      BY <1>1, OnceDropped, Zenon
    <2> QED
      BY <1>1, <1>7, <2>1, FreshStrings, Zenon DEF DropsAll
  <1>8. CASE Converts
    <2> DEFINE c == vm_req_to_vm_config(requests[Len(configs) + 1])
    <2>1. /\ UNCHANGED <<request, requests>> /\ configs' = Append(configs, c)
          /\ heap' = heap \cup ConfigStrings(c) /\ fresh' = fresh + 2
      BY <1>8, Zenon DEF Converts
    <2>2. ConfigStrings(c) \subseteq {fresh, fresh + 1}
      <3>1. Len(configs) + 1 \in 1..Len(requests)
        BY <1>2, <1>8 DEF Converts
      <3> QED
        BY <1>1, <1>2, <1>8, <3>1, ConfigOf, Zenon DEF Converts, Allocated
    <2> HIDE DEF c
    <2>3. Extends(configs', configs, c)
      BY <1>2, <2>1, Appended, Zenon
    <2>4. /\ Allocated(heap \cup ConfigStrings(c), fresh + 2)
          /\ fresh \notin heap /\ fresh + 1 \notin heap
      BY <1>1, <2>2, FreshStrings, Zenon
    <2>5. ConfigStrings(c) \cap heap = {}
      BY <2>2, <2>4, Zenon
    <2>6. OwnedOnce(requests, request, configs', vms, heap \cup ConfigStrings(c))
      BY <1>1, <2>3, <2>5, OnceConvert, Zenon
    <2> QED
      BY <2>1, <2>4, <2>6, Zenon
  <1> QED
    BY <1>3, <1>4, <1>5, <1>6, <1>7, <1>8, Zenon DEF RequestEffect

\* A VM takes a copy of the name of its configuration.
LEMMA CreateVmKeeps ==
    ASSUME ParserInv, OwnerInv, KeepConfigs, NEW uart,
           vms' = Append(vms, [name |-> VmName, uart |-> uart]),
           heap' = heap \cup {fresh}, fresh' = fresh + 1
    PROVE  ParserInv' /\ OwnerInv'
  <1> DEFINE vm == [name |-> VmName, uart |-> uart]
  <1>1. vm.name.id = fresh
    BY Zenon DEF VmName
  <1>2. UNCHANGED <<request, requests, configs>>
    BY Zenon DEF KeepConfigs
  <1>3. IsSequence(vms)
    BY Zenon DEF ParserInv
  <1> HIDE DEF vm
  <1>4. Extends(vms', vms, vm)
    BY <1>3, Appended, Zenon DEF vm
  <1>5. ParserInv'
    <2>1. IsSequence(vms')
      BY <1>4, Zenon DEF Extends
    <2> QED
      BY <1>2, <2>1, Zenon DEF ParserInv, GoodRequest, GoodConfig, IsSequence
  <1>6. Allocated(heap, fresh)
    BY Zenon DEF OwnerInv
  <1>7. fresh \notin heap /\ Allocated(heap \cup {fresh}, fresh + 1)
    BY <1>6, FreshStrings, Zenon
  <1>8. OwnedOnce(requests, request, configs, vms', heap \cup {fresh})
    <2>1. OwnedOnce(requests, request, configs, vms, heap)
      BY OwnedOnceIsProperty, Zenon DEF OwnerInv
    <2> QED
      BY <1>1, <1>4, <1>7, <2>1, OnceVm, Zenon
  <1>9. OwnerInv'
    <2>1. OwnedOnce(requests', request', configs', vms', heap')
      BY <1>2, <1>8, Zenon
    <2> QED
      BY <1>7, <2>1, OwnedOnceIsProperty, Zenon DEF OwnerInv
  <1> QED
    BY <1>5, <1>9, Zenon

\* destroy_vm_configs releases only what the configurations own.
LEMMA DestroyKeeps ==
    ASSUME ParserInv, OwnerInv, destroy_vm_configs
    PROVE  ParserInv' /\ OwnerInv'
  <1>1. /\ UNCHANGED <<request, requests, vms, fresh>> /\ configs' = << >>
        /\ heap' = heap \ ConfigStringsOfAll(configs)
    BY Zenon DEF destroy_vm_configs
  <1>2. ParserInv'
    <2>1. IsSequence(configs') /\ ~ \E i \in 1..Len(configs') : TRUE
      BY <1>1, EmptyIsSequence
    <2> QED
      BY <1>1, <2>1, Zenon DEF ParserInv, GoodRequest, GoodConfig, IsSequence
  <1>3. Allocated(heap, fresh)
    BY Zenon DEF OwnerInv
  <1>4. OwnedOnce(requests, request, << >>, vms, heap \ ConfigStringsOfAll(configs))
    <2>1. OwnedOnce(requests, request, configs, vms, heap)
      BY OwnedOnceIsProperty, Zenon DEF OwnerInv
    <2> QED
      BY <2>1, OnceDropped, Zenon
  <1>5. OwnedOnce(requests', request', configs', vms', heap')
    BY <1>1, <1>4, Zenon
  <1>6. Allocated(heap', fresh')
    BY <1>1, <1>3, FreshStrings, Zenon
  <1>7. OwnerInv'
    BY <1>5, <1>6, OwnedOnceIsProperty, Zenon DEF OwnerInv
  <1> QED
    BY <1>2, <1>7, Zenon

-----------------------------------------------------------------------------
(* Proofs about the scans *)

\* Only the proofs from here on need the theorems of the library.
INSTANCE FiniteSetTheorems

\* Of the positions with a property there is a first.
LEMMA FirstPosition ==
    ASSUME NEW S, S \subseteq Nat, S # {}
    PROVE  \E m \in S : \A x \in S : m <= x
  <1> DEFINE Below == OpToRel(<, Nat)
  <1>1. \E m \in S : \A x \in S : <<x, m>> \notin Below
    BY NatLessThanWellFounded, WFMin, Zenon
  <1>2. Below = {pair \in Nat \X Nat : pair[1] < pair[2]}
    BY Zenon DEF OpToRel
  <1> HIDE DEF Below
  <1>3. PICK m \in S : \A x \in S : <<x, m>> \notin Below
    BY <1>1, Zenon
  <1>4. \A x \in S : ~ x < m
    <2> TAKE x \in S
    <2>1. <<x, m>> \in Nat \X Nat /\ <<x, m>>[1] = x /\ <<x, m>>[2] = m
      BY Zenon
    <2> QED
      BY <1>2, <1>3, <2>1, Zenon
  <1> QED
    BY <1>3, <1>4

\* The letters of a file, which all scans see inside it.
LEMMA FileLetters ==
    ASSUME NEW f \in Files
    PROVE  /\ Len(f.text) \in Nat /\ DOMAIN f.text = 1..Len(f.text)
           /\ Reach(f) \in Nat /\ Len(f.text) <= Reach(f)
           /\ \A p \in 1..Len(f.text) : file_at(f, p) = f.text[p]
  <1>1. f.text \in Seq(STRING) /\ f.beyond \in Seq(STRING)
    <2>1. f \in [text : Seq(STRING), beyond : Seq(STRING)]
      BY VmConfigAssumption, Zenon
    <2> QED
      BY <2>1, Zenon
  <1>2. Len(f.text) \in Nat /\ DOMAIN f.text = 1..Len(f.text) /\ Len(f.beyond) \in Nat
    BY <1>1
  <1>3. Reach(f) \in Nat /\ Len(f.text) <= Reach(f)
    <2> DEFINE n == Len(f.text)  m == Len(f.beyond)
    <2>1. n \in Nat /\ m \in Nat /\ Reach(f) = n + m
      BY <1>2, Zenon DEF Reach
    <2> HIDE DEF n, m
    <2>2. Reach(f) \in Nat /\ n <= Reach(f)
      BY <2>1
    <2> QED
      BY <2>2, Zenon DEF n
  <1>4. \A p \in 1..Len(f.text) : file_at(f, p) = f.text[p]
    <2>1. \A p \in 1..Len(f.text) : p <= Len(f.text)
      BY <1>2
    <2> QED
      BY <2>1, Zenon DEF file_at
  <1> QED
    BY <1>2, <1>3, <1>4, Zenon

\* The scan from p stops at q.
FirstStop(f, p, scan, q) ==
    /\ q \in p..Len(f.text) /\ StopsAt(scan, f.text[q])
    /\ \A r \in p..(q - 1) : ~ StopsAt(scan, f.text[r])

\* A scan that has a letter to stop at inside the file stops at the first one.
LEMMA ScanStops ==
    ASSUME NEW f \in Files, NEW p \in 1..Len(f.text), NEW scan,
           NEW s \in p..Len(f.text), StopsAt(scan, f.text[s]),
           NEW q, q = FirstFrom(f, p, scan)
    PROVE  FirstStop(f, p, scan, q)
  <1>1. /\ Len(f.text) \in Nat /\ Reach(f) \in Nat /\ Len(f.text) <= Reach(f)
        /\ \A r \in 1..Len(f.text) : file_at(f, r) = f.text[r]
    BY FileLetters, Zenon
  <1>2. p \in Nat /\ s \in Nat /\ 1 <= p /\ p <= s /\ s <= Len(f.text)
    BY <1>1
  <1> DEFINE Stops == {r \in p..Len(f.text) : StopsAt(scan, f.text[r])}
             IsFirst(x) == /\ x <= Reach(f) => StopsAt(scan, file_at(f, x))
                           /\ \A r \in p..(x - 1) : ~ StopsAt(scan, file_at(f, r))
  <1>3. PICK m \in Stops : \A x \in Stops : m <= x
    <2>1. Stops \subseteq Nat /\ Stops # {}
      BY <1>1, <1>2
    <2> HIDE DEF Stops
    <2> QED
      BY <2>1, FirstPosition, Zenon
  <1>4. m \in p..(Reach(f) + 1) /\ IsFirst(m)
    <2>1. m \in 1..Len(f.text) /\ m \in p..(Reach(f) + 1) /\ StopsAt(scan, f.text[m])
      BY <1>1, <1>2
    <2>2. ASSUME NEW r \in p..(m - 1) PROVE ~ StopsAt(scan, file_at(f, r))
      <3>1. r \in p..Len(f.text) /\ r \in 1..Len(f.text) /\ ~ m <= r
        BY <1>1, <1>2, <2>1
      <3> QED
        BY <1>1, <1>3, <3>1, Zenon
    <2> QED
      BY <1>1, <2>1, <2>2, Zenon
  <1>5. q \in p..(Reach(f) + 1) /\ IsFirst(q)
    BY <1>4, Zenon DEF FirstFrom
  <1>6. q <= s
    <2> SUFFICES ASSUME ~ q <= s PROVE FALSE
      BY Zenon
    <2>1. s \in p..(q - 1) /\ s \in 1..Len(f.text)
      BY <1>1, <1>2, <1>5
    <2> QED
      BY <1>1, <1>5, <2>1, Zenon
  <1>7. q \in p..Len(f.text) /\ q \in 1..Len(f.text) /\ q <= Reach(f)
    BY <1>1, <1>2, <1>5, <1>6
  <1>8. \A r \in p..(q - 1) : r \in 1..Len(f.text)
    BY <1>1, <1>2, <1>7
  <1> QED
    BY <1>1, <1>5, <1>7, <1>8, Zenon DEF FirstStop

\* The quotes of a text are finitely many.
LEMMA QuotesFinite ==
    ASSUME NEW f \in Files
    PROVE  /\ IsFiniteSet(Quotes(f.text)) /\ Quotes(f.text) \subseteq 1..Len(f.text)
           /\ \A p : IsFiniteSet(QuotesBefore(f.text, p)) /\ Cardinality(QuotesBefore(f.text, p)) \in Nat
  <1>1. Len(f.text) \in Nat /\ DOMAIN f.text = 1..Len(f.text)
    BY FileLetters, Zenon
  <1>2. Quotes(f.text) \subseteq 1..Len(f.text)
    BY <1>1, Zenon DEF Quotes
  <1>3. IsFiniteSet(1..Len(f.text))
    BY <1>1, FS_Interval
  <1>4. IsFiniteSet(Quotes(f.text))
    BY <1>2, <1>3, FS_Subset, Zenon
  <1>5. \A p : QuotesBefore(f.text, p) \subseteq Quotes(f.text)
    BY Zenon DEF QuotesBefore
  <1> QED
    BY <1>2, <1>4, <1>5, FS_Subset, FS_CardinalityType, Zenon

\* A scan that has met no quote has as many of them behind it as before.
LEMMA NoQuoteCrossed ==
    ASSUME NEW f \in Files, NEW p \in Nat, NEW q \in Nat, p <= q, q <= Len(f.text) + 1, 1 <= p,
           \A r \in p..(q - 1) : f.text[r] # QUOTE, Outside(f.text, p)
    PROVE  Outside(f.text, q)
  <1>1. ASSUME NEW r \in Quotes(f.text) PROVE r < q <=> r < p
    <2>1. r \in 1..Len(f.text) /\ f.text[r] = QUOTE /\ Len(f.text) \in Nat
      BY QuotesFinite, FileLetters, Zenon DEF Quotes
    <2>2. r \notin p..(q - 1)
      BY <2>1, Zenon
    <2> QED
      BY <2>1, <2>2
  <1>2. QuotesBefore(f.text, q) = QuotesBefore(f.text, p)
    BY <1>1, Zenon DEF QuotesBefore
  <1>3. q \in Nat \ {0}
    OBVIOUS
  <1> QED
    BY <1>2, <1>3, Zenon DEF Outside

\* Behind a pair of quotes the scan is outside again.
LEMMA QuotesCrossed ==
    ASSUME NEW f \in Files, NEW open \in 1..Len(f.text), NEW close \in (open + 1)..Len(f.text),
           f.text[open] = QUOTE, f.text[close] = QUOTE,
           \A r \in (open + 1)..(close - 1) : f.text[r] # QUOTE, Outside(f.text, open)
    PROVE  Outside(f.text, close + 1)
  <1> DEFINE B == QuotesBefore(f.text, open)
  <1>1. /\ Len(f.text) \in Nat /\ open \in Nat /\ close \in Nat /\ 1 <= open /\ open < close
        /\ close <= Len(f.text) /\ DOMAIN f.text = 1..Len(f.text) /\ close \in 1..Len(f.text)
    BY FileLetters
  <1>2. open \in Quotes(f.text) /\ close \in Quotes(f.text) /\ Quotes(f.text) \subseteq 1..Len(f.text)
    BY <1>1, QuotesFinite, Zenon DEF Quotes
  <1>3. ASSUME NEW r \in Quotes(f.text)
        PROVE  r < close + 1 <=> r < open \/ r = open \/ r = close
    <2>1. r \in 1..Len(f.text) /\ f.text[r] = QUOTE
      BY <1>2, Zenon DEF Quotes
    <2>2. r \notin (open + 1)..(close - 1)
      BY <2>1, Zenon
    <2> QED
      BY <1>1, <2>1, <2>2
  <1>4. QuotesBefore(f.text, close + 1) = (B \cup {open}) \cup {close}
    BY <1>2, <1>3, Zenon DEF QuotesBefore
  <1>5. open \notin B /\ close \notin B \cup {open}
    BY <1>1 DEF QuotesBefore
  <1>6. IsFiniteSet(B) /\ Cardinality(B) \in Nat
    BY QuotesFinite, Zenon
  <1>7. Cardinality(B) % 2 = 0
    BY Zenon DEF Outside
  <1> HIDE DEF B
  <1>8. IsFiniteSet(B \cup {open}) /\ Cardinality(B \cup {open}) = Cardinality(B) + 1
    BY <1>5, <1>6, FS_AddElement, Zenon
  <1>9. Cardinality((B \cup {open}) \cup {close}) = Cardinality(B \cup {open}) + 1
    BY <1>5, <1>8, FS_AddElement, Zenon
  <1>10. (Cardinality(B \cup {open}) + 1) % 2 = 0
    BY <1>6, <1>7, <1>8
  <1>11. close + 1 \in Nat \ {0} /\ close + 1 <= Len(f.text) + 1
    BY <1>1
  <1> QED
    BY <1>4, <1>9, <1>10, <1>11, Zenon DEF Outside

\* In a closed text a quote outside of quotes has another one behind it.
LEMMA QuoteCloses ==
    ASSUME NEW f \in Files, Closed(f.text), NEW open \in 1..Len(f.text),
           f.text[open] = QUOTE, Outside(f.text, open)
    PROVE  \E s \in (open + 1)..Len(f.text) : f.text[s] = QUOTE
  <1> SUFFICES ASSUME \A s \in (open + 1)..Len(f.text) : f.text[s] # QUOTE PROVE FALSE
    BY Zenon
  <1> DEFINE B == QuotesBefore(f.text, open)
  <1>1. /\ Len(f.text) \in Nat /\ open \in Nat /\ DOMAIN f.text = 1..Len(f.text)
        /\ 1 <= open /\ open <= Len(f.text)
    BY FileLetters
  <1>2. open \in Quotes(f.text) /\ Quotes(f.text) \subseteq 1..Len(f.text)
    BY <1>1, QuotesFinite, Zenon DEF Quotes
  <1>3. ASSUME NEW r \in Quotes(f.text) PROVE r < open \/ r = open
    <2>1. r \in 1..Len(f.text) /\ f.text[r] = QUOTE
      BY <1>2, Zenon DEF Quotes
    <2>2. r \notin (open + 1)..Len(f.text)
      BY <2>1, Zenon
    <2> QED
      BY <1>1, <2>1, <2>2
  <1>4. Quotes(f.text) = B \cup {open}
    BY <1>2, <1>3, Zenon DEF QuotesBefore
  <1>5. open \notin B
    BY <1>1 DEF QuotesBefore
  <1>6. IsFiniteSet(B) /\ Cardinality(B) \in Nat
    BY QuotesFinite, Zenon
  <1>7. Cardinality(B) % 2 = 0
    BY Zenon DEF Outside
  <1>8. Cardinality(Quotes(f.text)) % 2 = 0
    <2>1. f.text # << >>
      BY <1>1, EmptyIsSequence, Zenon
    <2> QED
      BY <2>1, Zenon DEF Closed
  <1> HIDE DEF B
  <1>9. Cardinality(B \cup {open}) = Cardinality(B) + 1
    BY <1>5, <1>6, FS_AddElement, Zenon
  <1> QED
    BY <1>4, <1>6, <1>7, <1>8, <1>9

\* The classes of letters, and where a scan stops.
LEMMA Letters ==
    /\ ~ is_config_whitespace(LINE_BREAK) /\ ~ is_config_whitespace(QUOTE)
    /\ ~ is_valid_config_token_char(LINE_BREAK) /\ ~ is_valid_config_token_char(QUOTE)
    /\ ~ is_config_delim(QUOTE) /\ LINE_BREAK # QUOTE /\ Other # QUOTE
    /\ \A c : /\ StopsAt("blanks", c) => ~ is_config_whitespace(c)
              /\ ~ StopsAt("blanks", c) => is_config_whitespace(c)
              /\ ~ StopsAt("plain", c) => is_valid_config_token_char(c)
              /\ StopsAt("quoted", c) => c = QUOTE
              /\ ~ StopsAt("quoted", c) => c # QUOTE
  <1>1. LINE_BREAK # QUOTE /\ Other # QUOTE /\ ~ is_config_delim(QUOTE)
    BY Zenon DEF LINE_BREAK, QUOTE, Other, is_config_delim
  <1>2. ~ is_config_whitespace(LINE_BREAK) /\ ~ is_config_whitespace(QUOTE)
    BY Zenon DEF is_config_whitespace, LINE_BREAK, QUOTE
  <1>3. ~ is_valid_config_token_char(LINE_BREAK) /\ ~ is_valid_config_token_char(QUOTE)
    BY Zenon DEF is_valid_config_token_char
  <1>4. ASSUME NEW c
        PROVE  /\ StopsAt("blanks", c) => ~ is_config_whitespace(c)
               /\ ~ StopsAt("blanks", c) => is_config_whitespace(c)
    BY Zenon DEF StopsAt
  <1>5. ASSUME NEW c PROVE ~ StopsAt("plain", c) => is_valid_config_token_char(c)
    BY Zenon DEF StopsAt
  <1>6. ASSUME NEW c PROVE (StopsAt("quoted", c) => c = QUOTE) /\ (~ StopsAt("quoted", c) => c # QUOTE)
    BY Zenon DEF StopsAt
  <1> QED
    BY <1>1, <1>2, <1>3, <1>4, <1>5, <1>6, Zenon

\* A result of the tokeniser that leaves the scan in the file and outside of quotes.
StaysInside(text, found) ==
    /\ found.status # PAGE_FAULT /\ found.pos \in Nat \ {0} /\ found.pos <= Len(text) + 1
    /\ found.status = NoTokenInLine => Outside(text, found.pos + 1)
    /\ HasToken(found) => Outside(text, found.pos)

\* Results by their members.
LEMMA Results ==
    ASSUME NEW text, NEW p \in Nat \ {0}, p <= Len(text) + 1
    PROVE  /\ StaysInside(text, Stop("SEEK_OOM", p))
           /\ StaysInside(text, Stop("SEEK_INVALID_SYMBOL", p))
           /\ Outside(text, p + 1) => StaysInside(text, Stop("SEEK_NO_TOKEN", p))
           /\ \A start, end : StaysInside(text, Found("SEEK_INVALID_SYMBOL", start, end, p))
           /\ Outside(text, p) =>
                 \A start, end : StaysInside(text, Found("SEEK_TOKEN", start, end, p))
  BY Zenon DEF StaysInside, Stop, Found, PAGE_FAULT, NoTokenInLine, HasToken

\* A plain token ends at the line break, or before.
LEMMA PlainInside ==
    ASSUME NEW f \in Files, f.text[Len(f.text)] = LINE_BREAK,
           NEW q \in 1..Len(f.text), Outside(f.text, q)
    PROVE  StaysInside(f.text, PlainToken(f, q))
  <1>1. PICK next : next = FirstFrom(f, q, "plain")
    BY Zenon
  <1>2. /\ Len(f.text) \in Nat /\ q \in Nat /\ Len(f.text) \in q..Len(f.text)
        /\ Reach(f) \in Nat /\ Len(f.text) <= Reach(f)
    BY FileLetters
  <1>3. /\ next \in q..Len(f.text)
        /\ \A r \in q..(next - 1) : ~ StopsAt("plain", f.text[r])
    <2>1. StopsAt("plain", f.text[Len(f.text)])
      BY Letters, Zenon
    <2>2. FirstStop(f, q, "plain", next)
      BY <1>1, <1>2, <2>1, ScanStops, Zenon
    <2> QED
      BY <2>2, Zenon DEF FirstStop
  <1>4. /\ next \in Nat \ {0} /\ q <= next /\ 1 <= q /\ next <= Len(f.text) + 1 /\ ~ next > Reach(f)
    BY <1>2, <1>3
  <1>5. Outside(f.text, next)
    <2>1. \A r \in q..(next - 1) : f.text[r] # QUOTE
      BY <1>3, Letters, Zenon
    <2> QED
      BY <1>2, <1>4, <2>1, NoQuoteCrossed, Zenon
  <1>6. PlainToken(f, q) = IF file_at(f, next) \in {QUOTE, Other} THEN Stop("SEEK_INVALID_SYMBOL", next)
                           ELSE Found("SEEK_TOKEN", q, next - 1, next)
    BY <1>1, <1>4, Zenon DEF PlainToken
  <1> QED
    BY <1>4, <1>5, <1>6, Results, Zenon

\* A quoted token ends at the second quote.
LEMMA QuotedInside ==
    ASSUME NEW f \in Files, Closed(f.text), NEW q \in 1..Len(f.text), Outside(f.text, q),
           f.text[q] = QUOTE
    PROVE  StaysInside(f.text, QuotedToken(f, q))
  <1>1. PICK close : close = FirstFrom(f, q + 1, "quoted")
    BY Zenon
  <1>2. PICK s \in (q + 1)..Len(f.text) : f.text[s] = QUOTE
    BY QuoteCloses, Zenon
  <1>3. /\ Len(f.text) \in Nat /\ q \in Nat /\ q + 1 \in 1..Len(f.text)
        /\ Reach(f) \in Nat /\ Len(f.text) <= Reach(f)
    BY FileLetters
  <1>4. /\ close \in (q + 1)..Len(f.text) /\ f.text[close] = QUOTE
        /\ \A r \in (q + 1)..(close - 1) : f.text[r] # QUOTE
    <2>1. StopsAt("quoted", f.text[s])
      BY <1>2, Letters, Zenon
    <2>2. FirstStop(f, q + 1, "quoted", close)
      BY <1>1, <1>2, <1>3, <2>1, ScanStops, Zenon
    <2> QED
      BY <2>2, Letters, Zenon DEF FirstStop
  <1>5. Outside(f.text, close + 1)
    BY <1>4, QuotesCrossed, Zenon
  <1>6. close + 1 \in Nat \ {0} /\ close + 1 <= Len(f.text) + 1 /\ ~ close > Reach(f)
    BY <1>3, <1>4
  <1>7. \/ QuotedToken(f, q) = Found("SEEK_TOKEN", q + 1, close - 1, close + 1)
        \/ QuotedToken(f, q) = Found("SEEK_INVALID_SYMBOL", q + 1, close - 1, close + 1)
    BY <1>1, <1>6, Zenon DEF QuotedToken
  <1> QED
    BY <1>5, <1>6, <1>7, Results, Zenon

\* Every scan of a closed text.
LEMMA SeekInside ==
    ASSUME NEW f \in Files, Closed(f.text), NEW p, Outside(f.text, p)
    PROVE  StaysInside(f.text, seek_token_in_line(f, p))
  <1>1. /\ Len(f.text) \in Nat /\ p \in Nat \ {0} /\ p <= Len(f.text) + 1 /\ Reach(f) \in Nat /\ Len(f.text) <= Reach(f)
        /\ \A r \in 1..Len(f.text) : file_at(f, r) = f.text[r]
    BY FileLetters, Zenon DEF Outside
  <1>2. CASE file_oom(f, p)
    <2>1. seek_token_in_line(f, p) = Stop("SEEK_OOM", p)
      BY <1>2, Zenon DEF seek_token_in_line
    <2> QED
      BY <1>1, <2>1, Results, Zenon
  <1>3. CASE ~ file_oom(f, p)
    <2>1. PICK q : q = FirstFrom(f, p, "blanks")
      BY Zenon
    <2>2. p \in 1..Len(f.text) /\ Len(f.text) \in p..Len(f.text)
      BY <1>1, <1>3 DEF file_oom
    <2>3. f.text[Len(f.text)] = LINE_BREAK
      <3>1. f.text # << >>
        BY <1>1, <2>2, EmptyIsSequence
      <3> QED
        BY <3>1, Zenon DEF Closed
    <2>4. /\ q \in p..Len(f.text) /\ ~ is_config_whitespace(f.text[q])
          /\ \A r \in p..(q - 1) : is_config_whitespace(f.text[r])
      <3>1. StopsAt("blanks", f.text[Len(f.text)])
        BY <2>3, Letters, Zenon
      <3>2. FirstStop(f, p, "blanks", q)
        BY <2>1, <2>2, <3>1, ScanStops, Zenon
      <3> QED
        BY <3>2, Letters, Zenon DEF FirstStop
    <2>5. /\ q \in 1..Len(f.text) /\ q \in Nat \ {0} /\ q <= Len(f.text) + 1 /\ p <= q
          /\ q + 1 \in Nat \ {0} /\ q + 1 <= Len(f.text) + 1 /\ q <= Reach(f) /\ ~ q > Reach(f)
      BY <1>1, <2>2, <2>4
    <2>6. Outside(f.text, q)
      <3>1. \A r \in p..(q - 1) : f.text[r] # QUOTE
        BY <2>4, Letters, Zenon
      <3> QED
        BY <2>2, <2>5, <3>1, NoQuoteCrossed
    <2>7. ASSUME f.text[q] # QUOTE PROVE Outside(f.text, q + 1)
      <3>1. \A r \in q..((q + 1) - 1) : f.text[r] # QUOTE
        BY <2>5, <2>7
      <3> QED
        BY <2>5, <2>6, <3>1, NoQuoteCrossed
    <2> DEFINE c == f.text[q]
    <2>8. file_at(f, q) = c
      BY <1>1, <2>5, Zenon
    <2>9. seek_token_in_line(f, p) =
              CASE c = LINE_BREAK -> Stop("SEEK_NO_TOKEN", q)
                [] is_config_delim(c) -> Found("SEEK_TOKEN", q, q, q + 1)
                [] is_valid_config_token_char(c) -> PlainToken(f, q)
                [] c = QUOTE -> QuotedToken(f, q)
                [] c = Other -> Stop("SEEK_INVALID_SYMBOL", q)
      BY <1>3, <2>1, <2>5, <2>8, Zenon DEF seek_token_in_line
    <2>10. /\ StaysInside(f.text, Stop("SEEK_INVALID_SYMBOL", q))
           /\ c # QUOTE => StaysInside(f.text, Stop("SEEK_NO_TOKEN", q))
           /\ c # QUOTE => StaysInside(f.text, Found("SEEK_TOKEN", q, q, q + 1))
           /\ StaysInside(f.text, PlainToken(f, q))
           /\ c = QUOTE => StaysInside(f.text, QuotedToken(f, q))
      <3>1. StaysInside(f.text, PlainToken(f, q))
        BY <2>3, <2>5, <2>6, PlainInside, Zenon
      <3>2. c = QUOTE => StaysInside(f.text, QuotedToken(f, q))
        BY <2>5, <2>6, QuotedInside, Zenon
      <3> QED
        BY <2>5, <2>7, <3>1, <3>2, Results, Zenon
    <2>11. \/ c = LINE_BREAK \/ is_config_delim(c) \/ is_valid_config_token_char(c)
           \/ c = QUOTE \/ c = Other
      BY <2>4, Zenon DEF is_valid_config_token_char
    <2>12. (c = LINE_BREAK => c # QUOTE) /\ (is_config_delim(c) => c # QUOTE)
      BY Letters, Zenon
    <2> HIDE DEF c
    <2> QED
      BY <2>9, <2>10, <2>11, <2>12, Zenon
  <1> QED
    BY <1>2, <1>3, Zenon

\* A step of get_vm_configs leaves the next scan a place to begin.
LEMMA ScanKept == ASSUME ScanInv, Scans PROVE ScanInv'
  <1>1. CASE phase' \notin {"start", "keys", "parse"}
    BY <1>1, Zenon DEF ScanInv
  <1>2. CASE phase \in {"start", "keys"} /\ phase' = "keys" /\ UNCHANGED pos
    BY <1>2, Zenon DEF ScanInv
  <1>3. CASE phase = "keys" /\ phase' = "parse" /\ file' \in Files /\ UNCHANGED pos
    <2>1. pos' = 1 /\ phase' \notin {"start", "keys"}
      BY <1>3, Zenon DEF ScanInv
    <2>2. PICK f \in Files : f = file'
      BY <1>3, Zenon
    <2>3. Outside(f.text, 1)
      <3>1. Len(f.text) \in Nat /\ Quotes(f.text) \subseteq 1..Len(f.text)
        BY FileLetters, QuotesFinite, Zenon
      <3>2. QuotesBefore(f.text, 1) = {}
        BY <3>1 DEF QuotesBefore
      <3>3. Cardinality(QuotesBefore(f.text, 1)) = 0
        BY <3>2, FS_EmptySet, Zenon
      <3> QED
        BY <3>1, <3>3 DEF Outside
    <2>4. Outside(file'.text, pos')
      BY <2>1, <2>2, <2>3, Zenon
    <2> QED
      BY <1>3, <2>1, <2>4, Zenon DEF ScanInv, Outside, QuotesBefore, Quotes
  <1>4. CASE /\ phase = "parse" /\ phase' = "parse" /\ UNCHANGED file
             /\ \E found \in {seek_token_in_line(file, pos)} :
                   \/ found.status = NoTokenInLine /\ pos' = found.pos + 1
                   \/ HasToken(found) /\ pos' = found.pos
    <2>1. ASSUME Closed(file.text) PROVE Outside(file.text, pos')
      <3>1. file \in Files /\ Outside(file.text, pos)
        BY <1>4, <2>1, Zenon DEF ScanInv
      <3>2. StaysInside(file.text, seek_token_in_line(file, pos))
        BY <2>1, <3>1, SeekInside, Zenon
      <3> QED
        BY <1>4, <3>2, Zenon DEF StaysInside
    <2>2. file \in Files /\ phase' \notin {"start", "keys"}
      BY <1>4, Zenon DEF ScanInv
    <2> QED
      BY <1>4, <2>1, <2>2, Zenon DEF ScanInv, Closed, Outside, QuotesBefore, Quotes
  <1> QED
    BY <1>1, <1>2, <1>3, <1>4, Zenon DEF Scans

\* Where the file is read is not changed once it has been parsed.
LEMMA ScanIdle ==
    /\ ScanInv /\ UNCHANGED <<phase, file, pos>> => ScanInv'
    /\ phase' \notin {"start", "keys", "parse"} => ScanInv'
  <1>1. ASSUME ScanInv, UNCHANGED <<phase, file, pos>> PROVE ScanInv'
    BY <1>1, Zenon DEF ScanInv, Closed, Outside, QuotesBefore, Quotes
  <1>2. ASSUME phase' \notin {"start", "keys", "parse"} PROVE ScanInv'
    BY <1>2, Zenon DEF ScanInv
  <1> QED
    BY <1>1, <1>2, Zenon

LEMMA ScansAreInside == ScanInv => ScansInsideFile
  <1> SUFFICES ASSUME ScanInv, phase = "parse", Closed(file.text)
               PROVE  /\ seek_token_in_line(file, pos).status # PAGE_FAULT
                      /\ seek_token_in_line(file, pos).pos <= Len(file.text) + 1
    BY Zenon DEF ScansInsideFile
  <1>1. file \in Files /\ Outside(file.text, pos)
    BY Zenon DEF ScanInv
  <1>2. StaysInside(file.text, seek_token_in_line(file, pos))
    BY <1>1, SeekInside, Zenon
  <1> QED
    BY <1>2, Zenon DEF StaysInside

-----------------------------------------------------------------------------
(* The theorems *)

\* Nothing is configured, owned or loaded when hypervisor_main begins.
LEMMA BootInit == Init => BootInv
  <1> SUFFICES ASSUME Init PROVE BootInv
    BY Zenon
  <1>1. /\ request = EmptyRequest(0) /\ requests = << >> /\ configs = << >> /\ vms = << >>
        /\ heap = {} /\ fresh = 1 /\ phase = "start" /\ pos = 1
        /\ load_step = "idle" /\ mem_size = 0 /\ guest_memory = << >>
    BY Zenon DEF Init, ConfigInit, LoaderInit
  <1>2. ParserInv
    <2>1. \A s : s = << >> => IsSequence(s) /\ ~ \E i \in 1..Len(s) : TRUE
      BY EmptyIsSequence
    <2> QED
      BY <1>1, <2>1, EmptyRequestIsGood, Zenon DEF ParserInv
  <1>3. OwnerInv
    <2>1. Allocated(heap, fresh)
      BY <1>1 DEF Allocated
    <2>2. /\ StringsOfAll(requests) = {} /\ StringsOf(request) = {} /\ ConfigStringsOfAll(configs) = {}
          /\ OwnedByVms = {}
      BY <1>1, OwnedByNone, EmptyRequestIsGood, Zenon DEF OwnedByVms
    <2>3. StringsOwnedOnce
      BY <1>1, <2>2, OwnedByNone, Zenon DEF StringsOwnedOnce, OwnedByRequests
    <2> QED
      BY <2>1, <2>3, Zenon DEF OwnerInv
  <1>4. ScanInv
    BY <1>1, Zenon DEF ScanInv
  <1>5. LoaderInv
    BY <1>1, IdleLoader, Zenon
  <1> QED
    BY <1>2, <1>3, <1>4, <1>5, Zenon DEF BootInv

\* create_vm takes its memory and its files from a configuration that was found.
LEMMA CreateVmStep == ASSUME BootInv, CreateVm PROVE BootInv'
  <1>1. KeepConfigs /\ phase = "configured" /\ Len(vms) < Len(configs)
    BY Zenon DEF CreateVm
  <1>2. UNCHANGED <<file, pos, request, requests, configs>>
    BY <1>1, Zenon DEF KeepConfigs
  <1>3. CASE phase' = "dead" /\ UNCHANGED <<loader_vars, heap, fresh, vms>>
    <2>1. RequestEffect /\ UNCHANGED vms /\ UNCHANGED loader_vars
      BY <1>2, <1>3, Zenon DEF RequestEffect, Untouched
    <2>2. phase' \notin {"start", "keys", "parse"}
      BY <1>3, Zenon
    <2> QED
      BY <2>1, <2>2, ParserKept, OwnerKept, LoaderKept, ScanIdle, Zenon DEF BootInv, OwnerInv, Allocated
  <1>4. CASE /\ Config.type = LINUX_DIRECT_BOOT_32BIT
             /\ BeginLoad(Config, align_forward(get_vm_config_req_bytes(Config), PAGE_SIZE))
             /\ vms' = Append(vms, [name |-> VmName, uart |-> Config.uart])
             /\ heap' = heap \cup {fresh} /\ fresh' = fresh + 1 /\ UNCHANGED phase
    <2>1. ParserInv' /\ OwnerInv'
      BY <1>1, <1>4, CreateVmKeeps, Zenon DEF BootInv
    <2>2. ScanInv'
      BY <1>2, <1>4, ScanIdle, Zenon DEF BootInv
    <2>3. PICK c : c = Config
      BY Zenon
    <2>4. c.mem_size \in Nat /\ c.granularity \in mem_granularities /\ {c.bzImage, c.initramfs} \subseteq Modules
      <3>1. IsSequence(vms) /\ IsSequence(configs) /\ \A i \in 1..Len(configs) : GoodConfig(configs[i])
        BY Zenon DEF BootInv, ParserInv
      <3>2. Len(vms) \in Nat /\ Len(configs) \in Nat
        BY <3>1, Positions, Zenon
      <3>3. Len(vms) + 1 \in 1..Len(configs)
        BY <1>1, <3>2
      <3> QED
        BY <1>4, <2>3, <3>1, <3>3, Zenon DEF Config, GoodConfig
    <2>5. align_forward(get_vm_config_req_bytes(c), PAGE_SIZE) \in Nat
      <3>1. GranularityBytes[c.granularity] \in Nat
        BY <2>4, GuestBootAssumption, Zenon
      <3>2. get_vm_config_req_bytes(c) \in Nat
        BY <2>4, <3>1 DEF get_vm_config_req_bytes
      <3> QED
        BY <3>2, AlignForward, LoaderNumbers, Zenon
    <2>6. BeginLoad(c, align_forward(get_vm_config_req_bytes(c), PAGE_SIZE))
      BY <1>4, <2>3, Zenon
    <2>7. LoaderInv'
      BY <2>4, <2>5, <2>6, BeginKeeps, Zenon
    <2> QED
      BY <2>1, <2>2, <2>7, Zenon DEF BootInv
  <1> QED
    BY <1>3, <1>4, Zenon DEF CreateVm

\* Every step of the boot.
LEMMA BootStep == BootInv /\ [Next]_vars => BootInv'
  <1> SUFFICES ASSUME BootInv, [Next]_vars PROVE BootInv'
    BY Zenon
  <1>1. ASSUME Untouched, UNCHANGED vms PROVE ParserInv' /\ OwnerInv'
    BY <1>1, ParserKept, OwnerKept, Zenon DEF RequestEffect, BootInv, OwnerInv, Allocated
  <1>2. CASE ReadConfigs
    <2>1. RequestEffect /\ Scans /\ UNCHANGED vms /\ UNCHANGED loader_vars
      BY <1>2, ConfigEffect, Zenon DEF ReadConfigs
    <2> QED
      BY <2>1, ParserKept, OwnerKept, LoaderKept, ScanKept, Zenon DEF BootInv, OwnerInv, Allocated
  <1>3. CASE CreateVm
    BY <1>3, CreateVmStep, Zenon
  <1>4. CASE CreateVmFails
    <2>1. Untouched /\ UNCHANGED vms /\ UNCHANGED loader_vars /\ phase' = "dead"
      BY <1>4, Zenon DEF CreateVmFails, KeepConfigs, Untouched
    <2>2. phase' \notin {"start", "keys", "parse"}
      BY <2>1, Zenon
    <2> QED
      BY <1>1, <2>1, <2>2, LoaderKept, ScanIdle, Zenon DEF BootInv
  <1>5. CASE Load
    <2>1. Untouched /\ UNCHANGED vms /\ UNCHANGED <<phase, file, pos>>
      BY <1>5, Zenon DEF Load, config_vars, Untouched
    <2>2. CASE EndLoad
      <3>1. load_step' = "idle" /\ mem_size' = 0 /\ guest_memory' = << >>
        BY <2>2, Zenon DEF EndLoad
      <3>2. LoaderTypes'
        BY <3>1 DEF LoaderTypes, CopiesInsideMemory
      <3>3. PartsInv'
        BY <3>1, Zenon DEF PartsInv, KernelCopied
      <3> QED
        BY <1>1, <2>1, <3>2, <3>3, ScanIdle, Zenon DEF BootInv, LoaderInv
    <2>3. CASE LoaderInv'
      BY <1>1, <2>1, <2>3, ScanIdle, Zenon DEF BootInv
    <2> QED
      BY <1>5, <2>2, <2>3, LoaderStep, Zenon DEF Load, BootInv
  <1>6. CASE destroy_vm_configs
    <2>1. phase' = "running" /\ UNCHANGED loader_vars
      BY <1>6, Zenon DEF destroy_vm_configs, loader_vars
    <2>2. phase' \notin {"start", "keys", "parse"}
      BY <2>1, Zenon
    <2> QED
      BY <1>6, <2>1, <2>2, DestroyKeeps, LoaderKept, ScanIdle, Zenon DEF BootInv
  <1>7. CASE UNCHANGED vars
    <2>1. Untouched /\ UNCHANGED vms /\ UNCHANGED <<phase, file, pos>> /\ UNCHANGED loader_vars
      BY <1>7, Zenon DEF vars, config_vars, Untouched
    <2> QED
      BY <1>1, <2>1, LoaderKept, ScanIdle, Zenon DEF BootInv
  <1> QED
    BY <1>2, <1>3, <1>4, <1>5, <1>6, <1>7, Zenon DEF Next

\* The invariant holds throughout the boot.
THEOREM BootInvariant == Spec => []BootInv
  BY BootInit, BootStep, PTL DEF Spec

\* Every string has one owner and is live, however many entries the file has
\* and wherever get_vm_configs or the creation of a VM ends.
THEOREM StringsHaveOneOwner == Spec => []StringsOwnedOnce
  <1>1. BootInv => StringsOwnedOnce
    BY Zenon DEF BootInv, OwnerInv
  <1> QED
    BY <1>1, BootInvariant, PTL

\* seek_token_in_line never leaves a file whose last line is closed, of any
\* text and any length, whatever lies beyond it.
THEOREM ScansStayInside == Spec => []ScansInsideFile
  <1>1. BootInv => ScansInsideFile
    BY ScansAreInside, Zenon DEF BootInv
  <1> QED
    BY <1>1, BootInvariant, PTL

\* No copy of the loader leaves the memory of the VM, for any header and any sizes.
THEOREM CopiesStayInside == Spec => []CopiesInsideMemory
  <1>1. BootInv => CopiesInsideMemory
    BY Zenon DEF BootInv, LoaderInv, LoaderTypes
  <1> QED
    BY <1>1, BootInvariant, PTL

\* A guest whose kernel is built as the loader expects finds every part where
\* the zero page says it is, for any header and any sizes.
THEOREM PartsStayInPlace == Spec => []GuestFindsItsParts
  <1>1. BootInv => GuestFindsItsParts
    BY PartsAreFound, Zenon DEF BootInv
  <1> QED
    BY <1>1, BootInvariant, PTL

=============================================================================
