---------------------------- MODULE LinuxLoader ----------------------------
(***************************************************************************)
(* load_linux_32bit_direct_boot_for_vm: the checks of the kernel image and *)
(* the five copies into the memory of a VM.  The memory is known by the    *)
(* part each byte was last written for; the setup header of the image is   *)
(* one of Headers, known to the loader once it reads the image.            *)
(***************************************************************************)
EXTENDS Integers, FiniteSets

CONSTANTS
    Headers,                 \* the setup headers an image may have
    FileSize,                \* sizes of the files from the bootloader
    StringLen,               \* strlen of the command lines that are not empty
    PAGE_SIZE,
    LINUX_BOOT_SECTOR_SIZE,
    SetupHeaderEnd,          \* SETUP_HEADER_OFFSET + sizeof(struct setup_header)
    SyssizeUnit,             \* 16, the unit of syssize
    Uint32Range,             \* 2^32
    Uint64Range,             \* 2^64
    GDT_GPADDR,              \* the LINUX_GUEST_DEFAULT_ addresses
    COMMAND_LINE_GPADDR,
    ZERO_PAGE_GPADDR

\* What the loader reads of a setup header.
HeaderMembers ==
    [boot_flag : BOOLEAN, signature : BOOLEAN, jump : BOOLEAN, loaded_high : BOOLEAN,
     version : Nat, setup_sects : Nat, syssize : Nat, code32_start : Nat, init_size : Nat,
     pref_address : Nat, cmdline_size : Nat]

ASSUME LinuxLoaderAssumption ==
    /\ \A h \in Headers : h \in HeaderMembers
    /\ \A s \in DOMAIN StringLen : StringLen[s] \in Nat
    /\ {PAGE_SIZE, LINUX_BOOT_SECTOR_SIZE, SyssizeUnit, Uint32Range, Uint64Range}
          \subseteq Nat \ {0}
    /\ {GDT_GPADDR, COMMAND_LINE_GPADDR, ZERO_PAGE_GPADDR} \subseteq Nat
    /\ Uint32Range + PAGE_SIZE < Uint64Range
    /\ GDT_GPADDR + PAGE_SIZE <= COMMAND_LINE_GPADDR
    /\ COMMAND_LINE_GPADDR < ZERO_PAGE_GPADDR

VARIABLES
    load_step,       \* the copy that is next
    image,           \* boot_info.linux: the names of the files, the command line
    mem_size,        \* get_vm_memory_size
    setup_header,
    guest_memory,    \* byte -> the part it was last written for
    boot_params      \* what the zero page tells the guest

loader_vars == <<load_step, image, mem_size, setup_header, guest_memory, boot_params>>

NoImage == [bzImage |-> "", initramfs |-> "", cmdline_str |-> ""]

NoHeader == [none |-> TRUE]

NoBootParams == [none |-> TRUE]

LoaderInit ==
    /\ load_step = "idle"
    /\ image = NoImage
    /\ mem_size = 0
    /\ setup_header = NoHeader
    /\ guest_memory = << >>
    /\ boot_params = NoBootParams

-----------------------------------------------------------------------------
(* The image *)

\* The last check, of the end the header declares, returns -1 from a function
\* of type bool: it never refuses an image.
valid_linux_setup_header(h) == h.boot_flag /\ h.signature /\ h.jump

verify_bzImage(h) == h.version >= 512 /\ h.loaded_high

setup_sects(h) == IF h.setup_sects = 0 THEN 4 ELSE h.setup_sects

pm_kernel_offset(h) == (setup_sects(h) + 1) * LINUX_BOOT_SECTOR_SIZE

declared_pm_kernel_size(h) == h.syssize * SyssizeUnit

\* Mutant: what the kernel needs to unpack itself is ignored.
LoadSizeDeclared(h) == declared_pm_kernel_size(h)

effective_pm_kernel_load_size(h) ==
    IF h.init_size > declared_pm_kernel_size(h)
    THEN h.init_size ELSE declared_pm_kernel_size(h)

ImageAccepted(size, h) ==
    /\ size >= SetupHeaderEnd
    /\ valid_linux_setup_header(h)
    /\ verify_bzImage(h)
    /\ h.version >= 527
    /\ pm_kernel_offset(h) < size
    /\ declared_pm_kernel_size(h) # 0
    /\ declared_pm_kernel_size(h) <= size - pm_kernel_offset(h)
    /\ h.code32_start # 0

align_forward(addr, unit) == ((addr + unit - 1) \div unit) * unit

initramfs_gpaddr(h) ==
    align_forward((h.pref_address + effective_pm_kernel_load_size(h) + 1) % Uint64Range,
                  PAGE_SIZE) % Uint64Range

-----------------------------------------------------------------------------
(* The copies *)

\* Mutant: the size is compared with all of the memory.
RangeFitsAlone(start, size) == start <= mem_size - 1 /\ size <= mem_size

RangeFits(start, size) == start <= mem_size - 1 /\ size <= mem_size - start

Bytes(start, size) == start..(start + size - 1)

FailLoad ==
    /\ load_step' = "failed"
    /\ UNCHANGED <<image, mem_size, setup_header, guest_memory, boot_params>>

\* copy_to_vm_gpaddr, and the next step of the loader.
CopyAndGoTo(start, size, part, next, params) ==
    \/ ~ RangeFits(start, size) /\ FailLoad
    \/ /\ RangeFits(start, size)
       /\ guest_memory' = [a \in DOMAIN guest_memory \cup Bytes(start, size) |->
                             IF a \in Bytes(start, size) THEN part ELSE guest_memory[a]]
       /\ load_step' = next
       /\ boot_params' = params
       /\ UNCHANGED <<image, mem_size, setup_header>>

\* The call, for a configuration and a VM with that much memory.
BeginLoad(config, bytes) ==
    /\ load_step' = "image"
    /\ image' = [bzImage |-> config.bzImage, initramfs |-> config.initramfs,
                 cmdline_str |-> config.cmdline_str.text]
    /\ mem_size' = bytes
    /\ setup_header' \in Headers
    /\ guest_memory' = << >>
    /\ boot_params' = NoBootParams

EndLoad ==
    /\ load_step' = "idle"
    /\ image' = NoImage
    /\ mem_size' = 0
    /\ setup_header' = NoHeader
    /\ guest_memory' = << >>
    /\ boot_params' = NoBootParams

CheckImage ==
    /\ load_step = "image"
    /\ IF ImageAccepted(FileSize[image.bzImage], setup_header)
       THEN load_step' = "kernel" /\ UNCHANGED <<image, mem_size, setup_header, guest_memory, boot_params>>
       ELSE FailLoad

LoadKernel ==
    LET h == setup_header IN
    /\ load_step = "kernel"
    /\ \/ ~ RangeFits(h.code32_start, effective_pm_kernel_load_size(h)) /\ FailLoad
       \/ /\ RangeFits(h.code32_start, effective_pm_kernel_load_size(h))
          /\ CopyAndGoTo(h.code32_start, declared_pm_kernel_size(h), "kernel",
                         "initramfs", boot_params)

LoadInitramfs ==
    /\ load_step = "initramfs"
    /\ CopyAndGoTo(initramfs_gpaddr(setup_header), FileSize[image.initramfs],
                   "initramfs", "gdt", boot_params)

\* load_32bit_boot_gdt: the page it is put together in may not be available.
LoadGdt ==
    /\ load_step = "gdt"
    /\ \/ FailLoad
       \/ CopyAndGoTo(GDT_GPADDR, PAGE_SIZE, "gdt", "command_line", boot_params)

strlen(s) == IF s \in DOMAIN StringLen THEN StringLen[s] ELSE 0

LoadCommandLine ==
    LET len == strlen(image.cmdline_str) IN
    /\ load_step = "command_line"
    /\ \/ len > setup_header.cmdline_size /\ FailLoad
       \/ /\ len <= setup_header.cmdline_size
          /\ CopyAndGoTo(COMMAND_LINE_GPADDR, len + 1, "command_line",
                         "zero_page", boot_params)

BootParams ==
    [cmd_line_ptr |-> COMMAND_LINE_GPADDR,
     ramdisk_image |-> initramfs_gpaddr(setup_header) % Uint32Range,
     ramdisk_size |-> FileSize[image.initramfs] % Uint32Range,
     e820_size |-> mem_size]

LoadZeroPage ==
    /\ load_step = "zero_page"
    /\ \/ FailLoad
       \/ CopyAndGoTo(ZERO_PAGE_GPADDR, PAGE_SIZE, "zero_page", "loaded", BootParams)

LoaderNext ==
    \/ CheckImage \/ LoadKernel \/ LoadInitramfs
    \/ LoadGdt \/ LoadCommandLine \/ LoadZeroPage
=============================================================================
