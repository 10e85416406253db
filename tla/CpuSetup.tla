------------------------------ MODULE CpuSetup ------------------------------
(***************************************************************************)
(* Set-up of the processors (arch/x64/setup.c): the BSP prepares itself    *)
(* and then starts the APs, each of which prepares itself and registers    *)
(* in the mask of online CPUs.                                             *)
(*                                                                         *)
(* What the hardware or the memory may refuse is a step that fails: a BSP  *)
(* dies, an AP becomes CPU_UNAVAILABLE and dies.  CPU_IDLE, which only the *)
(* scheduler sets, is left to module Sched.                                *)
(***************************************************************************)
EXTENDS Integers, FiniteSets

CONSTANTS
    Cpu, BSP,
    NULL         \* no vCPU; INVALID_CPUID; no current VMCS; no tables

ASSUME CpuAssumption == BSP \in Cpu /\ NULL \notin Cpu

VARIABLES
    pc,              \* per CPU: the next step
    cpu_state,       \* cpu->state
    cpumask,         \* the CPUs registered as online
    mask_read,       \* per CPU: the cpumask register_cpu_online has read
    cr3,             \* per CPU: the address space in use
    raw_shared_cr3,  \* shared_boot_info.raw_shared_cr3
    apic_in,         \* the address spaces in which the page of the APIC is mapped
    x2apic,          \* the CPUs whose APIC is in x2APIC mode
    tables,          \* per CPU: the CPU whose GDT and TSS it has loaded
    vmx_on           \* the CPUs in VMX operation

cpu_vars == <<cpu_state, cpumask, mask_read, cr3, raw_shared_cr3, apic_in, x2apic, tables, vmx_on>>

\* The address space of the bootloader, and the one create_addr_space builds.
Spaces == {"bootloader", "hyvemind"}

\* map_cpu_topology knows all CPUs.
CpuInit ==
    /\ pc = [c \in Cpu |-> IF c = BSP THEN "start" ELSE "off"]
    /\ cpu_state = [c \in Cpu |-> "CPU_NOT_INIT"]
    /\ cpumask = {}
    /\ mask_read = [c \in Cpu |-> {}]
    /\ cr3 = [c \in Cpu |-> "bootloader"]
    /\ raw_shared_cr3 = "bootloader"
    /\ apic_in = {}
    /\ x2apic = {}
    /\ tables = [c \in Cpu |-> NULL]
    /\ vmx_on = {}

At(c, where) == pc[c] = where
GoTo(c, where) == pc' = [pc EXCEPT ![c] = where]

Die(c) == GoTo(c, "dead")

-----------------------------------------------------------------------------
\* check_cpu and setup_bsp_apic: the page of the APIC is mapped where it is used.
SetupBsp ==
    /\ At(BSP, "start")
    /\ \/ x2apic' = x2apic \cup {BSP} /\ UNCHANGED apic_in
       \/ apic_in' = apic_in \cup {cr3[BSP]} /\ UNCHANGED x2apic
    /\ GoTo(BSP, "space")
    /\ UNCHANGED <<cpu_state, cpumask, mask_read, cr3, raw_shared_cr3, tables, vmx_on>>

create_addr_space ==
    /\ At(BSP, "space")
    /\ apic_in' = apic_in \cup {"hyvemind"}
    /\ cr3' = [cr3 EXCEPT ![BSP] = "hyvemind"]
    /\ GoTo(BSP, "tables")
    /\ UNCHANGED <<cpu_state, cpumask, mask_read, raw_shared_cr3, x2apic, tables, vmx_on>>

\* Mutant: the AP stays in the address space of the bootloader.
StartApWhereItIs(c) ==
    /\ c # BSP /\ At(c, "start")
    /\ x2apic' \in {x2apic, x2apic \cup {c}}
    /\ GoTo(c, "tables")
    /\ UNCHANGED <<cpu_state, cpumask, mask_read, cr3, raw_shared_cr3, apic_in, tables, vmx_on>>

\* arch_setup_ap up to setup_ap_apic, whose result is ignored.
StartAp(c) ==
    /\ c # BSP /\ At(c, "start")
    /\ cr3' = [cr3 EXCEPT ![c] = raw_shared_cr3]
    /\ x2apic' \in {x2apic, x2apic \cup {c}}
    /\ GoTo(c, "tables")
    /\ UNCHANGED <<cpu_state, cpumask, mask_read, raw_shared_cr3, apic_in, tables, vmx_on>>

\* init_new_gdt, install_new_tss, load_gdt, load_shared_idt; the BSP has
\* filled the IDT before it starts an AP.
LoadTables(c) ==
    /\ At(c, "tables")
    /\ tables' = [tables EXCEPT ![c] = c]
    /\ GoTo(c, "vmx")
    /\ UNCHANGED <<cpu_state, cpumask, mask_read, cr3, raw_shared_cr3, apic_in, x2apic, vmx_on>>

\* enable_vmx_feature_support and enter_vmx_operation
enter_vmx_operation(c) ==
    /\ At(c, "vmx")
    /\ vmx_on' = vmx_on \cup {c}
    /\ GoTo(c, "register")
    /\ UNCHANGED <<cpu_state, cpumask, mask_read, cr3, raw_shared_cr3, apic_in, x2apic, tables>>

\* One of the above fails; on the BSP also init_halloc or init_timer_framework.
SetupFails(c) ==
    /\ pc[c] \in {"start", "space", "tables", "vmx", "bringup"}
    /\ cpu_state' = IF c = BSP THEN cpu_state ELSE [cpu_state EXCEPT ![c] = "CPU_UNAVAILABLE"]
    /\ Die(c)
    /\ UNCHANGED <<cpumask, mask_read, cr3, raw_shared_cr3, apic_in, x2apic, tables, vmx_on>>

\* register_cpu_online updates the shared mask without a lock: it reads ...
RegisterReads(c) ==
    /\ At(c, "register")
    /\ cpu_state' = [cpu_state EXCEPT ![c] = "CPU_INIT"]
    /\ mask_read' = [mask_read EXCEPT ![c] = cpumask]
    /\ GoTo(c, "write")
    /\ UNCHANGED <<cpumask, cr3, raw_shared_cr3, apic_in, x2apic, tables, vmx_on>>

\* Mutant: the mask is overwritten instead of extended.
RegisterOverwrites(c) ==
    /\ At(c, "write")
    /\ cpumask' = {c}
    /\ GoTo(c, IF c = BSP THEN "bringup" ELSE "sched")
    /\ UNCHANGED <<cpu_state, mask_read, cr3, raw_shared_cr3, apic_in, x2apic, tables, vmx_on>>

\* ... and writes; an AP goes on to the scheduler.
RegisterWrites(c) ==
    /\ At(c, "write")
    /\ cpumask' = mask_read[c] \cup {c}
    /\ GoTo(c, IF c = BSP THEN "bringup" ELSE "sched")
    /\ UNCHANGED <<cpu_state, mask_read, cr3, raw_shared_cr3, apic_in, x2apic, tables, vmx_on>>

arch_bringup_aps_limine ==
    /\ At(BSP, "bringup")
    /\ raw_shared_cr3' = cr3[BSP]
    /\ pc' = [c \in Cpu |-> IF c = BSP THEN "create" ELSE "start"]
    /\ UNCHANGED <<cpu_state, cpumask, mask_read, cr3, apic_in, x2apic, tables, vmx_on>>

SetupNext ==
    \/ SetupBsp \/ create_addr_space \/ arch_bringup_aps_limine
    \/ \E c \in Cpu : \/ StartAp(c) \/ LoadTables(c) \/ enter_vmx_operation(c)
                      \/ SetupFails(c) \/ RegisterReads(c) \/ RegisterWrites(c)
-----------------------------------------------------------------------------
\* A CPU has got through register_cpu_online.
Registered(c) == cpu_state[c] = "CPU_INIT" /\ pc[c] # "write"

\* A CPU reaches its APIC: by MSRs, or by a page that is mapped where it is.
ReachesApic(c) == c \in x2apic \/ cr3[c] \in apic_in

\* The scheduler gives vCPUs only to CPUs that can run them: whatever CPU is in
\* the mask is in VMX operation, has tables, reaches its APIC and is in the address
\* space of the BSP, even though the BSP does not wait for the APs, an AP may
\* fail at any point (setup.c:357, 404), and an exit from a guest loads the host
\* state that was captured on the BSP (vmx.c:349).
OnlineIsReady ==
    \A c \in cpumask : /\ c \in vmx_on /\ tables[c] \in {c, BSP}
                       /\ ReachesApic(c) /\ cr3[c] = cr3[BSP]

\* register_cpu_online takes no lock (setup.c:310): an AP may be missing from
\* the mask after it has registered, but only if another CPU's registration
\* overlapped with its own, that is, neither saw the other in what it read.
\* The BSP, which registers before it starts the APs, is never lost.
LostOnlyByOverlap ==
    /\ Registered(BSP) => BSP \in cpumask
    /\ \A c \in Cpu : Registered(c) /\ c \notin cpumask =>
          \E d \in cpumask : Registered(d) /\ c \notin mask_read[d] /\ d \notin mask_read[c]
=============================================================================
