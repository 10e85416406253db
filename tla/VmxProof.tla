------------------------------ MODULE VmxProof ------------------------------
(***************************************************************************)
(* The set-up of the processors, the creation of VMs and the execution of  *)
(* vCPUs, for every set of CPUs and every sequence of VMs: the invariant   *)
(* of the processors and that of VMCSs and their vCPUs, that every step    *)
(* keeps both, and what follows for every behaviour.                       *)
(***************************************************************************)
EXTENDS Vmx, TLAPS

Preparing == {"off", "start", "space", "tables", "vmx", "register"}
Executing == {"enter", "instruction", "guest"}
Online == {"bringup", "create", "sched"} \cup Executing
Places == Preparing \cup Online \cup {"write", "dead"}

CpuTypeOK ==
    /\ pc \in [Cpu -> Places]
    /\ cpu_state \in [Cpu -> {"CPU_NOT_INIT", "CPU_INIT", "CPU_UNAVAILABLE"}]
    /\ cpumask \in SUBSET Cpu
    /\ mask_read \in [Cpu -> SUBSET Cpu]
    /\ cr3 \in [Cpu -> Spaces]
    /\ raw_shared_cr3 \in Spaces
    /\ apic_in \in SUBSET Spaces
    /\ x2apic \in SUBSET Cpu
    /\ tables \in [Cpu -> Cpu \cup {NULL}]
    /\ vmx_on \in SUBSET Cpu

\* A CPU can run vCPUs.
Able(c) ==
    /\ c \in vmx_on /\ tables[c] \in {c, BSP} /\ cr3[c] = "hyvemind"

\* How far a CPU has got, by its place in the code.
PlaceInv ==
    /\ \A c \in Cpu :
          /\ pc[c] \in {"tables", "vmx", "register"} => cr3[c] = "hyvemind"
          /\ pc[c] \in {"vmx", "register"} => tables[c] = c
          /\ pc[c] = "register" => c \in vmx_on
          /\ pc[c] \in Online \cup {"write"} => Able(c)
          /\ pc[c] \in Preparing => cpu_state[c] = "CPU_NOT_INIT"
          /\ pc[c] \in Online \cup {"write"} => cpu_state[c] = "CPU_INIT"
          /\ cr3[c] = "hyvemind" => "hyvemind" \in apic_in
    /\ \A c \in Cpu \ {BSP} :
          /\ pc[c] \notin {"bringup", "create", "space"}
          /\ pc[BSP] \in Preparing \cup {"write", "bringup"} => pc[c] = "off"
          /\ pc[c] # "off" => Registered(BSP) /\ raw_shared_cr3 = "hyvemind"
          /\ pc[c] = "write" => BSP \in mask_read[c]

\* Whoever is in the mask, or in what a CPU has read of it, has registered.
MaskInv ==
    /\ \A c \in cpumask : Registered(c)
    /\ \A c, d \in Cpu : d \in mask_read[c] => Registered(d)
    /\ \A c \in Cpu : Registered(c) => Able(c)

SetupInv == CpuTypeOK /\ PlaceInv /\ MaskInv /\ LostOnlyByOverlap
-----------------------------------------------------------------------------
USE CpuAssumption DEF Preparing, Executing, Online, Places, Spaces

\* Before the boot of the BSP nothing is set up.
LEMMA SetupInit == CpuInit => SetupInv
  BY DEF CpuInit, SetupInv, CpuTypeOK, PlaceInv, MaskInv, LostOnlyByOverlap, Able, Registered

\* A set-up step moves no CPU into, out of or within the execution of vCPUs.
LEMMA SetupPlaces ==
    ASSUME SetupInv, SetupNext
    PROVE  \A c \in Cpu : \/ pc'[c] = pc[c]
                          \/ pc[c] \notin Executing \cup {"dead"} /\ pc'[c] \notin Executing
  BY DEF SetupInv, CpuTypeOK, PlaceInv, SetupNext, SetupBsp, create_addr_space, StartAp, LoadTables,
         enter_vmx_operation, SetupFails, RegisterReads, RegisterWrites, arch_bringup_aps_limine,
         GoTo, Die, At

\* Every step of the set-up keeps its invariant.
LEMMA SetupStep ==
    ASSUME SetupInv, SetupNext
    PROVE  SetupInv'
  <1> USE DEF SetupInv, CpuTypeOK, PlaceInv, MaskInv, LostOnlyByOverlap, Able, Registered, GoTo, At
  <1>1. CASE SetupBsp
    <2>1. cr3[BSP] \in Spaces
      OBVIOUS
    <2>2. x2apic' \in SUBSET Cpu
      BY <1>1 DEF SetupBsp
    <2>3. apic_in' \in SUBSET Spaces
      <3>1. apic_in' = apic_in \/ apic_in' = apic_in \cup {cr3[BSP]}
        BY <1>1, Zenon DEF SetupBsp
      <3> HIDE DEF Spaces
      <3> QED
        BY <2>1, <3>1
    <2>4. apic_in \subseteq apic_in'
      BY <1>1 DEF SetupBsp
    <2> QED
      BY <1>1, <2>2, <2>3, <2>4 DEF SetupBsp
  <1>2. CASE create_addr_space
    BY <1>2 DEF create_addr_space
  <1>3. CASE arch_bringup_aps_limine
    BY <1>3 DEF arch_bringup_aps_limine
  <1>4. ASSUME NEW c \in Cpu, StartAp(c) PROVE SetupInv'
    BY <1>4 DEF StartAp
  <1>5. ASSUME NEW c \in Cpu, LoadTables(c) PROVE SetupInv'
    BY <1>5 DEF LoadTables
  <1>6. ASSUME NEW c \in Cpu, enter_vmx_operation(c) PROVE SetupInv'
    BY <1>6 DEF enter_vmx_operation
  <1>7. ASSUME NEW c \in Cpu, SetupFails(c) PROVE SetupInv'
    BY <1>7 DEF SetupFails, Die
  <1>8. ASSUME NEW c \in Cpu, RegisterReads(c) PROVE SetupInv'
    BY <1>8 DEF RegisterReads
  <1>9. ASSUME NEW c \in Cpu, RegisterWrites(c) PROVE SetupInv'
    BY <1>9 DEF RegisterWrites
  <1> QED
    BY <1>1, <1>2, <1>3, <1>4, <1>5, <1>6, <1>7, <1>8, <1>9, ZenonT(30) DEF SetupNext

\* While it executes vCPUs, a CPU changes no more of its set-up than what an
\* exit loads.
LEMMA ExecutionKeepsSetup ==
    ASSUME SetupInv,
           pc' \in [Cpu -> Places],
           cr3' \in [Cpu -> Spaces], tables' \in [Cpu -> Cpu \cup {NULL}],
           \A c \in Cpu : \/ pc'[c] = pc[c]
                          \/ /\ pc[c] \in {"create", "sched"} \cup Executing
                             /\ pc'[c] \in {"sched", "dead"} \cup Executing,
           \A c \in Cpu : \/ cr3'[c] = cr3[c] /\ tables'[c] = tables[c]
                          \/ pc[c] \in Executing /\ cr3'[c] = "hyvemind" /\ tables'[c] = BSP,
           UNCHANGED <<cpu_state, cpumask, mask_read, raw_shared_cr3, apic_in, x2apic, vmx_on>>
    PROVE  SetupInv'
  BY DEF SetupInv, CpuTypeOK, PlaceInv, MaskInv, LostOnlyByOverlap, Able, Registered

\* A step that leaves the CPUs alone keeps what holds of their set-up.
LEMMA SetupStutters == SetupInv /\ UNCHANGED <<pc, cpu_vars>> => SetupInv'
  <1> SUFFICES ASSUME SetupInv, UNCHANGED <<pc, cpu_vars>> PROVE SetupInv'
    BY Zenon
  <1>1. UNCHANGED <<pc, cpu_state, cpumask, mask_read, cr3, raw_shared_cr3, apic_in, x2apic,
                    tables, vmx_on>>
    BY Zenon DEF cpu_vars
  <1>2. CpuTypeOK'
    BY <1>1, Zenon DEF SetupInv, CpuTypeOK
  <1>3. PlaceInv'
    BY <1>1, SMTT(30) DEF SetupInv, PlaceInv, Able, Registered
  <1>4. MaskInv' /\ LostOnlyByOverlap'
    BY <1>1 DEF SetupInv, MaskInv, LostOnlyByOverlap, Able, Registered
  <1> QED
    BY <1>2, <1>3, <1>4, Zenon DEF SetupInv
-----------------------------------------------------------------------------
Stages == {"allocate", "prepare", "init", "load", "registers", "ready", "submit", "done"}

VmxTypeOK ==
    /\ vcpu_state \in [Vcpu -> {"none", "CREATED", "READY", "RUNNING", "NOT_RUNNING"}]
    /\ active_cpu \in [Vcpu -> Cpu \cup {NULL}]
    /\ launch_state \in [Vcpu -> {"INVALID", "CLEAR", "LAUNCHED"}]
    /\ curr_vcpu \in [Cpu -> Vcpu \cup {NULL}]
    /\ hw_current \in [Cpu -> Vcpu \cup {NULL}]
    /\ hw_active \in [Vcpu -> SUBSET Cpu]
    /\ hw_launch \in [Vcpu -> {"CLEAR", "LAUNCHED"}]
    /\ written \in [Vcpu -> SUBSET Groups]
    /\ host \in [Vcpu -> [cr3 : Spaces \cup {"none"}, tables : Cpu \cup {NULL}]]
    /\ stage \in Stages
    /\ vm \in DOMAIN Vms /\ nth \in DOMAIN Vms[vm]
    /\ home \in [Vcpu -> Cpu \cup {NULL}]
    /\ running \in [Cpu -> Vcpu \cup {NULL}]

\* vCPU i of VM m has not been allocated yet.
Pending(m, i) ==
    /\ stage \notin {"submit", "done"}
    /\ m > vm \/ (m = vm /\ stage = "allocate" /\ i >= nth)

\* vCPU i of VM m has not been submitted yet.
Unsubmitted(m, i) ==
    /\ stage # "done"
    /\ stage = "submit" => m > vm \/ (m = vm /\ i >= nth)

\* Creation: the vCPUs to come are untouched, those of the present VM have a
\* clear VMCS, and no vCPU has a CPU before it is submitted.
CreationInv ==
    /\ \A m \in DOMAIN Vms : \A i \in DOMAIN Vms[m] : Pending(m, i) =>
          /\ active_cpu[Vms[m][i]] = NULL
          /\ \A c \in Cpu : curr_vcpu[c] # Vms[m][i]
    /\ \A i \in DOMAIN Vms[vm] :
          ~Pending(vm, i) /\ stage \notin {"submit", "done"} => launch_state[Vms[vm][i]] = "CLEAR"
    /\ \A m \in DOMAIN Vms : \A i \in DOMAIN Vms[m] : Unsubmitted(m, i) => home[Vms[m][i]] = NULL

\* Execution: a vCPU runs on its own CPU only, and the launch states agree
\* wherever the entry path relies on them.
ExecutionInv ==
    /\ \A c \in Cpu :
          /\ pc[c] \in Executing => running[c] # NULL
          /\ running[c] # NULL => /\ pc[c] \in Executing \cup {"dead"}
                                  /\ home[running[c]] = c
                                  /\ curr_vcpu[c] = running[c]
          /\ pc[c] \in {"enter", "instruction"} => launch_state[running[c]] = hw_launch[running[c]]
          /\ pc[c] \in {"instruction", "guest"} => vcpu_state[running[c]] = "RUNNING"
          /\ pc[c] = "guest" => /\ hw_launch[running[c]] = "LAUNCHED"
                                /\ "host" \in written[running[c]]
          /\ curr_vcpu[c] # NULL => active_cpu[curr_vcpu[c]] = c
    /\ \A v \in Vcpu :
          /\ vcpu_state[v] = "READY" => launch_state[v] = "CLEAR" /\ hw_launch[v] = "CLEAR"
          /\ home[v] = NULL => hw_launch[v] = "CLEAR"
          /\ "host" \in written[v] => host[v] = [cr3 |-> "hyvemind", tables |-> BSP]

VmxInv ==
    VmxTypeOK /\ CreationInv /\ ExecutionInv /\ ActiveWhereBelieved /\ CurrentIsOwn

IInv == SetupInv /\ VmxInv
-----------------------------------------------------------------------------
\* There is a VM, every VM has a vCPU, and indices are positions.
LEMMA VmsFacts ==
    /\ Len(Vms) \in Nat /\ Len(Vms) > 0 /\ DOMAIN Vms = 1 .. Len(Vms)
    /\ \A m \in DOMAIN Vms : /\ Len(Vms[m]) \in Nat /\ Len(Vms[m]) > 0
                             /\ DOMAIN Vms[m] = 1 .. Len(Vms[m])
                             /\ \A i \in DOMAIN Vms[m] : Vms[m][i] \in Vcpu
  <1>1. Vms \in Seq(Seq(Vcpu)) /\ Vms # << >>
    BY VmxAssumption, Zenon
  <1>2. Len(Vms) \in Nat /\ Len(Vms) > 0 /\ DOMAIN Vms = 1 .. Len(Vms)
    BY <1>1
  <1>3. ASSUME NEW m \in DOMAIN Vms
        PROVE  /\ Len(Vms[m]) \in Nat /\ Len(Vms[m]) > 0
               /\ DOMAIN Vms[m] = 1 .. Len(Vms[m])
               /\ \A i \in DOMAIN Vms[m] : Vms[m][i] \in Vcpu
    <2>1. Vms[m] \in Seq(Vcpu) /\ Vms[m] # << >>
      BY <1>1, <1>2, VmxAssumption
    <2> QED
      BY <2>1
  <1> QED
    BY <1>2, <1>3, Zenon

\* A vCPU has one place in one VM.
LEMMA VmsDistinct ==
    ASSUME NEW m \in DOMAIN Vms, NEW n \in DOMAIN Vms,
           NEW i \in DOMAIN Vms[m], NEW j \in DOMAIN Vms[n], Vms[m][i] = Vms[n][j]
    PROVE  m = n /\ i = j
  BY VmxAssumption

\* Every vCPU has a place.
LEMMA VcpuIndex ==
    ASSUME NEW v \in Vcpu
    PROVE  \E m \in DOMAIN Vms : \E i \in DOMAIN Vms[m] : v = Vms[m][i]
  BY Zenon DEF Vcpu

\* NULL is told apart from the vCPUs.
LEMMA NullIsNoVcpu == NULL \notin Vcpu
  BY VmxAssumption, Zenon

\* What is asked of the VMCS pointers, apart from the types.
PointersInv ==
    /\ ActiveWhereBelieved
    /\ \A c \in Cpu : /\ hw_current[c] = curr_vcpu[c]
                      /\ curr_vcpu[c] # NULL => active_cpu[curr_vcpu[c]] = c

PointerTypes ==
    /\ active_cpu \in [Vcpu -> Cpu \cup {NULL}]
    /\ curr_vcpu \in [Cpu -> Vcpu \cup {NULL}]
    /\ hw_current \in [Cpu -> Vcpu \cup {NULL}]
    /\ hw_active \in [Vcpu -> SUBSET Cpu]
    /\ hw_launch \in [Vcpu -> {"CLEAR", "LAUNCHED"}]

\* vmx_make_vcpu_current (vmx.c:77) keeps the pointers of code and processor equal
\* and touches those of its CPU and its vCPU only.
LEMMA MakeCurrent ==
    ASSUME PointerTypes, PointersInv, NEW c \in Cpu, NEW v \in Vcpu, vmx_make_vcpu_current(c, v)
    PROVE  /\ PointerTypes' /\ PointersInv' /\ hw_launch' = hw_launch
           /\ curr_vcpu'[c] = v /\ active_cpu'[v] = c
           /\ \A d \in Cpu \ {c} : curr_vcpu'[d] = curr_vcpu[d]
           /\ \A w \in Vcpu \ {v} : active_cpu'[w] = active_cpu[w]
  <1> USE NullIsNoVcpu DEF PointerTypes, PointersInv, ActiveWhereBelieved
  <1>1. CASE curr_vcpu[c] = v
    BY <1>1, Zenon DEF vmx_make_vcpu_current, hardware
  <1>2. CASE curr_vcpu[c] # v
    BY <1>2 DEF vmx_make_vcpu_current, vmptrld
  <1> QED
    BY <1>1, <1>2, ZenonT(30)

\* vmx_clear_vcpu (vmx.c:45) does as well, and takes the vCPU from its CPU.
LEMMA ClearVcpu ==
    ASSUME PointerTypes, PointersInv, NEW c \in Cpu, NEW v \in Vcpu, vmx_clear_vcpu(c, v),
           launch_state \in [Vcpu -> {"INVALID", "CLEAR", "LAUNCHED"}]
    PROVE  /\ PointerTypes' /\ PointersInv'
           /\ launch_state' \in [Vcpu -> {"INVALID", "CLEAR", "LAUNCHED"}]
           /\ \A d \in Cpu : curr_vcpu'[d] \in {curr_vcpu[d], NULL}
           /\ \A w \in Vcpu \ {v} : /\ active_cpu'[w] = active_cpu[w]
                                    /\ launch_state'[w] = launch_state[w]
                                    /\ hw_launch'[w] = hw_launch[w]
           /\ \/ launch_state'[v] = launch_state[v] /\ hw_launch'[v] = hw_launch[v]
              \/ launch_state'[v] = "CLEAR" /\ hw_launch'[v] = "CLEAR"
           /\ \A d \in Cpu \ {c} : curr_vcpu'[d] = curr_vcpu[d]
  <1> USE NullIsNoVcpu DEF PointerTypes, PointersInv, ActiveWhereBelieved
  <1>1. CASE active_cpu[v] = NULL
    <2>1. UNCHANGED <<active_cpu, launch_state, curr_vcpu, hw_current, hw_active, hw_launch>>
      BY <1>1, Zenon DEF vmx_clear_vcpu, hardware
    <2> QED
      BY <2>1, Zenon
  <1>2. CASE active_cpu[v] # NULL
    BY <1>2 DEF vmx_clear_vcpu, vmclear
  <1> QED
    BY <1>1, <1>2, ZenonT(30)
-----------------------------------------------------------------------------
\* Before the first VM nothing is active.
LEMMA VmxInit == Init => VmxInv
  BY VmsFacts, NullIsNoVcpu
     DEF Init, CpuInit, VmxInv, VmxTypeOK, CreationInv, ExecutionInv, ActiveWhereBelieved,
         CurrentIsOwn, Pending, Unsubmitted, Stages, NoHostState, Groups

\* The set-up of CPUs, which goes on while VMs are created, leaves them alone.
LEMMA SetupKeepsVmx ==
    ASSUME SetupInv, VmxInv, SetupNext, UNCHANGED <<software, hardware, vmcs, creation, running>>
    PROVE  VmxInv'
  <1>1. UNCHANGED <<vcpu_state, active_cpu, launch_state, curr_vcpu, hw_current, hw_active,
                    hw_launch, written, host, stage, vm, nth, home, running>>
    BY Zenon DEF software, hardware, vmcs, creation
  <1>2. \A c \in Cpu : \/ pc'[c] = pc[c]
                       \/ pc[c] \notin Executing \cup {"dead"} /\ pc'[c] \notin Executing
    BY SetupPlaces, Zenon
  <1>3. VmxTypeOK' /\ CreationInv' /\ ActiveWhereBelieved' /\ CurrentIsOwn'
    BY <1>1 DEF VmxInv, VmxTypeOK, CreationInv, Pending, Unsubmitted, ActiveWhereBelieved,
           CurrentIsOwn
  <1>4. ExecutionInv'
    BY <1>1, <1>2 DEF VmxInv, VmxTypeOK, ExecutionInv
  <1> QED
    BY <1>3, <1>4, Zenon DEF VmxInv

\* Before the first submission no CPU executes a vCPU.
LEMMA NoneRunning ==
    ASSUME VmxInv, stage \notin {"submit", "done"}
    PROVE  /\ \A v \in Vcpu : home[v] = NULL /\ hw_launch[v] = "CLEAR"
           /\ \A c \in Cpu : running[c] = NULL /\ pc[c] \notin Executing
  <1>1. \A m \in DOMAIN Vms : \A i \in DOMAIN Vms[m] : home[Vms[m][i]] = NULL
    BY Zenon DEF VmxInv, CreationInv, Unsubmitted
  <1>2. \A v \in Vcpu : home[v] = NULL
    BY <1>1, VcpuIndex
  <1> QED
    BY <1>2 DEF VmxInv, VmxTypeOK, ExecutionInv

\* The creation is always at some vCPU.
LEMMA CurrentIsVcpu == VmxInv => Current \in Vcpu
  BY VmsFacts, Zenon DEF VmxInv, VmxTypeOK, Current

\* A position in a sequence is a number.
LEMMA PositionIsNat == \A n \in Nat : \A k \in 1 .. n : k \in Nat
  OBVIOUS

\* What the invariant says of the vCPU that a CPU executes.
LEMMA ExecutionAt ==
    ASSUME VmxInv, NEW c \in Cpu
    PROVE  /\ running[c] \in Vcpu \cup {NULL}
           /\ pc[c] \in Executing => running[c] # NULL
           /\ running[c] # NULL => /\ pc[c] \in Executing \cup {"dead"}
                                   /\ home[running[c]] = c
                                   /\ curr_vcpu[c] = running[c]
           /\ pc[c] \in {"enter", "instruction"} => launch_state[running[c]] = hw_launch[running[c]]
           /\ pc[c] \in {"instruction", "guest"} => vcpu_state[running[c]] = "RUNNING"
           /\ pc[c] = "guest" => /\ hw_launch[running[c]] = "LAUNCHED"
                                 /\ "host" \in written[running[c]]
           /\ curr_vcpu[c] # NULL => active_cpu[curr_vcpu[c]] = c
  <1>1. ExecutionInv /\ running \in [Cpu -> Vcpu \cup {NULL}]
    BY Zenon DEF VmxInv, VmxTypeOK
  <1>2. running[c] \in Vcpu \cup {NULL}
    BY <1>1, Zenon
  <1>3. /\ pc[c] \in Executing => running[c] # NULL
        /\ running[c] # NULL => /\ pc[c] \in Executing \cup {"dead"}
                                /\ home[running[c]] = c
                                /\ curr_vcpu[c] = running[c]
        /\ pc[c] \in {"enter", "instruction"} => launch_state[running[c]] = hw_launch[running[c]]
        /\ pc[c] \in {"instruction", "guest"} => vcpu_state[running[c]] = "RUNNING"
        /\ pc[c] = "guest" => /\ hw_launch[running[c]] = "LAUNCHED"
                              /\ "host" \in written[running[c]]
        /\ curr_vcpu[c] # NULL => active_cpu[curr_vcpu[c]] = c
    BY <1>1, Zenon DEF ExecutionInv
  <1> QED
    BY <1>2, <1>3, Zenon

\* What it says of the launch state and the host state of a vCPU.
LEMMA LaunchOf ==
    ASSUME VmxInv, NEW v \in Vcpu
    PROVE  /\ vcpu_state[v] = "READY" => launch_state[v] = "CLEAR" /\ hw_launch[v] = "CLEAR"
           /\ home[v] = NULL => hw_launch[v] = "CLEAR"
           /\ "host" \in written[v] => host[v] = [cr3 |-> "hyvemind", tables |-> BSP]
  <1>1. ExecutionInv
    BY Zenon DEF VmxInv
  <1> QED
    BY <1>1, Zenon DEF ExecutionInv

\* The invariant covers the pointers.
LEMMA InvPointers == VmxInv => PointerTypes /\ PointersInv
  <1> SUFFICES ASSUME VmxInv PROVE PointerTypes /\ PointersInv
    BY Zenon
  <1>1. PointerTypes
    BY Zenon DEF VmxInv, VmxTypeOK, PointerTypes
  <1>2. \A c \in Cpu : hw_current[c] = curr_vcpu[c]
    BY Zenon DEF VmxInv, CurrentIsOwn
  <1>3. \A c \in Cpu : curr_vcpu[c] # NULL => active_cpu[curr_vcpu[c]] = c
    BY Zenon DEF VmxInv, ExecutionInv
  <1> QED
    BY <1>1, <1>2, <1>3, Zenon DEF VmxInv, PointersInv
-----------------------------------------------------------------------------
\* Allocating a vCPU, the VMCS of which is cleared, keeps the invariant.
LEMMA AllocateStep ==
    ASSUME SetupInv, VmxInv, AllocateVcpu
    PROVE  VmxInv'
  <1> DEFINE v == Current
  <1>1. v \in Vcpu /\ Pending(vm, nth) /\ stage = "allocate"
    BY CurrentIsVcpu, VmsFacts DEF AllocateVcpu, Creating, Pending, VmxInv, VmxTypeOK
  <1>2. active_cpu[v] = NULL /\ \A c \in Cpu : curr_vcpu[c] # v
    BY <1>1, Zenon DEF VmxInv, VmxTypeOK, CreationInv, Current
  <1>3. /\ \A w \in Vcpu : home[w] = NULL /\ hw_launch[w] = "CLEAR"
        /\ \A c \in Cpu : running[c] = NULL /\ pc[c] \notin Executing
    BY <1>1, NoneRunning, Zenon
  <1> HIDE DEF v
  <1>4. /\ hw_current' = [hw_current EXCEPT ![BSP] = IF @ = v THEN NULL ELSE @]
        /\ hw_active' = [hw_active EXCEPT ![v] = @ \ {BSP}]
        /\ hw_launch' = [hw_launch EXCEPT ![v] = "CLEAR"]
        /\ vcpu_state' = [vcpu_state EXCEPT ![v] = "CREATED"]
        /\ launch_state' = [launch_state EXCEPT ![v] = "CLEAR"]
        /\ UNCHANGED <<active_cpu, curr_vcpu, written, host, pc, running, vm, home>>
        /\ \/ nth = Len(Vms[vm]) /\ nth' = 1 /\ stage' = "prepare"
           \/ nth # Len(Vms[vm]) /\ nth' = nth + 1 /\ stage' = "allocate"
    BY <1>1, Zenon DEF AllocateVcpu, vmclear, Advance, vmcs, v
  <1>5. VmxTypeOK'
    BY <1>1, <1>4, VmsFacts DEF VmxInv, VmxTypeOK, Stages
  <1>6. ActiveWhereBelieved'
    BY <1>1, <1>2, <1>4, ZenonT(30) DEF VmxInv, VmxTypeOK, ActiveWhereBelieved
  <1>7. CurrentIsOwn'
    BY <1>1, <1>2, <1>3, <1>4, SMTT(30) DEF VmxInv, VmxTypeOK, CurrentIsOwn
  <1>8. ExecutionInv'
    BY <1>1, <1>3, <1>4 DEF VmxInv, VmxTypeOK, ExecutionInv
  <1>9. CreationInv'
    <2>1. ASSUME NEW m \in DOMAIN Vms, NEW i \in DOMAIN Vms[m], Pending(m, i)'
          PROVE  Pending(m, i)
      BY <1>4, <1>1, <2>1, VmsFacts DEF Pending, VmxInv, VmxTypeOK
    <2>2. ASSUME NEW i \in DOMAIN Vms[vm], ~Pending(vm, i)', i # nth
          PROVE  ~Pending(vm, i)
      BY <1>4, <1>1, <2>2, VmsFacts DEF Pending, VmxInv, VmxTypeOK
    <2>3. \A i \in DOMAIN Vms[vm] : i = nth => Vms[vm][i] = v
      BY Zenon DEF v, Current
    <2>4. \A i \in DOMAIN Vms[vm] : Vms[vm][i] \in Vcpu
      BY VmsFacts, Zenon DEF VmxInv, VmxTypeOK
    <2>5. \A i \in DOMAIN Vms[vm] :
             ~Pending(vm, i)' => launch_state'[Vms[vm][i]] = "CLEAR"
      BY <1>1, <1>4, <2>2, <2>3, <2>4, ZenonT(30) DEF VmxInv, VmxTypeOK, CreationInv
    <2> QED
      BY <1>1, <1>3, <1>4, <2>1, <2>5, VmsFacts, Zenon DEF VmxInv, CreationInv
  <1> QED
    BY <1>5, <1>6, <1>7, <1>8, <1>9, Zenon DEF VmxInv

\* A failure of the creation, which stops the BSP.
LEMMA CreationFailsStep ==
    ASSUME VmxInv, pc \in [Cpu -> Places], pc[BSP] = "create", stage \notin {"submit", "done"},
           Die(BSP),
           vcpu_state' \in [Vcpu -> {"none", "CREATED", "READY", "RUNNING", "NOT_RUNNING"}],
           \A v \in Vcpu : vcpu_state'[v] \in {"none", vcpu_state[v]},
           UNCHANGED <<active_cpu, launch_state, curr_vcpu, hardware, vmcs, creation, running>>
    PROVE  VmxInv'
  <1>1. /\ \A w \in Vcpu : home[w] = NULL /\ hw_launch[w] = "CLEAR"
        /\ \A c \in Cpu : running[c] = NULL /\ pc[c] \notin Executing
    BY NoneRunning, Zenon
  <1>2. UNCHANGED <<active_cpu, launch_state, curr_vcpu, hw_current, hw_active, hw_launch,
                    written, host, stage, vm, nth, home, running>>
    BY Zenon DEF hardware, vmcs, creation
  <1>3. VmxTypeOK' /\ CreationInv' /\ ActiveWhereBelieved' /\ CurrentIsOwn'
    BY <1>2 DEF VmxInv, VmxTypeOK, CreationInv, Pending, Unsubmitted, ActiveWhereBelieved,
           CurrentIsOwn
  <1>4. ExecutionInv'
    BY <1>1, <1>2 DEF VmxInv, VmxTypeOK, ExecutionInv, Die, GoTo
  <1> QED
    BY <1>3, <1>4, Zenon DEF VmxInv

\* A step of the creation that only goes on to the next stage.
LEMMA StageStep ==
    ASSUME VmxInv, stage \in {"prepare", "load"}, stage' \in {"init", "registers"},
           UNCHANGED <<software, hardware, vmcs, vm, nth, home, pc, running>>
    PROVE  VmxInv'
  <1>1. UNCHANGED <<vcpu_state, active_cpu, launch_state, curr_vcpu, hw_current, hw_active,
                    hw_launch, written, host, vm, nth, home, running>>
    BY Zenon DEF software, hardware, vmcs
  <1>2. VmxTypeOK' /\ ActiveWhereBelieved' /\ CurrentIsOwn' /\ ExecutionInv'
    BY <1>1 DEF VmxInv, VmxTypeOK, Stages, ExecutionInv, ActiveWhereBelieved, CurrentIsOwn
  <1>3. CreationInv'
    BY <1>1 DEF VmxInv, VmxTypeOK, CreationInv, Pending, Unsubmitted
  <1> QED
    BY <1>2, <1>3, Zenon DEF VmxInv

\* Creation writes fields of the VMCS it has made current.
LEMMA WriteFieldsStep ==
    ASSUME SetupInv, VmxInv, pc[BSP] = "create", stage \in {"init", "registers"},
           NEW groups \in SUBSET Groups, NEW next \in {"load", "ready"},
           vmx_make_vcpu_current(BSP, Current), vmwrite(BSP, groups), Advance(next),
           host' \in [Vcpu -> [cr3 : Spaces \cup {"none"}, tables : Cpu \cup {NULL}]],
           \A v \in Vcpu : \/ host'[v] = host[v] /\ (hw_current'[BSP] = v => "host" \notin groups)
                          \/ host'[v] = [cr3 |-> "hyvemind", tables |-> BSP],
           UNCHANGED <<vcpu_state, launch_state, pc, running>>
    PROVE  VmxInv'
  <1> DEFINE v == Current
  <1>1. v \in Vcpu /\ PointerTypes /\ PointersInv
    BY CurrentIsVcpu, InvPointers, Zenon
  <1>2. /\ \A w \in Vcpu : home[w] = NULL /\ hw_launch[w] = "CLEAR"
        /\ \A c \in Cpu : running[c] = NULL /\ pc[c] \notin Executing
    BY NoneRunning, Zenon
  <1>3. \A m \in DOMAIN Vms : \A i \in DOMAIN Vms[m] : Vms[m][i] = v => m = vm
    BY VmsDistinct, Zenon DEF Current, VmxInv, VmxTypeOK
  <1>4. vmx_make_vcpu_current(BSP, v)
    BY Zenon
  <1> HIDE DEF v
  <1>5. /\ PointerTypes' /\ PointersInv' /\ hw_launch' = hw_launch
        /\ curr_vcpu'[BSP] = v /\ active_cpu'[v] = BSP
        /\ \A d \in Cpu \ {BSP} : curr_vcpu'[d] = curr_vcpu[d]
        /\ \A w \in Vcpu \ {v} : active_cpu'[w] = active_cpu[w]
    BY <1>1, <1>4, MakeCurrent, Zenon
  <1>6. /\ UNCHANGED <<vm, home>>
        /\ \/ nth = Len(Vms[vm]) /\ nth' = 1 /\ stage' = next
           \/ nth # Len(Vms[vm]) /\ nth' = nth + 1 /\ stage' = stage
    BY Zenon DEF Advance
  <1>7. /\ written' \in [Vcpu -> SUBSET Groups]
        /\ \A w \in Vcpu : written'[w] = IF hw_current'[BSP] = w THEN written[w] \cup groups
                                        ELSE written[w]
    BY Zenon DEF vmwrite, VmxInv, VmxTypeOK
  <1>8. VmxTypeOK'
    BY <1>5, <1>6, <1>7, VmsFacts DEF VmxInv, VmxTypeOK, Stages, PointerTypes
  <1>9. ActiveWhereBelieved' /\ CurrentIsOwn'
    BY <1>2, <1>5, Zenon DEF PointersInv, CurrentIsOwn
  <1>10. ExecutionInv'
    <2>1. ASSUME NEW c \in Cpu
          PROVE  /\ running'[c] = NULL /\ pc'[c] \notin Executing
                 /\ curr_vcpu'[c] # NULL => active_cpu'[curr_vcpu'[c]] = c
      BY <1>2, <1>5, Zenon DEF PointersInv
    <2>2. ASSUME NEW w \in Vcpu
          PROVE  /\ vcpu_state'[w] = "READY" => launch_state'[w] = "CLEAR" /\ hw_launch'[w] = "CLEAR"
                 /\ home'[w] = NULL => hw_launch'[w] = "CLEAR"
                 /\ "host" \in written'[w] => host'[w] = [cr3 |-> "hyvemind", tables |-> BSP]
      <3>1. /\ vcpu_state[w] = "READY" => launch_state[w] = "CLEAR"
            /\ "host" \in written[w] => host[w] = [cr3 |-> "hyvemind", tables |-> BSP]
        BY LaunchOf, Zenon
      <3>2. hw_launch'[w] = "CLEAR"
        BY <1>2, <1>5, Zenon
      <3>3. "host" \in written'[w] => host'[w] = [cr3 |-> "hyvemind", tables |-> BSP]
        BY <1>7, <3>1, Zenon
      <3> QED
        BY <3>1, <3>2, <3>3, Zenon
    <2> QED
      BY <2>1, <2>2, Zenon DEF ExecutionInv
  <1>11. CreationInv'
    <2>1. ASSUME NEW m \in DOMAIN Vms, NEW i \in DOMAIN Vms[m], Pending(m, i)'
          PROVE  Pending(m, i) /\ m # vm
      BY <1>6, <2>1, VmsFacts, SMTT(30) DEF Pending, VmxInv, VmxTypeOK
    <2>2. ASSUME NEW m \in DOMAIN Vms, NEW i \in DOMAIN Vms[m], Pending(m, i)'
          PROVE  /\ active_cpu'[Vms[m][i]] = NULL
                 /\ \A c \in Cpu : curr_vcpu'[c] # Vms[m][i]
      <3>1. Pending(m, i) /\ Vms[m][i] \in Vcpu \ {v}
        BY <1>3, <2>1, <2>2, VmsFacts, Zenon
      <3>2. active_cpu[Vms[m][i]] = NULL /\ \A c \in Cpu : curr_vcpu[c] # Vms[m][i]
        BY <3>1, Zenon DEF VmxInv, CreationInv
      <3> QED
        BY <1>5, <3>1, <3>2, Zenon
    <2>3. \A i \in DOMAIN Vms[vm] : launch_state'[Vms[vm][i]] = "CLEAR"
      <3>1. CreationInv /\ vm \in Nat
        BY VmsFacts DEF VmxInv, VmxTypeOK
      <3>2. \A i \in DOMAIN Vms[vm] : ~Pending(vm, i) /\ stage \notin {"submit", "done"}
        BY <3>1, VmsFacts DEF Pending
      <3>3. \A i \in DOMAIN Vms[vm] : launch_state[Vms[vm][i]] = "CLEAR"
        BY <3>1, <3>2, Zenon DEF CreationInv
      <3> QED
        BY <3>3, Zenon
    <2> QED
      BY <1>2, <1>6, <2>2, <2>3, VmsFacts, ZenonT(30) DEF CreationInv
  <1> QED
    BY <1>8, <1>9, <1>10, <1>11, ZenonT(30) DEF VmxInv
-----------------------------------------------------------------------------
\* Making a vCPU ready, which gives its VMCS up again, keeps the invariant.
LEMMA MakeReadyStep ==
    ASSUME VmxInv, MakeReady
    PROVE  VmxInv'
  <1> DEFINE v == Current
  <1>1. v \in Vcpu /\ PointerTypes /\ PointersInv /\ stage = "ready"
    BY CurrentIsVcpu, Zenon DEF VmxInv, VmxTypeOK, ExecutionInv, CurrentIsOwn, PointerTypes, PointersInv,
                         MakeReady, Creating
  <1>2. /\ \A w \in Vcpu : home[w] = NULL /\ hw_launch[w] = "CLEAR"
        /\ \A c \in Cpu : running[c] = NULL /\ pc[c] \notin Executing
    BY <1>1, NoneRunning, Zenon
  <1>3. \A i \in DOMAIN Vms[vm] : launch_state[Vms[vm][i]] = "CLEAR"
    BY <1>1, VmsFacts DEF VmxInv, VmxTypeOK, CreationInv, Pending
  <1>4. launch_state[v] = "CLEAR"
    BY <1>3, Zenon DEF Current, VmxInv, VmxTypeOK
  <1>5. vmx_clear_vcpu(BSP, v) /\ vcpu_state' = [vcpu_state EXCEPT ![v] = "READY"]
    BY Zenon DEF MakeReady
  <1>6. \A m \in DOMAIN Vms : \A i \in DOMAIN Vms[m] : Vms[m][i] = v => m = vm
    BY VmsDistinct, Zenon DEF Current, VmxInv, VmxTypeOK
  <1> HIDE DEF v
  <1>7. /\ PointerTypes' /\ PointersInv'
        /\ launch_state' \in [Vcpu -> {"INVALID", "CLEAR", "LAUNCHED"}]
        /\ \A d \in Cpu : curr_vcpu'[d] \in {curr_vcpu[d], NULL}
        /\ \A w \in Vcpu \ {v} : /\ active_cpu'[w] = active_cpu[w]
                                 /\ launch_state'[w] = launch_state[w]
                                 /\ hw_launch'[w] = hw_launch[w]
        /\ launch_state'[v] = "CLEAR" /\ hw_launch'[v] = "CLEAR"
    <2>1. launch_state \in [Vcpu -> {"INVALID", "CLEAR", "LAUNCHED"}]
      BY Zenon DEF VmxInv, VmxTypeOK
    <2> QED
      BY <1>1, <1>2, <1>4, <1>5, <2>1, ClearVcpu, Zenon
  <1>8. /\ UNCHANGED <<written, host, pc, running, home>>
        /\ \/ /\ nth # Len(Vms[vm]) /\ nth' = nth + 1 /\ vm' = vm /\ stage' = "ready"
           \/ /\ nth = Len(Vms[vm]) /\ nth' = 1
              /\ \/ vm < Len(Vms) /\ vm' = vm + 1 /\ stage' = "allocate"
                 \/ ~(vm < Len(Vms)) /\ vm' = 1 /\ stage' = "submit"
    BY Zenon DEF MakeReady, NextAfterReady, vmcs
  <1>9. VmxTypeOK'
    <2>1. vm' \in DOMAIN Vms /\ stage' \in Stages
      BY <1>8, VmsFacts DEF VmxInv, VmxTypeOK, Stages
    <2>2. nth' \in DOMAIN Vms[vm']
      BY <1>8, <2>1, VmsFacts DEF VmxInv, VmxTypeOK
    <2> QED
      BY <1>1, <1>5, <1>7, <1>8, <2>1, <2>2, ZenonT(30) DEF VmxInv, VmxTypeOK, PointerTypes
  <1>10. ActiveWhereBelieved' /\ CurrentIsOwn'
    BY <1>2, <1>7, <1>8, Zenon DEF PointersInv, CurrentIsOwn
  <1>11. ExecutionInv'
    <2>1. ASSUME NEW c \in Cpu
          PROVE  /\ running'[c] = NULL /\ pc'[c] \notin Executing
                 /\ curr_vcpu'[c] # NULL => active_cpu'[curr_vcpu'[c]] = c
      BY <1>2, <1>7, <1>8, Zenon DEF PointersInv
    <2>2. ASSUME NEW w \in Vcpu
          PROVE  /\ vcpu_state'[w] = "READY" => launch_state'[w] = "CLEAR" /\ hw_launch'[w] = "CLEAR"
                 /\ home'[w] = NULL => hw_launch'[w] = "CLEAR"
                 /\ "host" \in written'[w] => host'[w] = [cr3 |-> "hyvemind", tables |-> BSP]
      <3>1. /\ vcpu_state \in [Vcpu -> {"none", "CREATED", "READY", "RUNNING", "NOT_RUNNING"}]
            /\ vcpu_state[w] = "READY" => launch_state[w] = "CLEAR"
            /\ "host" \in written[w] => host[w] = [cr3 |-> "hyvemind", tables |-> BSP]
        BY LaunchOf, Zenon DEF VmxInv, VmxTypeOK
      <3>2. hw_launch'[w] = "CLEAR"
        BY <1>2, <1>7, Zenon
      <3>3. vcpu_state'[w] = "READY" => launch_state'[w] = "CLEAR"
        BY <1>1, <1>5, <1>7, <3>1, Zenon
      <3> QED
        BY <1>8, <3>1, <3>2, <3>3, Zenon
    <2> QED
      BY <2>1, <2>2, Zenon DEF ExecutionInv
  <1>12. CreationInv'
    <2>1. ASSUME NEW m \in DOMAIN Vms, NEW i \in DOMAIN Vms[m], Pending(m, i)'
          PROVE  Pending(m, i) /\ m # vm
      BY <1>1, <1>8, <2>1, VmsFacts DEF Pending, VmxInv, VmxTypeOK
    <2>2. ASSUME NEW m \in DOMAIN Vms, NEW i \in DOMAIN Vms[m], Pending(m, i)'
          PROVE  /\ active_cpu'[Vms[m][i]] = NULL
                 /\ \A c \in Cpu : curr_vcpu'[c] # Vms[m][i]
      <3>1. Pending(m, i) /\ m # vm
        BY <2>1, <2>2, Zenon
      <3>2. Vms[m][i] \in Vcpu \ {v} /\ Vms[m][i] # NULL
        BY <1>6, <3>1, VmsFacts, NullIsNoVcpu, Zenon
      <3>3. active_cpu[Vms[m][i]] = NULL /\ \A c \in Cpu : curr_vcpu[c] # Vms[m][i]
        BY <3>1, Zenon DEF VmxInv, CreationInv
      <3> QED
        BY <1>7, <3>2, <3>3, Zenon
    <2>3. \A i \in DOMAIN Vms[vm'] :
             ~Pending(vm, i)' /\ stage' \notin {"submit", "done"}
             => launch_state'[Vms[vm'][i]] = "CLEAR"
      <3>1. CASE vm' = vm
        BY <1>3, <1>7, <3>1, VmsFacts, Zenon DEF VmxInv, VmxTypeOK
      <3>2. CASE stage' = "allocate" /\ nth' = 1
        <4>1. vm' \in DOMAIN Vms
          BY <1>9, Zenon DEF VmxTypeOK
        <4> QED
          BY <3>2, <4>1, VmsFacts DEF Pending
      <3> QED
        BY <1>8, <3>1, <3>2, Zenon
    <2> QED
      BY <1>2, <1>8, <2>2, <2>3, VmsFacts, ZenonT(30) DEF CreationInv
  <1> QED
    BY <1>9, <1>10, <1>11, <1>12, Zenon DEF VmxInv

\* Handing a vCPU to a CPU keeps the invariant: it has had none before.
LEMMA SubmitStep ==
    ASSUME SetupInv, VmxInv, NEW c \in Cpu, SubmitVcpu(c)
    PROVE  VmxInv'
  <1> DEFINE v == Current
  <1>1. v \in Vcpu /\ stage = "submit" /\ pc[BSP] = "create"
    BY CurrentIsVcpu, Zenon DEF SubmitVcpu, Creating
  <1>2. \A m \in DOMAIN Vms : \A i \in DOMAIN Vms[m] : Vms[m][i] = v => m = vm /\ i = nth
    BY VmsDistinct DEF Current, VmxInv, VmxTypeOK
  <1>3. home[v] = NULL
    BY <1>1, VmsFacts DEF VmxInv, VmxTypeOK, CreationInv, Unsubmitted, Current
  <1>4. home' = [home EXCEPT ![v] = c]
    BY Zenon DEF SubmitVcpu
  <1> HIDE DEF v
  <1>5. \/ nth # Len(Vms[vm]) /\ nth' = nth + 1 /\ vm' = vm /\ stage' = "submit"
        \/ nth = Len(Vms[vm]) /\ vm # Len(Vms) /\ nth' = 1 /\ vm' = vm + 1 /\ stage' = "submit"
        \/ nth' = 1 /\ vm' = vm /\ stage' = "done"
    BY Zenon DEF SubmitVcpu
  <1>6. UNCHANGED <<vcpu_state, active_cpu, launch_state, curr_vcpu, hw_current, hw_active,
                    hw_launch, written, host, running>>
    BY Zenon DEF SubmitVcpu, software, hardware, vmcs
  <1>7. \A d \in Cpu : pc'[d] = pc[d] \/ (d = BSP /\ pc'[d] = "sched")
    BY Zenon DEF SubmitVcpu, SetupInv, CpuTypeOK
  <1>8. vm' \in DOMAIN Vms /\ stage' \in {"submit", "done"}
    BY <1>5, VmsFacts DEF VmxInv, VmxTypeOK
  <1>9. nth' \in DOMAIN Vms[vm']
    BY <1>5, <1>8, VmsFacts DEF VmxInv, VmxTypeOK
  <1>10. VmxTypeOK' /\ ActiveWhereBelieved' /\ CurrentIsOwn'
    BY <1>1, <1>4, <1>6, <1>8, <1>9, Zenon DEF VmxInv, VmxTypeOK, Stages, ActiveWhereBelieved, CurrentIsOwn
  <1>11. ExecutionInv'
    <2>1. ASSUME NEW d \in Cpu, running[d] # NULL
          PROVE  home'[running[d]] = d /\ pc'[d] = pc[d]
      <3>1. /\ home \in [Vcpu -> Cpu \cup {NULL}] /\ running[d] \in Vcpu
            /\ home[running[d]] = d /\ pc[d] \in Executing \cup {"dead"}
        <4>1. home \in [Vcpu -> Cpu \cup {NULL}]
          BY Zenon DEF VmxInv, VmxTypeOK
        <4> QED
          BY <2>1, <4>1, ExecutionAt, ZenonT(30)
      <3>2. running[d] # v
        BY <1>3, <3>1, CpuAssumption, Zenon
      <3>3. d # BSP
        BY <1>1, <3>1, Zenon DEF Executing
      <3> QED
        BY <1>1, <1>4, <1>7, <3>1, <3>2, <3>3, Zenon
    <2>2. ASSUME NEW d \in Cpu
          PROVE  pc'[d] \in Executing => pc'[d] = pc[d] /\ running[d] # NULL
      BY <1>7, <2>2, ZenonT(30) DEF VmxInv, ExecutionInv
    <2>3. ASSUME NEW w \in Vcpu
          PROVE  home'[w] = NULL => home[w] = NULL
      BY <1>1, <1>3, <1>4, Zenon DEF VmxInv, VmxTypeOK
    <2>5. ASSUME NEW d \in Cpu
          PROVE  /\ pc'[d] \in Executing => running'[d] # NULL
                 /\ running'[d] # NULL => /\ pc'[d] \in Executing \cup {"dead"}
                                          /\ home'[running'[d]] = d
                                          /\ curr_vcpu'[d] = running'[d]
                 /\ curr_vcpu'[d] # NULL => active_cpu'[curr_vcpu'[d]] = d
      <3>1. /\ running[d] # NULL => pc[d] \in Executing \cup {"dead"} /\ curr_vcpu[d] = running[d]
            /\ curr_vcpu[d] # NULL => active_cpu[curr_vcpu[d]] = d
        BY ExecutionAt, Zenon
      <3> QED
        BY <1>6, <2>1, <2>2, <3>1, Zenon
    <2>6. ASSUME NEW d \in Cpu, pc'[d] \in Executing
          PROVE  /\ pc'[d] \in {"enter", "instruction"}
                       => launch_state'[running'[d]] = hw_launch'[running'[d]]
                 /\ pc'[d] \in {"instruction", "guest"} => vcpu_state'[running'[d]] = "RUNNING"
                 /\ pc'[d] = "guest" => /\ hw_launch'[running'[d]] = "LAUNCHED"
                                        /\ "host" \in written'[running'[d]]
      <3>1. /\ pc[d] \in {"enter", "instruction"} => launch_state[running[d]] = hw_launch[running[d]]
            /\ pc[d] \in {"instruction", "guest"} => vcpu_state[running[d]] = "RUNNING"
            /\ pc[d] = "guest" => /\ hw_launch[running[d]] = "LAUNCHED"
                                  /\ "host" \in written[running[d]]
        BY ExecutionAt, Zenon
      <3> QED
        BY <1>6, <2>2, <2>6, <3>1, Zenon
    <2>7. ASSUME NEW w \in Vcpu
          PROVE  /\ vcpu_state'[w] = "READY" => launch_state'[w] = "CLEAR" /\ hw_launch'[w] = "CLEAR"
                 /\ home'[w] = NULL => hw_launch'[w] = "CLEAR"
                 /\ "host" \in written'[w] => host'[w] = [cr3 |-> "hyvemind", tables |-> BSP]
      BY <1>6, <2>3, LaunchOf, Zenon
    <2>8. \A d \in Cpu : pc'[d] \in {"enter", "instruction", "guest"} => pc'[d] \in Executing
      BY Zenon DEF Executing
    <2> QED
      BY <2>5, <2>6, <2>7, <2>8, Zenon DEF ExecutionInv
  <1>12. CreationInv'
    <2>1. ASSUME NEW m \in DOMAIN Vms, NEW i \in DOMAIN Vms[m], Unsubmitted(m, i)'
          PROVE  Unsubmitted(m, i) /\ (m # vm \/ i # nth)
      BY <1>1, <1>5, <2>1, VmsFacts, SMTT(30) DEF Unsubmitted, VmxInv, VmxTypeOK
    <2>2. \A m \in DOMAIN Vms : \A i \in DOMAIN Vms[m] :
             Unsubmitted(m, i)' => home'[Vms[m][i]] = NULL
      BY <1>1, <1>2, <1>4, <2>1, VmsFacts DEF VmxInv, VmxTypeOK, CreationInv
    <2> QED
      BY <1>8, <2>2, Zenon DEF CreationInv, Pending
  <1> QED
    BY <1>10, <1>11, <1>12, Zenon DEF VmxInv
-----------------------------------------------------------------------------
\* Every step of the creation keeps the invariant.
LEMMA CreateStep ==
    ASSUME IInv, Create, UNCHANGED cpu_vars
    PROVE  IInv'
  <1> USE DEF IInv
  <1>1. UNCHANGED <<cpu_state, cpumask, mask_read, cr3, raw_shared_cr3, apic_in, x2apic, tables, vmx_on>>
    BY Zenon DEF cpu_vars
  <1>2. pc[BSP] = "create"
    BY Zenon DEF Create, AllocateVcpu, AllocateVcpuFails, PrepareEnvironment, PrepareEnvironmentFails,
           InitVmcsDone, InitVmcsWithoutStack, InitVmcs, CreationDies, LoadGuest, SetRegisters,
           MakeReady, SubmitVcpu, Creating
  <1>3. pc' = pc \/ pc' = [pc EXCEPT ![BSP] = "dead"] \/ pc' = [pc EXCEPT ![BSP] = "sched"]
    BY Zenon DEF Create, AllocateVcpu, AllocateVcpuFails, PrepareEnvironment, PrepareEnvironmentFails,
           InitVmcsDone, InitVmcsWithoutStack, InitVmcs, CreationDies, LoadGuest, SetRegisters,
           MakeReady, SubmitVcpu, Die, GoTo
  <1>4. SetupInv'
    <2>1. /\ pc' \in [Cpu -> Places]
          /\ \A c \in Cpu : \/ pc'[c] = pc[c]
                            \/ /\ pc[c] \in {"create", "sched"} \cup Executing
                               /\ pc'[c] \in {"sched", "dead"} \cup Executing
      BY <1>2, <1>3 DEF SetupInv, CpuTypeOK
    <2>2. cr3' \in [Cpu -> Spaces] /\ tables' \in [Cpu -> Cpu \cup {NULL}]
      BY <1>1, Zenon DEF SetupInv, CpuTypeOK
    <2> QED
      BY <1>1, <2>1, <2>2, ExecutionKeepsSetup, Zenon
  <1>5. VmxInv'
    <2>1. pc \in [Cpu -> Places] /\ vcpu_state \in [Vcpu -> {"none", "CREATED", "READY", "RUNNING", "NOT_RUNNING"}]
      BY Zenon DEF SetupInv, CpuTypeOK, VmxInv, VmxTypeOK
    <2>2. CASE AllocateVcpu
      BY <2>2, AllocateStep, Zenon
    <2>3. CASE AllocateVcpuFails
      BY <1>2, <2>1, <2>3, CreationFailsStep, Zenon DEF AllocateVcpuFails, Destroy, Creating
    <2>4. CASE PrepareEnvironment
      BY <2>4, StageStep, Zenon DEF PrepareEnvironment, Creating
    <2>5. CASE PrepareEnvironmentFails
      BY <1>2, <2>1, <2>5, CreationFailsStep, Zenon DEF PrepareEnvironmentFails, Destroy, Creating
    <2>6. ASSUME NEW groups \in SUBSET Groups, InitVmcs(groups) PROVE VmxInv'
      <3>1. cr3[BSP] = "hyvemind" /\ tables[BSP] = BSP
        BY <1>2, Zenon DEF SetupInv, PlaceInv, Able
      <3>2. \A v \in Vcpu : host'[v] = IF hw_current'[BSP] = v
                                      THEN [cr3 |-> "hyvemind", tables |-> BSP] ELSE host[v]
        BY <2>6, <3>1, Zenon DEF InitVmcs, HostState
      <3>3. host' \in [Vcpu -> [cr3 : Spaces \cup {"none"}, tables : Cpu \cup {NULL}]]
        <4>1. [cr3 |-> "hyvemind", tables |-> BSP] \in [cr3 : Spaces \cup {"none"}, tables : Cpu \cup {NULL}]
          BY Zenon
        <4>2. host' = [v \in Vcpu |-> host'[v]]
          BY <2>6, Zenon DEF InitVmcs
        <4>3. \A v \in Vcpu : host[v] \in [cr3 : Spaces \cup {"none"}, tables : Cpu \cup {NULL}]
          BY Zenon DEF VmxInv, VmxTypeOK
        <4> QED
          BY <3>2, <4>1, <4>2, <4>3
      <3> QED
        BY <1>2, <2>6, <3>2, <3>3, WriteFieldsStep, Zenon DEF InitVmcs, Creating
    <2>7. CASE InitVmcsDone \/ InitVmcsWithoutStack
      BY <2>6, <2>7, Zenon DEF InitVmcsDone, InitVmcsWithoutStack, Groups
    <2>8. CASE CreationDies
      BY <1>2, <2>1, <2>8, CreationFailsStep, Zenon DEF CreationDies, Creating, software
    <2>9. CASE LoadGuest
      BY <2>9, StageStep, Zenon DEF LoadGuest, Creating
    <2>10. CASE SetRegisters
      <3>1. host' \in [Vcpu -> [cr3 : Spaces \cup {"none"}, tables : Cpu \cup {NULL}]]
        BY <2>10, Zenon DEF SetRegisters, VmxInv, VmxTypeOK
      <3>2. {"registers"} \in SUBSET Groups /\ "host" \notin {"registers"}
        BY Zenon DEF Groups
      <3> QED
        BY <1>2, <2>10, <3>1, <3>2, WriteFieldsStep, Zenon DEF SetRegisters, Creating
    <2>11. CASE MakeReady
      BY <2>11, MakeReadyStep, Zenon
    <2>12. ASSUME NEW c \in Cpu, SubmitVcpu(c) PROVE VmxInv'
      BY <2>12, SubmitStep, Zenon
    <2> QED
      BY <2>2, <2>3, <2>4, <2>5, <2>7, <2>8, <2>9, <2>10, <2>11, <2>12, Zenon DEF Create
  <1> QED
    BY <1>4, <1>5, Zenon

-----------------------------------------------------------------------------
(* The execution of vCPUs *)

\* Taking a vCPU to execute it, which makes its VMCS current, keeps the invariant.
LEMMA ExecuteStep ==
    ASSUME SetupInv, VmxInv, NEW c \in Cpu, NEW v \in Vcpu, ExecuteVcpu(c, v)
    PROVE  VmxInv'
  <1>1. PointerTypes /\ PointersInv
    BY InvPointers, Zenon
  <1>2. /\ PointerTypes' /\ PointersInv' /\ hw_launch' = hw_launch
        /\ curr_vcpu'[c] = v /\ active_cpu'[v] = c
        /\ \A d \in Cpu \ {c} : curr_vcpu'[d] = curr_vcpu[d]
        /\ \A w \in Vcpu \ {v} : active_cpu'[w] = active_cpu[w]
    BY <1>1, MakeCurrent DEF ExecuteVcpu
  <1>3. /\ pc[c] = "sched" /\ home[v] = c /\ vcpu_state[v] = "READY"
        /\ pc' = [pc EXCEPT ![c] = "enter"] /\ running' = [running EXCEPT ![c] = v]
        /\ UNCHANGED <<vcpu_state, launch_state, host, stage, vm, nth, home>>
    BY Zenon DEF ExecuteVcpu, creation
  <1>4. /\ written' \in [Vcpu -> SUBSET Groups]
        /\ \A w \in Vcpu : /\ written[w] \subseteq written'[w]
                           /\ "host" \in written'[w] => "host" \in written[w]
    BY Zenon DEF ExecuteVcpu, vmwrite, VmxInv, VmxTypeOK, Groups
  <1>5. VmxTypeOK'
    BY <1>2, <1>3, <1>4, Zenon DEF VmxInv, VmxTypeOK, PointerTypes
  <1>6. ActiveWhereBelieved' /\ CurrentIsOwn'
    BY <1>2, <1>3 DEF PointersInv, CurrentIsOwn, VmxInv, VmxTypeOK
  <1>7. CreationInv'
    <2>1. stage \in {"submit", "done"}
      BY <1>3, NoneRunning, ZenonT(30)
    <2> QED
      BY <1>3, <2>1, Zenon DEF VmxInv, CreationInv, Pending, Unsubmitted
  <1>8. ExecutionInv'
    <2>1. ASSUME NEW d \in Cpu, d # c
          PROVE  pc'[d] = pc[d] /\ running'[d] = running[d] /\ curr_vcpu'[d] = curr_vcpu[d]
      BY <1>2, <1>3, <2>1 DEF SetupInv, CpuTypeOK, VmxInv, VmxTypeOK
    <2>2. pc'[c] = "enter" /\ running'[c] = v /\ v # NULL
      BY <1>3, NullIsNoVcpu, Zenon DEF SetupInv, CpuTypeOK, VmxInv, VmxTypeOK
    <2>3. \A d \in Cpu : running[d] # NULL => running[d] \in Vcpu
      BY Zenon DEF VmxInv, VmxTypeOK
    <2>4. \A d \in Cpu : curr_vcpu'[d] # NULL => active_cpu'[curr_vcpu'[d]] = d
      BY <1>2, Zenon DEF PointersInv
    <2>5. launch_state[v] = "CLEAR" /\ hw_launch[v] = "CLEAR"
      BY <1>3, Zenon DEF VmxInv, ExecutionInv
    <2> QED
      BY <1>2, <1>3, <1>4, <2>1, <2>2, <2>3, <2>4, <2>5, SMTT(30)
        DEF VmxInv, ExecutionInv
  <1> QED
    BY <1>5, <1>6, <1>7, <1>8, Zenon DEF VmxInv

\* The steps of a CPU that executes vCPU v change no pointer, and of the vCPUs
\* no other than v.
LEMMA InsideStep ==
    ASSUME SetupInv, VmxInv, NEW c \in Cpu, pc[c] \in Executing,
           pc' = [pc EXCEPT ![c] = pc'[c]],
           vcpu_state' \in [Vcpu -> {"none", "CREATED", "READY", "RUNNING", "NOT_RUNNING"}],
           launch_state' \in [Vcpu -> {"INVALID", "CLEAR", "LAUNCHED"}],
           hw_launch' \in [Vcpu -> {"CLEAR", "LAUNCHED"}],
           \A w \in Vcpu \ {running[c]} : /\ vcpu_state'[w] = vcpu_state[w]
                                         /\ launch_state'[w] = launch_state[w]
                                         /\ hw_launch'[w] = hw_launch[w],
           vcpu_state'[running[c]] # "READY",
           \/ running' = running /\ pc'[c] \in Executing \cup {"dead"}
           \/ running' = [running EXCEPT ![c] = NULL] /\ pc'[c] = "sched",
           pc'[c] \in {"enter", "instruction"} => launch_state'[running[c]] = hw_launch'[running[c]],
           pc'[c] \in {"instruction", "guest"} => vcpu_state'[running[c]] = "RUNNING",
           pc'[c] = "guest" => /\ hw_launch'[running[c]] = "LAUNCHED"
                               /\ "host" \in written[running[c]],
           UNCHANGED <<active_cpu, curr_vcpu, hw_current, hw_active, vmcs, creation>>
    PROVE  VmxInv'
  <1> DEFINE v == running[c]
  <1>1. UNCHANGED <<written, host, stage, vm, nth, home>>
    BY Zenon DEF vmcs, creation
  <1>2. v \in Vcpu /\ v # NULL /\ home[v] = c
    BY DEF VmxInv, VmxTypeOK, ExecutionInv
  <1>3. stage \in {"submit", "done"}
    BY <1>2, NoneRunning, Zenon
  <1>4. \A d \in Cpu \ {c} : pc'[d] = pc[d] /\ running'[d] = running[d] /\ running[d] # v
    BY <1>2 DEF SetupInv, CpuTypeOK, VmxInv, VmxTypeOK, ExecutionInv
  <1>5. VmxTypeOK'
    <2>1. running' \in [Cpu -> Vcpu \cup {NULL}]
      BY SMTT(30) DEF VmxInv, VmxTypeOK
    <2> QED
      BY <1>1, <2>1, Zenon DEF VmxInv, VmxTypeOK
  <1>6. ActiveWhereBelieved' /\ CurrentIsOwn'
    <2>1. \A d \in Cpu : running'[d] \in {running[d], NULL}
      BY DEF VmxInv, VmxTypeOK
    <2>2. ActiveWhereBelieved'
      BY SMTT(30) DEF VmxInv, ActiveWhereBelieved
    <2>3. CurrentIsOwn'
      BY <2>1 DEF VmxInv, CurrentIsOwn
    <2> QED
      BY <2>2, <2>3, Zenon
  <1>7. CreationInv'
    BY <1>1, <1>3, Zenon DEF VmxInv, CreationInv, Pending, Unsubmitted
  <1>8. ExecutionInv'
    <2>1. ASSUME NEW d \in Cpu
          PROVE  /\ pc'[d] \in Executing => running'[d] # NULL
                 /\ running'[d] # NULL => /\ pc'[d] \in Executing \cup {"dead"}
                                          /\ home'[running'[d]] = d
                                          /\ curr_vcpu'[d] = running'[d]
                 /\ curr_vcpu'[d] # NULL => active_cpu'[curr_vcpu'[d]] = d
      BY <1>1, <1>2, <1>4, SMTT(30) DEF VmxInv, VmxTypeOK, ExecutionInv
    <2>2. ASSUME NEW d \in Cpu
          PROVE  /\ pc'[d] \in {"enter", "instruction"}
                       => launch_state'[running'[d]] = hw_launch'[running'[d]]
                 /\ pc'[d] \in {"instruction", "guest"} => vcpu_state'[running'[d]] = "RUNNING"
                 /\ pc'[d] = "guest" => /\ hw_launch'[running'[d]] = "LAUNCHED"
                                        /\ "host" \in written'[running'[d]]
      <3>1. CASE d = c
        BY <1>1, <3>1, ZenonT(30)
      <3>2. CASE d # c
        BY <1>1, <1>4, <3>2, SMTT(30) DEF VmxInv, VmxTypeOK, ExecutionInv
      <3> QED
        BY <3>1, <3>2, SMTT(30)
    <2>3. ASSUME NEW w \in Vcpu
          PROVE  /\ vcpu_state'[w] = "READY" => launch_state'[w] = "CLEAR" /\ hw_launch'[w] = "CLEAR"
                 /\ home'[w] = NULL => hw_launch'[w] = "CLEAR"
                 /\ "host" \in written'[w] => host'[w] = [cr3 |-> "hyvemind", tables |-> BSP]
      BY <1>1, <1>2 DEF VmxInv, ExecutionInv
    <2> QED
      BY <2>1, <2>2, <2>3, SMTT(30) DEF ExecutionInv
  <1> QED
    BY <1>5, <1>6, <1>7, <1>8, Zenon DEF VmxInv
-----------------------------------------------------------------------------
\* Every step of a CPU that executes vCPUs keeps the invariant.
LEMMA RunStep ==
    ASSUME IInv, NEW c \in Cpu, Run(c)
    PROVE  IInv'
  <1> USE DEF IInv
  <1> DEFINE v == running[c]
  <1>1. /\ pc \in [Cpu -> Places] /\ cr3 \in [Cpu -> Spaces] /\ tables \in [Cpu -> Cpu \cup {NULL}]
        /\ vcpu_state \in [Vcpu -> {"none", "CREATED", "READY", "RUNNING", "NOT_RUNNING"}]
        /\ launch_state \in [Vcpu -> {"INVALID", "CLEAR", "LAUNCHED"}]
        /\ hw_launch \in [Vcpu -> {"CLEAR", "LAUNCHED"}]
        /\ running \in [Cpu -> Vcpu \cup {NULL}]
    BY Zenon DEF SetupInv, CpuTypeOK, VmxInv, VmxTypeOK
  <1>2. pc[c] \in Executing => v \in Vcpu /\ hw_current[c] = v
    <2>1. VmxInv
      BY Zenon
    <2> HIDE DEF IInv
    <2>2. \A d \in Cpu : hw_current[d] = curr_vcpu[d]
      BY <2>1, InvPointers, Zenon DEF PointersInv
    <2> QED
      BY <2>1, <2>2, ExecutionAt, ZenonT(30)
  <1>3. ASSUME pc[c] \in {"create", "sched"} \cup Executing,
               pc' = [pc EXCEPT ![c] = pc'[c]], pc'[c] \in {"sched", "dead"} \cup Executing,
               UNCHANGED cpu_vars
        PROVE  SetupInv'
    BY <1>1, <1>3, ExecutionKeepsSetup DEF cpu_vars
  <1>4. ASSUME pc[c] \in Executing,
               pc' = [pc EXCEPT ![c] = pc'[c]], pc'[c] \in {"sched", "dead"} \cup Executing,
               LoadHostState(c), "host" \in written[v]
        PROVE  SetupInv'
    <2>1. host[hw_current[c]] = [cr3 |-> "hyvemind", tables |-> BSP]
      BY <1>2, <1>4, Zenon DEF VmxInv, ExecutionInv
    <2>2. cr3' = [cr3 EXCEPT ![c] = "hyvemind"] /\ tables' = [tables EXCEPT ![c] = BSP]
      <3>1. host[hw_current[c]].cr3 = "hyvemind" /\ host[hw_current[c]].tables = BSP
        <4> HIDE DEF IInv
        <4> QED
          BY <2>1
      <3> QED
        BY <1>4, <3>1, Zenon DEF LoadHostState
    <2> QED
      BY <1>1, <1>4, <2>2, ExecutionKeepsSetup DEF LoadHostState
  <1>5. ASSUME NEW w \in Vcpu, ExecuteVcpu(c, w) PROVE IInv'
    BY <1>1, <1>3, <1>5, ExecuteStep, ZenonT(30) DEF ExecuteVcpu
  <1>6. CASE EntryHelper(c)
    <2>1. SetupInv'
      BY <1>1, <1>3, <1>6, Zenon DEF EntryHelper
    <2>2. VmxInv'
      <3>1. launch_state[v] = hw_launch[v]
        BY <1>6, Zenon DEF EntryHelper, VmxInv, ExecutionInv
      <3> QED
        BY <1>1, <1>2, <1>6, <3>1, InsideStep, ZenonT(30) DEF EntryHelper, hardware
    <2> QED
      BY <2>1, <2>2, Zenon
  <1>7. CASE EnterGuest(c)
    <2>1. SetupInv'
      BY <1>1, <1>3, <1>7, Zenon DEF EnterGuest
    <2>2. VmxInv'
      <3>1. vcpu_state[v] = "RUNNING" /\ "host" \in written[v]
        BY <1>2, <1>7, Zenon DEF EnterGuest, VmxInv, ExecutionInv, Groups
      <3> QED
        BY <1>1, <1>2, <1>7, <3>1, InsideStep, ZenonT(30) DEF EnterGuest, software
    <2> QED
      BY <2>1, <2>2, Zenon
  <1>8. CASE EntryRefused(c)
    <2>1. SetupInv'
      BY <1>1, <1>3, <1>8, Zenon DEF EntryRefused, KillVcpu
    <2>2. VmxInv'
      BY <1>1, <1>2, <1>8, InsideStep, ZenonT(30) DEF EntryRefused, KillVcpu, hardware
    <2> QED
      BY <2>1, <2>2, Zenon
  <1>9. CASE EntryFailure(c)
    <2>1. SetupInv'
      BY <1>1, <1>2, <1>4, <1>9, Zenon DEF EntryFailure, KillVcpu
    <2>2. VmxInv'
      BY <1>1, <1>2, <1>9, InsideStep, ZenonT(30) DEF EntryFailure, KillVcpu, hardware
    <2> QED
      BY <2>1, <2>2, Zenon
  <1>10. CASE VmExit(c) \/ VmExitUnknown(c)
    <2>1. pc[c] = "guest" /\ "host" \in written[v] /\ hw_launch[v] = "LAUNCHED"
      BY <1>10, ZenonT(30) DEF VmExit, VmExitUnknown, VmxInv, ExecutionInv
    <2>2. SetupInv'
      BY <1>1, <1>4, <1>10, <2>1, ZenonT(30) DEF VmExit, VmExitUnknown, Die, GoTo
    <2>3. VmxInv'
      BY <1>1, <1>2, <1>10, <2>1, InsideStep, SMTT(30) DEF VmExit, VmExitUnknown, Die, GoTo, hardware
    <2> QED
      BY <2>2, <2>3, Zenon
  <1> QED
    BY <1>5, <1>6, <1>7, <1>8, <1>9, <1>10, Zenon DEF Run

\* The invariant is inductive.
THEOREM Inductive == Spec => []IInv
  <1>1. Init => IInv
    BY SetupInit, VmxInit, Zenon DEF Init, IInv
  <1>2. IInv /\ [Next]_vars => IInv'
    <2> SUFFICES ASSUME IInv, [Next]_vars PROVE IInv'
      BY Zenon
    <2>1. CASE SetupNext /\ UNCHANGED <<software, hardware, vmcs, creation, running>>
      BY <2>1, SetupStep, SetupKeepsVmx, Zenon DEF IInv
    <2>2. CASE Create /\ UNCHANGED cpu_vars
      BY <2>2, CreateStep, Zenon
    <2>3. ASSUME NEW c \in Cpu, Run(c) PROVE IInv'
      BY <2>3, RunStep, Zenon
    <2>4. CASE UNCHANGED vars
      <3>1. SetupInv'
        <4>1. SetupInv /\ UNCHANGED <<pc, cpu_vars>>
          BY <2>4, Zenon DEF IInv, vars
        <4> QED
          BY <4>1, SetupStutters, Zenon
      <3>2. VmxInv'
        <4>1. /\ UNCHANGED <<pc, vcpu_state, active_cpu, launch_state, curr_vcpu, hw_current, hw_active>>
              /\ UNCHANGED <<hw_launch, written, host, stage, vm, nth, home, running>>
          BY <2>4, Zenon DEF vars, software, hardware, vmcs, creation
        <4>2. VmxTypeOK' /\ ActiveWhereBelieved' /\ CurrentIsOwn'
          BY <4>1, Zenon DEF IInv, VmxInv, VmxTypeOK, ActiveWhereBelieved, CurrentIsOwn
        <4>3. CreationInv'
          BY <4>1, Zenon DEF IInv, VmxInv, CreationInv, Pending, Unsubmitted
        <4>4. ExecutionInv'
          BY <4>1, Zenon DEF IInv, VmxInv, ExecutionInv
        <4> QED
          BY <4>2, <4>3, <4>4, Zenon DEF VmxInv
      <3> QED
        BY <3>1, <3>2, Zenon DEF IInv
    <2> QED
      BY <2>1, <2>2, <2>3, <2>4, Zenon DEF Next
  <1> QED
    BY <1>1, <1>2, PTL DEF Spec

\* For any number of CPUs and VMs, a CPU in the mask of online CPUs is able to
\* run vCPUs, whenever the BSP hands them out (setup.c:357) and whatever host
\* state the exits have loaded (vmx.c:349).
THEOREM OnlineCpusAreReady == Spec => []OnlineIsReady
  <1>1. IInv => OnlineIsReady
    <2> SUFFICES ASSUME IInv, NEW c \in cpumask PROVE Able(c) /\ Able(BSP) /\ "hyvemind" \in apic_in
      BY Zenon DEF OnlineIsReady, Able, ReachesApic
    <2>1. c \in Cpu /\ Registered(c) /\ Able(c)
      BY Zenon DEF IInv, SetupInv, CpuTypeOK, MaskInv
    <2>2. Registered(BSP)
      BY <2>1, Zenon DEF IInv, SetupInv, CpuTypeOK, PlaceInv, Registered
    <2> QED
      BY <2>1, <2>2, Zenon DEF IInv, SetupInv, PlaceInv, MaskInv, Able
  <1> QED
    BY <1>1, Inductive, PTL

\* For any number of CPUs, a registration is lost only to one that overlaps it,
\* and never that of the BSP (setup.c:310).
THEOREM RegistrationLostOnlyByOverlap == Spec => []LostOnlyByOverlap
  <1>1. IInv => LostOnlyByOverlap
    BY Zenon DEF IInv, SetupInv
  <1> QED
    BY <1>1, Inductive, PTL

\* However vCPUs are spread, a VMCS is active on the one CPU its vCPU names
\* (vmx.c:44, 76).
THEOREM VmcsActiveWhereBelieved == Spec => []ActiveWhereBelieved
  <1>1. IInv => ActiveWhereBelieved
    BY Zenon DEF IInv, VmxInv
  <1> QED
    BY <1>1, Inductive, PTL

\* However vCPUs are spread, a CPU's accesses reach the VMCS of the vCPU that it
\* executes (vmx.c:63).
THEOREM AccessesReachOwnVmcs == Spec => []CurrentIsOwn
  <1>1. IInv => CurrentIsOwn
    BY Zenon DEF IInv, VmxInv
  <1> QED
    BY <1>1, Inductive, PTL

\* Over any sequence of entries, exits and failures, the entry path picks the
\* instruction the processor accepts, in VMX operation (entry.S:123, vmx.c:880).
THEOREM EntriesFitLaunchState == Spec => []LaunchStateFits
  <1>1. IInv => LaunchStateFits
    <2> SUFFICES ASSUME IInv, NEW c \in Cpu, pc[c] = "instruction" PROVE InstructionFits(c)
      BY Zenon DEF LaunchStateFits
    <2>1. c \in vmx_on
      BY Zenon DEF IInv, SetupInv, PlaceInv, Able
    <2>2. /\ running[c] \in Vcpu /\ running[c] # NULL /\ hw_current[c] = running[c]
          /\ launch_state[running[c]] = hw_launch[running[c]]
          /\ hw_launch[running[c]] \in {"CLEAR", "LAUNCHED"}
      BY DEF IInv, VmxInv, VmxTypeOK, ExecutionInv, CurrentIsOwn
    <2> QED
      BY <2>1, <2>2, Zenon DEF InstructionFits, Instruction
  <1> QED
    BY <1>1, Inductive, PTL
-----------------------------------------------------------------------------
\* create_vm is through stage s with vCPU i of VM m; later holds the stages
\* behind s.
Past(s, later, m, i) ==
    \/ stage \in {"submit", "done"}
    \/ m < vm
    \/ m = vm /\ (stage \in later \/ (stage = s /\ i < nth))

PastInit(m, i) == Past("init", {"load", "registers", "ready"}, m, i)
PastRegisters(m, i) == Past("registers", {"ready"}, m, i)
PastReady(m, i) == Past("ready", {}, m, i)

\* The fields a VMCS has, by how far the creation of its vCPU has come.
FieldsOf(m, i) ==
    LET v == Vms[m][i] IN
    /\ PastInit(m, i) => {"controls", "host"} \subseteq written[v]
    /\ PastRegisters(m, i) => "registers" \in written[v]
    /\ vcpu_state[v] = "READY" => PastReady(m, i)
    /\ home[v] = NULL => ("defaults" \in written[v] <=> "rsp" \in written[v])

FieldsInv ==
    /\ stage \in {"prepare", "load"} => nth = 1
    /\ \A m \in DOMAIN Vms : \A i \in DOMAIN Vms[m] : FieldsOf(m, i)

\* A step that writes no field and does not move the creation.
LEMMA FieldsKept ==
    ASSUME VmxInv, FieldsInv, UNCHANGED <<written, stage, vm, nth>>,
           \A v \in Vcpu : vcpu_state'[v] = "READY" => vcpu_state[v] = "READY",
           \A v \in Vcpu : home'[v] = NULL => home[v] = NULL
    PROVE  FieldsInv'
  <1> SUFFICES ASSUME NEW m \in DOMAIN Vms, NEW i \in DOMAIN Vms[m]
               PROVE  FieldsOf(m, i)'
    BY Zenon DEF FieldsInv
  <1>1. FieldsOf(m, i) /\ Vms[m][i] \in Vcpu
    BY VmsFacts, Zenon DEF FieldsInv
  <1> QED
    BY <1>1, Zenon DEF FieldsOf, PastInit, PastRegisters, PastReady, Past

\* A step that writes no field and goes on to another vCPU, stage or VM, in which
\* no stage that writes fields comes to its end.
LEMMA FieldsCarried ==
    ASSUME VmxInv, FieldsInv, written' = written,
           \A m \in DOMAIN Vms : \A i \in DOMAIN Vms[m] :
              /\ PastInit(m, i)' => PastInit(m, i)
              /\ PastRegisters(m, i)' => PastRegisters(m, i)
              /\ vcpu_state'[Vms[m][i]] = "READY" => PastReady(m, i)',
           \A v \in Vcpu : home'[v] = NULL => home[v] = NULL,
           stage' \in {"prepare", "load"} => nth' = 1
    PROVE  FieldsInv'
  <1> SUFFICES ASSUME NEW m \in DOMAIN Vms, NEW i \in DOMAIN Vms[m]
               PROVE  FieldsOf(m, i)'
    BY Zenon DEF FieldsInv
  <1>1. FieldsOf(m, i) /\ Vms[m][i] \in Vcpu
    BY VmsFacts, Zenon DEF FieldsInv
  <1> QED
    BY <1>1, Zenon DEF FieldsOf

\* Writing the groups g to the current VMCS, a stage at a time, keeps them.
LEMMA FieldsWritten ==
    ASSUME VmxInv, FieldsInv, VmxInv', NEW g,
           vmx_make_vcpu_current(BSP, Current), vmwrite(BSP, g),
           UNCHANGED <<vcpu_state, vm, home>>,
           "defaults" \in g <=> "rsp" \in g,
           \/ stage = "init" /\ {"controls", "host"} \subseteq g /\ Advance("load")
           \/ stage = "registers" /\ "registers" \in g /\ Advance("ready")
    PROVE  FieldsInv'
  <1>1. /\ Current \in Vcpu /\ vm \in DOMAIN Vms /\ nth \in DOMAIN Vms[vm] /\ vm \in Nat
        /\ nth \in Nat /\ DOMAIN Vms[vm] = 1 .. Len(Vms[vm]) /\ Len(Vms[vm]) \in Nat
    <2>1. vm \in DOMAIN Vms /\ nth \in DOMAIN Vms[vm]
      BY Zenon DEF VmxInv, VmxTypeOK
    <2> QED
      <3>1. /\ Current \in Vcpu
            /\ DOMAIN Vms[vm] = 1 .. Len(Vms[vm]) /\ Len(Vms[vm]) \in Nat
            /\ vm \in 1 .. Len(Vms) /\ nth \in 1 .. Len(Vms[vm])
        BY <2>1, VmsFacts, CurrentIsVcpu, Zenon
      <3>2. vm \in Nat /\ nth \in Nat
        BY <3>1, VmsFacts, PositionIsNat, Zenon
      <3> QED
        BY <2>1, <3>1, <3>2, Zenon
  <1>2. hw_current'[BSP] = Current
    <2>1. PointerTypes /\ PointersInv
      BY InvPointers, Zenon
    <2> DEFINE v == Current
    <2>2. v \in Vcpu /\ vmx_make_vcpu_current(BSP, v)
      BY <1>1, Zenon
    <2> HIDE DEF v
    <2>3. hw_current'[BSP] = v
      BY <2>1, <2>2, MakeCurrent, ZenonT(30) DEF PointersInv
    <2> QED
      BY <2>3, Zenon DEF v
  <1>3. \A w \in Vcpu : written'[w] = IF w = Current THEN written[w] \cup g ELSE written[w]
    BY <1>2, Zenon DEF vmwrite
  <1> SUFFICES ASSUME NEW m \in DOMAIN Vms, NEW i \in DOMAIN Vms[m]
               PROVE  FieldsOf(m, i)'
    <2>1. stage' \in {"prepare", "load"} => nth' = 1
      BY ZenonT(30) DEF Advance
    <2> QED
      BY <2>1, Zenon DEF FieldsInv
  <1> DEFINE v == Vms[m][i]
  <1>4. FieldsOf(m, i) /\ v \in Vcpu /\ m \in Nat /\ i \in Nat /\ (m = vm => i <= Len(Vms[vm]))
    BY VmsFacts, SMTT(30) DEF FieldsInv
  <1>5. v = Current => m = vm /\ i = nth
    BY <1>1, VmsDistinct, ZenonT(30) DEF Current
  <1>6. m = vm /\ i = nth => v = Current
    BY Zenon DEF Current
  <1>7. /\ written'[v] = IF v = Current THEN written[v] \cup g ELSE written[v]
        /\ vcpu_state'[v] = vcpu_state[v] /\ home'[v] = home[v]
    BY <1>3, <1>4, Zenon
  <1> HIDE DEF v
  <1>8. \/ stage' = stage /\ nth' = nth + 1 /\ vm' = vm /\ stage \in {"init", "registers"}
        \/ stage = "init" /\ stage' = "load" /\ nth = Len(Vms[vm]) /\ vm' = vm
        \/ stage = "registers" /\ stage' = "ready" /\ nth = Len(Vms[vm]) /\ nth' = 1 /\ vm' = vm
    BY Zenon DEF Advance
  <1>9. \/ stage' = stage /\ nth' = nth + 1 /\ (i < nth + 1 => i < nth \/ i = nth)
        \/ m = vm => i < nth \/ i = nth
    <2>1. nth \in Nat /\ i \in Nat /\ (m = vm => i <= Len(Vms[vm])) /\ Len(Vms[vm]) \in Nat
      BY <1>1, <1>4, Zenon
    <2>2. i < nth + 1 => i < nth \/ i = nth
      BY <2>1
    <2>3. nth = Len(Vms[vm]) => (m = vm => i < nth \/ i = nth)
      BY <2>1
    <2> QED
      BY <1>8, <2>2, <2>3, Zenon
  <1>10. /\ PastInit(m, i)' => PastInit(m, i) \/ (stage = "init" /\ v = Current)
         /\ PastRegisters(m, i)' => PastRegisters(m, i) \/ (stage = "registers" /\ v = Current)
    BY <1>6, <1>8, <1>9, Zenon DEF PastInit, PastRegisters, Past
  <1>11. PastReady(m, i) => PastReady(m, i)'
    BY <1>1, <1>4, <1>8, Zenon DEF PastReady, Past
  <1>12. /\ PastInit(m, i) => {"controls", "host"} \subseteq written[v]
         /\ PastRegisters(m, i) => "registers" \in written[v]
         /\ vcpu_state[v] = "READY" => PastReady(m, i)
         /\ home[v] = NULL => ("defaults" \in written[v] <=> "rsp" \in written[v])
    BY <1>4, Zenon DEF FieldsOf, v
  <1>13. /\ PastInit(m, i)' => {"controls", "host"} \subseteq written'[v]
         /\ PastRegisters(m, i)' => "registers" \in written'[v]
         /\ vcpu_state'[v] = "READY" => PastReady(m, i)'
         /\ home'[v] = NULL => ("defaults" \in written'[v] <=> "rsp" \in written'[v])
    BY <1>7, <1>10, <1>11, <1>12, Zenon
  <1> QED
    BY <1>13, Zenon DEF FieldsOf, v

\* No step leaves a VMCS without the fields of its stage.
LEMMA FieldsStep ==
    ASSUME IInv, IInv', FieldsInv, [Next]_vars
    PROVE  FieldsInv'
  <1>1. VmxInv /\ VmxInv' /\ VmxTypeOK
    BY Zenon DEF IInv, VmxInv
  <1>2. /\ vm \in DOMAIN Vms /\ nth \in DOMAIN Vms[vm] /\ vm \in Nat /\ nth \in Nat
        /\ Len(Vms[vm]) \in Nat /\ Len(Vms) \in Nat /\ Current \in Vcpu
        /\ \A m \in DOMAIN Vms : m \in Nat /\ m <= Len(Vms)
        /\ \A i \in DOMAIN Vms[vm] : i \in Nat /\ i <= Len(Vms[vm])
        /\ \A m \in DOMAIN Vms : \A i \in DOMAIN Vms[m] : Vms[m][i] \in Vcpu /\ i \in Nat
    BY <1>1, VmsFacts, CurrentIsVcpu DEF VmxTypeOK
  <1>3. ASSUME UNCHANGED <<software, vmcs, creation>>
        PROVE  FieldsInv'
    BY <1>1, <1>3, FieldsKept, Zenon DEF software, vmcs, creation
  <1>4. CASE SetupNext /\ UNCHANGED <<software, hardware, vmcs, creation, running>>
    BY <1>3, <1>4, Zenon
  <1>5. CASE UNCHANGED vars
    BY <1>3, <1>5, Zenon DEF vars
  <1>6. CASE AllocateVcpu
    <2>1. /\ stage = "allocate" /\ stage' \in {"allocate", "prepare"} /\ vm' = vm
          /\ written' = written /\ home' = home
          /\ \A v \in Vcpu : vcpu_state'[v] = "READY" => vcpu_state[v] = "READY"
          /\ stage' = "prepare" => nth' = 1
      BY <1>1, <1>6, Zenon DEF AllocateVcpu, Creating, Advance, vmcs, VmxTypeOK
    <2>2. ASSUME NEW m \in DOMAIN Vms, NEW i \in DOMAIN Vms[m]
          PROVE  /\ PastInit(m, i)' => PastInit(m, i)
                 /\ PastRegisters(m, i)' => PastRegisters(m, i)
                 /\ vcpu_state'[Vms[m][i]] = "READY" => PastReady(m, i)'
      <3>1. FieldsOf(m, i) /\ Vms[m][i] \in Vcpu
        BY <1>2, Zenon DEF FieldsInv
      <3> QED
        BY <2>1, <3>1, Zenon DEF FieldsOf, PastInit, PastRegisters, PastReady, Past
    <2> QED
      BY <1>1, <2>1, <2>2, FieldsCarried, Zenon
  <1>7. CASE AllocateVcpuFails \/ PrepareEnvironmentFails
    <2>1. UNCHANGED <<written, stage, vm, nth, home>>
      BY <1>7, Zenon DEF AllocateVcpuFails, PrepareEnvironmentFails, vmcs, creation
    <2>2. \A v \in Vcpu : vcpu_state'[v] = "READY" => vcpu_state[v] = "READY"
      BY <1>7, Zenon DEF AllocateVcpuFails, PrepareEnvironmentFails, Destroy
    <2> QED
      BY <1>1, <2>1, <2>2, FieldsKept, Zenon
  <1>8. CASE PrepareEnvironment \/ LoadGuest
    <2>1. /\ UNCHANGED <<written, vcpu_state, home, vm, nth>> /\ nth = 1
          /\ \/ stage = "prepare" /\ stage' = "init"
             \/ stage = "load" /\ stage' = "registers"
      BY <1>8, Zenon DEF PrepareEnvironment, LoadGuest, Creating, software, vmcs, FieldsInv
    <2>2. ASSUME NEW m \in DOMAIN Vms, NEW i \in DOMAIN Vms[m]
          PROVE  /\ PastInit(m, i)' => PastInit(m, i)
                 /\ PastRegisters(m, i)' => PastRegisters(m, i)
                 /\ vcpu_state'[Vms[m][i]] = "READY" => PastReady(m, i)'
      <3>1. FieldsOf(m, i) /\ i \in Nat /\ ~(i < 1)
        BY <1>2, VmsFacts DEF FieldsInv
      <3> QED
        BY <2>1, <3>1, Zenon DEF FieldsOf, PastInit, PastRegisters, PastReady, Past
    <2> QED
      BY <1>1, <2>1, <2>2, FieldsCarried, Zenon
  <1>9. CASE InitVmcsDone \/ InitVmcsWithoutStack
    <2>1. ASSUME NEW g, InitVmcs(g), {"controls", "host"} \subseteq g, "defaults" \in g <=> "rsp" \in g
          PROVE  FieldsInv'
      BY <1>1, <2>1, FieldsWritten, Zenon DEF InitVmcs, Creating, Advance
    <2> QED
      BY <1>9, <2>1, Zenon DEF InitVmcsDone, InitVmcsWithoutStack
  <1>10. CASE SetRegisters
    BY <1>1, <1>10, FieldsWritten, Zenon DEF SetRegisters, Creating, Advance
  <1>11. CASE CreationDies
    BY <1>3, <1>11, Zenon DEF CreationDies
  <1>12. CASE MakeReady
    <2>1. /\ stage = "ready" /\ written' = written /\ home' = home
          /\ vcpu_state' = [vcpu_state EXCEPT ![Current] = "READY"]
          /\ \/ stage' = "ready" /\ nth' = nth + 1 /\ vm' = vm
             \/ stage' = "allocate" /\ vm' = vm + 1 /\ nth = Len(Vms[vm])
             \/ stage' = "submit" /\ vm = Len(Vms) /\ nth = Len(Vms[vm])
      BY <1>2, <1>12 DEF MakeReady, Creating, NextAfterReady, vmcs
    <2>2. ASSUME NEW m \in DOMAIN Vms, NEW i \in DOMAIN Vms[m]
          PROVE  /\ PastInit(m, i)' => PastInit(m, i)
                 /\ PastRegisters(m, i)' => PastRegisters(m, i)
                 /\ vcpu_state'[Vms[m][i]] = "READY" => PastReady(m, i)'
      <3> DEFINE v == Vms[m][i]
      <3>1. FieldsOf(m, i) /\ i \in Nat /\ m \in Nat /\ m <= Len(Vms) /\ v \in Vcpu
            /\ (m = vm => i <= Len(Vms[vm]))
        BY <1>2, Zenon DEF FieldsInv
      <3>2. vcpu_state'[v] = "READY" => vcpu_state[v] = "READY" \/ v = Current
        BY <1>1, <2>1, <3>1, Zenon DEF VmxTypeOK
      <3>3. v = Current => m = vm /\ i = nth
        BY <1>2, VmsDistinct, ZenonT(30) DEF Current
      <3>4. vcpu_state[v] = "READY" => PastReady(m, i)
        BY <3>1, Zenon DEF FieldsOf
      <3> HIDE DEF v
      <3>5. PastReady(m, i) \/ (m = vm /\ i = nth) => PastReady(m, i)'
        BY <1>2, <2>1, <3>1 DEF PastReady, Past
      <3>6. PastInit(m, i)' => PastInit(m, i)
        BY <1>2, <2>1, <3>1 DEF PastInit, Past
      <3>7. PastRegisters(m, i)' => PastRegisters(m, i)
        BY <1>2, <2>1, <3>1 DEF PastRegisters, Past
      <3>8. vcpu_state'[v] = "READY" => PastReady(m, i)'
        BY <3>2, <3>3, <3>4, <3>5, Zenon
      <3> QED
        BY <3>6, <3>7, <3>8, Zenon DEF v
    <2> QED
      BY <1>1, <2>1, <2>2, FieldsCarried, Zenon
  <1>13. ASSUME NEW c \in Cpu, SubmitVcpu(c) PROVE FieldsInv'
    <2>1. /\ stage = "submit" /\ stage' \in {"submit", "done"} /\ UNCHANGED <<written, vcpu_state>>
          /\ \A v \in Vcpu : home'[v] = NULL => home[v] = NULL
      BY <1>1, <1>13, NullIsNoVcpu, Zenon DEF SubmitVcpu, Creating, software, vmcs, VmxTypeOK
    <2>2. ASSUME NEW m \in DOMAIN Vms, NEW i \in DOMAIN Vms[m]
          PROVE  /\ PastInit(m, i)' => PastInit(m, i)
                 /\ PastRegisters(m, i)' => PastRegisters(m, i)
                 /\ vcpu_state'[Vms[m][i]] = "READY" => PastReady(m, i)'
      BY <2>1, Zenon DEF PastInit, PastRegisters, PastReady, Past
    <2> QED
      BY <1>1, <2>1, <2>2, FieldsCarried, Zenon
  <1>14. ASSUME NEW c \in Cpu, NEW w \in Vcpu, ExecuteVcpu(c, w) PROVE FieldsInv'
    <2>1. /\ UNCHANGED <<vcpu_state, stage, vm, nth, home>> /\ home[w] = c /\ c # NULL
          /\ vmx_make_vcpu_current(c, w) /\ vmwrite(c, {"rsp"})
      BY <1>14, CpuAssumption, Zenon DEF ExecuteVcpu, creation
    <2>2. hw_current'[c] = w
      <3>1. PointerTypes /\ PointersInv
        BY <1>1, InvPointers, Zenon
      <3> QED
        BY <2>1, <3>1, MakeCurrent DEF PointersInv
    <2>3. \A v \in Vcpu : written'[v] = IF v = w THEN written[v] \cup {"rsp"} ELSE written[v]
      BY <2>1, <2>2, Zenon DEF vmwrite
    <2> SUFFICES ASSUME NEW m \in DOMAIN Vms, NEW i \in DOMAIN Vms[m]
                 PROVE  FieldsOf(m, i)'
      BY <2>1, Zenon DEF FieldsInv
    <2>4. FieldsOf(m, i) /\ Vms[m][i] \in Vcpu
      BY <1>2, Zenon DEF FieldsInv
    <2>5. /\ PastInit(m, i)' => PastInit(m, i)
          /\ PastRegisters(m, i)' => PastRegisters(m, i)
          /\ PastReady(m, i) => PastReady(m, i)'
      BY <2>1, Zenon DEF PastInit, PastRegisters, PastReady, Past
    <2> DEFINE v == Vms[m][i]
    <2>6. /\ home'[v] = home[v] /\ vcpu_state'[v] = vcpu_state[v] /\ (v = w => home[v] # NULL)
          /\ written'[v] = IF v = w THEN written[v] \cup {"rsp"} ELSE written[v]
      BY <2>1, <2>3, <2>4, Zenon
    <2>7. FieldsOf(m, i)
      BY <2>4, Zenon
    <2> QED
      BY <2>5, <2>6, <2>7, Zenon DEF FieldsOf
  <1>15. ASSUME NEW c \in Cpu, Run(c) PROVE FieldsInv'
    <2>1. CASE \E w \in Vcpu : ExecuteVcpu(c, w)
      BY <1>14, <2>1, Zenon
    <2>2. CASE ~\E w \in Vcpu : ExecuteVcpu(c, w)
      <3>1. UNCHANGED <<written, stage, vm, nth, home>>
        BY <1>15, <2>2, Zenon DEF Run, EntryHelper, EnterGuest, EntryRefused, EntryFailure, VmExit,
             VmExitUnknown, vmcs, creation
      <3>2. \A v \in Vcpu : vcpu_state'[v] = "READY" => vcpu_state[v] = "READY"
        BY <1>1, <1>15, <2>2, Zenon DEF Run, EntryHelper, EnterGuest, EntryRefused, EntryFailure, VmExit,
             VmExitUnknown, KillVcpu, software, VmxTypeOK
      <3> QED
        BY <1>1, <3>1, <3>2, FieldsKept, Zenon
    <2> QED
      BY <2>1, <2>2, Zenon
  <1> QED
    BY <1>4, <1>5, <1>6, <1>7, <1>8, <1>9, <1>10, <1>11, <1>12, <1>13, <1>15, Zenon DEF Next, Create

\* For any VMs, however creation goes from vCPU to vCPU and comes back to them,
\* a vCPU that is ready has its own fields: the controls and the host state of
\* vmx_initialize_vmcs_area (vmx.c:768) and the registers of set_vcpu_reg_state
\* (vm.c:262), and of the other fields either all or none.
THEOREM ReadyVcpusHaveTheirFields == Spec => []NoFieldsAstray
  <1>1. Init => FieldsInv
    <2> SUFFICES ASSUME Init, NEW m \in DOMAIN Vms, NEW i \in DOMAIN Vms[m] PROVE FieldsOf(m, i)
      BY Zenon DEF Init, FieldsInv
    <2>1. /\ stage = "allocate" /\ vm = 1 /\ m \in Nat /\ ~(m < vm)
          /\ vcpu_state[Vms[m][i]] = "none" /\ written[Vms[m][i]] = {}
      <3>1. Vms[m][i] \in Vcpu /\ m \in Nat /\ m >= 1
        BY VmsFacts
      <3>2. vcpu_state[Vms[m][i]] = "none" /\ written[Vms[m][i]] = {}
        BY <3>1, Zenon DEF Init
      <3> QED
        BY <3>1, <3>2 DEF Init
    <2>2. ~PastInit(m, i) /\ ~PastRegisters(m, i)
      BY <2>1, Zenon DEF PastInit, PastRegisters, Past
    <2> QED
      BY <2>1, <2>2, Zenon DEF FieldsOf
  <1>2. IInv /\ IInv' /\ FieldsInv /\ [Next]_vars => FieldsInv'
    BY FieldsStep, Zenon
  <1>3. FieldsInv => NoFieldsAstray
    <2> SUFFICES ASSUME FieldsInv, NEW v \in Vcpu, vcpu_state[v] = "READY", home[v] = NULL
                 PROVE  /\ {"controls", "host", "registers"} \subseteq written[v]
                        /\ "defaults" \in written[v] <=> "rsp" \in written[v]
      BY Zenon DEF NoFieldsAstray
    <2>1. PICK m \in DOMAIN Vms : \E i \in DOMAIN Vms[m] : v = Vms[m][i]
      BY VcpuIndex, Zenon
    <2>2. PICK i \in DOMAIN Vms[m] : v = Vms[m][i]
      BY <2>1, Zenon
    <2>3. FieldsOf(m, i)
      BY Zenon DEF FieldsInv
    <2>4. PastReady(m, i)
      BY <2>2, <2>3, Zenon DEF FieldsOf
    <2>5. PastInit(m, i) /\ PastRegisters(m, i)
      BY <2>4, Zenon DEF PastReady, PastInit, PastRegisters, Past
    <2> QED
      BY <2>2, <2>3, <2>5, Zenon DEF FieldsOf
  <1> QED
    BY <1>1, <1>2, <1>3, Inductive, PTL DEF Spec
=============================================================================
