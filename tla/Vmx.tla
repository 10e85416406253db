-------------------------------- MODULE Vmx --------------------------------
(***************************************************************************)
(* The life of vCPUs and of their VMCSs: creation of all VMs by the BSP    *)
(* (vm.c, arch/x64/vm/vm.c) while the APs are still setting themselves up, *)
(* and execution on the CPU each vCPU was submitted to (vmx.c,             *)
(* vmx/entry.S).                                                           *)
(*                                                                         *)
(* What the code believes (active_cpu, launch_state, curr_vcpu) is kept    *)
(* apart from the state of the processors (hw_...), which the instructions *)
(* vmclear, vmptrld, vmlaunch and vmresume change.  The contents of a VMCS *)
(* are the groups of fields written to it.  A failure that ends in         *)
(* NOT_YET_IMPLEMENTED, or in a NULL VM, stops the CPU.                    *)
(***************************************************************************)
EXTENDS CpuSetup, Sequences

CONSTANTS
    Vms          \* sequence of VMs, each the sequence of its vCPUs

Vcpu == UNION {{Vms[m][i] : i \in DOMAIN Vms[m]} : m \in DOMAIN Vms}

\* Every vCPU is a struct of its own.
ASSUME VmxAssumption ==
    /\ NULL \notin Vcpu
    /\ Vms \in Seq(Seq(Vcpu)) /\ Vms # << >>
    /\ \A m \in DOMAIN Vms : Vms[m] # << >>
    /\ \A m, n \in DOMAIN Vms : \A i \in DOMAIN Vms[m], j \in DOMAIN Vms[n] :
          Vms[m][i] = Vms[n][j] => m = n /\ i = j

\* HOST_CR3, and HOST_GDTR_BASE with HOST_TR_BASE.
NoHostState == [cr3 |-> "none", tables |-> NULL]
HostState(c) == [cr3 |-> cr3[c], tables |-> tables[c]]

\* Groups of VMCS fields: the controls, the host state, guest and environment
\* defaults, the registers of the boot state, and HOST_RSP.
Groups == {"controls", "host", "defaults", "registers", "rsp"}

VARIABLES
    vcpu_state,    \* vcpu->state, "none" before it is allocated
    active_cpu,    \* vcpu_vmx(vcpu).active_cpu
    launch_state,  \* vcpu_vmx(vcpu).launch_state
    curr_vcpu,     \* per CPU
    killed,        \* vCPUs whose task is TASK_KILLED
    hw_current,    \* per CPU: its current VMCS
    hw_active,     \* per VMCS: CPUs on which it is active
    hw_launch,     \* per VMCS: launch state
    written,       \* per VMCS: groups of fields that have been written
    host,          \* per VMCS: the host state that was written
    stage, vm, nth,  \* what create_vm is doing, for which VM and vCPU
    home,          \* the CPU each vCPU is submitted to
    running        \* per CPU: the vCPU in vmx_execute_vcpu

software == <<vcpu_state, active_cpu, launch_state, curr_vcpu, killed>>
hardware == <<hw_current, hw_active, hw_launch>>
vmcs == <<written, host>>
creation == <<stage, vm, nth, home>>
vars == <<pc, cpu_vars, software, hardware, vmcs, creation, running>>
-----------------------------------------------------------------------------
Init ==
    /\ CpuInit
    /\ vcpu_state = [v \in Vcpu |-> "none"]
    /\ active_cpu = [v \in Vcpu |-> NULL]
    /\ launch_state = [v \in Vcpu |-> "INVALID"]
    /\ curr_vcpu = [c \in Cpu |-> NULL]
    /\ killed = {}
    /\ hw_current = [c \in Cpu |-> NULL]
    /\ hw_active = [v \in Vcpu |-> {}]
    /\ hw_launch = [v \in Vcpu |-> "CLEAR"]
    /\ written = [v \in Vcpu |-> {}]
    /\ host = [v \in Vcpu |-> NoHostState]
    /\ stage = "allocate" /\ vm = 1 /\ nth = 1
    /\ home = [v \in Vcpu |-> NULL]
    /\ running = [c \in Cpu |-> NULL]

\* The processor: vmclear of v and vmptrld of v on CPU c.
vmclear(c, v) ==
    /\ hw_current' = [hw_current EXCEPT ![c] = IF @ = v THEN NULL ELSE @]
    /\ hw_active' = [hw_active EXCEPT ![v] = @ \ {c}]
    /\ hw_launch' = [hw_launch EXCEPT ![v] = "CLEAR"]

vmptrld(c, v) ==
    /\ hw_current' = [hw_current EXCEPT ![c] = v]
    /\ hw_active' = [hw_active EXCEPT ![v] = @ \cup {c}]
    /\ UNCHANGED hw_launch

\* vmwrite goes to whatever VMCS is current.
vmwrite(c, groups) ==
    written' = [v \in Vcpu |-> IF hw_current'[c] = v THEN written[v] \cup groups ELSE written[v]]

\* Mutant: an active VMCS is taken for the current one.
MakeCurrentIfInactive(c, v) ==
    IF curr_vcpu[c] = v \/ active_cpu[v] = c
    THEN UNCHANGED <<active_cpu, curr_vcpu, hardware>>
    ELSE /\ active_cpu[v] \in {NULL, c}
         /\ vmptrld(c, v)
         /\ active_cpu' = [active_cpu EXCEPT ![v] = c]
         /\ curr_vcpu' = [curr_vcpu EXCEPT ![c] = v]

\* vmx_make_vcpu_current.  A vCPU that is active on another CPU would have to be
\* cleared there, which is not implemented.  vmptrld gets a valid VMCS.
vmx_make_vcpu_current(c, v) ==
    IF curr_vcpu[c] = v
    THEN UNCHANGED <<active_cpu, curr_vcpu, hardware>>
    ELSE /\ active_cpu[v] \in {NULL, c}
         /\ vmptrld(c, v)
         /\ active_cpu' = [active_cpu EXCEPT ![v] = c]
         /\ curr_vcpu' = [curr_vcpu EXCEPT ![c] = v]

\* Mutant: curr_vcpu keeps pointing to the cleared vCPU.
ClearKeepsCurrent(c, v) ==
    IF active_cpu[v] = NULL
    THEN UNCHANGED <<active_cpu, launch_state, curr_vcpu, hardware>>
    ELSE /\ active_cpu[v] = c
         /\ vmclear(c, v)
         /\ active_cpu' = [active_cpu EXCEPT ![v] = NULL]
         /\ launch_state' = [launch_state EXCEPT ![v] = "CLEAR"]
         /\ UNCHANGED curr_vcpu

\* vmx_clear_vcpu and __vmx_clear_vcpu, on the CPU v is active on.
vmx_clear_vcpu(c, v) ==
    IF active_cpu[v] = NULL
    THEN UNCHANGED <<active_cpu, launch_state, curr_vcpu, hardware>>
    ELSE /\ active_cpu[v] = c
         /\ vmclear(c, v)
         /\ active_cpu' = [active_cpu EXCEPT ![v] = NULL]
         /\ launch_state' = [launch_state EXCEPT ![v] = "CLEAR"]
         /\ curr_vcpu' = [curr_vcpu EXCEPT ![c] = IF @ = v THEN NULL ELSE @]
-----------------------------------------------------------------------------
\* The vCPU create_vm is working on, and the next one or the next stage.
Current == Vms[vm][nth]
Creating(s) == pc[BSP] = "create" /\ stage = s

Advance(next) ==
    LET last == nth = Len(Vms[vm])
    IN  /\ stage' = IF last THEN next ELSE stage
        /\ nth' = IF last THEN 1 ELSE nth + 1
        /\ UNCHANGED <<vm, home>>

\* allocate_vcpu and vmx_vcpu_allocate; the new VMCS is cleared.
AllocateVcpu ==
    /\ Creating("allocate")
    /\ vmclear(BSP, Current)
    /\ vcpu_state' = [vcpu_state EXCEPT ![Current] = "CREATED"]
    /\ launch_state' = [launch_state EXCEPT ![Current] = "CLEAR"]
    /\ Advance("prepare")
    /\ UNCHANGED <<active_cpu, curr_vcpu, killed, vmcs, pc, running>>

\* vmx_destroy_vcpu for the vCPUs of set s, none of which is active.
Destroy(s) ==
    /\ \A v \in s : active_cpu[v] = NULL
    /\ vcpu_state' = [v \in Vcpu |-> IF v \in s THEN "none" ELSE vcpu_state[v]]

\* The error path of allocate_vm destroys all but the last vCPU allocated;
\* create_vm returns NULL, which hypervisor_main dereferences.
AllocateVcpuFails ==
    /\ Creating("allocate")
    /\ Destroy({Vms[vm][i] : i \in 1 .. (nth - 2)})
    /\ Die(BSP)
    /\ UNCHANGED <<active_cpu, launch_state, curr_vcpu, killed, hardware, vmcs, creation, running>>

\* MSR bitmap, guest memory, devices and APIC pages of the VM.
PrepareEnvironment ==
    /\ Creating("prepare")
    /\ stage' = "init"
    /\ UNCHANGED <<software, hardware, vmcs, vm, nth, home, pc, running>>

\* One of them fails: destroy_vm, except after the devices.
PrepareEnvironmentFails ==
    /\ Creating("prepare")
    /\ Destroy({Vms[vm][i] : i \in DOMAIN Vms[vm]}) \/ Destroy({})
    /\ Die(BSP)
    /\ UNCHANGED <<active_cpu, launch_state, curr_vcpu, killed, hardware, vmcs, creation, running>>

\* vmx_initialize_vmcs_area writes the groups; the host state is that of the BSP.
InitVmcs(groups) ==
    /\ Creating("init")
    /\ vmx_make_vcpu_current(BSP, Current)
    /\ vmwrite(BSP, groups)
    /\ host' = [v \in Vcpu |-> IF hw_current'[BSP] = v THEN HostState(BSP) ELSE host[v]]
    /\ Advance("load")
    /\ UNCHANGED <<vcpu_state, launch_state, killed, pc, running>>

InitVmcsDone == InitVmcs({"controls", "host", "defaults", "rsp"})

\* setup_exit_handler finds no stack: the rest is skipped, but 0 is returned.
InitVmcsWithoutStack == InitVmcs({"controls", "host"})

\* No memory for the policy, or the loader fails.
CreationDies ==
    /\ Creating("load") \/ Creating("init")
    /\ Die(BSP)
    /\ UNCHANGED <<software, hardware, vmcs, creation, running>>

\* load_linux_32bit_direct_boot_for_vm
LoadGuest ==
    /\ Creating("load")
    /\ stage' = "registers"
    /\ UNCHANGED <<software, hardware, vmcs, vm, nth, home, pc, running>>

\* set_vcpu_reg_state.  It refuses paging without protected mode and segments that
\* cannot be loaded; the two fixed states it is called with have neither.
SetRegisters ==
    /\ Creating("registers")
    /\ vmx_make_vcpu_current(BSP, Current)
    /\ vmwrite(BSP, {"registers"})
    /\ Advance("ready")
    /\ UNCHANGED <<vcpu_state, launch_state, killed, host, pc, running>>

\* After the last vCPU of a VM the next VM is created, or all are submitted.
NextAfterReady ==
    LET last == nth = Len(Vms[vm])
    IN  /\ nth' = IF last THEN 1 ELSE nth + 1
        /\ vm' = IF ~last THEN vm ELSE IF vm < Len(Vms) THEN vm + 1 ELSE 1
        /\ stage' = IF ~last THEN "ready" ELSE IF vm < Len(Vms) THEN "allocate" ELSE "submit"
        /\ UNCHANGED home

\* Mutant: the vCPU is declared ready without clearing its VMCS.
ReadyWithoutClear ==
    /\ Creating("ready")
    /\ vcpu_state' = [vcpu_state EXCEPT ![Current] = "READY"]
    /\ active_cpu' = [active_cpu EXCEPT ![Current] = NULL]
    /\ NextAfterReady
    /\ UNCHANGED <<launch_state, curr_vcpu, killed, hardware, vmcs, pc, running>>

MakeReady ==
    /\ Creating("ready")
    /\ vmx_clear_vcpu(BSP, Current)
    /\ vcpu_state' = [vcpu_state EXCEPT ![Current] = "READY"]
    /\ NextAfterReady
    /\ UNCHANGED <<killed, vmcs, pc, running>>

\* sched_submit_vm for every VM: the scheduler spreads the vCPUs over the CPUs
\* that are online by then (module Sched has the order).
SubmitVcpu(c) ==
    LET last == nth = Len(Vms[vm])
        end == last /\ vm = Len(Vms)
    IN  /\ Creating("submit")
        /\ c \in cpumask
        /\ home' = [home EXCEPT ![Current] = c]
        /\ nth' = IF last THEN 1 ELSE nth + 1
        /\ vm' = IF last /\ ~end THEN vm + 1 ELSE vm
        /\ stage' = IF end THEN "done" ELSE "submit"
        /\ pc' = IF end THEN [pc EXCEPT ![BSP] = "sched"] ELSE pc
        /\ UNCHANGED <<software, hardware, vmcs, running>>
-----------------------------------------------------------------------------
\* vmx_execute_vcpu: make the vCPU current, and put HOST_RSP on this stack.
ExecuteVcpu(c, v) ==
    /\ pc[c] = "sched"
    /\ home[v] = c
    /\ vcpu_state[v] = "READY"
    /\ vmx_make_vcpu_current(c, v)
    /\ vmwrite(c, {"rsp"})
    /\ pc' = [pc EXCEPT ![c] = "enter"]
    /\ running' = [running EXCEPT ![c] = v]
    /\ UNCHANGED <<cpu_vars, vcpu_state, launch_state, killed, host, creation>>

\* __vmx_entry_helper
EntryHelper(c) ==
    /\ pc[c] = "enter"
    /\ vcpu_state' = [vcpu_state EXCEPT ![running[c]] = "RUNNING"]
    /\ pc' = [pc EXCEPT ![c] = "instruction"]
    /\ UNCHANGED <<cpu_vars, active_cpu, launch_state, curr_vcpu, killed, hardware, vmcs,
                   creation, running>>

\* The instruction entry.S chooses: vmlaunch or vmresume, for the current VMCS.
\* Its third branch is for a launch state that is neither, and no code sets one.
Instruction(c) == IF launch_state[running[c]] = "CLEAR" THEN "vmlaunch" ELSE "vmresume"

\* The processor's checks of the instruction and of the fields.
InstructionFits(c) ==
    /\ c \in vmx_on /\ hw_current[c] # NULL
    /\ hw_launch[hw_current[c]] = IF Instruction(c) = "vmlaunch" THEN "CLEAR" ELSE "LAUNCHED"

EnterGuest(c) ==
    /\ pc[c] = "instruction"
    /\ InstructionFits(c)
    /\ written[hw_current[c]] = Groups
    /\ hw_launch' = [hw_launch EXCEPT ![hw_current[c]] = "LAUNCHED"]
    /\ pc' = [pc EXCEPT ![c] = "guest"]
    /\ UNCHANGED <<cpu_vars, software, hw_current, hw_active, vmcs, creation, running>>

\* arch_launch_vcpu gets an error: the task is killed, the scheduler goes on.
KillVcpu(c) ==
    /\ vcpu_state' = [vcpu_state EXCEPT ![running[c]] = "NOT_RUNNING"]
    /\ killed' = killed \cup {running[c]}
    /\ pc' = [pc EXCEPT ![c] = "sched"]
    /\ running' = [running EXCEPT ![c] = NULL]

\* The instruction fails and execution goes on behind it: .Lout.
EntryRefused(c) ==
    /\ pc[c] = "instruction"
    /\ KillVcpu(c)
    /\ UNCHANGED <<cpu_vars, active_cpu, launch_state, curr_vcpu, hardware, vmcs, creation>>

\* An exit loads the host state of the VMCS.
LoadHostState(c) ==
    /\ cr3' = [cr3 EXCEPT ![c] = host[hw_current[c]].cr3]
    /\ tables' = [tables EXCEPT ![c] = host[hw_current[c]].tables]
    /\ UNCHANGED <<cpu_state, cpumask, mask_read, raw_shared_cr3, apic_in, x2apic, vmx_on>>

\* The processor rejects the guest state: an exit with vm_entry_failure, for
\* which the exit handler sets the launch state as for any other.
EntryFailure(c) ==
    /\ pc[c] = "instruction"
    /\ InstructionFits(c)
    /\ {"controls", "host", "rsp"} \subseteq written[hw_current[c]]
    /\ launch_state' = [launch_state EXCEPT ![running[c]] = "LAUNCHED"]
    /\ KillVcpu(c)
    /\ LoadHostState(c)
    /\ UNCHANGED <<active_cpu, curr_vcpu, hardware, vmcs, creation>>

\* Mutant: the exit handler does not record that the VMCS is launched.
ExitKeepsLaunchState(c) ==
    /\ pc[c] = "guest"
    /\ vcpu_state' = [vcpu_state EXCEPT ![running[c]] = "NOT_RUNNING"]
    /\ pc' = [pc EXCEPT ![c] = "enter"]
    /\ LoadHostState(c)
    /\ UNCHANGED <<active_cpu, launch_state, curr_vcpu, killed, hardware, vmcs, creation, running>>

\* vmx_vm_exit_handler, and back to the entry.
VmExit(c) ==
    /\ pc[c] = "guest"
    /\ launch_state' = [launch_state EXCEPT ![running[c]] = "LAUNCHED"]
    /\ vcpu_state' = [vcpu_state EXCEPT ![running[c]] = "NOT_RUNNING"]
    /\ pc' = [pc EXCEPT ![c] = "enter"]
    /\ LoadHostState(c)
    /\ UNCHANGED <<active_cpu, curr_vcpu, killed, hardware, vmcs, creation, running>>

\* An exit reason the handler does not know.
VmExitUnknown(c) ==
    /\ pc[c] = "guest"
    /\ launch_state' = [launch_state EXCEPT ![running[c]] = "LAUNCHED"]
    /\ vcpu_state' = [vcpu_state EXCEPT ![running[c]] = "NOT_RUNNING"]
    /\ Die(c)
    /\ LoadHostState(c)
    /\ UNCHANGED <<active_cpu, curr_vcpu, killed, hardware, vmcs, creation, running>>

Create ==
    \/ AllocateVcpu \/ AllocateVcpuFails \/ PrepareEnvironment \/ PrepareEnvironmentFails
    \/ InitVmcsDone \/ InitVmcsWithoutStack \/ CreationDies \/ LoadGuest \/ SetRegisters
    \/ MakeReady \/ \E c \in Cpu : SubmitVcpu(c)

Run(c) ==
    \/ \E v \in Vcpu : ExecuteVcpu(c, v)
    \/ EntryHelper(c) \/ EnterGuest(c) \/ EntryRefused(c) \/ EntryFailure(c)
    \/ VmExit(c) \/ VmExitUnknown(c)

Next ==
    \/ SetupNext /\ UNCHANGED <<software, hardware, vmcs, creation, running>>
    \/ Create /\ UNCHANGED cpu_vars
    \/ \E c \in Cpu : Run(c)

Spec == Init /\ [][Next]_vars
-----------------------------------------------------------------------------
\* A VMCS is active on one CPU at most, and the code knows which one: a vCPU
\* created on the BSP may run elsewhere only because its VMCS was cleared there.
ActiveWhereBelieved ==
    \A v \in Vcpu : hw_active[v] = IF active_cpu[v] = NULL THEN {} ELSE {active_cpu[v]}

\* vmread and vmwrite reach the right VMCS: curr_vcpu is the VMCS that is
\* current on the processor, and while a CPU executes a vCPU it is that vCPU's.
CurrentIsOwn ==
    \A c \in Cpu : /\ hw_current[c] = curr_vcpu[c]
                   /\ running[c] # NULL => hw_current[c] = running[c]

\* The entry path never picks the wrong instruction: vmlaunch meets a clear
\* VMCS and vmresume a launched one, however often the guest exited before,
\* and whichever vCPU failed on this CPU before.
LaunchStateFits == \A c \in Cpu : pc[c] = "instruction" => InstructionFits(c)

\* Creation writes every vCPU's fields into its own VMCS, although it switches
\* between them: what a ready one lacks is what setup_exit_handler, without a
\* stack, made vmx_initialize_vmcs_area skip.
NoFieldsAstray ==
    \A v \in Vcpu : vcpu_state[v] = "READY" /\ home[v] = NULL
                    => /\ {"controls", "host", "registers"} \subseteq written[v]
                       /\ "defaults" \in written[v] <=> "rsp" \in written[v]
=============================================================================
