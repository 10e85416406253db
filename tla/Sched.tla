------------------------------- MODULE Sched -------------------------------
(***************************************************************************)
(* AP bring-up (setup.c), the per-CPU scheduler loop and the submission of *)
(* vCPUs (sched.c), and the kick IPI between them (vmm.c).                 *)
(*                                                                         *)
(* The BSP starts the APs, submits every vCPU and enters the scheduler     *)
(* loop; an AP registers itself and enters the loop.  A section under one  *)
(* spinlock is one step, except that the cpu->lock section of __schedule   *)
(* contains a tq->lock section that submissions interleave with, so        *)
(* cpu->lock is a variable.  A NULL dereference stops the CPU: the step is *)
(* not enabled.  A vCPU that runs for ever and one whose exit ends in      *)
(* NOT_YET_IMPLEMENTED are the same to the scheduler: the launch does not  *)
(* return.  No code sets TASK_BLOCKED, so the blocked list stays empty.    *)
(***************************************************************************)
EXTENDS List, Integers

CONSTANTS
    NrCpus,       \* the cpuids are 0 .. NrCpus - 1
    Submissions,  \* the vCPUs of all VMs, in the order hypervisor_main submits them
    MayFail,      \* vCPUs whose execution may end with an error
    DeviceIrqs,   \* CPUs that take device interrupts: the BSP, or none
    idle_task     \* the one static sched_unit all CPUs idle with

Cpu == 0 .. (NrCpus - 1)
BSP == 0
INVALID_CPUID == -1
Vcpu == {Submissions[i] : i \in DOMAIN Submissions}
Node == Cpu \cup Vcpu \cup {idle_task}    \* a cpuid stands for &tq->runnable_tasks

ASSUME SchedAssumption ==
    /\ NrCpus \in Nat \ {0}
    /\ Cardinality(Vcpu) = Len(Submissions)
    /\ MayFail \subseteq Vcpu
    /\ DeviceIrqs \subseteq {BSP}
    /\ {idle_task, NULL} \cap (Vcpu \cup Cpu) = {} /\ idle_task # NULL

VARIABLES
    pc,            \* where each CPU is
    cpu_state,     \* cpu->state
    cpu_lock,      \* cpu->lock is held by __schedule
    cpumask,       \* set of CPUs registered as online
    mask_read,     \* per CPU: the cpumask register_cpu_online has read
    links,         \* the runnable lists of all task queues
    task_state,    \* schedu->state
    current,       \* the task __schedule has picked; tq->current once it is launched
    kick,          \* per CPU: a kick IPI is pending in its local APIC
    prev_submission_tq_cpuid,
    submitted,     \* vCPUs submitted so far
    target         \* target_cpu of the submission under way

bringup == <<cpumask, mask_read>>
submission == <<prev_submission_tq_cpuid, submitted, target>>
vars == <<pc, cpu_state, cpu_lock, bringup, links, task_state, current, kick, submission>>
-----------------------------------------------------------------------------
\* map_cpu_topology, init_task_queues, arch_setup_bsp; the vCPUs are allocated.
Init ==
    /\ pc = [c \in Cpu |-> IF c = BSP THEN "boot" ELSE "off"]
    /\ cpu_state = [c \in Cpu |-> IF c = BSP THEN "CPU_INIT" ELSE "CPU_NOT_INIT"]
    /\ cpu_lock = [c \in Cpu |-> FALSE]
    /\ cpumask = {BSP}
    /\ mask_read = [c \in Cpu |-> {}]
    /\ links = InitLinks(Node, Cpu \cup Vcpu)
    /\ task_state = [t \in Vcpu \cup {idle_task} |-> "TASK_RUNNABLE"]
    /\ current = [c \in Cpu |-> NULL]
    /\ kick = [c \in Cpu |-> FALSE]
    /\ prev_submission_tq_cpuid = INVALID_CPUID
    /\ submitted = 0
    /\ target = INVALID_CPUID

\* arch_bringup_aps_limine; the VMs are created meanwhile, and
\* wait_until_aps_online does not wait.
BringUpAps ==
    /\ pc[BSP] = "boot"
    /\ pc' = [c \in Cpu |-> IF c = BSP THEN "submit" ELSE "setup"]
    /\ UNCHANGED <<cpu_state, cpu_lock, bringup, links, task_state, current, kick, submission>>

\* error_terminate of arch_setup_ap
ApFails(c) ==
    /\ pc[c] = "setup"
    /\ cpu_state' = [cpu_state EXCEPT ![c] = "CPU_UNAVAILABLE"]
    /\ pc' = [pc EXCEPT ![c] = "dead"]
    /\ UNCHANGED <<cpu_lock, bringup, links, task_state, current, kick, submission>>

\* register_cpu_online updates the shared mask without a lock: it reads ...
RegisterReadsMask(c) ==
    /\ pc[c] = "setup"
    /\ cpu_state' = [cpu_state EXCEPT ![c] = "CPU_INIT"]
    /\ mask_read' = [mask_read EXCEPT ![c] = cpumask]
    /\ pc' = [pc EXCEPT ![c] = "register"]
    /\ UNCHANGED <<cpu_lock, cpumask, links, task_state, current, kick, submission>>

\* ... and writes.
RegisterWritesMask(c) ==
    /\ pc[c] = "register"
    /\ cpumask' = mask_read[c] \cup {c}
    /\ mask_read' = [mask_read EXCEPT ![c] = {}]
    /\ pc' = [pc EXCEPT ![c] = "sched"]
    /\ UNCHANGED <<cpu_state, cpu_lock, links, task_state, current, kick, submission>>
-----------------------------------------------------------------------------
get_next_cpuid_in_mask(mask, offset) ==
    LET above == {c \in mask : c >= offset}
    IN  IF above = {} THEN INVALID_CPUID ELSE CHOOSE c \in above : \A d \in above : c <= d

get_next_submission_tq_cpuid ==
    LET next == get_next_cpuid_in_mask(cpumask, prev_submission_tq_cpuid + 1)
    IN  IF next = INVALID_CPUID THEN get_next_cpuid_in_mask(cpumask, 0) ELSE next

\* tq_submit_task: only a killed task is not queued again.
tq_submit_task(c, t) ==
    links' = IF task_state[t] = "TASK_KILLED" THEN links ELSE list_add_tail(links, c, t)

\* sched_submit_vm, first half: the next vCPU goes to the next CPU's queue.
SubmitTask ==
    LET cpuid == get_next_submission_tq_cpuid
    IN  /\ pc[BSP] = "submit"
        /\ submitted < Len(Submissions)
        /\ prev_submission_tq_cpuid' = cpuid
        /\ target' = cpuid
        /\ tq_submit_task(cpuid, Submissions[submitted + 1])
        /\ submitted' = submitted + 1
        /\ pc' = [pc EXCEPT ![BSP] = "kick"]
        /\ UNCHANGED <<cpu_state, cpu_lock, bringup, task_state, current, kick>>

\* Mutant: the state of the target is read without its lock.
KickWithoutLock ==
    /\ pc[BSP] = "kick"
    /\ kick' = [kick EXCEPT ![target] = @ \/ cpu_state[target] = "CPU_IDLE"]
    /\ target' = INVALID_CPUID
    /\ pc' = [pc EXCEPT ![BSP] = "submit"]
    /\ UNCHANGED <<cpu_state, cpu_lock, bringup, links, task_state, current,
                   prev_submission_tq_cpuid, submitted>>

\* sched_submit_vm, second half: under the target's cpu->lock, kick it if it idles.
KickIfIdle ==
    /\ pc[BSP] = "kick"
    /\ ~cpu_lock[target]
    /\ kick' = [kick EXCEPT ![target] = @ \/ cpu_state[target] = "CPU_IDLE"]
    /\ target' = INVALID_CPUID
    /\ pc' = [pc EXCEPT ![BSP] = "submit"]
    /\ UNCHANGED <<cpu_state, cpu_lock, bringup, links, task_state, current,
                   prev_submission_tq_cpuid, submitted>>

EnterScheduleLoop ==
    /\ pc[BSP] = "submit"
    /\ submitted = Len(Submissions)
    /\ pc' = [pc EXCEPT ![BSP] = "sched"]
    /\ UNCHANGED <<cpu_state, cpu_lock, bringup, links, task_state, current, kick, submission>>
-----------------------------------------------------------------------------
\* Mutant: the task that is picked stays in the queue.
PickWithoutRemoval(c) ==
    /\ pc[c] = "sched"
    /\ ~cpu_lock[c]
    /\ cpu_lock' = [cpu_lock EXCEPT ![c] = TRUE]
    /\ current' = [current EXCEPT ![c] = list_first_entry_nullable(links, c)]
    /\ pc' = [pc EXCEPT ![c] = "picked"]
    /\ UNCHANGED <<cpu_state, bringup, links, task_state, kick, submission>>

\* __schedule: take cpu->lock, then the first task of the queue (tq_get_next_task).
GetNextTask(c) ==
    LET next == list_first_entry_nullable(links, c)
    IN  /\ pc[c] = "sched"
        /\ ~cpu_lock[c]
        /\ cpu_lock' = [cpu_lock EXCEPT ![c] = TRUE]
        /\ next # NULL => Removable(links, next)
        /\ links' = IF next = NULL THEN links ELSE list_remove_head(links, c)
        /\ current' = [current EXCEPT ![c] = next]
        /\ pc' = [pc EXCEPT ![c] = "picked"]
        /\ UNCHANGED <<cpu_state, bringup, task_state, kick, submission>>

\* An empty queue makes the CPU idle; release cpu->lock and launch the task.
Launch(c) ==
    LET task == IF current[c] = NULL THEN idle_task ELSE current[c]
    IN  /\ pc[c] = "picked"
        /\ cpu_state' = IF current[c] = NULL THEN [cpu_state EXCEPT ![c] = "CPU_IDLE"]
                        ELSE cpu_state
        /\ cpu_lock' = [cpu_lock EXCEPT ![c] = FALSE]
        /\ current' = [current EXCEPT ![c] = task]
        /\ task_state' = [task_state EXCEPT ![task] = "TASK_RUNNING"]
        /\ pc' = [pc EXCEPT ![c] = IF task = idle_task THEN "halted" ELSE "guest"]
        /\ UNCHANGED <<bringup, links, kick, submission>>

\* do_idle: hlt ends with a kick or a device interrupt.
WakeUp(c) ==
    /\ pc[c] = "halted"
    /\ kick[c] \/ c \in DeviceIrqs
    /\ kick' = [kick EXCEPT ![c] = FALSE]
    /\ pc' = [pc EXCEPT ![c] = "return"]
    /\ UNCHANGED <<cpu_state, cpu_lock, bringup, links, task_state, current, submission>>

\* arch_launch_vcpu: a kick only makes the guest exit and resume.
KickInGuest(c) ==
    /\ pc[c] = "guest"
    /\ kick[c]
    /\ kick' = [kick EXCEPT ![c] = FALSE]
    /\ UNCHANGED <<pc, cpu_state, cpu_lock, bringup, links, task_state, current, submission>>

\* arch_launch_vcpu returns only with an error, and kills the task.
VcpuFails(c) ==
    /\ pc[c] = "guest"
    /\ current[c] \in MayFail
    /\ task_state' = [task_state EXCEPT ![current[c]] = "TASK_KILLED"]
    /\ pc' = [pc EXCEPT ![c] = "return"]
    /\ UNCHANGED <<cpu_state, cpu_lock, bringup, links, current, kick, submission>>

\* __schedule after the launch: the CPU is not idle any more.
LeaveIdle(c) ==
    /\ pc[c] = "return"
    /\ ~cpu_lock[c]
    /\ cpu_state' = [cpu_state EXCEPT ![c] = "CPU_INIT"]
    /\ pc' = [pc EXCEPT ![c] = "requeue"]
    /\ UNCHANGED <<cpu_lock, bringup, links, task_state, current, kick, submission>>

\* tq_re_enqueue_task, and a window in which a pending kick may be taken.
ReEnqueue(c) ==
    /\ pc[c] = "requeue"
    /\ tq_submit_task(c, current[c])
    /\ current' = [current EXCEPT ![c] = NULL]
    /\ \E k \in {kick[c], FALSE} : kick' = [kick EXCEPT ![c] = k]
    /\ pc' = [pc EXCEPT ![c] = "sched"]
    /\ UNCHANGED <<cpu_state, cpu_lock, bringup, task_state, submission>>

\* What a CPU does of its own accord, without a guest failing or a device.
Step(c) ==
    \/ RegisterReadsMask(c) \/ RegisterWritesMask(c)
    \/ GetNextTask(c) \/ Launch(c) \/ LeaveIdle(c) \/ ReEnqueue(c)
    \/ kick[c] /\ WakeUp(c)
    \/ KickInGuest(c)

BspStep == BringUpAps \/ SubmitTask \/ KickIfIdle \/ EnterScheduleLoop

Next == BspStep \/ \E c \in Cpu : Step(c) \/ ApFails(c) \/ WakeUp(c) \/ VcpuFails(c)

\* Every CPU keeps executing, and a pending IPI is delivered.
Spec == Init /\ [][Next]_vars /\ WF_vars(BspStep) /\ \A c \in Cpu : WF_vars(Step(c))
-----------------------------------------------------------------------------
\* The vCPUs in the runnable list of CPU c, in order.
Waiting(c) == SelectSeq(Entries(links, c), LAMBDA t : t \in Vcpu)

Running(v, c) == current[c] = v /\ pc[c] \in {"picked", "guest"}
Submitted == {Submissions[i] : i \in 1 .. submitted}

(* __schedule re-enqueues the idle task like any other.  The properties from *)
(* here to ImplementsFifo hold while that does no harm: on two CPUs, when    *)
(* the only vCPU that may fail is the first, which the BSP runs after its    *)
(* last submission.  They do not hold in general.  If a vCPU fails on an AP  *)
(* during the submissions, the AP may take the idle task from its queue and  *)
(* halt without CPU_IDLE, and no kick follows; if the idle task is in the    *)
(* queues of two CPUs, their lists are joined (TaskFixedToOneCpu).           *)

\* sched.c, sched_submit_vm: "Wake up an idling cpu so that it attempts to
\* schedule a new task".  A CPU does not stay halted with a vCPU in its queue:
\* a kick is pending, or the submitter is about to look at the CPU's state.
NoLostWakeup ==
    \A c \in Cpu : pc[c] = "halted" /\ Waiting(c) # <<>> => kick[c] \/ target = c

\* A submitted vCPU that is not killed is in exactly one place: in the queue of
\* one CPU, once, or running on one CPU.  Over submissions, wake-ups and
\* re-enqueues the pointers of every runnable list stay inverse to each other,
\* as long as one CPU at a time has the idle task in its list.
EveryVcpuAccounted ==
    LET waiting == [c \in Cpu |-> Waiting(c)]
        places(v) == {<<c, i>> \in Cpu \X (1 .. Len(Submissions)) :
                         i \in DOMAIN waiting[c] /\ waiting[c][i] = v}
                     \cup {<<c, 0>> : c \in {d \in Cpu : Running(v, d)}}
    IN  /\ \A c \in Cpu : IsWellFormed(links, c)
        /\ \A v \in Submitted :
              task_state[v] # "TASK_KILLED" => Cardinality(places(v)) = 1

\* A CPU that has vCPUs in its queue comes to run one.
QueuedVcpuRuns == \A c \in Cpu : Waiting(c) # <<>> ~> pc[c] = "guest"

\* The linked lists, the shared idle task, the locks and the kicks implement
\* first-in first-out run queues.
Fifo == INSTANCE RunQueues WITH
    None <- NULL,
    ready <- [c \in Cpu |-> Waiting(c)],
    running <- [c \in Cpu |-> IF \E v \in Vcpu : Running(v, c) THEN current[c] ELSE NULL],
    fresh <- Vcpu \ Submitted
ImplementsFifo == Fifo!Spec

\* sched.c, set_task_state: "every task is fixed to run on one specific cpu".
\* No task is in the queues of two CPUs.
TaskFixedToOneCpu ==
    LET queue == [c \in Cpu |-> {Waiting(c)[i] : i \in DOMAIN Waiting(c)}]
    IN  \A c, d \in Cpu : c # d => queue[c] \cap queue[d] = {}
=============================================================================
