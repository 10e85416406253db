------------------------------ MODULE RunQueues ------------------------------
(***************************************************************************)
(* What the scheduler promises: every vCPU is submitted once, to one CPU;  *)
(* a CPU runs the vCPUs submitted to it one at a time, in the order of     *)
(* their submission.  Sched implements this specification.                 *)
(***************************************************************************)
EXTENDS Sequences

CONSTANTS Cpu, Vcpu, None

VARIABLES ready,      \* per CPU: submitted vCPUs that have not run yet, in order
          running,    \* per CPU: the vCPU it runs, or None
          fresh       \* vCPUs not yet submitted

vars == <<ready, running, fresh>>

Init ==
    /\ ready = [c \in Cpu |-> <<>>]
    /\ running = [c \in Cpu |-> None]
    /\ fresh = Vcpu

Submit(c, v) ==
    /\ v \in fresh
    /\ fresh' = fresh \ {v}
    /\ ready' = [ready EXCEPT ![c] = Append(@, v)]
    /\ UNCHANGED running

Dispatch(c) ==
    /\ running[c] = None
    /\ ready[c] # <<>>
    /\ running' = [running EXCEPT ![c] = Head(ready[c])]
    /\ ready' = [ready EXCEPT ![c] = Tail(@)]
    /\ UNCHANGED fresh

\* The vCPU cannot continue and is not scheduled again.
Finish(c) ==
    /\ running[c] # None
    /\ running' = [running EXCEPT ![c] = None]
    /\ UNCHANGED <<ready, fresh>>

Next == \E c \in Cpu : Dispatch(c) \/ Finish(c) \/ \E v \in Vcpu : Submit(c, v)

Spec == Init /\ [][Next]_vars
=============================================================================
