------------------------------- MODULE Timer -------------------------------
(***************************************************************************)
(* The software timers of one CPU (timer.c): a min-heap of deadlines in an *)
(* array, the hardware TSC-deadline timer armed for its root, and the      *)
(* interrupt handler that fires what is due.                               *)
(*                                                                         *)
(* The heap is per CPU and only touched with interrupts disabled, so the   *)
(* CPU goes through add_timer and the handler without another thread in    *)
(* between; but time goes on and the hardware timer may expire.  A step is *)
(* one iteration of heapify_up, of heapify_down or of the handler's loop,  *)
(* or what lies between two of them.  A timer_action leaves the heap alone.*)
(***************************************************************************)
EXTENDS Integers

CONSTANTS
    Timers,       \* the struct timers that may be allocated
    Ticks,        \* ticks to a timer's deadline, from its initialisation or from 0; its period
    Periodic,     \* timers of type TIMER_PERIODIC
    Capacity,     \* INIT_TIMER_HEAP_CAPACITY
    MaxTsc,       \* bound on the time stamp counter
    NoTimer

ASSUME TimerAssumption ==
    /\ Periodic \subseteq Timers /\ NoTimer \notin Timers
    /\ Ticks \in [Timers -> Nat] /\ \A t \in Periodic : Ticks[t] > 0
    /\ Capacity \in Nat \ {0, 1} /\ MaxTsc \in Nat

Index == 1 .. (Capacity - 1)
HEAP_ROOT_INDEX == 1
Disarmed == 0

VARIABLES
    tsc,
    flattened_tree,    \* [Index -> timer]; stale entries, never used, are NoTimer
    insertion_idx,
    elapse_deadline,   \* per timer
    status,            \* per timer: "free", "new" (initialised), "queued" or "done"
    hw,                \* value of the TSC-deadline MSR
    irq,               \* a timer interrupt is pending
    pc,                \* the CPU runs a "thread" or the timer "handler"
    loop,              \* the loop of timer.c it is in: "up", "down" or "none"
    idx,               \* the node that loop is at
    timer              \* the timer that is added, or that has fired

heap == <<flattened_tree, insertion_idx>>
sift == <<loop, idx, timer>>
vars == <<tsc, heap, elapse_deadline, status, hw, irq, pc, sift>>

\* init_timer_heap; the TSC is running.
Init ==
    /\ tsc = 1
    /\ flattened_tree = [i \in Index |-> NoTimer]
    /\ insertion_idx = HEAP_ROOT_INDEX
    /\ elapse_deadline = [t \in Timers |-> 0]
    /\ status = [t \in Timers |-> "free"]
    /\ hw = Disarmed
    /\ irq = FALSE
    /\ pc = "thread"
    /\ loop = "none" /\ idx = HEAP_ROOT_INDEX /\ timer = NoTimer
-----------------------------------------------------------------------------
heap_swap(i, j) ==
    flattened_tree' = [flattened_tree EXCEPT ![i] = flattened_tree[j], ![j] = flattened_tree[i]]

Deadline(i) == elapse_deadline[flattened_tree[i]]
Root == flattened_tree[HEAP_ROOT_INDEX]
HeapEmpty == insertion_idx <= HEAP_ROOT_INDEX
heap_max_idx == insertion_idx - 1

\* The CPU executes a thread, or the handler's own loop.
Running(what) == pc = what /\ loop = "none"

Return ==
    /\ loop' = "none"
    /\ idx' = HEAP_ROOT_INDEX
    /\ timer' = NoTimer

\* heap_add_timer up to heapify_up: the new timer is the last node.
AppendTimer(t) ==
    /\ insertion_idx < Capacity
    /\ flattened_tree' = [flattened_tree EXCEPT ![insertion_idx] = t]
    /\ loop' = "up"
    /\ idx' = insertion_idx
    /\ timer' = t
    /\ UNCHANGED insertion_idx

-----------------------------------------------------------------------------
(* heapify_up, with the end of heap_add_timer and of add_timer *)

\* The loop goes on: the node has a parent that is due later.
Rises == idx \div 2 > 0 /\ Deadline(idx \div 2) > Deadline(idx)

heapify_up ==
    /\ loop = "up" /\ Rises
    /\ heap_swap(idx, idx \div 2)
    /\ idx' = idx \div 2
    /\ UNCHANGED <<tsc, insertion_idx, elapse_deadline, status, hw, irq, pc, loop, timer>>

\* Mutant: the hardware timer is only programmed for the first timer.
ReprogramOnlyFirst ==
    IF insertion_idx = HEAP_ROOT_INDEX THEN elapse_deadline[timer] ELSE hw

\* add_timer arms the hardware if the new timer is at the root, or ties with it.
Reprogrammed ==
    IF elapse_deadline[Root] = elapse_deadline[timer] THEN elapse_deadline[timer] ELSE hw

TimerAdded ==
    /\ loop = "up" /\ ~ Rises
    /\ insertion_idx' = insertion_idx + 1
    /\ hw' = Reprogrammed
    /\ status' = [status EXCEPT ![timer] = "queued"]
    /\ Return
    /\ UNCHANGED <<tsc, flattened_tree, elapse_deadline, irq, pc>>

-----------------------------------------------------------------------------
(* delete_root, with heapify_down *)

\* The last node takes the place of the root.
delete_root ==
    /\ flattened_tree' = [flattened_tree EXCEPT
                            ![HEAP_ROOT_INDEX] = flattened_tree[heap_max_idx],
                            ![heap_max_idx] = NoTimer]
    /\ insertion_idx' = heap_max_idx
    /\ loop' = "down"
    /\ idx' = HEAP_ROOT_INDEX

Smaller(i, j) == IF i <= heap_max_idx /\ Deadline(i) < Deadline(j) THEN i ELSE j

\* Mutant: only the left child is looked at.
LargestLeft == Smaller(2 * idx, idx)

\* In the code, too, largest is the node with the least deadline.
largest == Smaller(2 * idx + 1, Smaller(2 * idx, idx))

heapify_down ==
    /\ loop = "down" /\ largest # idx
    /\ heap_swap(idx, largest)
    /\ idx' = largest
    /\ UNCHANGED <<tsc, insertion_idx, elapse_deadline, status, hw, irq, pc, loop, timer>>

\* delete_root returns: a periodic timer is added again, for which there is room.
RootDeleted ==
    /\ loop = "down" /\ largest = idx
    /\ \/ /\ timer \in Periodic
          /\ elapse_deadline' = [elapse_deadline EXCEPT ![timer] = @ + Ticks[timer]]
          /\ AppendTimer(timer)
       \/ /\ timer \notin Periodic
          /\ Return
          /\ UNCHANGED <<heap, elapse_deadline>>
    /\ UNCHANGED <<tsc, status, hw, irq, pc>>

-----------------------------------------------------------------------------
\* __init_timer; without memory for a struct timer nothing happens.
InitTimer(t, deadline) ==
    /\ Running("thread")
    /\ status[t] = "free"
    /\ elapse_deadline' = [elapse_deadline EXCEPT ![t] = deadline]
    /\ status' = [status EXCEPT ![t] = "new"]
    /\ UNCHANGED <<tsc, heap, hw, irq, pc, sift>>

\* init_timer_ns and init_timer_hz: the deadline counts from now.
InitTimerTicks(t) == InitTimer(t, tsc + Ticks[t])

\* init_timer_deadline: the deadline is given, and may be over.  Not 0, which
\* would disarm the hardware timer.
InitTimerDeadline(t) == t \notin Periodic /\ Ticks[t] # Disarmed /\ InitTimer(t, Ticks[t])

\* add_timer up to its loop; without room it changes nothing.
AddTimer(t) ==
    /\ Running("thread")
    /\ status[t] = "new"
    /\ AppendTimer(t)
    /\ UNCHANGED <<tsc, elapse_deadline, status, hw, irq, pc>>

\* Time passes; a deadline that is reached disarms the timer and interrupts.
Tick ==
    /\ tsc < MaxTsc
    /\ tsc' = tsc + 1
    /\ UNCHANGED <<heap, elapse_deadline, status, hw, irq, pc, sift>>

HwExpires ==
    /\ hw # Disarmed /\ tsc >= hw
    /\ hw' = Disarmed
    /\ irq' = TRUE
    /\ UNCHANGED <<tsc, heap, elapse_deadline, status, pc, sift>>

EnterHandler ==
    /\ Running("thread")
    /\ irq
    /\ irq' = FALSE
    /\ pc' = "handler"
    /\ UNCHANGED <<tsc, heap, elapse_deadline, status, hw, sift>>

\* irq_timer_handler without a timer left returns ...
HandlerEmpty ==
    /\ Running("handler")
    /\ HeapEmpty
    /\ pc' = "thread"
    /\ UNCHANGED <<tsc, heap, elapse_deadline, status, hw, irq, sift>>

\* Mutant: the handler returns without arming the hardware again.
HandlerLeaves ==
    /\ Running("handler")
    /\ ~HeapEmpty
    /\ elapse_deadline[Root] > tsc
    /\ pc' = "thread"
    /\ UNCHANGED <<tsc, heap, elapse_deadline, status, hw, irq, sift>>

\* ... with none that is due, it arms the hardware for the earliest one ...
HandlerRearms ==
    /\ Running("handler")
    /\ ~HeapEmpty
    /\ elapse_deadline[Root] > tsc
    /\ hw' = elapse_deadline[Root]
    /\ pc' = "thread"
    /\ UNCHANGED <<tsc, heap, elapse_deadline, status, irq, sift>>

\* ... and a timer that is due fires.
HandlerFires ==
    /\ Running("handler")
    /\ ~HeapEmpty
    /\ elapse_deadline[Root] <= tsc
    /\ delete_root
    /\ status' = [status EXCEPT ![Root] = "done"]
    /\ timer' = Root
    /\ UNCHANGED <<tsc, elapse_deadline, hw, irq, pc>>

Loops == heapify_up \/ TimerAdded \/ heapify_down \/ RootDeleted

Handler == EnterHandler \/ HandlerEmpty \/ HandlerRearms \/ HandlerFires

Next ==
    \/ Tick \/ HwExpires \/ Handler \/ Loops
    \/ \E t \in Timers : InitTimerTicks(t) \/ InitTimerDeadline(t) \/ AddTimer(t)

\* Time passes, the hardware raises its interrupt, and the CPU takes it and
\* goes on with what it has begun.
Spec == Init /\ [][Next]_vars /\ WF_vars(Tick) /\ WF_vars(HwExpires) /\ WF_vars(Handler \/ Loops)
-----------------------------------------------------------------------------
Queued == {t \in Timers : status[t] = "queued"}

\* "Maintain a min-heap": whenever no loop is at work, the array holds every
\* timer that was added and has not fired, exactly once, and none is due before
\* its parent in the tree, also after the root was replaced and a periodic
\* timer moved to a later deadline.
HeapExact ==
    loop = "none" =>
        /\ {flattened_tree[i] : i \in 1 .. heap_max_idx} = Queued
        /\ \A i, j \in 1 .. heap_max_idx : flattened_tree[i] = flattened_tree[j] => i = j
        /\ \A i \in 2 .. heap_max_idx : Deadline(i \div 2) <= Deadline(i)

\* While a thread runs, a queued timer never waits for an interrupt that will
\* not come: the hardware is armed for the earliest deadline, or has expired.
ArmedForEarliest ==
    Running("thread") /\ Queued # {}
    => irq \/ \A t \in Queued : hw # Disarmed /\ hw <= elapse_deadline[t]

\* Every queued timer fires, if time reaches its deadline.
Due(t) == t \in Queued /\ elapse_deadline[t] <= MaxTsc
QueuedTimerFires == \A t \in Timers : Due(t) ~> ~Due(t)
=============================================================================
