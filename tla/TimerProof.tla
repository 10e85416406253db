----------------------------- MODULE TimerProof -----------------------------
(***************************************************************************)
(* Proofs for Timer, for every set of timers, every capacity and every     *)
(* period.  Between two iterations of a loop the array is a heap with one  *)
(* exception: heapify_up has a node that may be due before its parent,     *)
(* heapify_down one whose children may be due before it; around that node  *)
(* its parent is due before its children.  That the root is due first      *)
(* follows from the order of parents and children by a least exception.    *)
(***************************************************************************)
EXTENDS Timer, WellFoundedInduction, TLAPS

\* The last node of the tree; heapify_up already has the new one.
Top == IF loop = "up" THEN insertion_idx ELSE heap_max_idx

\* What the nodes hold.
Held == IF loop = "up" THEN Queued \cup {timer} ELSE Queued

TimerTypeOK ==
    /\ tsc \in Nat /\ tsc > 0
    /\ flattened_tree \in [Index -> Timers \cup {NoTimer}]
    /\ insertion_idx \in 1..Capacity
    /\ elapse_deadline \in [Timers -> Nat]
    /\ status \in [Timers -> {"free", "new", "queued", "done"}]
    /\ hw \in Nat
    /\ irq \in BOOLEAN
    /\ pc \in {"thread", "handler"}
    /\ loop \in {"none", "up", "down"}
    /\ idx \in Index
    /\ timer \in Timers \cup {NoTimer}

\* The timer a loop works for is in no node but the one it rises in, and there
\* is room for it.  Deadlines that were set are not 0, which would disarm.
LoopInv ==
    /\ loop # "none" =>
          timer \in Timers /\ status[timer] \in {"new", "done"} /\ insertion_idx < Capacity
    /\ loop = "up" => idx <= insertion_idx /\ flattened_tree[idx] = timer
    /\ loop = "down" => pc = "handler"
    /\ \A t \in Timers : status[t] # "free" => elapse_deadline[t] > 0

\* The nodes hold what they should, each timer once.
Members ==
    /\ \A i \in 1..Top : flattened_tree[i] \in Held
    /\ \A t \in Held : \E i \in 1..Top : flattened_tree[i] = t
    /\ \A i, j \in 1..Top : flattened_tree[i] = flattened_tree[j] => i = j

\* The edges of the tree that a loop has still to put in order.
Open(i) == (loop = "up" /\ i = idx) \/ (loop = "down" /\ i \div 2 = idx)

Order ==
    /\ \A i \in 2..Top : Open(i) \/ Deadline(i \div 2) <= Deadline(i)
    /\ \A i \in 2..Top :
          loop # "none" /\ i \div 2 = idx /\ idx \div 2 > 0 => Deadline(idx \div 2) <= Deadline(i)

\* ArmedForEarliest while add_timer is at work, too.
Armed ==
    pc = "thread" /\ Queued # {}
    => irq \/ \A t \in Queued : hw # Disarmed /\ hw <= elapse_deadline[t]

TimerInv == TimerTypeOK /\ LoopInv /\ Members /\ Order /\ Armed

\* Every set of numbers that is not empty has a least one.
LEMMA Least ==
    ASSUME NEW T, T \subseteq Nat, T # {}
    PROVE  \E x \in T : \A y \in T : x <= y
  <1> DEFINE R == OpToRel(<, Nat)
  <1>1. \E x \in T : \A y \in T : ~ (<<y, x>> \in R)
    BY NatLessThanWellFounded, WFMin, Zenon
  <1>2. R = {ss \in Nat \X Nat : ss[1] < ss[2]}
    BY Zenon DEF OpToRel
  <1> HIDE DEF R
  <1>3. PICK x \in T : \A y \in T : ~ (<<y, x>> \in R)
    BY <1>1, Zenon
  <1>4. ASSUME NEW y \in T, y < x PROVE FALSE
    <2>1. <<y, x>> \in Nat \X Nat /\ <<y, x>>[1] < <<y, x>>[2]
      BY <1>4, Zenon
    <2>2. <<y, x>> \in R
      BY <1>2, <2>1, Zenon
    <2> QED
      BY <2>2, <1>3, Zenon
  <1> QED
    BY <1>3, <1>4

\* The parent of a node is above it, and its children are 2k and 2k + 1.
LEMMA Parents ==
    ASSUME NEW i \in Nat
    PROVE  /\ i \div 2 \in Nat /\ i \div 2 <= i
           /\ i > 1 => i \div 2 > 0 /\ i \div 2 < i
           /\ i \div 2 = 0 => i < 2
           /\ \A k \in Nat : i \div 2 = k <=> i = 2 * k \/ i = 2 * k + 1
  OBVIOUS

-----------------------------------------------------------------------------
(* The root *)

\* In a tree whose parents are due before their children, the root is due
\* first: get_heap_root returns the earliest timer.
LEMMA RootLeast ==
    ASSUME NEW n \in Nat, NEW d \in [1..n -> Nat], \A i \in 2..n : d[i \div 2] <= d[i]
    PROVE  \A i \in 1..n : d[1] <= d[i]
  <1> DEFINE Early == {i \in 1..n : ~ (d[1] <= d[i])}
  <1> SUFFICES ASSUME Early # {} PROVE FALSE
    BY Zenon
  <1>1. Early \subseteq Nat
    OBVIOUS
  <1>2. PICK x \in Early : \A y \in Early : x <= y
    BY <1>1, Least, Zenon
  <1>3. x \in 2..n
    BY <1>2
  <1>4. x \div 2 \in 1..n /\ x \div 2 < x
    BY <1>3, Parents
  <1>5. x \div 2 \notin Early
    BY <1>2, <1>3, <1>4
  <1>6. d[1] <= d[x \div 2] /\ d[x \div 2] <= d[x]
    BY <1>3, <1>4, <1>5, Zenon
  <1> QED
    BY <1>2, <1>3, <1>4, <1>6

\* The nodes of the tree hold timers, whose deadlines are numbers.
LEMMA Nodes ==
    ASSUME TimerTypeOK, LoopInv, Members
    PROVE  /\ Top \in Nat /\ 1..Top \subseteq Index
           /\ \A i \in 1..Top : flattened_tree[i] \in Timers /\ Deadline(i) \in Nat
  <1>1. Top \in Nat /\ Top < Capacity
    BY TimerAssumption DEF Top, heap_max_idx, TimerTypeOK, LoopInv
  <1>2. 1..Top \subseteq Index
    BY <1>1, TimerAssumption DEF Index
  <1>3. Held \subseteq Timers
    BY Zenon DEF Held, Queued, LoopInv
  <1> QED
    BY <1>1, <1>2, <1>3, Zenon DEF Members, Deadline, TimerTypeOK

\* With every edge in order, the root's timer is due before all that are held.
LEMMA RootFirst ==
    ASSUME TimerTypeOK, LoopInv, Members,
           \A i \in 2..Top : Deadline(i \div 2) <= Deadline(i)
    PROVE  \A t \in Held : Root \in Held /\ elapse_deadline[Root] <= elapse_deadline[t]
  <1> DEFINE d == [i \in 1..Top |-> Deadline(i)]
  <1>1. Top \in Nat /\ d \in [1..Top -> Nat]
    BY Nodes, Zenon
  <1>2. \A i \in 2..Top : d[i \div 2] <= d[i]
    <2> TAKE i \in 2..Top
    <2>1. i \in 1..Top /\ i \div 2 \in 1..Top
      BY <1>1, Parents
    <2> QED
      BY <2>1, Zenon
  <1> HIDE DEF d
  <1>3. \A i \in 1..Top : d[1] <= d[i]
    BY <1>1, <1>2, RootLeast, Zenon
  <1> TAKE t \in Held
  <1>4. PICK i \in 1..Top : flattened_tree[i] = t
    BY Zenon DEF Members
  <1>5. 1 \in 1..Top
    BY <1>1, <1>4
  <1>6. Deadline(1) <= Deadline(i)
    BY <1>3, <1>5, Zenon DEF d
  <1> QED
    BY <1>4, <1>5, <1>6, Zenon DEF Deadline, Root, HEAP_ROOT_INDEX, Members

-----------------------------------------------------------------------------
(* Steps that leave the heap alone *)

\* Time, the hardware and the control between the loops leave the tree as it is.
LEMMA HeapKept ==
    ASSUME Members, Order, UNCHANGED <<heap, elapse_deadline, status, sift>>
    PROVE  Members' /\ Order' /\ Queued' = Queued
  <1>1. Queued' = Queued /\ Held' = Held /\ Top' = Top
    BY Zenon DEF Queued, Held, Top, heap_max_idx, heap, sift
  <1>2. \A i : Deadline(i)' = Deadline(i)
    BY Zenon DEF Deadline, heap
  <1>3. \A i : Open(i)' = Open(i)
    BY Zenon DEF Open, sift
  <1>4. Members'
    BY <1>1, Zenon DEF Members, heap
  <1>5. Order'
    BY <1>1, <1>2, <1>3, Zenon DEF Order, sift
  <1> QED
    BY <1>1, <1>4, <1>5, Zenon

\* Tick, HwExpires, EnterHandler and the returns of the handler.
LEMMA OutsideKeeps ==
    ASSUME TimerInv, Tick \/ HwExpires \/ EnterHandler \/ HandlerEmpty \/ HandlerRearms
    PROVE  TimerInv'
  <1> USE DEF TimerInv
  <1>1. UNCHANGED <<heap, elapse_deadline, status, sift>>
    BY Zenon DEF Tick, HwExpires, EnterHandler, HandlerEmpty, HandlerRearms
  <1>2. Members' /\ Order' /\ Queued' = Queued
    BY <1>1, HeapKept, Zenon
  <1>3. Running("handler") /\ ~ HeapEmpty =>
           /\ Queued # {} /\ Root \in Timers
           /\ \A t \in Queued : Root \in Queued /\ elapse_deadline[Root] <= elapse_deadline[t]
    <2> SUFFICES ASSUME Running("handler"), ~ HeapEmpty
                 PROVE  /\ Queued # {} /\ Root \in Timers
                        /\ \A t \in Queued : Root \in Queued
                              /\ elapse_deadline[Root] <= elapse_deadline[t]
      BY Zenon
    <2>1. Held = Queued /\ Top = heap_max_idx
      BY Zenon DEF Running, Held, Top
    <2>2. 1 \in 1..Top
      BY <2>1, Nodes DEF HeapEmpty, HEAP_ROOT_INDEX, heap_max_idx, TimerTypeOK
    <2>3. \A i \in 2..Top : Deadline(i \div 2) <= Deadline(i)
      BY Zenon DEF Running, Order, Open
    <2>4. Root \in Held
      BY <2>2, Zenon DEF Members, Root, HEAP_ROOT_INDEX
    <2> QED
      BY <2>1, <2>3, <2>4, RootFirst, Zenon DEF Queued
  <1>4. HeapEmpty /\ Running("handler") => Queued = {}
    BY Nodes DEF Running, HeapEmpty, Members, Top, Held, heap_max_idx, HEAP_ROOT_INDEX, TimerTypeOK
  <1>5. TimerTypeOK'
    <2> USE DEF Tick, HwExpires, EnterHandler, HandlerEmpty, HandlerRearms
    <2>1. tsc' \in Nat /\ tsc' > 0
      BY TimerAssumption DEF TimerTypeOK
    <2>2. hw' \in Nat
      BY <1>3 DEF TimerTypeOK, Disarmed
    <2>3. irq' \in BOOLEAN /\ pc' \in {"thread", "handler"}
      BY Zenon DEF TimerTypeOK
    <2> QED
      BY <1>1, <2>1, <2>2, <2>3, Zenon DEF TimerTypeOK, heap, sift
  <1>6. LoopInv'
    BY <1>1, Zenon DEF LoopInv, heap, sift, Tick, HwExpires, EnterHandler, HandlerEmpty, HandlerRearms,
                Running
  <1>7. Armed'
    <2>1. CASE Tick \/ HwExpires
      BY <2>1, <1>1, <1>2, Zenon DEF Tick, HwExpires, Armed
    <2>2. CASE EnterHandler
      BY <2>2, Zenon DEF EnterHandler, Armed
    <2>3. CASE HandlerEmpty
      BY <2>3, <1>2, <1>4, Zenon DEF HandlerEmpty, Armed
    <2>4. CASE HandlerRearms
      <3>1. hw' = elapse_deadline[Root] /\ Root \in Queued /\ elapse_deadline[Root] > 0
        BY <2>4, <1>3, Zenon DEF HandlerRearms, LoopInv, Queued
      <3> QED
        BY <2>4, <3>1, <1>1, <1>2, <1>3 DEF HandlerRearms, Armed, Disarmed
    <2> QED
      BY <2>1, <2>2, <2>3, <2>4, Zenon
  <1> QED
    BY <1>2, <1>5, <1>6, <1>7, Zenon

-----------------------------------------------------------------------------
(* The loops *)

\* heap_swap leaves in the tree what was in it, and moves two timers only.
LEMMA Swapped ==
    ASSUME TimerInv, NEW k \in 1..Top, NEW l \in 1..Top, k # l, heap_swap(k, l),
           UNCHANGED <<insertion_idx, elapse_deadline, status, loop, timer>>
    PROVE  /\ flattened_tree' \in [Index -> Timers \cup {NoTimer}]
           /\ Top' = Top /\ Held' = Held /\ Queued' = Queued
           /\ Members'
           /\ flattened_tree'[k] = flattened_tree[l] /\ flattened_tree'[l] = flattened_tree[k]
           /\ Deadline(k)' = Deadline(l) /\ Deadline(l)' = Deadline(k)
           /\ \A i \in 1..Top : i # k /\ i # l => Deadline(i)' = Deadline(i)
  <1>1. k \in Index /\ l \in Index /\ 1..Top \subseteq Index
    BY Nodes, Zenon DEF TimerInv
  <1>2. /\ flattened_tree' \in [Index -> Timers \cup {NoTimer}]
        /\ flattened_tree'[k] = flattened_tree[l] /\ flattened_tree'[l] = flattened_tree[k]
        /\ \A i \in Index : i # k /\ i # l => flattened_tree'[i] = flattened_tree[i]
    BY <1>1, Zenon DEF heap_swap, TimerInv, TimerTypeOK
  <1>3. Top' = Top /\ Held' = Held /\ Queued' = Queued
    BY Zenon DEF Top, Held, Queued, heap_max_idx
  <1>4. \A i \in 1..Top : flattened_tree'[i] \in Held
    BY <1>1, <1>2, Zenon DEF Members, TimerInv
  <1>5. \A t \in Held : \E i \in 1..Top : flattened_tree'[i] = t
    BY <1>1, <1>2, Zenon DEF Members, TimerInv
  <1>6. \A i, j \in 1..Top : flattened_tree'[i] = flattened_tree'[j] => i = j
    BY <1>1, <1>2 DEF Members, TimerInv
  <1>7. Members'
    BY <1>3, <1>4, <1>5, <1>6, Zenon DEF Members
  <1> QED
    BY <1>1, <1>2, <1>3, <1>7, Zenon DEF Deadline

\* An iteration of heapify_up: the node changes places with its parent.  The
\* other child of the parent, and the children of the node, were due after the
\* parent.
LEMMA UpKeeps ==
    ASSUME TimerInv, heapify_up
    PROVE  TimerInv'
  <1> USE DEF TimerInv
  <1>0. PICK k \in Index, p \in Nat : k = idx /\ p = k \div 2
    BY Parents DEF TimerTypeOK, Index
  <1>1. /\ k \in 2..Top /\ p \in 1..Top /\ p < k /\ Top \in Nat /\ p \in Index
        /\ Deadline(p) > Deadline(k)
    <2>1. k \in Nat /\ k <= Top /\ p > 0 /\ Deadline(p) > Deadline(k)
      BY <1>0 DEF heapify_up, Rises, TimerTypeOK, LoopInv, Top, Index
    <2> QED
      BY <2>1, <1>0, Parents, Nodes
  <1>2. /\ flattened_tree' \in [Index -> Timers \cup {NoTimer}]
        /\ Top' = Top /\ Queued' = Queued /\ Members'
        /\ flattened_tree'[p] = flattened_tree[k]
        /\ Deadline(k)' = Deadline(p) /\ Deadline(p)' = Deadline(k)
        /\ \A i \in 1..Top : i # k /\ i # p => Deadline(i)' = Deadline(i)
    BY <1>0, <1>1, Swapped DEF heapify_up
  <1>3. loop = "up" /\ loop' = "up" /\ idx' = p
    BY <1>0, Zenon DEF heapify_up
  <1>4. \A i \in 1..Top : Deadline(i) \in Nat
    BY Nodes, Zenon
  <1>5. \A i \in 2..Top : i # k => Deadline(i \div 2) <= Deadline(i)
    BY <1>0, <1>3, Zenon DEF Order, Open
  <1>6. \A i \in 2..Top : i \div 2 = k => Deadline(p) <= Deadline(i)
    BY <1>0, <1>1, <1>3 DEF Order
  <1>7. ASSUME NEW i \in 2..Top, i # p PROVE Deadline(i \div 2)' <= Deadline(i)'
    <2>1. i \in 1..Top /\ i \div 2 \in 1..Top /\ i \div 2 < i
      BY <1>1, Parents
    <2>2. CASE i = k
      BY <2>1, <2>2, <1>1, <1>2, <1>4, <1>0
    <2>3. CASE i # k /\ i \div 2 = k
      BY <2>1, <2>3, <1>1, <1>2, <1>4, <1>6, <1>7, Zenon
    <2>4. CASE i # k /\ i \div 2 = p
      BY <2>1, <2>4, <1>1, <1>2, <1>4, <1>5, <1>7
    <2>5. CASE i # k /\ i \div 2 # k /\ i \div 2 # p
      BY <2>1, <2>5, <1>1, <1>2, <1>5, <1>7, Zenon
    <2> QED
      BY <2>2, <2>3, <2>4, <2>5, Zenon
  <1>8. ASSUME NEW i \in 2..Top, i \div 2 = p, p \div 2 > 0
        PROVE  Deadline(p \div 2)' <= Deadline(i)'
    <2>1. /\ i \in 1..Top /\ p \in 2..Top /\ p \div 2 \in 1..Top /\ p \div 2 < p /\ p # i
      BY <1>1, <1>8, Parents
    <2> DEFINE q == p \div 2
    <2>2. Deadline(q)' = Deadline(q) /\ Deadline(q) <= Deadline(p)
      BY <2>1, <1>1, <1>2, <1>5
    <2> HIDE DEF q
    <2>3. i # k => Deadline(p) <= Deadline(i) /\ Deadline(i)' = Deadline(i)
      BY <2>1, <1>8, <1>2, <1>5, Zenon
    <2>4. q \in 1..Top
      BY <2>1, Zenon DEF q
    <2>5. Deadline(q)' <= Deadline(i)'
      BY <2>1, <2>2, <2>3, <2>4, <1>1, <1>2, <1>4
    <2> QED
      BY <2>5, Zenon DEF q
  <1>9. Order'
    BY <1>2, <1>3, <1>7, <1>8, Zenon DEF Order, Open
  <1>10. TimerTypeOK'
    BY <1>1, <1>2, <1>3, Zenon DEF heapify_up, TimerTypeOK
  <1>11. LoopInv'
    BY <1>0, <1>1, <1>2, <1>3 DEF heapify_up, LoopInv, Top
  <1>12. Armed'
    BY <1>2, Zenon DEF heapify_up, Armed
  <1> QED
    BY <1>2, <1>9, <1>10, <1>11, <1>12, Zenon

\* What the comparisons of heapify_down find: no child of the node is due before
\* largest, and largest is a child that is due before the node unless it is the
\* node.
LEMMA LargestIsLeast ==
    ASSUME TimerInv, loop = "down", NEW k \in Index, k = idx
    PROVE  /\ largest = k => \A i \in 2..Top : i \div 2 = k => Deadline(k) <= Deadline(i)
           /\ largest # k =>
                 /\ k \in 1..Top /\ largest \in 2..Top /\ largest \div 2 = k
                 /\ Deadline(largest) < Deadline(k)
                 /\ \A i \in 2..Top : i \div 2 = k => Deadline(largest) <= Deadline(i)
  <1>1. Top = heap_max_idx /\ Top \in Nat /\ k \in Nat /\ k > 0
    BY Nodes DEF Top, Index, TimerInv
  <1>2. \A i \in 1..Top : Deadline(i) \in Nat
    BY Nodes, Zenon DEF TimerInv
  <1>3. \A i \in 2..Top : i \div 2 = k <=> i = 2 * k \/ i = 2 * k + 1
    BY <1>1, Parents
  <1>4. (2 * k) \div 2 = k /\ (2 * k + 1) \div 2 = k
    BY <1>1
  <1> DEFINE l == 2 * k
             r == 2 * k + 1
  <1>5. l \in Nat /\ r = l + 1 /\ l > k
    BY <1>1
  <1>6. largest = Smaller(r, Smaller(l, k))
    BY Zenon DEF largest
  <1>7. CASE l > Top
    <2>1. Smaller(l, k) = k /\ Smaller(r, k) = k
      BY <1>1, <1>5, <1>7 DEF Smaller
    <2> QED
      BY <1>1, <1>3, <1>5, <1>6, <1>7, <2>1
  <1>8. CASE l <= Top
    <2>1. k \in 1..Top /\ l \in 2..Top /\ (r <= Top => r \in 2..Top)
      BY <1>1, <1>5, <1>8
    <2>2. Deadline(k) \in Nat /\ Deadline(l) \in Nat /\ (r <= Top => Deadline(r) \in Nat)
      BY <1>2, <2>1
    <2> QED
      BY <1>1, <1>3, <1>4, <1>5, <1>6, <1>8, <2>1, <2>2 DEF Smaller
  <1> QED
    BY <1>1, <1>5, <1>7, <1>8

\* An iteration of heapify_down: the node changes places with the child that is
\* due first, which was due after the node's parent.
LEMMA DownKeeps ==
    ASSUME TimerInv, heapify_down
    PROVE  TimerInv'
  <1> USE DEF TimerInv
  <1>0. PICK k \in Index, l \in {largest} : k = idx /\ l = largest
    BY Zenon DEF TimerTypeOK
  <1>1. /\ k \in 1..Top /\ l \in 2..Top /\ l \div 2 = k /\ l # k /\ l \in Index
        /\ Deadline(l) < Deadline(k)
        /\ \A i \in 2..Top : i \div 2 = k => Deadline(l) <= Deadline(i)
    BY <1>0, LargestIsLeast, Nodes DEF heapify_down
  <1>2. /\ flattened_tree' \in [Index -> Timers \cup {NoTimer}]
        /\ Top' = Top /\ Queued' = Queued /\ Members'
        /\ Deadline(k)' = Deadline(l) /\ Deadline(l)' = Deadline(k)
        /\ \A i \in 1..Top : i # k /\ i # l => Deadline(i)' = Deadline(i)
    BY <1>0, <1>1, Swapped DEF heapify_down
  <1>3. loop = "down" /\ loop' = "down" /\ idx' = l
    BY <1>0, Zenon DEF heapify_down
  <1>4. Top \in Nat /\ \A i \in 1..Top : Deadline(i) \in Nat
    BY Nodes, Zenon
  <1>5. \A i \in 2..Top : i \div 2 # k => Deadline(i \div 2) <= Deadline(i)
    BY <1>0, <1>3, Zenon DEF Order, Open
  <1>6. k \div 2 > 0 => Deadline(k \div 2) <= Deadline(l)
    BY <1>0, <1>1, <1>3, Zenon DEF Order
  <1>7. ASSUME NEW i \in 2..Top, i \div 2 # l PROVE Deadline(i \div 2)' <= Deadline(i)'
    <2>1. i \in 1..Top /\ i \div 2 \in 1..Top /\ i \div 2 < i
      BY <1>4, Parents
    <2>2. CASE i \div 2 = k
      BY <2>1, <2>2, <1>1, <1>2, <1>4
    <2>3. CASE i = k
      <3>1. Deadline(i \div 2)' = Deadline(i \div 2)
        BY <2>1, <2>3, <1>2, <1>7
      <3> QED
        BY <3>1, <2>1, <2>3, <1>2, <1>6
    <2>4. CASE i # k /\ i \div 2 # k
      BY <2>1, <2>4, <1>1, <1>2, <1>5, <1>7, Zenon
    <2> QED
      BY <2>2, <2>3, <2>4, Zenon
  <1>8. ASSUME NEW i \in 2..Top, i \div 2 = l PROVE Deadline(l \div 2)' <= Deadline(i)'
    <2>1. i \in 1..Top /\ l < i /\ k < l /\ k \in Nat
      BY <1>1, <1>4, <1>8, Parents
    <2>2. Deadline(l) <= Deadline(i) /\ Deadline(i)' = Deadline(i)
      BY <2>1, <1>1, <1>2, <1>5, <1>8
    <2> QED
      BY <2>2, <1>1, <1>2, Zenon
  <1>9. Order'
    BY <1>2, <1>3, <1>7, <1>8, Zenon DEF Order, Open
  <1>10. TimerTypeOK'
    BY <1>1, <1>2, <1>3, Zenon DEF heapify_down, TimerTypeOK
  <1>11. LoopInv'
    BY <1>3, Zenon DEF heapify_down, LoopInv
  <1>12. Armed'
    BY <1>2, Zenon DEF heapify_down, Armed
  <1> QED
    BY <1>2, <1>9, <1>10, <1>11, <1>12, Zenon

\* The first half of heap_add_timer: the new timer is the last node, whose edge
\* is open, and which has no children.
LEMMA Appended ==
    ASSUME TimerInv, loop # "up", NEW t \in Timers, status[t] \in {"new", "done"},
           AppendTimer(t), UNCHANGED status,
           elapse_deadline' \in [Timers -> Nat],
           \A u \in Timers : u # t => elapse_deadline'[u] = elapse_deadline[u],
           elapse_deadline'[t] > 0,
           \A i \in 2..Top : Deadline(i \div 2) <= Deadline(i)
    PROVE  /\ flattened_tree' \in [Index -> Timers \cup {NoTimer}]
           /\ idx' \in Index
           /\ Queued' = Queued /\ LoopInv' /\ Members' /\ Order'
  <1> USE DEF TimerInv
  <1>0. PICK n \in Nat : n = insertion_idx
    BY DEF TimerTypeOK
  <1>1. /\ Top = n - 1 /\ n \in Index /\ n < Capacity /\ 1..Top \subseteq Index
        /\ Held = Queued /\ Queued' = Queued /\ t \notin Queued
    BY <1>0, Nodes, TimerAssumption
       DEF Top, heap_max_idx, TimerTypeOK, Index, AppendTimer, Held, Queued
  <1>2. /\ Top' = n /\ Held' = Queued \cup {t} /\ idx' = n /\ timer' = t /\ loop' = "up"
        /\ insertion_idx' = n
    BY <1>0, <1>1, Zenon DEF AppendTimer, Top, Held
  <1>3. /\ flattened_tree' \in [Index -> Timers \cup {NoTimer}]
        /\ flattened_tree'[n] = t
        /\ \A i \in 1..Top : flattened_tree'[i] = flattened_tree[i]
    BY <1>0, <1>1 DEF AppendTimer, TimerTypeOK
  <1>4. \A i \in 1..Top : flattened_tree[i] \in Queued /\ Deadline(i)' = Deadline(i)
    BY <1>1, <1>3 DEF Members, Deadline, Queued
  <1>5. LoopInv'
    BY <1>1, <1>2, <1>3 DEF LoopInv
  <1>6. Members'
    <2>1. \A i \in 1..n : flattened_tree'[i] \in Held'
      BY <1>1, <1>2, <1>3, <1>4
    <2>2. \A u \in Held' : \E i \in 1..n : flattened_tree'[i] = u
      <3> TAKE u \in Held'
      <3>1. CASE u = t
        BY <3>1, <1>1, <1>3 DEF Index
      <3>2. CASE u # t
        <4>1. PICK i \in 1..Top : flattened_tree[i] = u
          BY <3>2, <1>1, <1>2, Zenon DEF Members
        <4> QED
          BY <4>1, <1>1, <1>3
      <3> QED
        BY <3>1, <3>2, Zenon
    <2>3. \A i, j \in 1..n : flattened_tree'[i] = flattened_tree'[j] => i = j
      <3>1. \A i \in 1..n : i = n \/ i \in 1..Top
        BY <1>1
      <3>2. \A i \in 1..Top : flattened_tree'[i] = flattened_tree[i] /\ flattened_tree[i] # t
        BY <1>1, <1>3, <1>4, Zenon
      <3>3. \A i, j \in 1..Top : flattened_tree[i] = flattened_tree[j] => i = j
        BY Zenon DEF Members
      <3> QED
        BY <1>3, <3>1, <3>2, <3>3, Zenon
    <2> QED
      BY <1>2, <2>1, <2>2, <2>3, Zenon DEF Members
  <1>7. Order'
    <2>1. ASSUME NEW i \in 2..n PROVE Open(i)' \/ Deadline(i \div 2)' <= Deadline(i)'
      <3>1. CASE i = n
        BY <3>1, <1>2, Zenon DEF Open
      <3>2. CASE i # n
        <4>1. i \in 2..Top /\ i \in 1..Top /\ i \div 2 \in 1..Top
          BY <3>2, <1>1, Parents
        <4> QED
          BY <4>1, <1>4, Zenon
      <3> QED
        BY <3>1, <3>2, Zenon
    <2>2. \A i \in 2..n : i \div 2 # n
      BY Parents
    <2> QED
      BY <2>1, <2>2, <1>2, Zenon DEF Order
  <1> QED
    BY <1>1, <1>2, <1>3, <1>5, <1>6, <1>7, Zenon

\* add_timer of a timer that was initialised.
LEMMA AddKeeps ==
    ASSUME TimerInv, NEW t \in Timers, AddTimer(t)
    PROVE  TimerInv'
  <1> USE DEF TimerInv
  <1>1. /\ loop = "none" /\ \A i \in 2..Top : Deadline(i \div 2) <= Deadline(i)
    BY Zenon DEF AddTimer, Running, Order, Open
  <1>2. /\ flattened_tree' \in [Index -> Timers \cup {NoTimer}]
        /\ idx' \in Index /\ Queued' = Queued /\ LoopInv' /\ Members' /\ Order'
    BY <1>1, Appended, Zenon DEF AddTimer, TimerTypeOK, LoopInv
  <1>3. TimerTypeOK'
    BY <1>2, Zenon DEF AddTimer, AppendTimer, TimerTypeOK
  <1>4. Armed'
    BY <1>2, Zenon DEF AddTimer, Armed
  <1> QED
    BY <1>2, <1>3, <1>4, Zenon

\* delete_root returns: the children of the last node are due after it.
LEMMA RootDeletedKeeps ==
    ASSUME TimerInv, RootDeleted
    PROVE  TimerInv'
  <1> USE DEF TimerInv
  <1>1. PICK k \in Index : k = idx
    BY Zenon DEF TimerTypeOK
  <1>2. /\ loop = "down" /\ pc = "handler" /\ pc' = "handler"
        /\ timer \in Timers /\ status[timer] \in {"new", "done"}
    BY Zenon DEF RootDeleted, LoopInv
  <1>3. \A i \in 2..Top : Deadline(i \div 2) <= Deadline(i)
    BY <1>1, <1>2, LargestIsLeast, Zenon DEF RootDeleted, Order, Open
  <1>4. CASE timer \in Periodic
    <2>1. PICK t \in Timers : t = timer
      BY <1>2, Zenon
    <2>2. /\ elapse_deadline' = [elapse_deadline EXCEPT ![t] = @ + Ticks[t]]
          /\ AppendTimer(t) /\ UNCHANGED <<tsc, status, hw, irq, pc>>
      BY <1>4, <2>1, Zenon DEF RootDeleted
    <2>3. /\ elapse_deadline' \in [Timers -> Nat]
          /\ \A u \in Timers : u # t => elapse_deadline'[u] = elapse_deadline[u]
          /\ elapse_deadline'[t] > 0
      <3>1. elapse_deadline[t] \in Nat /\ Ticks[t] \in Nat /\ elapse_deadline[t] > 0
        BY <1>2, <2>1, TimerAssumption, Zenon DEF TimerTypeOK, LoopInv
      <3> QED
        BY <2>2, <3>1 DEF TimerTypeOK
    <2>4. /\ flattened_tree' \in [Index -> Timers \cup {NoTimer}]
          /\ idx' \in Index /\ Queued' = Queued /\ LoopInv' /\ Members' /\ Order'
      BY <1>2, <1>3, <2>1, <2>2, <2>3, Appended, Zenon
    <2>5. TimerTypeOK'
      BY <2>2, <2>3, <2>4, Zenon DEF AppendTimer, TimerTypeOK
    <2> QED
      BY <1>2, <2>4, <2>5, Zenon DEF Armed
  <1>5. CASE timer \notin Periodic
    <2>1. Return /\ UNCHANGED <<heap, elapse_deadline, tsc, status, hw, irq, pc>>
      BY <1>5, Zenon DEF RootDeleted
    <2>2. Top' = Top /\ Held' = Held /\ Queued' = Queued
      BY <1>2, <2>1, Zenon DEF Return, Top, Held, Queued, heap, heap_max_idx
    <2>3. TimerTypeOK'
      BY <2>1, TimerAssumption DEF TimerTypeOK, Return, heap, Index, HEAP_ROOT_INDEX
    <2>4. LoopInv'
      BY <2>1, Zenon DEF LoopInv, Return, heap
    <2>5. Members'
      BY <2>1, <2>2, Zenon DEF Members, heap
    <2>6. \A i : Deadline(i)' = Deadline(i)
      BY <2>1, Zenon DEF Deadline, heap
    <2>7. Order'
      BY <2>1, <2>2, <2>6, <1>3, Zenon DEF Order, Return
    <2> QED
      BY <1>2, <2>3, <2>4, <2>5, <2>7, Zenon DEF Armed
  <1> QED
    BY <1>4, <1>5, Zenon

\* add_timer returns: the tree is in order with the new timer in it.  If the
\* new timer is not the first, the first was queued, and the hardware is armed
\* for it already.
LEMMA AddedKeeps ==
    ASSUME TimerInv, TimerAdded
    PROVE  TimerInv'
  <1> USE DEF TimerInv
  <1>1. PICK k \in Index : k = idx
    BY Zenon DEF TimerTypeOK
  <1>2. /\ loop = "up" /\ loop' = "none" /\ UNCHANGED <<flattened_tree, elapse_deadline>>
        /\ Top = insertion_idx /\ Held = Queued \cup {timer}
        /\ timer \in Timers /\ elapse_deadline[timer] > 0 /\ timer \notin Queued
        /\ insertion_idx \in Nat /\ insertion_idx < Capacity
    BY DEF TimerAdded, Return, Top, Held, LoopInv, Queued, TimerTypeOK
  <1>3. \A i \in 2..Top : Deadline(i \div 2) <= Deadline(i)
    <2> TAKE i \in 2..Top
    <2>1. i \in 1..Top /\ i \div 2 \in 1..Top /\ i \div 2 > 0
      BY <1>2, Parents
    <2>2. CASE i = k
      <3>1. ~ (Deadline(i \div 2) > Deadline(i))
        BY <1>1, <2>1, <2>2, Zenon DEF TimerAdded, Rises
      <3> QED
        BY <2>1, <3>1, Nodes
    <2>3. CASE i # k
      BY <1>1, <1>2, <2>3, Zenon DEF Order, Open
    <2> QED
      BY <2>2, <2>3, Zenon
  <1>4. Queued' = Held
    BY <1>2, Zenon DEF TimerAdded, Queued, TimerTypeOK
  <1>5. Top' = Top /\ Held' = Held
    BY <1>2, <1>4 DEF TimerAdded, Top, Held, heap_max_idx
  <1>6. Members'
    BY <1>2, <1>5 DEF Members
  <1>7. Order'
    <2>1. \A i : Deadline(i)' = Deadline(i)
      BY <1>2, Zenon DEF Deadline
    <2> QED
      BY <1>2, <1>3, <1>5, <2>1, Zenon DEF Order
  <1>8. /\ Root \in Held /\ \A t \in Held : elapse_deadline[Root] <= elapse_deadline[t]
    BY <1>2, <1>3, RootFirst, Zenon
  <1>9. TimerTypeOK'
    <2>1. hw' \in Nat
      BY <1>2, Zenon DEF TimerAdded, Reprogrammed, TimerTypeOK
    <2>2. idx' \in Index /\ timer' \in Timers \cup {NoTimer}
      BY TimerAssumption DEF TimerAdded, Return, Index, HEAP_ROOT_INDEX
    <2>3. insertion_idx' \in 1..Capacity /\ status' \in [Timers -> {"free", "new", "queued", "done"}]
      BY <1>2, TimerAssumption DEF TimerAdded, TimerTypeOK
    <2>4. UNCHANGED <<tsc, irq, pc>>
      BY Zenon DEF TimerAdded
    <2> QED
      BY <1>2, <2>1, <2>2, <2>3, <2>4, Zenon DEF TimerTypeOK
  <1>10. LoopInv'
    BY <1>2, Zenon DEF TimerAdded, LoopInv, TimerTypeOK
  <1>11. Armed'
    <2>1. CASE elapse_deadline[Root] = elapse_deadline[timer]
      <3>1. hw' = elapse_deadline[Root] /\ hw' # Disarmed
        BY <1>2, <2>1 DEF TimerAdded, Reprogrammed, Disarmed
      <3> QED
        BY <3>1, <1>2, <1>4, <1>8, Zenon DEF Armed
    <2>2. CASE elapse_deadline[Root] # elapse_deadline[timer]
      <3>1. hw' = hw /\ irq' = irq /\ pc' = pc
        BY <2>2, Zenon DEF TimerAdded, Reprogrammed
      <3>2. Root \in Queued
        BY <1>2, <1>8, <2>2, Zenon
      <3>3. pc = "thread" => irq \/ (hw # Disarmed /\ hw <= elapse_deadline[Root])
        BY <3>2, Zenon DEF Armed
      <3>4. \A t \in Held : elapse_deadline[t] \in Nat /\ elapse_deadline[Root] \in Nat
        BY <1>2, <1>8, Zenon DEF Queued, TimerTypeOK
      <3>5. \A t \in Held : hw <= elapse_deadline[Root] => hw <= elapse_deadline[t]
        BY <1>8, <3>4 DEF TimerTypeOK
      <3> QED
        BY <1>2, <1>4, <3>1, <3>3, <3>5, Zenon DEF Armed
    <2> QED
      BY <2>1, <2>2, Zenon
  <1> QED
    BY <1>6, <1>7, <1>9, <1>10, <1>11, Zenon

\* A timer that is due is taken out; the last one takes the place of the root,
\* whose edges are open.
LEMMA FiresKeeps ==
    ASSUME TimerInv, HandlerFires
    PROVE  TimerInv'
  <1> USE DEF TimerInv
  <1>0. PICK m \in Nat, t \in {Root} : m = heap_max_idx /\ t = Root
    BY DEF heap_max_idx, TimerTypeOK
  <1>1. /\ loop = "none" /\ Top = m /\ Held = Queued /\ m > 0 /\ m < Capacity
        /\ m \in Index /\ 1 \in Index /\ 1..m \subseteq Index
        /\ t = flattened_tree[1] /\ t \in Queued /\ t \in Timers
    <2>1. loop = "none" /\ Top = m /\ Held = Queued /\ m > 0 /\ m < Capacity
      BY <1>0, TimerAssumption
         DEF HandlerFires, Running, Top, Held, HeapEmpty, HEAP_ROOT_INDEX, heap_max_idx,
             TimerTypeOK
    <2>2. t = flattened_tree[1] /\ 1 \in 1..Top
      BY <1>0, <2>1 DEF Root, HEAP_ROOT_INDEX
    <2>3. m \in Index /\ 1 \in Index /\ 1..m \subseteq Index
      BY <2>1, TimerAssumption DEF Index
    <2> QED
      BY <2>1, <2>2, <2>3, Zenon DEF Members, Queued
  <1>2. /\ flattened_tree' = [flattened_tree EXCEPT ![1] = flattened_tree[m], ![m] = NoTimer]
        /\ insertion_idx' = m /\ status' = [status EXCEPT ![t] = "done"]
        /\ loop' = "down" /\ idx' = 1 /\ timer' = t
        /\ UNCHANGED <<tsc, elapse_deadline, hw, irq, pc>> /\ pc = "handler"
    BY <1>0, Zenon DEF HandlerFires, delete_root, Running, HEAP_ROOT_INDEX
  <1>3. Top' = m - 1 /\ Queued' = Queued \ {t} /\ Held' = Queued \ {t}
    BY <1>1, <1>2, Zenon DEF Top, Held, Queued, heap_max_idx, TimerTypeOK
  <1>4. /\ flattened_tree' \in [Index -> Timers \cup {NoTimer}]
        /\ \A i \in 2..(m - 1) : flattened_tree'[i] = flattened_tree[i]
        /\ m > 1 => flattened_tree'[1] = flattened_tree[m]
    BY <1>1, <1>2 DEF TimerTypeOK
  <1>5. \A i, j \in 1..m : flattened_tree[i] = flattened_tree[j] => i = j
    BY <1>1, Zenon DEF Members
  <1>6. Members'
    <2>1. \A i \in 1..(m - 1) : flattened_tree'[i] \in Queued \ {t}
      <3> TAKE i \in 1..(m - 1)
      <3>1. PICK j \in 2..m : flattened_tree'[i] = flattened_tree[j]
        <4>1. CASE i = 1
          BY <4>1, <1>1, <1>4
        <4>2. CASE i # 1
          BY <4>2, <1>1, <1>4
        <4> QED
          BY <4>1, <4>2, Zenon
      <3>2. j \in 1..m /\ 1 \in 1..m /\ j # 1
        BY <1>1
      <3> QED
        BY <3>1, <3>2, <1>1, <1>5, Zenon DEF Members
    <2>2. \A u \in Queued \ {t} : \E i \in 1..(m - 1) : flattened_tree'[i] = u
      <3> TAKE u \in Queued \ {t}
      <3>1. PICK j \in 1..m : flattened_tree[j] = u
        BY <1>1, Zenon DEF Members
      <3>2. j # 1
        BY <3>1, <1>1, Zenon
      <3>3. CASE j = m
        BY <3>1, <3>2, <3>3, <1>1, <1>4
      <3>4. CASE j # m
        BY <3>1, <3>2, <3>4, <1>1, <1>4
      <3> QED
        BY <3>3, <3>4, Zenon
    <2>3. \A i, j \in 1..(m - 1) : flattened_tree'[i] = flattened_tree'[j] => i = j
      BY <1>1, <1>4, <1>5
    <2> QED
      BY <1>3, <2>1, <2>2, <2>3, Zenon DEF Members
  <1>7. Order'
    <2>1. ASSUME NEW i \in 2..(m - 1), i \div 2 # 1
          PROVE  Deadline(i \div 2)' <= Deadline(i)'
      <3>1. i \in 2..m /\ i \div 2 \in 2..(m - 1)
        BY <1>1, <2>1, Parents
      <3>2. Deadline(i \div 2)' = Deadline(i \div 2) /\ Deadline(i)' = Deadline(i)
        BY <3>1, <1>2, <1>4, Zenon DEF Deadline
      <3> QED
        BY <3>1, <3>2, <1>1, Zenon DEF Order, Open
    <2>2. ~ (1 \div 2 > 0)
      OBVIOUS
    <2> QED
      BY <2>1, <2>2, <1>2, <1>3, Zenon DEF Order, Open
  <1>8. TimerTypeOK'
    <2>1. insertion_idx' \in 1..Capacity
      BY <1>1, <1>2, TimerAssumption
    <2>2. status' \in [Timers -> {"free", "new", "queued", "done"}]
      BY <1>2, Zenon DEF TimerTypeOK
    <2> QED
      BY <1>1, <1>2, <1>4, <2>1, <2>2, Zenon DEF TimerTypeOK
  <1>9. LoopInv'
    BY <1>1, <1>2, Zenon DEF LoopInv, TimerTypeOK, Queued
  <1>10. Armed'
    BY <1>2, Zenon DEF Armed
  <1> QED
    BY <1>6, <1>7, <1>8, <1>9, <1>10, Zenon

\* __init_timer writes a timer that no heap holds ...
LEMMA InitTimerKeeps ==
    ASSUME TimerInv, NEW t \in Timers, NEW d \in Nat, d > 0, InitTimer(t, d)
    PROVE  TimerInv'
  <1> USE DEF TimerInv
  <1>1. /\ loop = "none" /\ UNCHANGED <<tsc, heap, hw, irq, pc, sift>>
        /\ status[t] = "free" /\ status' = [status EXCEPT ![t] = "new"]
        /\ elapse_deadline' = [elapse_deadline EXCEPT ![t] = d]
    BY Zenon DEF InitTimer, Running
  <1>2. /\ Queued' = Queued /\ Held' = Held /\ Top' = Top /\ Held = Queued
        /\ \A u \in Queued : u # t /\ elapse_deadline'[u] = elapse_deadline[u]
    BY <1>1, Zenon DEF Queued, Held, Top, heap_max_idx, heap, sift, TimerTypeOK
  <1>3. \A i \in 1..Top : Deadline(i)' = Deadline(i)
    BY <1>1, <1>2, Zenon DEF Deadline, Members, heap
  <1>4. Members'
    BY <1>1, <1>2, Zenon DEF Members, heap
  <1>5. Order'
    <2>1. ASSUME NEW i \in 2..Top PROVE Deadline(i \div 2)' <= Deadline(i)'
      <3>1. i \in 1..Top /\ i \div 2 \in 1..Top
        BY Nodes, Parents
      <3> QED
        BY <3>1, <1>1, <1>3, Zenon DEF Order, Open
    <2> QED
      BY <2>1, <1>1, <1>2, Zenon DEF Order, sift
  <1>6. TimerTypeOK'
    BY <1>1, Zenon DEF TimerTypeOK, heap, sift
  <1>7. LoopInv'
    BY <1>1, Zenon DEF LoopInv, TimerTypeOK, heap, sift
  <1>8. Armed'
    BY <1>1, <1>2, Zenon DEF Armed
  <1> QED
    BY <1>4, <1>5, <1>6, <1>7, <1>8, Zenon

\* ... for init_timer_ns and init_timer_hz, and for init_timer_deadline.
LEMMA NewTimerKeeps ==
    ASSUME TimerInv, NEW t \in Timers, InitTimerTicks(t) \/ InitTimerDeadline(t)
    PROVE  TimerInv'
  <1>1. Ticks[t] \in Nat /\ tsc + Ticks[t] \in Nat /\ tsc + Ticks[t] > 0
    <2>1. Ticks[t] \in Nat
      BY TimerAssumption, Zenon
    <2> QED
      BY <2>1 DEF TimerInv, TimerTypeOK
  <1>2. CASE InitTimerTicks(t)
    BY <1>1, <1>2, InitTimerKeeps, Zenon DEF InitTimerTicks
  <1>3. CASE InitTimerDeadline(t)
    <2>1. Ticks[t] # 0 /\ InitTimer(t, Ticks[t])
      BY <1>3, Zenon DEF InitTimerDeadline, Disarmed
    <2>2. Ticks[t] > 0
      BY <1>1, <2>1
    <2> QED
      BY <1>1, <2>1, <2>2, InitTimerKeeps, Zenon
  <1> QED
    BY <1>2, <1>3, Zenon

-----------------------------------------------------------------------------
(* The theorems *)

\* init_timer_heap makes an empty heap.
LEMMA TimerInitInv == Init => TimerInv
  <1> SUFFICES ASSUME Init PROVE TimerInv
    BY Zenon
  <1>1. Top = 0 /\ Queued = {} /\ Held = {}
    BY DEF Init, Top, heap_max_idx, HEAP_ROOT_INDEX, Queued, Held
  <1>2. TimerTypeOK
    <2>1. 1 \in 1..Capacity /\ 1 \in Index
      BY TimerAssumption DEF Index
    <2>2. irq \in BOOLEAN
      BY Zenon DEF Init
    <2>3. flattened_tree \in [Index -> Timers \cup {NoTimer}]
      BY Zenon DEF Init
    <2>4. status \in [Timers -> {"free", "new", "queued", "done"}]
      BY Zenon DEF Init
    <2> QED
      BY <2>1, <2>2, <2>3, <2>4 DEF Init, TimerTypeOK, HEAP_ROOT_INDEX, Disarmed
  <1>3. LoopInv /\ Members /\ Order /\ Armed
    BY <1>1 DEF Init, LoopInv, Members, Order, Armed
  <1> QED
    BY <1>2, <1>3, Zenon DEF TimerInv

\* Every step keeps the invariant.
LEMMA TimerStep == TimerInv /\ [Next]_vars => TimerInv'
  <1> SUFFICES ASSUME TimerInv, [Next]_vars PROVE TimerInv'
    BY Zenon
  <1>1. CASE Tick \/ HwExpires \/ EnterHandler \/ HandlerEmpty \/ HandlerRearms
    BY <1>1, OutsideKeeps, Zenon
  <1>2. CASE HandlerFires
    BY <1>2, FiresKeeps, Zenon
  <1>3. CASE Loops
    BY <1>3, UpKeeps, AddedKeeps, DownKeeps, RootDeletedKeeps, Zenon DEF Loops
  <1>4. CASE \E t \in Timers : InitTimerTicks(t) \/ InitTimerDeadline(t) \/ AddTimer(t)
    BY <1>4, NewTimerKeeps, AddKeeps, Zenon
  <1>5. CASE UNCHANGED vars
    <2>1. UNCHANGED <<tsc, heap, elapse_deadline, status, hw, irq, pc, sift>>
      BY <1>5, Zenon DEF vars
    <2>2. Members' /\ Order' /\ Queued' = Queued
      BY <2>1, HeapKept, Zenon DEF TimerInv
    <2> QED
      BY <2>1, <2>2, Zenon DEF TimerInv, TimerTypeOK, LoopInv, Armed, heap, sift
  <1> QED
    BY <1>1, <1>2, <1>3, <1>4, <1>5, Zenon DEF Next, Handler

\* The invariant holds throughout.
LEMMA TimerInvariance == Spec => []TimerInv
  BY TimerInitInv, TimerStep, PTL DEF Spec

\* "Maintain a min-heap": for every set of timers, with any periods, and every
\* capacity, the array of the heap holds what was added and has not fired, each
\* timer once, with no timer due before its parent, whenever add_timer and
\* delete_root are not at work.
THEOREM TimersKeepTheHeap == Spec => []HeapExact
  <1>1. TimerInv => HeapExact
    <2> SUFFICES ASSUME TimerInv, loop = "none" PROVE HeapExact
      BY Zenon DEF HeapExact
    <2>1. Top = heap_max_idx /\ Held = Queued
      BY Zenon DEF Top, Held
    <2>2. {flattened_tree[i] : i \in 1..heap_max_idx} = Queued
      BY <2>1 DEF TimerInv, Members
    <2> QED
      BY <2>1, <2>2, Zenon DEF TimerInv, Members, Order, Open, HeapExact
  <1> QED
    BY <1>1, TimerInvariance, PTL

\* For every set of timers no thread ever runs with a timer queued for which no
\* interrupt will come: add_timer and the handler arm the hardware for the
\* earliest deadline, whenever time passes or the hardware expires in between.
THEOREM EarliestTimerArmed == Spec => []ArmedForEarliest
  <1>1. TimerInv => ArmedForEarliest
    BY Zenon DEF TimerInv, Armed, ArmedForEarliest, Running
  <1> QED
    BY <1>1, TimerInvariance, PTL
=============================================================================
