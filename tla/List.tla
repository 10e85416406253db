-------------------------------- MODULE List --------------------------------
(***************************************************************************)
(* The intrusive doubly linked lists of lib/list.h.  A heap of list_heads  *)
(* is a record of the two pointer functions next and prev over the nodes;  *)
(* the operations are the pointer writes of the code, in their order.      *)
(***************************************************************************)
EXTENDS Naturals, FiniteSets, Sequences

CONSTANT NULL

\* INIT_LIST_HEAD for every node of heads; the other nodes are zeroed.
InitLinks(nodes, heads) ==
    LET self == [n \in nodes |-> IF n \in heads THEN n ELSE NULL]
    IN  [next |-> self, prev |-> self]

__list_add(l, new_node, before_nn, after_nn) ==
    [next |-> [l.next EXCEPT ![new_node] = after_nn, ![before_nn] = new_node],
     prev |-> [l.prev EXCEPT ![new_node] = before_nn, ![after_nn] = new_node]]

\* Mutant: the new node goes to the front of the list.
ListAddFront(l, head, new_node) == __list_add(l, new_node, head, l.next[head])

list_add_tail(l, head, new_node) == __list_add(l, new_node, l.prev[head], head)

__list_remove(l, prev, next) ==
    [next |-> [l.next EXCEPT ![prev] = next], prev |-> [l.prev EXCEPT ![next] = prev]]

list_remove_entry(l, e) ==
    LET r == __list_remove(l, l.prev[e], l.next[e])
    IN  [next |-> [r.next EXCEPT ![e] = NULL], prev |-> [r.prev EXCEPT ![e] = NULL]]

list_remove_head(l, head) == list_remove_entry(l, l.next[head])

list_first_entry_nullable(l, head) == IF l.next[head] = head THEN NULL ELSE l.next[head]

\* Removing e dereferences both of its pointers.
Removable(l, e) == l.prev[e] # NULL /\ l.next[e] # NULL
-----------------------------------------------------------------------------
\* The nodes list_for_each visits from head until it is back at head, in order,
\* the closing head included; of an open chain, the nodes it reaches.
Traversal(l, head) ==
    LET n == Cardinality(DOMAIN l.next)
        next == [m \in DOMAIN l.next \cup {NULL} |-> IF m = NULL THEN NULL ELSE l.next[m]]
        node[k \in 0 .. n] == IF k = 0 THEN head ELSE next[node[k-1]]
        nodes == [k \in 1 .. n |-> node[k]]
        ends == {k \in 1 .. n : nodes[k] \in {head, NULL}}
    IN  SubSeq(nodes, 1, IF ends = {} THEN n ELSE CHOOSE k \in ends : \A j \in ends : k <= j)

\* The entries of the list at head.
Entries(l, head) == SelectSeq(Traversal(l, head), LAMBDA n : n \notin {head, NULL})

\* A traversal ends at head, and prev undoes next all the way.
IsWellFormed(l, head) ==
    LET path == <<head>> \o Traversal(l, head)
    IN  /\ path[Len(path)] = head
        /\ \A k \in 1 .. (Len(path) - 1) : l.prev[path[k+1]] = path[k]
=============================================================================
