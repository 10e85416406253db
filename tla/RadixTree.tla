----------------------------- MODULE RadixTree -----------------------------
(***************************************************************************)
(* The radix tree of lib/radix-tree.c: one step for every round of         *)
(* __radix_tree_add.  A string is a sequence of letters; a letter may      *)
(* stand for several characters that no string splits.  Allocated nodes    *)
(* are numbered, so that a node to which no pointer leads any more is      *)
(* still there.  The root is node 1, no node is node 0.                    *)
(***************************************************************************)
EXTENDS Integers, Sequences, FiniteSets, Functions, TLC

VARIABLES
    nodes,   \* the nodes on the heap
    node,    \* the argument of the current round of __radix_tree_add
    rest     \* its key: what is left of the string

radix_vars == <<nodes, node, rest>>

NoData == "no data"

RadixInit == nodes = << >> /\ node = 0 /\ rest = << >>

\* children is a partial function from first letters.
allocate_radix_node(prefix) ==
    [prefix |-> prefix, children |-> << >>, terminating |-> FALSE, data |-> NoData]

create_radix_tree ==
    /\ nodes' = <<allocate_radix_node(<< >>)>>
    /\ UNCHANGED <<node, rest>>

get_key_index(key) == key[1]

\* &key[n]
From(key, n) == SubSeq(key, n + 1, Len(key))

ChildOf(n, key) ==
    IF get_key_index(key) \in DOMAIN nodes[n].children
    THEN nodes[n].children[get_key_index(key)] ELSE 0

get_common_prefix_length(child_prefix, key) ==
    LET common == {n \in 0..Len(key) : n <= Len(child_prefix)
                        /\ \A i \in 1..n : child_prefix[i] = key[i]}
    IN  CHOOSE n \in common : \A m \in common : m <= n

\* It returns true and sets *val to val.  The recursion is at a node, with so
\* many letters of the key behind it.
radix_tree_get(n, key, val) ==
    LET get[x \in (DOMAIN nodes) \X (0..Len(key))] ==
          \E tail \in {From(key, x[2])} :
             \/ tail = << >> /\ nodes[x[1]].terminating /\ nodes[x[1]].data = val
             \/ /\ tail # << >>
                /\ \E child \in {ChildOf(x[1], tail)} \ {0} :
                   \E common \in {get_common_prefix_length(nodes[child].prefix, tail)} :
                      /\ common = Len(nodes[child].prefix)
                      /\ get[<<child, x[2] + common>>]
    IN  get[<<n, 0>>]

-----------------------------------------------------------------------------
(* radix_tree_add *)

radix_tree_add(key) == node' = 1 /\ rest' = key /\ UNCHANGED nodes

\* The key ends here.
Terminate(data) ==
    /\ rest = << >>
    /\ nodes' = [nodes EXCEPT ![node].terminating = TRUE, ![node].data = data]
    /\ node' = 0
    /\ UNCHANGED rest

Fresh == Len(nodes) + 1

\* No child begins like the key: it gets one.
AddChild ==
    /\ rest # << >> /\ ChildOf(node, rest) = 0
    /\ nodes' = Append([nodes EXCEPT ![node].children = (get_key_index(rest) :> Fresh) @@ @],
                       allocate_radix_node(rest))
    /\ node' = Fresh
    /\ rest' = << >>

Common == get_common_prefix_length(nodes[ChildOf(node, rest)].prefix, rest)

Descend ==
    /\ rest # << >> /\ ChildOf(node, rest) # 0
    /\ Common = Len(nodes[ChildOf(node, rest)].prefix)
    /\ node' = ChildOf(node, rest)
    /\ rest' = From(rest, Common)
    /\ UNCHANGED nodes

\* Mutant: the old child is not linked below the new node.
InsertNodeAlone(child, common) ==
    allocate_radix_node(SubSeq(nodes[child].prefix, 1, common))

\* What insert_node is when the child has become its child.
InsertNode(child, common) ==
    [allocate_radix_node(SubSeq(nodes[child].prefix, 1, common)) EXCEPT
        !.children = (nodes[child].prefix[common + 1] :> child)]

SplitChild ==
    LET child == ChildOf(node, rest) IN
    /\ rest # << >> /\ child # 0
    /\ Common < Len(nodes[child].prefix)
    /\ nodes' = Append([nodes EXCEPT ![node].children[get_key_index(rest)] = Fresh,
                                     ![child].prefix = From(@, Common)],
                       InsertNode(child, Common))
    /\ node' = Fresh
    /\ rest' = From(rest, Common)

AddRound == AddChild \/ Descend \/ SplitChild

\* The round allocates a node and a prefix for it.
NeedsNode ==
    /\ node # 0 /\ rest # << >>
    /\ ChildOf(node, rest) # 0 => Common < Len(nodes[ChildOf(node, rest)].prefix)

\* The nodes destroy_radix_node comes to from n.
Subtree(n) ==
    LET below[m \in DOMAIN nodes] ==
          {m} \cup UNION {below[nodes[m].children[l]] : l \in DOMAIN nodes[m].children}
    IN  below[n]

\* A node that the recursion does not come to stays.
destroy_radix_tree ==
    /\ nodes' = Restrict(nodes, DOMAIN nodes \ Subtree(1))
    /\ node' = 0
    /\ rest' = << >>
=============================================================================
