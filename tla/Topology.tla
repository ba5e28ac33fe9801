------------------------------ MODULE Topology ------------------------------
(***************************************************************************)
(* The whole-tree view of crates/topology/src/lib.rs: nodes and users with *)
(* an optional parent link, and at every node the set of occupied slots.   *)
(* A link is stored twice, at the child (parent and slot) and at the       *)
(* parent (its children set); every operation has to keep the two equal.   *)
(* An operation that fails leaves the topology as it is, so only the       *)
(* operations that succeed are actions.                                    *)
(***************************************************************************)
EXTENDS Tree

CONSTANTS
  Id,        \* node ids
  root,      \* the id given to new_root
  Slots      \* slots callers ask for

VARIABLE nodes   \* [a subset of Id -> [kind, parent, slot, children]]

ASSUME TopologyAssumption ==
  /\ root \in Id
  /\ NoNode \notin Id
  /\ NoSlot \notin Slot
  /\ IsFiniteSet(Id)

-----------------------------------------------------------------------------
Init == nodes = [ n \in {root} |-> Unattached("Node") ]

add_node(n, kind) ==
  /\ n \notin DOMAIN nodes
  /\ nodes' = [ m \in DOMAIN nodes \cup {n} |-> IF m = n THEN Unattached(kind) ELSE nodes[m] ]

(* Broken variant: only the child itself is looked for, not its ancestors. *)
attachUnchecked(p, c, s) ==
  /\ {p, c} \subseteq DOMAIN nodes /\ p # c /\ c # root
  /\ nodes[c].parent = NoNode /\ nodes[p].kind = "Node"
  /\ \E f \in resolve_slot(nodes, p, c, s) : nodes' = Relink(nodes, c, p, f)

(* A join of an unattached node, or of a whole island by its top node,     *)
(* under any node that is not below it.                                    *)
attach(p, c, s) ==
  /\ {p, c} \subseteq DOMAIN nodes /\ c # root
  /\ nodes[c].parent = NoNode
  /\ nodes[p].kind = "Node"
  /\ ~OnChain(nodes, c, p)
  /\ \E f \in resolve_slot(nodes, p, c, s) : nodes' = Relink(nodes, c, p, f)

(* The subtree of c becomes an island.                                     *)
detach(c) ==
  /\ c \in DOMAIN nodes \ {root}
  /\ nodes[c].parent # NoNode
  /\ nodes' = Unlink(nodes, c)

(* Broken variant: any node that is not below c may become its parent.     *)
move_childAcross(c, p, s) ==
  /\ {p, c} \subseteq DOMAIN nodes /\ nodes[c].parent # NoNode /\ nodes[p].kind = "Node"
  /\ ~OnChain(nodes, c, p)
  /\ \E f \in resolve_slot(nodes, p, c, s) : nodes' = Relink(nodes, c, p, f)

(* Downward only: the new parent is the old one or below it, and not below *)
(* c. Asking for the place c has changes nothing.                          *)
move_child(c, p, s) ==
  /\ {p, c} \subseteq DOMAIN nodes
  /\ nodes[c].parent # NoNode
  /\ nodes[p].kind = "Node"
  /\ ~OnChain(nodes, c, p) /\ OnChain(nodes, nodes[c].parent, p)
  /\ \E f \in resolve_slot(nodes, p, c, s) : nodes' = Relink(nodes, c, p, f)

(* Broken variant: the root goes as well once nothing is below it.         *)
remove_nodeAny(n) ==
  /\ n \in DOMAIN nodes /\ nodes[n].children = {}
  /\ nodes' = [ m \in DOMAIN nodes \ {n} |->
                  IF m = nodes[n].parent
                  THEN [nodes[m] EXCEPT !.children = @ \ {nodes[n].slot}] ELSE nodes[m] ]

(* A childless node other than the root leaves the topology.               *)
remove_node(n) ==
  /\ n \in DOMAIN nodes \ {root}
  /\ nodes[n].children = {}
  /\ nodes' = [ m \in DOMAIN nodes \ {n} |->
                  IF m = nodes[n].parent
                  THEN [nodes[m] EXCEPT !.children = @ \ {nodes[n].slot}] ELSE nodes[m] ]

Next ==
  \/ \E n \in Id : remove_node(n) \/ detach(n) \/ \E k \in Kind : add_node(n, k)
  \/ \E p, c \in Id, s \in Slots \cup {NoSlot} : attach(p, c, s) \/ move_child(c, p, s)

Spec == Init /\ [][Next]_nodes
-----------------------------------------------------------------------------
(* Every record has its type.                                              *)
TypeOK ==
  /\ root \in DOMAIN nodes /\ DOMAIN nodes \subseteq Id
  /\ \A n \in DOMAIN nodes :
       /\ nodes[n].kind \in Kind
       /\ nodes[n].parent \in Id \cup {NoNode}
       /\ nodes[n].slot \in Slot \cup {NoSlot}
       /\ nodes[n].children \subseteq Slot

(* Topology::validate "must pass after every legal operation"; and, what   *)
(* validate does not look for, no slot stays taken by a child that left.   *)
Valid ==
  /\ TypeOK
  /\ ValidTree(nodes, root)
  /\ \A n \in DOMAIN nodes : \A s \in nodes[n].children :
       \E c \in DOMAIN nodes : nodes[c].parent = n /\ nodes[c].slot = s

(* move_child "downward only": a node that is in the tree before and after *)
(* a step either keeps its address, or stood at or below a node that the   *)
(* step gave another parent or slot, and its new address lies below the    *)
(* parent that node had before.                                            *)
DownwardOnly ==
  [][ \A n \in DOMAIN nodes \cap DOMAIN nodes' :
        LET old == address_of(nodes, root, n)
            new == address_of(nodes', root, n)
        IN  old # None /\ new # None /\ old # new =>
              \E c \in DOMAIN nodes \cap DOMAIN nodes' :
                /\ <<nodes[c].parent, nodes[c].slot>> # <<nodes'[c].parent, nodes'[c].slot>>
                /\ OnChain(nodes, c, n)
                /\ is_ancestor_of(address_of(nodes, root, nodes[c].parent), new) ]_nodes
=============================================================================
