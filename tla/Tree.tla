-------------------------------- MODULE Tree --------------------------------
(***************************************************************************)
(* Trees of links (crates/topology/src/lib.rs): records [kind, parent,     *)
(* slot, children] by id, with the derived addresses and the structural    *)
(* check. Used by the whole-tree topology and by the netting audit, which  *)
(* builds such a tree from the records of the nodes it was given.          *)
(***************************************************************************)
EXTENDS OctAddr, FiniteSets

CONSTANTS
  NoNode,    \* no parent
  NoSlot     \* no slot, and a caller that leaves the slot to the parent

Kind == {"Node", "User"}

(* A record that is attached nowhere.                                      *)
Unattached(kind) == [kind |-> kind, parent |-> NoNode, slot |-> NoSlot, children |-> {}]

(* The node k links above n, NoNode above the top of its chain.            *)
Above(t, n) ==
  LET up[k \in Nat] == IF k = 0 THEN n
                       ELSE LET m == up[k - 1] IN IF m = NoNode THEN NoNode ELSE t[m].parent
  IN  up

(* a is n or above n; a chain has no more links than there are nodes.      *)
OnChain(t, a, n) == \E k \in 0..Cardinality(DOMAIN t) : Above(t, n)[k] = a

(* walk_chain: does the chain of n end.                                    *)
Acyclic(t, n) == OnChain(t, NoNode, n)

(* The links from n up to a.                                               *)
Links(t, n, a) == CHOOSE k \in 0..Cardinality(DOMAIN t) : Above(t, n)[k] = a

(* The derived address: the root's is 0, a child's its parent's and slot.  *)
address_of(t, root, n) ==
  IF OnChain(t, root, n)
  THEN LET d == Links(t, n, root)
       IN  <<0>> \o [ i \in 1..d |-> t[Above(t, n)[d - i]].slot ]
  ELSE None

(* The slot p gives to c when asked for s, if there is one: c's own slot   *)
(* under p counts as free, NoSlot asks for the lowest free slot.           *)
resolve_slot(t, p, c, s) ==
  LET own  == IF t[c].parent = p THEN {t[c].slot} ELSE {}
      free == (Slot \ t[p].children) \cup own
  IN  IF s # NoSlot THEN free \cap {s}
      ELSE { f \in free : \A g \in free : f <= g }

(* c leaves the slot it holds, if it holds one, and takes slot f under p.  *)
Relink(t, c, p, f) ==
  LET left == [ m \in DOMAIN t |-> IF m = t[c].parent
                                   THEN [t[m] EXCEPT !.children = @ \ {t[c].slot}] ELSE t[m] ]
  IN  [ m \in DOMAIN t |->
          CASE m = c -> [left[m] EXCEPT !.parent = p, !.slot = f]
            [] m = p -> [left[m] EXCEPT !.children = @ \cup {f}]
            [] OTHER -> left[m] ]

(* c leaves the slot it holds and is attached nowhere.                     *)
Unlink(t, c) ==
  [ m \in DOMAIN t |->
      CASE m = c -> [t[m] EXCEPT !.parent = NoNode, !.slot = NoSlot]
        [] m = t[c].parent -> [t[m] EXCEPT !.children = @ \ {t[c].slot}]
        [] OTHER -> t[m] ]

(* Topology::validate: the two ends of every link agree, no slot is        *)
(* claimed twice, users are leaves, islands are acyclic and no two nodes   *)
(* of the tree of root have one address.                                   *)
ValidTree(t, root) ==
  /\ t[root].parent = NoNode
  /\ \A n \in DOMAIN t :
       /\ t[n].kind = "User" => t[n].children = {}
       /\ (t[n].parent = NoNode) <=> (t[n].slot = NoSlot)
       /\ t[n].parent # NoNode =>
            /\ t[n].parent \in DOMAIN t
            /\ t[t[n].parent].kind = "Node"
            /\ t[n].slot \in t[t[n].parent].children
       /\ \A s \in t[n].children :
            Cardinality({ c \in DOMAIN t : t[c].parent = n /\ t[c].slot = s }) <= 1
       /\ Acyclic(t, n)
  /\ LET addr == [ n \in DOMAIN t |-> address_of(t, root, n) ]
     IN  \A m, n \in DOMAIN t : m # n /\ addr[m] # None => addr[m] # addr[n]
=============================================================================
