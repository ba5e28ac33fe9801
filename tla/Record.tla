------------------------------- MODULE Record -------------------------------
(***************************************************************************)
(* The persisted record of a node (crates/node/src/record.rs, node.json):  *)
(* its asserted address, its parent link with the mark of the last re-base *)
(* applied from that parent, its child links, and its own routing epoch.   *)
(* A mutator returns the new record; X_ok says when it succeeds. Children  *)
(* are a function from child ids, so the order of the list is left out,    *)
(* and so is date_joined, which nothing decides on.                        *)
(***************************************************************************)
EXTENDS OctAddr, FiniteSets

NoLink == [id |-> "none", slot |-> -1, generation |-> 0]

(* A caller that leaves the slot to the parent.                            *)
AnySlot == -1

NodeRecord(id) ==
  [id |-> id, address |-> None, parent |-> NoLink, children |-> << >>, address_epoch |-> 0]

HasParent(r) == r.parent # NoLink

Kids(r) == DOMAIN r.children

TakenBy(r, others) == { r.children[c].slot : c \in others }

Free(r) == Slot \ TakenBy(r, Kids(r))

LowestOf(S) == CHOOSE s \in S : \A x \in S : s <= x

(* NodeRecord::validate, on load, on save and after every mutation.        *)
validate(r) ==
  /\ HasParent(r) => r.parent.id # r.id /\ r.parent.slot \in Slot
  /\ r.address # None =>
       IF HasParent(r) THEN depth(r.address) >= 2 /\ slot(r.address) = r.parent.slot
       ELSE is_root(r.address)
  /\ \A c \in Kids(r) : c # r.id /\ r.children[c].slot \in Slot
  /\ \A c, d \in Kids(r) : c # d => r.children[c].slot # r.children[d].slot

(* A notice is never older than the mark of the link it came over.         *)
set_parent_generation(r, g) ==
  IF HasParent(r) /\ g > r.parent.generation THEN [r EXCEPT !.parent.generation = g] ELSE r

(* The epoch counts the changes of the address.                            *)
set_address_value(r, a) ==
  IF r.address = a THEN r ELSE [r EXCEPT !.address = a, !.address_epoch = @ + 1]

(* Address, slot and mark in one step: set one by one they would fail.     *)
apply_rebase(r, a, s, g) ==
  set_parent_generation([set_address_value(r, a) EXCEPT !.parent.slot = s], g)

attach_child_ok(r, c, s) ==
  /\ c # r.id /\ c \notin Kids(r)
  /\ IF s = AnySlot THEN Free(r) # {} ELSE s \in Free(r)

attach_child(r, c, kind, s) ==
  LET at == IF s = AnySlot THEN LowestOf(Free(r)) ELSE s
  IN  [r EXCEPT !.children = [ d \in Kids(r) \cup {c} |->
         IF d = c THEN [kind |-> kind, slot |-> at, eth_address |-> "none"] ELSE r.children[d] ]]

detach_child(r, c) == [r EXCEPT !.children = [ d \in Kids(r) \ {c} |-> r.children[d] ]]

move_child_slot_ok(r, c, s) == c \in Kids(r) /\ s \in Slot \ TakenBy(r, Kids(r) \ {c})

(* Broken variant: the child moves and the epoch stays.                    *)
move_child_slotSameEpoch(r, c, s) == [r EXCEPT !.children[c].slot = s]

(* A re-slot keeps kind and anchor, and moves the whole subtree of c, so   *)
(* the epoch advances; the same slot again changes nothing.                *)
move_child_slot(r, c, s) ==
  IF r.children[c].slot = s THEN r
  ELSE [r EXCEPT !.children[c].slot = s, !.address_epoch = @ + 1]

set_child_eth_address(r, c, anchor) == [r EXCEPT !.children[c].eth_address = anchor]

(* A new link starts without a mark.                                       *)
set_parent(r, p, s) == [r EXCEPT !.parent = [id |-> p, slot |-> s, generation |-> 0]]

unset_parent(r) ==
  LET cut == [r EXCEPT !.parent = NoLink]
  IN  IF r.address # None /\ ~is_root(r.address) THEN set_address_value(cut, None) ELSE cut

(* Parent link and address in one step: the exit and detach primitive.     *)
rebase_to_root(r) == set_address_value([r EXCEPT !.parent = NoLink], <<0>>)

set_address(r, a) == set_address_value(r, a)

unset_address(r) == set_address_value(r, None)
=============================================================================
