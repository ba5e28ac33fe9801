---------------------------- MODULE WalletState ----------------------------
(***************************************************************************)
(* The two documents a browser wallet keeps: its place in the tree         *)
(* (LocalStateV1, crates/client-wasm/src/state.rs) and its view of the     *)
(* ledger (LedgerStateV1, crates/client-wasm/src/ledger_state.rs): the key *)
(* pinned for the parent, the last verified balance, the orders under way, *)
(* the keys pinned for other leaves and the different keys presented for   *)
(* pinned ones. A method returns the new document; X_ok says when it acts. *)
(* Documents are honest, so a signature is a check of the sender.          *)
(***************************************************************************)
EXTENDS OctAddr, SequencesExt

CONSTANTS MAX_PENDING_ORDERS, MAX_PINNED_LEAF_KEYS, MAX_LEAF_KEY_CHANGES, MAX_SETTLEMENT_RECORDS

ASSUME LimitAssumption ==
  {MAX_PENDING_ORDERS, MAX_PINNED_LEAF_KEYS, MAX_LEAF_KEY_CHANGES, MAX_SETTLEMENT_RECORDS} \subseteq Nat

Nil == "nil"

NoOutbound == [nonce |-> 0, parent |-> Nil]

(* Not part of the document: link, the request whose approval made the     *)
(* link (or the ledger document was bound to), 0 when the wallet has left  *)
(* it and Lost in a document that could not be read, and epoch, the epoch  *)
(* of the parent that the address belongs to.                              *)
Lost == -1

LocalState == [outbound |-> NoOutbound, parent |-> Nil, slot |-> 0, address |-> None,
               rejected |-> FALSE, link |-> 0, epoch |-> 0]

NoBalance == [of |-> Nil, height |-> 0]

LedgerState == [pinned |-> Nil, trust |-> "Unconfirmed", balance |-> NoBalance, pending |-> << >>,
                leaves |-> << >>, changes |-> << >>, settlements |-> << >>, link |-> 0]

-----------------------------------------------------------------------------
set_outbound(s, nonce, p) ==
  [s EXCEPT !.outbound = [nonce |-> nonce, parent |-> p], !.rejected = FALSE]

reject_outbound(s) == [s EXCEPT !.outbound = NoOutbound, !.rejected = TRUE]

(* Broken variant: any approval of the parent asked for will do.           *)
on_join_approved_okAny(s, f) == s.outbound # NoOutbound /\ s.outbound.parent = f.from

(* Only the answer of that parent to the request that is outstanding.      *)
on_join_approved_ok(s, f) ==
  s.outbound # NoOutbound /\ s.outbound.parent = f.from /\ s.outbound.nonce = f.id

on_join_approved(s, f) ==
  [outbound |-> NoOutbound, parent |-> f.from, slot |-> slot(f.address), address |-> f.address,
   rejected |-> FALSE, link |-> f.id, epoch |-> f.n]

(* A rejection without a nonce (the command line sends one when it has no  *)
(* queued request) cancels whatever is outstanding at that parent.         *)
on_join_rejected_ok(s, f) ==
  s.outbound # NoOutbound /\ s.outbound.parent = f.from /\ f.id \in {0, s.outbound.nonce}

Attached(s) == s.parent # Nil

apply_rebase(s, f) == [s EXCEPT !.address = f.address, !.epoch = f.n]

(* A detach drops a join that is under way, whoever it was sent to.        *)
apply_detach(s) ==
  IF s.parent = Nil /\ s.address = None THEN s
  ELSE [s EXCEPT !.parent = Nil, !.slot = 0, !.address = None, !.outbound = NoOutbound,
                  !.link = 0, !.epoch = 0]

-----------------------------------------------------------------------------
(* The lists of a ledger document, oldest first: an id occurs once.        *)
Listed(list, n) == \E i \in DOMAIN list : list[i].id = n

Place(list, n) == CHOOSE i \in DOMAIN list : list[i].id = n

EntryOf(list, n) == list[Place(list, n)]

Without(list, n) == IF Listed(list, n) THEN RemoveAt(list, Place(list, n)) ELSE list

PinnedLeafKey(n, key, trust) == [id |-> n, key |-> key, trust |-> trust]

LeafKeyChange(n, pinned, presented) == [id |-> n, pinned |-> pinned, presented |-> presented]

pinned_leaf_key(l, n) == IF Listed(l.leaves, n) THEN EntryOf(l.leaves, n).key ELSE Nil

(* Broken variant: the oldest entry is kept.                               *)
LastNAll(list, max) == list

LastN(list, max) == IF Len(list) > max THEN Tail(list) ELSE list

(* Replaced in place, or added at the end, which may push out the oldest.  *)
Put(list, x, max) ==
  IF Listed(list, x.id) THEN [ i \in DOMAIN list |-> IF list[i].id = x.id THEN x ELSE list[i] ]
  ELSE LastN(Append(list, x), max)

set_leaf_key(l, n, key, trust) ==
  [l EXCEPT !.leaves = Put(@, PinnedLeafKey(n, key, trust), MAX_PINNED_LEAF_KEYS)]

record_leaf_key_change(l, n, pinned, presented) ==
  [l EXCEPT !.changes = Put(@, LeafKeyChange(n, pinned, presented), MAX_LEAF_KEY_CHANGES)]

clear_leaf_key_changes(l, n) == [l EXCEPT !.changes = Without(@, n)]

presented_key(l, n) == IF Listed(l.changes, n) THEN EntryOf(l.changes, n).presented ELSE Nil

(* Broken variant: the key of the receive URI replaces a different pin.    *)
pin_leaf_key_from_receiveAdopting(l, n, key) == set_leaf_key(l, n, key, "Confirmed")

pin_leaf_key_from_receive(l, n, key) ==
  IF pinned_leaf_key(l, n) \in {Nil, key} THEN set_leaf_key(l, n, key, "Confirmed")
  ELSE record_leaf_key_change(l, n, pinned_leaf_key(l, n), key)

(* The user keeps the pinned key.                                          *)
Confirmed(list, n) ==
  [ i \in DOMAIN list |-> IF list[i].id = n THEN PinnedLeafKey(n, list[i].key, "Confirmed") ELSE list[i] ]

confirm_leaf_pin(l, n) == clear_leaf_key_changes([l EXCEPT !.leaves = Confirmed(@, n)], n)

confirm_pinned_ledger(l, n) ==
  clear_leaf_key_changes(IF l.pinned = Nil THEN l ELSE [l EXCEPT !.trust = "Confirmed"], n)

(* The user adopts the presented key.                                      *)
accept_leaf_key_change(l, n) ==
  IF presented_key(l, n) = Nil THEN l
  ELSE clear_leaf_key_changes(set_leaf_key(l, n, presented_key(l, n), "Confirmed"), n)

accept_pinned_ledger_change(l, n) ==
  IF presented_key(l, n) = Nil THEN l
  ELSE clear_leaf_key_changes([l EXCEPT !.pinned = presented_key(l, n), !.trust = "Confirmed"], n)

-----------------------------------------------------------------------------
(* Broken variant: the balance of the former parent stays.                 *)
rebind_parentKeeping(l, key) == [l EXCEPT !.pinned = key, !.trust = "Confirmed", !.pending = << >>]

rebind_parent(l, key) ==
  [l EXCEPT !.pinned = key, !.trust = "Confirmed", !.balance = NoBalance, !.pending = << >>]

clear_parent_binding(l) ==
  [l EXCEPT !.pinned = Nil, !.trust = "Unconfirmed", !.balance = NoBalance, !.pending = << >>]

push_pending(l, o) == [l EXCEPT !.pending = LastN(Append(@, [id |-> o]), MAX_PENDING_ORDERS)]

(* A receipt counts for the current parent p only, and under its pin; the  *)
(* first key seen without a pin is pinned, unconfirmed. A different key is *)
(* recorded and the receipt refused.                                       *)
verify_receipt_ok(l, f, p) == f.from = p /\ l.pinned \in {Nil, f.key}

verify_receipt(l, f, p) ==
  IF f.from # p THEN l
  ELSE IF l.pinned = Nil THEN [l EXCEPT !.pinned = f.key, !.trust = "Unconfirmed"]
  ELSE IF l.pinned = f.key THEN l
  ELSE record_leaf_key_change(l, p, l.pinned, f.key)

(* The newest receipt to arrive wins, whatever its height.                 *)
apply_balance_receipt(l, f, p) ==
  IF ~verify_receipt_ok(l, f, p) THEN verify_receipt(l, f, p)
  ELSE [verify_receipt(l, f, p) EXCEPT !.balance = [of |-> f.from, height |-> f.n]]

(* record_settlement: one record per order, the oldest goes.               *)
record_settlement(l, o, st) ==
  [l EXCEPT !.settlements = Put(@, [id |-> o, state |-> st], MAX_SETTLEMENT_RECORDS)]

(* The proof of a terminal entry verifies under the pin of its signer, or  *)
(* gives the first one.                                                    *)
verify_settlement_proof(l, proof) == pinned_leaf_key(l, proof.node) \in {Nil, proof.key}

terminal_settlement_state(l, o, proof) ==
  IF ~verify_settlement_proof(l, proof)
  THEN record_settlement(record_leaf_key_change(l, proof.node, pinned_leaf_key(l, proof.node), proof.key),
                         o, "unverified")
  ELSE record_settlement(IF pinned_leaf_key(l, proof.node) # Nil THEN l
                         ELSE set_leaf_key(l, proof.node, proof.key, "Unconfirmed"), o, "applied")

(* A result for an order under way: the receipt it may carry is verified   *)
(* first, and one that fails refuses the whole result.                     *)
apply_settlement_result(l, f, p) ==
  LET carried == f.n # 0
      v == IF carried THEN verify_receipt(l, f, p) ELSE l
      r == IF f.status = "applied" THEN terminal_settlement_state(v, f.id, f.proof)
           ELSE record_settlement(v, f.id, f.status)
  IN  IF ~Listed(l.pending, f.id) THEN l
      ELSE IF carried /\ ~verify_receipt_ok(l, f, p) THEN v
      ELSE [r EXCEPT !.pending = Without(@, f.id),
                     !.balance = IF carried THEN [of |-> f.from, height |-> f.n] ELSE @]
=============================================================================
