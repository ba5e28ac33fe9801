------------------------------ MODULE Entries ------------------------------
(***************************************************************************)
(* The entries of a ledger (crates/ledger/src/account.rs): their body, the  *)
(* account they name, the deltas they post and the nonce or payment id of  *)
(* their authorization, and the books a sequence of entries amounts to.    *)
(***************************************************************************)
EXTENDS Balances, SequencesExt

CONSTANT Nil    \* no nonce, and no operation

(* The role of an entry that is no transfer.                               *)
NoHop == "None"

Entry(body, child, m, deltas, nonce) ==
  [seq |-> 0, body |-> body, role |-> NoHop, child |-> child, amount |-> m, deltas |-> deltas,
   nonce |-> nonce]

OpenAccount(c) == Entry("OpenAccount", c, 0, [a \in {} |-> 0], Nil)

Issue(c, m, nonce) == Entry("Issue", c, m, [a \in {c} |-> m], nonce)

Burn(c, m, nonce) == Entry("Burn", c, m, [a \in {c} |-> 0 - m], nonce)

EdgeClose(m, nonce) == Entry("EdgeClose", Parent, m, [a \in {Parent} |-> 0 - m], nonce)

Transfer(role, first, second, m, id) ==
  [Entry("Transfer", second, m, hop_postings(role, first, second, m), id) EXCEPT !.role = role]

posting_rule(e) ==
  CASE e.body \in {"Issue", "Burn"} -> Boundary(e.deltas)
    [] e.body = "EdgeClose"         -> BoundaryParent(e.deltas)
    [] OTHER                        -> Balanced(e.deltas)

(* The legs a body calls for.                                              *)
validate_shape(e) ==
  CASE e.body = "Transfer"    -> CanonicalTransfer(e.role, e.deltas, e.amount)
    [] e.body = "Issue"       -> e.amount > 0 /\ e.deltas = [a \in {e.child} |-> e.amount]
    [] e.body = "Burn"        -> e.amount > 0 /\ e.deltas = [a \in {e.child} |-> 0 - e.amount]
    [] e.body = "EdgeClose"   -> e.amount > 0 /\ e.deltas = [a \in {Parent} |-> 0 - e.amount]
    [] e.body = "OpenAccount" -> DOMAIN e.deltas = {}

(* Ledger::append on balances b: the sequence number, the rule of the body *)
(* and the balances must all agree, and deltas fit the signed range.       *)
Appendable(b, len, e) ==
  /\ e.seq = len
  /\ e.amount <= I64_MAX
  /\ posting_rule(e)
  /\ validate_shape(e)
  /\ e.body = "OpenAccount" => ~IsOpen(b, e.child)
  /\ CanApply(b, e.deltas)

ApplyEntry(b, e) == IF e.body = "OpenAccount" THEN open_account(b, e.child)
                    ELSE apply_deltas(b, e.deltas)

(* The books a replay of the log ends with.                                *)
Books(s) == FoldLeft(ApplyEntry, new_balances, s)

balance_of(s, c) == IF IsOpen(Books(s), c) THEN Books(s)[c] ELSE 0

(* rebuild_consumed and rebuild_value_index.                               *)
rebuild_consumed(s) == { s[i].nonce : i \in { j \in DOMAIN s : s[j].body = "Transfer" } }

rebuild_value_index(s) == { s[i] : i \in { j \in DOMAIN s : s[j].body \in {"Issue", "Burn"} } }
=============================================================================
