-------------------------- MODULE MCLedgerService --------------------------
(* Small instances of LedgerService.                                       *)
EXTENDS LedgerService

CONSTANTS a1, a2, r1, r2, r3, t1, t2

V(kind, id, account, m) == [kind |-> kind, id |-> id, account |-> account, amount |-> m]

(* An issue, the same request id with another amount, a burn, an issue     *)
(* beyond the signed range, and a request for nothing.                     *)
Requests == { V("Issue", r1, a1, 2), V("Issue", r1, a1, 1), V("Burn", r2, a1, 1), V("Issue", r3, a2, 3),
              V("Burn", r2, a2, 0) }

C(kind, account, m) == [kind |-> kind, account |-> account, amount |-> m]

Commands == { C("fund", a1, 1), C("prefund", a2, 1), C("edge_close", a1, 0), C("commit", a1, 0), C("open_account", a1, 0) }

H(id, role, first, second, m) ==
  [kind |-> "transfer", id |-> id, role |-> role, first |-> first, second |-> second, amount |-> m]

Payments == { H(t1, "Direct", a1, a2, 1), H(t2, "Ascend", Parent, a2, 1) }
=============================================================================
