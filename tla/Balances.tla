------------------------------ MODULE Balances ------------------------------
(***************************************************************************)
(* The balances of one node and the posting rules every ledger entry goes  *)
(* through (crates/ledger/src/account.rs), with the posting shape of a     *)
(* transfer hop (crates/ledger/src/settlement.rs).                         *)
(*                                                                         *)
(* Balances are a function from accounts to amounts. Its domain is the     *)
(* universal Parent account and the children whose account was opened.     *)
(* Deltas are the postings of one entry, already summed per account.       *)
(***************************************************************************)
EXTENDS Integers, FiniteSets, FiniteSetsExt

CONSTANTS U64_MAX,   \* the largest Amount
          I64_MAX    \* the largest delta of a posting (SignedAmount)

ASSUME WidthAssumption == I64_MAX \in Nat /\ U64_MAX \in Nat /\ I64_MAX <= U64_MAX

(* The Parent account: no child is called by the empty address.            *)
Parent == << >>

Amount == 0..U64_MAX

(* Every node starts with the Parent account at zero and no child account. *)
new_balances == [ a \in {Parent} |-> 0 ]

Children(b) == DOMAIN b \ {Parent}

SumOver(f, S) == MapThenSumSet(LAMBDA a : f[a], S)

(* Equity is derived, never posted.                                        *)
equity(b) == b[Parent] - SumOver(b, Children(b))

IsOpen(b, c) == c \in DOMAIN b

open_account(b, c) == [ a \in DOMAIN b \cup {c} |-> IF a \in DOMAIN b THEN b[a] ELSE 0 ]

(***************************************************************************)
(* The three posting rules. Balanced entries move Parent and the sum of    *)
(* the children by the same delta; a boundary entry has one child leg, or  *)
(* one Parent leg, and is exempt from the equation.                        *)
(***************************************************************************)
Balanced(d) ==
  (IF Parent \in DOMAIN d THEN d[Parent] ELSE 0) = SumOver(d, DOMAIN d \ {Parent})

Boundary(d) == \E c \in DOMAIN d \ {Parent} : DOMAIN d = {c} /\ d[c] # 0

BoundaryParent(d) == DOMAIN d = {Parent} /\ d[Parent] # 0

(* validate_shape of a transfer of m: the two legs its role calls for.      *)
CanonicalTransfer(role, d, m) ==
  /\ m > 0
  /\ Cardinality(DOMAIN d) = 2
  /\ IF role \in {"Ascend", "Descend"}
     THEN /\ Parent \in DOMAIN d
          /\ \A a \in DOMAIN d : d[a] = IF role = "Ascend" THEN 0 - m ELSE m
     ELSE Parent \notin DOMAIN d /\ { d[a] : a \in DOMAIN d } = {m, 0 - m}

(* Broken variant: the balance is not checked against its range.           *)
CanApplyUnchecked(b, d) == DOMAIN d \subseteq DOMAIN b

(* Applying to a clone and committing only on full success: every account  *)
(* is open, none is overdrawn and none overflows.                          *)
CanApply(b, d) ==
  /\ DOMAIN d \subseteq DOMAIN b
  /\ \A a \in DOMAIN d : b[a] + d[a] \in Amount

(* Broken variant: the Parent leg of an entry is not applied.              *)
apply_deltasSkippingParent(b, d) ==
  [ a \in DOMAIN b |-> IF a \in DOMAIN d \ {Parent} THEN b[a] + d[a] ELSE b[a] ]

apply_deltas(b, d) == [ a \in DOMAIN b |-> IF a \in DOMAIN d THEN b[a] + d[a] ELSE b[a] ]

(***************************************************************************)
(* The postings of one transfer hop of m: both legs lose on the way up,    *)
(* both gain on the way down, and value moves from the first account to    *)
(* the second at the top and within one leaf.                              *)
(***************************************************************************)
hop_postings(role, first, second, m) ==
  [ a \in {first, second} |->
      IF role = "Descend" \/ (role # "Ascend" /\ a = second) THEN m ELSE 0 - m ]
=============================================================================
