------------------------------- MODULE OctAddr -------------------------------
(***************************************************************************)
(* Octal hierarchical addresses (crates/proto/src/addr.rs) and the pure    *)
(* route functions built on them: the next hop of an envelope              *)
(* (crates/msg/src/route.rs), the ordered signers of a settlement cascade  *)
(* (crates/node/src/settlement.rs) and the role a signer plays             *)
(* (crates/ledger/src/settlement.rs).                                      *)
(*                                                                         *)
(* An address is the sequence of its digits, the root being <<0>>. The     *)
(* empty sequence is no address: it stands for Rust's None wherever an     *)
(* Option<OctAddr> or an Option<Vec<OctAddr>> is returned.                 *)
(***************************************************************************)
EXTENDS Integers, Sequences

(* Largest octal slot digit: a node has at most eight children.            *)
MAX_SLOT == 7

None == << >>

Slot == 0..MAX_SLOT

(* Every constructor enforces: not empty, first digit 0, octal digits.     *)
OctAddr == { a \in Seq(Slot) : a # None /\ a[1] = 0 }

(* The addresses of depth at most n: a finite set for TLC.                 *)
OctAddrUpTo(n) == { <<0>> \o s : s \in UNION { [1..k -> Slot] : k \in 0..(n - 1) } }

depth(a) == Len(a)

is_root(a) == depth(a) = 1

slot(a) == a[Len(a)]

(* The address of the first k levels of a.                                 *)
Prefix(a, k) == SubSeq(a, 1, k)

parent(a) == IF is_root(a) THEN None ELSE Prefix(a, Len(a) - 1)

child(a, s) == Append(a, s)

is_ancestor_of(a, b) == depth(a) < depth(b) /\ Prefix(b, depth(a)) = a

(* The number of leading levels a and b share, take_while(a == b).count(): *)
(* the first place after which they differ or one of them ends.            *)
Ends(a, b) == { n \in 0..Len(a) : n <= Len(b) /\ (n < Len(a) /\ n < Len(b) => a[n + 1] # b[n + 1]) }

Common(a, b) == CHOOSE n \in Ends(a, b) : \A m \in Ends(a, b) : n <= m

lca(a, b) == Prefix(a, Common(a, b))

(* The child of a on the way down to b, for an ancestor a of b.            *)
ChildToward(a, b) == child(a, b[depth(a) + 1])

(***************************************************************************)
(* One step from an address toward dst: nowhere when already there, down   *)
(* into the child on dst's path, otherwise up (nowhere at the root).       *)
(***************************************************************************)
next_step(from, dst) ==
  CASE from = dst                -> None
    [] is_ancestor_of(from, dst) -> ChildToward(from, dst)
    [] OTHER                     -> parent(from)

(***************************************************************************)
(* The ordered signers of a cascade from user src to user dst: the payer's *)
(* leaf, up to the least common ancestor of the two leaves, down to the    *)
(* payee's leaf. None for a same-leaf payment, and when one leaf is above  *)
(* the other.                                                              *)
(***************************************************************************)
route_signers(src, dst) ==
  LET s == parent(src)
      d == parent(dst)
      n == Common(s, d)
      up == Len(s) - n + 1
  IN  IF \/ depth(src) < 2 \/ depth(dst) < 2
         \/ s = d
         \/ n = Len(s) \/ n = Len(d)
      THEN None
      ELSE [ k \in 1..(up + Len(d) - n) |->
               IF k <= up THEN Prefix(s, Len(s) - k + 1) ELSE Prefix(d, n + k - up) ]

(* The role of a candidate hop on the canonical route between two users.   *)
HopRole == {"Ascend", "Lca", "Descend", "Direct"}

NoRole == "None"

classify_hop(src, dst, this) ==
  LET top == lca(src, dst)
      Below(end) == this = end \/ (is_ancestor_of(top, this) /\ is_ancestor_of(this, end))
  IN  IF parent(src) = parent(dst)
      THEN IF parent(src) = this THEN "Direct" ELSE NoRole
      ELSE IF this = top   THEN "Lca"
      ELSE IF Below(src)   THEN "Ascend"
      ELSE IF Below(dst)   THEN "Descend"
      ELSE NoRole
=============================================================================
