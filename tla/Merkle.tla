------------------------------- MODULE Merkle -------------------------------
(***************************************************************************)
(* Merkle trees over a ledger (crates/ledger/src/merkle.rs), the signed    *)
(* commitments to them (commit.rs) and the proofs checked against a        *)
(* commitment (proof.rs). A hash is the term it was computed from, so two  *)
(* hashes are equal exactly when their inputs are; signatures are left     *)
(* out, a commitment names the ledger that signed it.                      *)
(***************************************************************************)
EXTENDS Entries

CONSTANT ById    \* the node ids in NodeId order

leaf_hash(x)    == <<"leaf", x>>
node_hash(x, y) == <<"node", x, y>>
empty_tree_root == <<"empty">>
ZERO            == <<"zero">>

state_leaf_hash(account, balance) == <<"state", account, balance>>

largest_power_of_two_less_than(n) ==
  LET k == CHOOSE i \in 0..n : 2^i < n /\ 2^(i + 1) >= n IN 2^k

(* The Merkle Tree Hash of leaves lo+1 to hi.                              *)
Subtree(leaves) ==
  LET mth[lo \in 0..Len(leaves), hi \in 0..Len(leaves)] ==
        LET k == largest_power_of_two_less_than(hi - lo)
        IN  CASE hi = lo     -> empty_tree_root
              [] hi = lo + 1 -> leaves[hi]
              [] OTHER       -> node_hash(mth[lo, lo + k], mth[lo + k, hi])
  IN  mth

root(leaves) == Subtree(leaves)[0, Len(leaves)]

(* The siblings on the way from leaf index (from 0) up to the root.        *)
inclusion_proof(leaves, index) ==
  LET path[lo \in 0..Len(leaves), hi \in 0..Len(leaves)] ==
        LET k == largest_power_of_two_less_than(hi - lo)
        IN  IF hi - lo <= 1 THEN << >>
            ELSE IF index < lo + k THEN Append(path[lo, lo + k], Subtree(leaves)[lo + k, hi])
            ELSE Append(path[lo + k, hi], Subtree(leaves)[lo, lo + k])
  IN  path[0, Len(leaves)]

(* The length of that path, from the index and the size alone.             *)
proof_len(index, tree_size) ==
  LET down[lo \in 0..tree_size, hi \in 0..tree_size] ==
        LET k == largest_power_of_two_less_than(hi - lo)
        IN  IF hi - lo <= 1 THEN 0
            ELSE 1 + (IF index < lo + k THEN down[lo, lo + k] ELSE down[lo + k, hi])
  IN  down[0, tree_size]

(* The zero bits at the end of n.                                          *)
TrailingZeros(n) == IF n = 0 THEN 0 ELSE CHOOSE i \in 0..n : n % 2^i = 0 /\ n % 2^(i + 1) # 0

(* Broken variant: the levels without a sibling are not skipped.           *)
FoldSiblingEachLevel(st, sibling) ==
  LET right == st.fn % 2 = 1 \/ st.fn = st.sn
  IN  [ok   |-> st.ok /\ st.sn # 0,
       node |-> IF right THEN node_hash(sibling, st.node) ELSE node_hash(st.node, sibling),
       fn   |-> st.fn \div 2,
       sn   |-> st.sn \div 2]

(* One sibling folded in: it goes left of a node that is a right child or  *)
(* the last of its level, which then skips the levels without a sibling.   *)
FoldSibling(st, sibling) ==
  LET right == st.fn % 2 = 1 \/ st.fn = st.sn
      shift == 1 + (IF right THEN TrailingZeros(st.fn) ELSE 0)
  IN  [ok   |-> st.ok /\ st.sn # 0,
       node |-> IF right THEN node_hash(sibling, st.node) ELSE node_hash(st.node, sibling),
       fn   |-> st.fn \div 2^shift,
       sn   |-> st.sn \div 2^shift]

verify_inclusion(leaf, index, tree_size, proof, top) ==
  /\ index < tree_size
  /\ Len(proof) = proof_len(index, tree_size)
  /\ LET end == FoldLeft(FoldSibling,
                         [ok |-> TRUE, node |-> leaf, fn |-> index, sn |-> tree_size - 1], proof)
     IN  end.ok /\ end.sn = 0 /\ end.node = top

-----------------------------------------------------------------------------
EntryLeaves(s) == [ i \in DOMAIN s |-> leaf_hash(s[i]) ]

entry_root(s) == root(EntryLeaves(s))

(* Parent first, then the open child accounts in NodeId order.             *)
accounts(b) == <<Parent>> \o SelectSeq(ById, LAMBDA c : IsOpen(b, c))

StateLeaves(b) == [ i \in DOMAIN accounts(b) |-> state_leaf_hash(accounts(b)[i], b[accounts(b)[i]]) ]

state_root(b) == root(StateLeaves(b))

IndexOf(b, account) == CHOOSE i \in DOMAIN accounts(b) : accounts(b)[i] = account

state_inclusion_proof(b, account) ==
  [index     |-> IndexOf(b, account) - 1,
   tree_size |-> Len(accounts(b)),
   proof     |-> inclusion_proof(StateLeaves(b), IndexOf(b, account) - 1)]

verify_state_inclusion(account, balance, p, top) ==
  verify_inclusion(state_leaf_hash(account, balance), p.index, p.tree_size, p.proof, top)

(* The proof for entry seq (from 0) of log s, and its check.               *)
entry_inclusion_proof(s, seq) ==
  [index |-> seq, tree_size |-> Len(s), proof |-> inclusion_proof(EntryLeaves(s), seq)]

verify_entry_inclusion(e, p, top) ==
  p.index < p.tree_size /\ verify_inclusion(leaf_hash(e), p.index, p.tree_size, p.proof, top)

(* The terminal entry credits the payee of order o with its amount; at the *)
(* payer's own leaf it also debits the payer.                              *)
verify_applied_entry(e, o, payer_leaf) ==
  LET Net(c) == IF c \in DOMAIN e.deltas THEN e.deltas[c] ELSE 0
  IN  /\ e.body = "Transfer" /\ e.nonce = o.id /\ e.amount = o.amount
      /\ Net(o.to) = o.amount
      /\ IF payer_leaf THEN e.role = "Direct" /\ Net(o.from) = 0 - o.amount
         ELSE e.role = "Descend"

-----------------------------------------------------------------------------
commitment_hash(c) == <<"commitment", c>>

(* The commitment of ledger n to its log s, after the chain of earlier     *)
(* ones. Broken variant: every commitment starts a chain of its own.       *)
build_commitmentUnlinked(n, s, chain) ==
  [ledger |-> n, height |-> Len(s), entry_root |-> entry_root(s),
   state_root |-> state_root(Books(s)), prev |-> ZERO]

build_commitment(n, s, chain) ==
  [ledger     |-> n,
   height     |-> Len(s),
   entry_root |-> entry_root(s),
   state_root |-> state_root(Books(s)),
   prev       |-> IF chain = << >> THEN ZERO ELSE commitment_hash(chain[Len(chain)])]

(* Each commitment is the ledger's own, higher than and linked to the one  *)
(* before it; the first is anchored at genesis when the chain is whole.    *)
Linked(chain) ==
  \A i \in 2..Len(chain) : /\ chain[i].height > chain[i - 1].height
                           /\ chain[i].prev = commitment_hash(chain[i - 1])

verify_chain(chain, n) ==
  /\ \A i \in DOMAIN chain : chain[i].ledger = n
  /\ chain # << >> => chain[1].prev = ZERO
  /\ Linked(chain)

(* The balance of one child account, proved against the state root.        *)
attest_balance(n, s, c) ==
  [ledger |-> n, child |-> c, balance |-> balance_of(s, c), height |-> Len(s),
   state_root |-> state_root(Books(s)), proof |-> state_inclusion_proof(Books(s), c)]

verify_balance_attestation(a, commitment, n) ==
  /\ commitment.ledger = n /\ a.ledger = n
  /\ a.height = commitment.height
  /\ a.state_root = commitment.state_root
  /\ verify_state_inclusion(a.child, a.balance, a.proof, commitment.state_root)
=============================================================================
