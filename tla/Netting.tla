------------------------------ MODULE Netting ------------------------------
(***************************************************************************)
(* The offline audit of a network from the data directories of its nodes:  *)
(* the partition of the records into trees                                 *)
(* (crates/node/src/netting_harness.rs), the route every payment should    *)
(* have taken (crates/ledger/src/settlement.rs) and the findings and nets  *)
(* of the reconciliation (crates/ledger/src/netting.rs).                   *)
(*                                                                         *)
(* R is a function from node ids to their records, L to their logs and C   *)
(* to their commitment chains. Users have no record. An order is           *)
(* [id, from, to, amount], its id standing for its hash. Keys and          *)
(* signatures are left out: every entry is its node's own. The registries  *)
(* the audit merges agree, so its refusal of two different rows of one     *)
(* node (merge_peer) is left out with them.                                *)
(***************************************************************************)
EXTENDS Record, Tree, Merkle, Functions

-----------------------------------------------------------------------------
(***************************************************************************)
(* build_topology_partition.                                               *)
(***************************************************************************)

(* The records that list n as a child.                                     *)
Listing(R, n) == { p \in DOMAIN R : n \in Kids(R[p]) }

Named(R) == DOMAIN R \cup UNION { Kids(R[n]) : n \in DOMAIN R }

(* ensure_node: a record makes a node, a row says what its child is.       *)
KindsOf(R, n) == (IF n \in DOMAIN R THEN {"Node"} ELSE {})
                   \cup { R[p].children[n].kind : p \in Listing(R, n) }

(* Broken variant: the row of the parent counts, not the child's record.   *)
LinksOfRows(R, n) ==
  { [parent |-> p, slot |-> R[p].children[n].slot] : p \in Listing(R, n) }

(* The links that count, [parent, slot]: the one a record holds itself, or *)
(* the rows that list a child without a record.                            *)
LinksOf(R, n) ==
  IF n \in DOMAIN R
  THEN IF HasParent(R[n]) THEN {[parent |-> R[n].parent.id, slot |-> R[n].parent.slot]} ELSE {}
  ELSE { [parent |-> p, slot |-> R[p].children[n].slot] : p \in Listing(R, n) }

(* Rows that the record of their child does not confirm.                   *)
StaleRows(R) ==
  UNION { { [parent |-> p, child |-> n] :
              p \in { q \in Listing(R, n) : [parent |-> q, slot |-> R[q].children[n].slot]
                                            \notin LinksOf(R, n) } } : n \in DOMAIN R }

(* All nodes with the links that count, and the slots those links take.    *)
Links_of_network(R) ==
  LET link == [ n \in Named(R) |-> IF LinksOf(R, n) = {} THEN [parent |-> NoNode, slot |-> NoSlot]
                                   ELSE CHOOSE l \in LinksOf(R, n) : TRUE ]
  IN  [ n \in Named(R) |->
          [kind     |-> CHOOSE k \in KindsOf(R, n) : TRUE,
           parent   |-> link[n].parent,
           slot     |-> link[n].slot,
           children |-> { link[m].slot : m \in { x \in Named(R) : link[x].parent = n } }] ]

Roots(t) == { n \in DOMAIN t : t[n].parent = NoNode }

(* The component of a root, as a tree of its own.                          *)
Component(t, top) == Restrict(t, { n \in DOMAIN t : OnChain(t, top, n) })

(* load refuses the records: one id is both node and user, a child without *)
(* a record is listed twice, a parent is unknown, a component has no root, *)
(* or is no valid tree.                                                    *)
LoadBails(R) ==
  \/ \E n \in Named(R) : Cardinality(KindsOf(R, n)) > 1 \/ Cardinality(LinksOf(R, n)) > 1
  \/ \E n \in Named(R) : \E l \in LinksOf(R, n) : l.parent \notin Named(R)
  \/ LET t == Links_of_network(R)
     IN  \/ \E n \in DOMAIN t : ~Acyclic(t, n)
         \/ \E top \in Roots(t) : ~ValidTree(Component(t, top), top)

Position(n) == CHOOSE i \in DOMAIN ById : ById[i] = n

(* The largest component, ties by root id.                                 *)
Primary(t) ==
  LET Size(top) == Cardinality(DOMAIN Component(t, top))
  IN  CHOOSE top \in Roots(t) :
        \A o \in Roots(t) : \/ Size(top) > Size(o)
                            \/ Size(top) = Size(o) /\ Position(top) <= Position(o)

-----------------------------------------------------------------------------
(***************************************************************************)
(* The canonical route of an order in the tree t of root top, as hops      *)
(* [signer, role, first, second]; None when an endpoint is not supported.  *)
(***************************************************************************)

(* A user whose parent has no node among its children.                     *)
user_leaf(t, u) ==
  /\ u \in DOMAIN t
  /\ t[u].kind = "User" /\ t[u].parent # NoNode
  /\ \A n \in DOMAIN t : t[n].parent = t[u].parent => t[n].kind = "User"

node_at_address(t, top, a) == CHOOSE n \in DOMAIN t : address_of(t, top, n) = a

(* The nodes from leaf up to, not including, m.                            *)
path_below(t, leaf, m) == [ i \in 1..Links(t, leaf, m) |-> Above(t, leaf)[i - 1] ]

ExpectedHop(signer, role, first, second) ==
  [signer |-> signer, role |-> role, first |-> first, second |-> second]

expected_hops(t, top, o) ==
  IF ~(user_leaf(t, o.from) /\ user_leaf(t, o.to)) THEN None
  ELSE IF t[o.from].parent = t[o.to].parent
  THEN <<ExpectedHop(t[o.from].parent, "Direct", o.from, o.to)>>
  ELSE LET m    == node_at_address(t, top, lca(address_of(t, top, o.from), address_of(t, top, o.to)))
           up   == path_below(t, t[o.from].parent, m)
           down == path_below(t, t[o.to].parent, m)
           Toward(path, user, i) == IF i = 1 THEN user ELSE path[i - 1]
       IN  [ i \in DOMAIN up |-> ExpectedHop(up[i], "Ascend", Parent, Toward(up, o.from, i)) ]
           \o <<ExpectedHop(m, "Lca", Toward(up, o.from, Len(up) + 1),
                                      Toward(down, o.to, Len(down) + 1))>>
           \o Reverse([ i \in DOMAIN down |->
                          ExpectedHop(down[i], "Descend", Parent, Toward(down, o.to, i)) ])

-----------------------------------------------------------------------------
(***************************************************************************)
(* plan_transfer: every debit is covered, every credited account is open,  *)
(* and the whole cascade applies to the balances there are.                *)
(***************************************************************************)
Covered(b, account, m) == IsOpen(b, account) /\ b[account] >= m

hop_entry(h, o) == Transfer(h.role, h.first, h.second, o.amount, o.id)

plan_transfer(t, top, o, L) ==
  LET hops == expected_hops(t, top, o)
      Preflight(h, b) ==
        CASE h.role = "Ascend"  -> Covered(b, h.first, o.amount) /\ Covered(b, h.second, o.amount)
          [] h.role = "Descend" -> IsOpen(b, h.second)
          [] OTHER              -> Covered(b, h.first, o.amount) /\ IsOpen(b, h.second)
      dry_run(h, b) == CanApply(b, hop_entry(h, o).deltas)
  IN  /\ o.amount # 0 /\ o.amount <= I64_MAX
      /\ hops # None
      /\ \A i \in DOMAIN hops :
           /\ hops[i].signer \in DOMAIN L
           /\ Preflight(hops[i], Books(L[hops[i].signer]))
           /\ dry_run(hops[i], Books(L[hops[i].signer]))

(* execute_plan: every hop of the plan, or none.                           *)
execute_plan(t, top, o, L) ==
  LET hops == expected_hops(t, top, o)
      At(n) == { i \in DOMAIN hops : hops[i].signer = n }
  IN  [ n \in DOMAIN L |->
          IF At(n) = {} THEN L[n]
          ELSE Append(L[n], [hop_entry(hops[CHOOSE i \in At(n) : TRUE], o) EXCEPT !.seq = Len(L[n])]) ]

-----------------------------------------------------------------------------
(***************************************************************************)
(* Findings, with the ids they are about.                                  *)
(***************************************************************************)
Finding(kind, at, other, m) == [kind |-> kind, at |-> at, other |-> other, amount |-> m]

is_advisory(f) == f.kind \in {"RouteInvalid", "Detached", "StaleChildLink"}

suppresses_netting(f) == f.kind \notin {"Detached", "StaleChildLink"}

(* The transfers that carry the authorization of o: [node, entry].         *)
collect_authorized_transfers(L, o) ==
  UNION { { [node |-> n, entry |-> L[n][i]] :
              i \in { j \in DOMAIN L[n] : L[n][j].body = "Transfer" /\ L[n][j].nonce = o.id } }
          : n \in DOMAIN L }

has_duplicate_ledger(hops) == \E x, y \in hops : x # y /\ x.node = y.node

(* First and second account of an entry, from its role and the signs.      *)
entry_hop_accounts(e) ==
  LET kids == DOMAIN e.deltas \ {Parent}
  IN  IF e.role \in {"Ascend", "Descend"} THEN <<Parent, CHOOSE c \in kids : TRUE>>
      ELSE <<CHOOSE c \in kids : e.deltas[c] < 0, CHOOSE c \in kids : e.deltas[c] > 0>>

(* The transfers of o are exactly the hops of its route, the last one      *)
(* crediting the payee.                                                    *)
verify_cascade(t, top, o, L) ==
  LET hops   == expected_hops(t, top, o)
      actual == collect_authorized_transfers(L, o)
      Matches(x, h) == /\ x.node = h.signer
                       /\ x.entry.role = h.role /\ x.entry.amount = o.amount
                       /\ entry_hop_accounts(x.entry) = <<h.first, h.second>>
  IN  /\ hops # None
      /\ ~has_duplicate_ledger(actual)
      /\ Cardinality(actual) = Len(hops)
      /\ \A i \in DOMAIN hops : \E x \in actual : Matches(x, hops[i])
      /\ hops[Len(hops)].second = o.to

audit_one_order(t, top, o, L) ==
  LET hops   == expected_hops(t, top, o)
      actual == collect_authorized_transfers(L, o)
      TooMany == hops # None /\ Cardinality(actual) > Len(hops)
  IN  IF TooMany \/ has_duplicate_ledger(actual) THEN {Finding("Replay", o.id, Nil, 0)}
      ELSE IF ~verify_cascade(t, top, o, L) THEN {Finding("RouteInvalid", o.id, Nil, 0)}
      ELSE {}

(* The ledgers of the nodes of one component.                              *)
component_ledgers(L, t) == Restrict(L, DOMAIN L \cap DOMAIN t)

(* Each order in the component of its endpoints, in the primary one when   *)
(* neither is known; endpoints in two components have no route.            *)
audit_routes_partition(t, O, L) ==
  LET TopOf(n) == { top \in Roots(t) : n \in DOMAIN t /\ OnChain(t, top, n) }
      Audit(o) ==
        LET tops == TopOf(o.from) \cup TopOf(o.to)
            top  == IF tops = {} THEN Primary(t) ELSE CHOOSE x \in tops : TRUE
            tree == Component(t, top)
        IN  IF Cardinality(tops) > 1 THEN {Finding("RouteInvalid", o.id, Nil, 0)}
            ELSE audit_one_order(tree, top, o, component_ledgers(L, tree))
  IN  UNION { Audit(o) : o \in O }

(* Chains that do not verify, and two roots at one height.                 *)
audit_chains(C) ==
  { Finding("ChainInvalid", n, Nil, 0) : n \in { m \in DOMAIN C : ~verify_chain(C[m], m) } }
    \cup { Finding("Fork", n, Nil, 0) : n \in { m \in DOMAIN C :
             \E i, j \in DOMAIN C[m] : /\ C[m][i].height = C[m][j].height
                                       /\ <<C[m][i].entry_root, C[m][i].state_root>>
                                            # <<C[m][j].entry_root, C[m][j].state_root>> } }

(* Broken variant: which side has more is mixed up.                        *)
MirrorDirectionSwapped(parent_view, child_view) ==
  IF child_view > parent_view THEN "UnmirroredExtension" ELSE "UnbackedClaim"

MirrorDirection(parent_view, child_view) ==
  IF child_view > parent_view THEN "UnbackedClaim" ELSE "UnmirroredExtension"

(* The two views of every edge between two ledgers.                        *)
audit_mirrors(t, L) ==
  LET edges == { <<t[n].parent, n>> : n \in { m \in DOMAIN t \cap DOMAIN L : t[m].parent \in DOMAIN L } }
      Up(e)   == balance_of(L[e[1]], e[2])
      Down(e) == Books(L[e[2]])[Parent]
  IN  { Finding(MirrorDirection(Up(e), Down(e)), e[1], e[2], 0) :
          e \in { x \in edges : Up(x) # Down(x) } }

(* Balances summed up from the raw entries, without the checks of append.  *)
audit_overdraw(L) ==
  LET Running(s, a) == FoldLeft(LAMBDA acc, e :
                         LET now == acc.now + (IF a \in DOMAIN e.deltas THEN e.deltas[a] ELSE 0)
                         IN  [now |-> now, low |-> IF now < acc.low THEN now ELSE acc.low],
                         [now |-> 0, low |-> 0], s)
      Touched(s) == UNION { DOMAIN s[i].deltas : i \in DOMAIN s }
  IN  UNION { { Finding("Overdraw", n, a, 0) : a \in { x \in Touched(L[n]) : Running(L[n], x).low < 0 } }
              : n \in DOMAIN L }

(* One Detached finding for every component but the primary one, with the  *)
(* stale row that names its old parent and the claim it still holds.       *)
Islands(R, t, L) ==
  LET Old(top) == { w.parent : w \in { x \in StaleRows(R) : x.child = top } }
  IN  { Finding("Detached", top, IF Old(top) = {} THEN Nil ELSE CHOOSE p \in Old(top) : TRUE,
                IF top \in DOMAIN L THEN Books(L[top])[Parent] ELSE 0)
        : top \in Roots(t) \ {Primary(t)} }

(* Flows between the children of one node: what from paid to to.           *)
gross(s, from, to) ==
  LET flows == { i \in DOMAIN s : /\ s[i].body = "Transfer" /\ s[i].role \in {"Lca", "Direct"}
                                  /\ entry_hop_accounts(s[i]) = <<from, to>> }
  IN  MapThenSumSet(LAMBDA i : s[i].deltas[to], flows)

(* Broken variant: each direction is reported by itself.                   *)
collapse_netsGross(L) ==
  UNION { LET kids == Children(Books(L[n]))
          IN  { [parent |-> n, from |-> p[1], to |-> p[2], amount |-> gross(L[n], p[1], p[2])] :
                  p \in { q \in kids \X kids : gross(L[n], q[1], q[2]) > 0 } }
          : n \in DOMAIN L }

(* Opposing flows of each pair of children, collapsed.                     *)
collapse_nets(L) ==
  UNION { LET kids == Children(Books(L[n]))
              Net(x, y) == gross(L[n], x, y) - gross(L[n], y, x)
          IN  { [parent |-> n, from |-> p[1], to |-> p[2], amount |-> Net(p[1], p[2])] :
                  p \in { q \in kids \X kids : Net(q[1], q[2]) > 0 } }
          : n \in DOMAIN L }

(* net_partition: all findings ...                                         *)
net_partition(R, t, O, L, C) ==
  audit_chains(C) \cup audit_mirrors(t, L) \cup Islands(R, t, L)
    \cup audit_routes_partition(t, O, L) \cup audit_overdraw(L)

(* ... and the nets when none objects. The findings of the partition join  *)
(* those of the ledgers.                                                   *)
classify_findings(found, stale, L) ==
  [advisories |-> { f \in found \cup stale : is_advisory(f) },
   findings   |-> { f \in found : ~is_advisory(f) },
   nets       |-> IF \E f \in found : suppresses_netting(f) THEN {} ELSE collapse_nets(L)]

report(R, O, L, C) ==
  classify_findings(net_partition(R, Links_of_network(R), O, L, C),
                    { Finding("StaleChildLink", w.parent, w.child, 0) : w \in StaleRows(R) }, L)
=============================================================================
