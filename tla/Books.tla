------------------------------- MODULE Books -------------------------------
(***************************************************************************)
(* The books of a network whose tree changes: payments cascade over the    *)
(* links of the records, nodes leave, are moved and join elsewhere, and an *)
(* operator audits the data directories, or exports the claim of a         *)
(* stranded node, at any moment in between.                                *)
(*                                                                         *)
(* A node is named by its id here, and every handler works on the node's   *)
(* own record. Frames between nodes arrive in any order or never. What     *)
(* retries, crashes and command line races add is in Membership, in        *)
(* Settlement and in LedgerService.                                        *)
(***************************************************************************)
EXTENDS Netting

CONSTANTS
  Node,           \* ids of the nodes
  Tree0,          \* [Node and user ids -> address] at the start
  Grants,         \* [Node -> Seq of entries]: how the books were funded
  Order,          \* [id, from, to, amount]
  JoinTarget,     \* pairs <<n, p>>: node n may ask p to become its parent
  Slots,          \* slots children are moved to
  Committer,      \* nodes whose operator commits their ledger and exports their claim
  MAX_BUNDLE_CHAIN,
  MaxOps          \* bound: operator commands

VARIABLES
  rec,            \* [Node -> record]
  log,            \* [Node -> Seq of entries]
  chain,          \* [Node -> Seq of commitments]
  cascade,        \* [Order -> how far its payment got]
  frames,         \* control frames under way
  left,           \* [Node -> parents it left with a claim, since its last edge close]
  export,         \* a claim-export command that is running
  bundles,        \* the bundles exported
  ops

vars == <<rec, log, chain, cascade, frames, left, export, bundles, ops>>

Users == DOMAIN Tree0 \ Node

NoExport == [step |-> "idle", node |-> Nil, log |-> << >>, chain |-> << >>]

NoCascade == [step |-> "new", src |-> None, dst |-> None, hops |-> 0, at |-> Nil, to |-> Nil]

(* The record of n in the tree the network starts with.                    *)
PlacedAt(n) ==
  LET below == { c \in DOMAIN Tree0 : parent(Tree0[c]) = Tree0[n] }
      above == { p \in Node : Tree0[p] = parent(Tree0[n]) }
  IN  [ NodeRecord(n) EXCEPT
          !.address = Tree0[n],
          !.parent = IF above = {} THEN @
                     ELSE [id |-> CHOOSE p \in above : TRUE, slot |-> slot(Tree0[n]), generation |-> 0],
          !.children = [ c \in below |-> [kind |-> IF c \in Node THEN "Node" ELSE "User",
                                          slot |-> slot(Tree0[c]), eth_address |-> "none"] ],
          !.address_epoch = 1 ]

Numbered(s) == [ i \in DOMAIN s |-> [s[i] EXCEPT !.seq = i - 1] ]

Init ==
  /\ rec = [ n \in Node |-> PlacedAt(n) ]
  /\ log = [ n \in Node |-> Numbered(Grants[n]) ]
  /\ chain = [ n \in Node |-> << >> ]
  /\ cascade = [ o \in Order |-> NoCascade ]
  /\ frames = {}
  /\ left = [ n \in Node |-> {} ]
  /\ export = NoExport
  /\ bundles = {}
  /\ ops = 0

Command == ops < MaxOps /\ ops' = ops + 1

-----------------------------------------------------------------------------
(***************************************************************************)
(* Payments.                                                               *)
(***************************************************************************)

(* user_child_address: the address n gives to its user child u.            *)
user_child_address(n, u) ==
  IF u \in Kids(rec[n]) /\ rec[n].children[u].kind = "User" /\ rec[n].address # None
  THEN child(rec[n].address, rec[n].children[u].slot) ELSE None

(* Broken variant: the last digit of the target, not the next one.         *)
child_towardLast(r, a, target) == { c \in Kids(r) : r.children[c].slot = slot(target) }

(* The children of record r at the next digit of target below a.           *)
child_toward(r, a, target) ==
  IF depth(target) <= depth(a) THEN {}
  ELSE { c \in Kids(r) : r.children[c].slot = target[depth(a) + 1] }

(* The hop of a node with record r on the route: none, or the one.         *)
derive_hop(r, src, dst) ==
  LET role  == classify_hop(src, dst, r.address)
      here  == child_toward(r, r.address, src)
      there == child_toward(r, r.address, dst)
      Hops(firsts, seconds) ==
        { [role |-> role, first |-> x, second |-> y] : x \in firsts, y \in seconds }
  IN  CASE role = "Ascend"  -> Hops({Parent}, here)
        [] role = "Descend" -> Hops({Parent}, there)
        [] role = "Lca"     -> Hops(here, there)
        [] OTHER            -> {}

(* apply_hop at n: the replay guard comes before the checks of the append. *)
HopEntry(n, o, h) == [Transfer(h.role, h.first, h.second, o.amount, o.id) EXCEPT !.seq = Len(log[n])]

apply_hop(n, o, h) ==
  IF o.id \in rebuild_consumed(log[n]) THEN "Duplicate"
  ELSE IF Appendable(Books(log[n]), Len(log[n]), HopEntry(n, o, h)) THEN "Applied"
  ELSE "Rejected"

(* The neighbour of n toward address a: its parent, or the child there.    *)
NextHop(n, a) ==
  IF depth(a) < depth(rec[n].address) THEN (IF HasParent(rec[n]) THEN {rec[n].parent.id} ELSE {})
  ELSE child_toward(rec[n], rec[n].address, a) \cap Node

(* Signer k of the route has its hop in the ledger and hands the payment   *)
(* on over its own link, if it has one.                                    *)
Relay(o, n, src, dst, k) ==
  LET signers == route_signers(src, dst)
      next    == IF k = Len(signers) THEN {} ELSE NextHop(n, signers[k + 1])
  IN  cascade' = [cascade EXCEPT ![o] =
        [step |-> IF k = Len(signers) THEN "done" ELSE IF next = {} THEN "stopped" ELSE "sent",
         src |-> src, dst |-> dst, hops |-> k, at |-> n,
         to |-> IF next = {} THEN Nil ELSE CHOOSE m \in next : TRUE]]

Stop(o) == cascade' = [cascade EXCEPT ![o].step = "stopped", ![o].at = Nil, ![o].to = Nil]

(* An order reaches the leaf n of its payer, naming the address dst of its *)
(* payee: one entry when the payee is here too, the first hop otherwise.   *)
SubmitOrder(o, n, dst) ==
  LET src   == user_child_address(n, o.from)
      here  == user_child_address(n, o.to) = dst
      hops  == IF here THEN {[role |-> "Direct", first |-> o.from, second |-> o.to]}
               ELSE IF route_signers(src, dst) = None THEN {}
               ELSE derive_hop(rec[n], src, dst)
  IN  /\ cascade[o].step = "new"
      /\ src # None
      /\ \E h \in hops :
           /\ apply_hop(n, o, h) = "Applied"
           /\ log' = [log EXCEPT ![n] = Append(@, HopEntry(n, o, h))]
           /\ IF here THEN cascade' = [cascade EXCEPT ![o] = [NoCascade EXCEPT !.step = "done", !.hops = 1]]
              ELSE Relay(o, n, src, dst, 1)
      /\ UNCHANGED <<rec, chain, frames, left, export, bundles, ops>>

(* The wallet knows its payee by the address it had, or by the present one.*)
PayeeAddresses(u) == {Tree0[u]} \cup ({ user_child_address(n, u) : n \in Node } \ {None})

(* Node m is a neighbour of n, at address a as n sees it.                  *)
Neighbour(n, m, a) ==
  \/ m \in Kids(rec[n]) /\ a = child(rec[n].address, rec[n].children[m].slot)
  \/ m = rec[n].parent.id /\ a = parent(rec[n].address)

(* The receiver is the next signer and the sender, its neighbour, the one  *)
(* before; the last signer has the payee as its user.                      *)
Expects(n, o) ==
  LET c == cascade[o]
      signers == route_signers(c.src, c.dst)
  IN  /\ rec[n].address = signers[c.hops + 1]
      /\ Neighbour(n, c.at, signers[c.hops])
      /\ c.hops + 1 = Len(signers) => user_child_address(n, o.to) = c.dst

(* handle_settle_forward at the node the payment was handed to.            *)
ForwardOrder(o) ==
  LET c == cascade[o]
      n == c.to
      hops == derive_hop(rec[n], c.src, c.dst)
      Goes == { h \in hops : Expects(n, o) /\ apply_hop(n, o, h) # "Rejected" }
  IN  /\ c.step = "sent"
      /\ IF Goes = {} THEN Stop(o) /\ UNCHANGED log
         ELSE \E h \in Goes :
                /\ log' = IF apply_hop(n, o, h) = "Duplicate" THEN log
                          ELSE [log EXCEPT ![n] = Append(@, HopEntry(n, o, h))]
                /\ Relay(o, n, c.src, c.dst, c.hops + 1)
      /\ UNCHANGED <<rec, chain, frames, left, export, bundles, ops>>

-----------------------------------------------------------------------------
(***************************************************************************)
(* Membership.                                                             *)
(***************************************************************************)
Frame(kind, from, to, s, r) ==
  [kind |-> kind, from |-> from, to |-> to,
   address |-> IF s = AnySlot THEN None ELSE child(r.address, s), generation |-> r.address_epoch]

(* propagate_rebase: a notice to every node below.                         *)
propagate_rebase(r) ==
  { Frame("Rebase", r.id, c, r.children[c].slot, r) : c \in Kids(r) \cap Node }

(* n leaves its parent; what it then still claims from it is remembered.   *)
Leaves(n) ==
  left' = [left EXCEPT ![n] = IF Books(log[n])[Parent] > 0 THEN @ \cup {rec[n].parent.id} ELSE @]

Unchanged_by_control == UNCHANGED <<log, chain, cascade, export, bundles>>

(* control exit: the node becomes a root, and says so.                     *)
Exit(n) ==
  LET r == rebase_to_root(rec[n])
  IN  /\ Command
      /\ HasParent(rec[n])
      /\ rec' = [rec EXCEPT ![n] = r]
      /\ Leaves(n)
      /\ frames' = frames \cup {Frame("Exit", n, rec[n].parent.id, AnySlot, r)} \cup propagate_rebase(r)
      /\ Unchanged_by_control

DetachChild(n, c) ==
  /\ Command
  /\ c \in Kids(rec[n]) \cap Node
  /\ rec' = [rec EXCEPT ![n] = detach_child(@, c)]
  /\ frames' = frames \cup {Frame("DetachNotice", n, c, AnySlot, rec[n])}
  /\ Unchanged_by_control /\ UNCHANGED left

(* A re-slot of child c, told to it.                                       *)
MoveChild(n, c, s) ==
  LET r == move_child_slot(rec[n], c, s)
  IN  /\ Command
      /\ c \in Node /\ move_child_slot_ok(rec[n], c, s) /\ r # rec[n]
      /\ rec' = [rec EXCEPT ![n] = r]
      /\ frames' = frames \cup {Frame("Rebase", n, c, s, r)}
      /\ Unchanged_by_control /\ UNCHANGED left

(* n has asked p, and p's operator approves; an earlier approval no longer *)
(* answers what n asked for last.                                          *)
Join(n, p) ==
  LET r == IF n \in Kids(rec[p]) THEN rec[p] ELSE attach_child(rec[p], n, "Node", AnySlot)
  IN  /\ Command
      /\ rec[p].address # None
      /\ n \in Kids(rec[p]) \/ attach_child_ok(rec[p], n, AnySlot)
      /\ rec' = [rec EXCEPT ![p] = r]
      /\ frames' = { f \in frames : ~(f.kind = "Approved" /\ f.to = n) }
                     \cup {Frame("Approved", p, n, r.children[n].slot, r)}
      /\ Unchanged_by_control /\ UNCHANGED left

HearExit(f) ==
  /\ f.kind = "Exit"
  /\ rec' = [rec EXCEPT ![f.to] = detach_child(@, f.from)]
  /\ frames' = frames \ {f}
  /\ Unchanged_by_control /\ UNCHANGED <<left, ops>>

(* A notice of a detachment counts when it comes from the current parent.  *)
HearDetach(f) ==
  LET n == f.to
      r == rebase_to_root(rec[n])
  IN  /\ f.kind = "DetachNotice"
      /\ IF rec[n].parent.id = f.from
         THEN /\ rec' = [rec EXCEPT ![n] = r]
              /\ Leaves(n)
              /\ frames' = (frames \ {f}) \cup propagate_rebase(r)
         ELSE frames' = frames \ {f} /\ UNCHANGED <<rec, left>>
      /\ Unchanged_by_control /\ UNCHANGED ops

(* The applicant takes its place and hands its new prefix on.              *)
HearApproved(f) ==
  LET n == f.to
      r == set_address(set_parent(unset_address(rec[n]), f.from, slot(f.address)), f.address)
  IN  /\ f.kind = "Approved"
      /\ rec' = [rec EXCEPT ![n] = r]
      /\ IF HasParent(rec[n]) /\ rec[n].parent.id # f.from THEN Leaves(n) ELSE UNCHANGED left
      /\ frames' = (frames \ {f}) \cup propagate_rebase(r)
      /\ Unchanged_by_control /\ UNCHANGED ops

(* A newer address from the current parent is taken over and handed on.    *)
HearRebase(f) ==
  LET n == f.to
      r == apply_rebase(rec[n], f.address, slot(f.address), f.generation)
  IN  /\ f.kind = "Rebase"
      /\ IF rec[n].parent.id = f.from /\ f.generation > rec[n].parent.generation
         THEN /\ rec' = [rec EXCEPT ![n] = r]
              /\ frames' = (frames \ {f})
                             \cup (IF r.address # rec[n].address THEN propagate_rebase(r) ELSE {})
         ELSE frames' = frames \ {f} /\ UNCHANGED rec
      /\ Unchanged_by_control /\ UNCHANGED <<left, ops>>

-----------------------------------------------------------------------------
(***************************************************************************)
(* Claims and commitments.                                                 *)
(***************************************************************************)

(* ledger edge-close: a root writes off what it claimed from its parent.   *)
EdgeCloseAt(n) ==
  LET claim == Books(log[n])[Parent]
      e == [EdgeClose(claim, Nil) EXCEPT !.seq = Len(log[n])]
  IN  /\ Command
      /\ ~HasParent(rec[n])
      /\ claim > 0
      /\ Appendable(Books(log[n]), Len(log[n]), e)
      /\ log' = [log EXCEPT ![n] = Append(@, e)]
      /\ left' = [left EXCEPT ![n] = {}]
      /\ UNCHANGED <<rec, chain, cascade, frames, export, bundles>>

Height(c) == IF c = << >> THEN 0 ELSE c[Len(c)].height

(* ledger commit: refused unless the ledger has moved since the last one.  *)
CommitAt(n) ==
  /\ Command
  /\ Len(log[n]) > Height(chain[n])
  /\ chain' = [chain EXCEPT ![n] = Append(@, build_commitment(n, log[n], @))]
  /\ UNCHANGED <<rec, log, cascade, frames, left, export, bundles>>

(* Ancestors that reach genesis must verify with the head as one chain,    *)
(* others must be linked up to it.                                         *)
verify_chain_continuity(ancestors, head, n) ==
  ancestors # << >> =>
    IF ancestors[1].prev = ZERO THEN verify_chain(Append(ancestors, head), n)
    ELSE /\ \A i \in DOMAIN ancestors : ancestors[i].ledger = n
         /\ Linked(Append(ancestors, head))

verify_bundle(b) ==
  /\ b.claim.node = b.child
  /\ b.commitment.ledger = b.child
  /\ verify_chain_continuity(b.chain, b.commitment, b.child)
  /\ b.parent_balance >= 0
  /\ verify_state_inclusion(Parent, b.parent_balance, b.parent_proof, b.commitment.state_root)

(* The bundle of n from its books as of s, its commitments c and the       *)
(* parent it says it left.                                                 *)
Bundle(n, s, c, from) ==
  [child          |-> n,
   claim          |-> [node |-> n, detached_from |-> from],
   commitment     |-> c[Len(c)],
   parent_balance |-> Books(s)[Parent],
   parent_proof   |-> state_inclusion_proof(Books(s), Parent),
   chain          |-> LET ancestors == SubSeq(c, 1, Len(c) - 1)
                          cut == IF Len(ancestors) > MAX_BUNDLE_CHAIN
                                 THEN Len(ancestors) - MAX_BUNDLE_CHAIN ELSE 0
                      IN  SubSeq(ancestors, cut + 1, Len(ancestors))]

(* export_bundle opens the ledger ...                                      *)
ExportOpen(n) ==
  /\ Command
  /\ export = NoExport
  /\ export' = [NoExport EXCEPT !.step = "opened", !.node = n, !.log = log[n]]
  /\ UNCHANGED <<rec, log, chain, cascade, frames, left, bundles>>

(* ... reads the commitments, and gives up when they are ahead of it ...   *)
ExportRead ==
  LET c == chain[export.node]
  IN  /\ export.step = "opened"
      /\ export' = IF Height(c) > Len(export.log) THEN NoExport
                   ELSE [export EXCEPT !.chain = c,
                           !.step = IF Len(export.log) > Height(c) THEN "behind" ELSE "current"]
      /\ UNCHANGED <<rec, log, chain, cascade, frames, left, bundles, ops>>

(* ... commits when the ledger is ahead, which reads the ledger again and  *)
(* is refused when someone else has committed it meanwhile ...             *)
ExportCommit ==
  LET n == export.node
  IN  /\ export.step = "behind"
      /\ IF Len(log[n]) > Height(chain[n])
         THEN /\ chain' = [chain EXCEPT ![n] = Append(@, build_commitment(n, log[n], @))]
              /\ export' = [export EXCEPT !.step = "committed", !.log = log[n]]
         ELSE export' = NoExport /\ UNCHANGED chain
      /\ UNCHANGED <<rec, log, cascade, frames, left, bundles, ops>>

(* ... and proves the Parent balance against the last commitment, which it *)
(* reads again after its own commit. Broken variant: no self-check.        *)
Proved(from) ==
  Bundle(export.node, export.log, IF export.step = "committed" THEN chain[export.node] ELSE export.chain, from)

ExportProveUnchecked(from) ==
  /\ export.step \in {"committed", "current"}
  /\ bundles' = bundles \cup {Proved(from)}
  /\ export' = NoExport
  /\ UNCHANGED <<rec, log, chain, cascade, frames, left, ops>>

ExportProve(from) ==
  /\ export.step \in {"committed", "current"}
  /\ bundles' = IF verify_bundle(Proved(from)) THEN bundles \cup {Proved(from)} ELSE bundles
  /\ export' = NoExport
  /\ UNCHANGED <<rec, log, chain, cascade, frames, left, ops>>

-----------------------------------------------------------------------------
Next ==
  \/ \E o \in Order : \/ ForwardOrder(o)
                      \/ \E n \in Node, dst \in PayeeAddresses(o.to) : SubmitOrder(o, n, dst)
  \/ \E n \in Node : Exit(n) \/ EdgeCloseAt(n)
  \/ \E n, c \in Node : DetachChild(n, c) \/ \E s \in Slots : MoveChild(n, c, s)
  \/ \E j \in JoinTarget : Join(j[1], j[2])
  \/ \E f \in frames : HearExit(f) \/ HearDetach(f) \/ HearApproved(f) \/ HearRebase(f)
  \/ \E n \in Committer : CommitAt(n) \/ ExportOpen(n)
  \/ ExportRead \/ ExportCommit
  \/ \E p \in Node \cup {Nil} : ExportProve(p)

Spec == Init /\ [][Next]_vars
-----------------------------------------------------------------------------
(* Every variable has its type.                                            *)
TypeOK ==
  /\ \A n \in Node : /\ validate(rec[n])
                     /\ Books(log[n]) \in [DOMAIN Books(log[n]) -> Amount]
                     /\ \A i \in DOMAIN log[n] : log[n][i].seq = i - 1
                     /\ Height(chain[n]) <= Len(log[n])
                     /\ left[n] \subseteq Node
  /\ \A o \in Order : cascade[o].step \in {"new", "sent", "done", "stopped"}
  /\ export.step \in {"idle", "opened", "behind", "current", "committed"}
  /\ ops \in 0..MaxOps

Untouched == \A n \in Node : rec[n] = PlacedAt(n)

(* The orders in the journals of the nodes.                                *)
Journal == { o \in Order : cascade[o].step # "new" }

Finished == \A o \in Journal : cascade[o].step = "done"

(* Two records that claim one place below one parent, or a record and a    *)
(* user: the slot was given away before its holder heard that it lost it.  *)
SlotClash ==
  \E n \in Node :
    /\ HasParent(rec[n])
    /\ \/ \E m \in Node \ {n} : rec[m].parent.id = rec[n].parent.id /\ rec[m].parent.slot = rec[n].parent.slot
       \/ \E u \in Users \cap Kids(rec[rec[n].parent.id]) :
            rec[rec[n].parent.id].children[u].slot = rec[n].parent.slot

(* Audited at any moment, whatever notices are still under way, the        *)
(* records are valid and form trees unless two of them claim one place: an *)
(* exit or a move that only one side knows of does not stop the audit      *)
(* (build_topology_partition).                                             *)
LoadsUnlessClash ==
  /\ TypeOK
  /\ LoadBails(rec) => SlotClash

Audit == report(rec, Journal, log, chain)

(* No chain is broken, no account overdrawn; while the tree is as it was,  *)
(* the only findings are edges whose parent is ahead and routes that are   *)
(* not finished, and there are none when every payment is.                 *)
Unalarming(said) ==
  /\ \A f \in said.findings : f.kind \notin {"ChainInvalid", "Fork", "Overdraw"}
  /\ Untouched =>
       /\ \A f \in said.findings : f.kind = "UnmirroredExtension"
       /\ \A f \in said.advisories : f.kind = "RouteInvalid"
       /\ Finished => said.findings = {} /\ said.advisories = {}

(* The audit raises no alarm about honest books (net_partition).           *)
NoFalseAlarm == ~SlotClash => Unalarming(Audit)

(* What MirrorDirection says of an unbacked claim: the child brought it    *)
(* from another parent. A payment on its way, or stuck, never looks like   *)
(* one, because each hop is applied on the paying side of an edge first    *)
(* and on the receiving side last.                                         *)
UnbackedClaimsWereBrought ==
  ~SlotClash =>
    \A f \in audit_mirrors(Links_of_network(rec), log) :
      f.kind = "UnbackedClaim" => left[f.other] \ {f.at} # {}

(* The nets move every child's balance as the transfers they replace did,  *)
(* in at most one direction for each pair (collapse_nets).                 *)
NetsPreserveFlows ==
  LET nets == collapse_nets(log)
      In(S) == MapThenSumSet(LAMBDA x : x.amount, S)
  IN  /\ \A x, y \in nets : ~(x.parent = y.parent /\ x.from = y.to /\ x.to = y.from)
      /\ \A n \in Node : \A c \in Children(Books(log[n])) :
           LET among == { i \in DOMAIN log[n] : /\ log[n][i].role \in {"Lca", "Direct"}
                                                /\ c \in DOMAIN log[n][i].deltas }
           IN  In({ x \in nets : x.parent = n /\ x.to = c })
                 - In({ x \in nets : x.parent = n /\ x.from = c })
               = MapThenSumSet(LAMBDA i : log[n][i].deltas[c], among)

(* What an operator reads in the report of an audit is right.              *)
AuditTrue == NoFalseAlarm /\ UnbackedClaimsWereBrought /\ NetsPreserveFlows

(* The records of a component say of every node what its tree says.        *)
Consistent(tree, top) ==
  \A n \in Node \cap DOMAIN tree :
    /\ rec[n].address = address_of(tree, top, n)
    /\ Kids(rec[n]) = { c \in DOMAIN tree : tree[c].parent = n }
    /\ \A x \in StaleRows(rec) : x.parent # n

(* The two derivations of a route agree: where the records are consistent, *)
(* the hops the audit expects from the tree are those the signers derive   *)
(* one by one from their own records; and a transfer that can be planned   *)
(* on that tree is one every signer applies and the audit then accepts     *)
(* (expected_hops, derive_hop, plan_transfer).                             *)
RoutesAgree ==
  ~SlotClash =>
    LET t == Links_of_network(rec)
    IN  \A top \in Roots(t) :
          LET tree == Component(t, top)
              Inside == { x \in Order : {x.from, x.to} \subseteq DOMAIN tree }
          IN  Consistent(tree, top) =>
                \A o \in Inside :
                  LET hops == expected_hops(tree, top, o)
                      src  == address_of(tree, top, o.from)
                      dst  == address_of(tree, top, o.to)
                      signers == route_signers(src, dst)
                      L    == component_ledgers(log, tree)
                  IN  /\ hops # None /\ hops[1].role # "Direct" =>
                           /\ Len(signers) = Len(hops)
                           /\ \A i \in DOMAIN hops :
                                /\ rec[hops[i].signer].address = signers[i]
                                /\ { ExpectedHop(hops[i].signer, h.role, h.first, h.second) :
                                        h \in derive_hop(rec[hops[i].signer], src, dst) } = {hops[i]}
                      /\ cascade[o].step = "new" /\ plan_transfer(tree, top, o, L) =>
                           /\ \A i \in DOMAIN hops : apply_hop(hops[i].signer, o, hops[i]) = "Applied"
                           /\ verify_cascade(tree, top, o, execute_plan(tree, top, o, L))

(* An exported bundle verifies at its reviewer, and the claim it shows is  *)
(* the Parent balance at the height of its commitment, whatever was        *)
(* committed or paid while it was put together (export_bundle).            *)
BundlesTrue ==
  \A b \in bundles :
    /\ verify_bundle(b)
    /\ b.parent_balance = Books(SubSeq(log[b.child], 1, b.commitment.height))[Parent]

(* A proof against the last commitment of a node is accepted for exactly   *)
(* the entry, or the account and balance, it was made for, whatever the    *)
(* size of the tree, and one entry in all ledgers passes for the receipt   *)
(* of an order, once it is settled (verify_inclusion,                      *)
(* verify_applied_entry). Bundles, which are put together from such        *)
(* proofs, are true as well.                                               *)
ProofsExact ==
  /\ BundlesTrue
  /\ \A n \in Node : chain[n] # << >> =>
       LET head == chain[n][Len(chain[n])]
           s    == SubSeq(log[n], 1, head.height)
       IN  /\ \A j \in 0..(Len(s) - 1) :
                LET p == entry_inclusion_proof(s, j)
                IN  \A i \in DOMAIN s : verify_entry_inclusion(s[i], p, head.entry_root) <=> i = j + 1
           /\ \A c \in Children(Books(s)) :
                LET a == attest_balance(n, s, c)
                IN  /\ verify_balance_attestation(a, head, n)
                    /\ ~verify_balance_attestation([a EXCEPT !.balance = @ + 1], head, n)
  /\ \A o \in Order :
       LET Shows(n, i) == verify_applied_entry(log[n][i], o, user_child_address(n, o.from) # None)
           receipts == UNION { { <<n, i>> : i \in { j \in DOMAIN log[n] : Shows(n, j) } } : n \in Node }
       IN  Cardinality(receipts) = IF cascade[o].step = "done" THEN 1 ELSE 0
=============================================================================
