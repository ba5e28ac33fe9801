----------------------------- MODULE Settlement -----------------------------
(***************************************************************************)
(* Cross-subtree payments: the order a payer's wallet submits to its leaf, *)
(* the cascade of hops along the tree, the terminal result that travels    *)
(* back to the origin and the answer the wallet records.                   *)
(*                                                                         *)
(* A node handles its inbound envelopes one at a time (one drain task per  *)
(* node), so every handler is one atomic action; only the timeout sweep    *)
(* runs beside it. Messages are sent once and never retried. The ledger,   *)
(* with the set of consumed payment ids replayed from it, is durable; the  *)
(* SettlementManager is not.                                               *)
(*                                                                         *)
(* A node or user is named by its address. Nodes are honest: signatures,   *)
(* key registries and carried evidence always match and are left out; what *)
(* remains of proofs is whether they could be built or verified (Proofs).  *)
(***************************************************************************)
EXTENDS OctAddr, Balances

CONSTANTS
  Pay,            \* payment orders, named by their hash (the payment_id)
  payer_addr,     \* [Pay -> address of the paying user]
  payee_addr,     \* [Pay -> address of the paid user]
  amount,         \* [Pay -> Amount]
  AnchorOk,       \* orders that pass the payer's ETH anchor gate
  MayExpire,      \* orders whose expiry can pass during the behaviour
  Node,           \* addresses of the ledger nodes
  Child,          \* addresses in some record's child list at the start
  Funds,          \* [Node -> balances] at the start
  MAX_PENDING, MAX_TERMINAL,   \* bounds of the SettlementManager
  MAX_SETTLE_HOPS,             \* longest signer path a node accepts
  Contention,     \* SUBSET BOOLEAN: may another process hold the ledger lock?
  Proofs,         \* SUBSET BOOLEAN: outcomes of building or verifying a proof
  Keep,           \* SUBSET BOOLEAN: may a received envelope come again?
  LoseKinds,      \* kinds of messages the network may lose
  MaxSends,       \* bound: submissions of one order
  MaxRestarts,    \* bound: node restarts
  MaxDetaches     \* bound: children leaving their record

VARIABLES
  consumed,       \* [Node -> SUBSET Pay]: payment ids in the node's ledger
  bal,            \* [Node -> balances] of the node's ledger
  attached,       \* children still listed in their parent's record
  expired,        \* orders past their expiry
  pending,        \* reserved payments the origin waits for
  pending_order,  \* [Node -> Seq(Pay)]: insertion order, with stale keys
  terminal,       \* [Pay -> remembered outcome at the origin]
  terminal_order, \* [Node -> Seq(Pay)]
  net,            \* messages in flight
  wallet,         \* [Pay -> what the payer's wallet believes]
  sends, restarts, detaches    \* counters behind the bounds

ASSUME OrderAssumption ==
  /\ Node \subseteq OctAddr
  /\ \A p \in Pay : /\ payer_addr[p] \in OctAddr /\ payee_addr[p] \in OctAddr
                    /\ parent(payer_addr[p]) \in Node
                    /\ amount[p] \in Amount

ASSUME BoundAssumption ==
  /\ \A n \in Node : Funds[n] \in [DOMAIN Funds[n] -> Amount] /\ Parent \in DOMAIN Funds[n]
  /\ DOMAIN Funds = Node
  /\ MAX_PENDING \in Nat \ {0} /\ MAX_TERMINAL \in Nat \ {0} /\ MAX_SETTLE_HOPS \in Nat \ {0}
  /\ MaxSends \in Nat /\ MaxRestarts \in Nat /\ MaxDetaches \in Nat
  /\ MayExpire \subseteq Pay
  /\ Contention \subseteq BOOLEAN /\ Proofs \subseteq BOOLEAN /\ Keep \subseteq BOOLEAN

node_vars == <<consumed, bal>>
mgr_vars  == <<pending, pending_order, terminal, terminal_order>>
env_vars  == <<attached, expired, restarts, detaches>>
vars == <<node_vars, mgr_vars, env_vars, net, wallet, sends>>
-----------------------------------------------------------------------------
(* The payer's leaf, where the cascade starts.                             *)
Origin(p) == parent(payer_addr[p])

SameLeaf(p) == parent(payee_addr[p]) = Origin(p)

(* The nodes that must apply a payment, in order.                          *)
Signers == [ p \in Pay |-> IF SameLeaf(p) THEN <<Origin(p)>>
                           ELSE route_signers(payer_addr[p], payee_addr[p]) ]

SignerSet(p) == { Signers[p][i] : i \in 1..Len(Signers[p]) }

PayeeLeaf(p) == Signers[p][Len(Signers[p])]

Origins == { Origin(p) : p \in Pay }

At(n, S) == { p \in S : Origin(p) = n }

Outcome == {"Applied", "IntermediateRejected", "Malformed"}

Status == {"Applied", "Duplicate", "Partial", "Rejected", "Indeterminate"}

Message ==
  [type : {"Order"}, pay : Pay]
    \cup [type : {"Forward"}, pay : Pay, hops : 1..MAX_SETTLE_HOPS]
    \cup [type : {"Result"}, pay : Pay, outcome : Outcome, src : Node]
    \cup [type : {"Reply"}, pay : Pay, status : Status, proof : BOOLEAN]

Order(p)          == [type |-> "Order", pay |-> p]
Forward(p, i)     == [type |-> "Forward", pay |-> p, hops |-> i]
Result(p, o, n)   == [type |-> "Result", pay |-> p, outcome |-> o, src |-> n]
Reply(p, s, proof) == [type |-> "Reply", pay |-> p, status |-> s, proof |-> proof]

(* A handler consumes the envelope m it was given and sends the messages   *)
(* out, each once.                                                         *)
Handled(m, out) == \E keep \in Keep : net' = (IF keep THEN net ELSE net \ {m}) \cup out

-----------------------------------------------------------------------------
(***************************************************************************)
(* One hop of payment p at node n.                                         *)
(***************************************************************************)
derive_hop(n, p) ==
  LET src  == payer_addr[p]
      dst  == payee_addr[p]
      role == classify_hop(src, dst, n)
      Toward(end) == ChildToward(n, end)
  IN  [ role   |-> role,
        first  |-> IF role \in {"Ascend", "Descend"} THEN Parent ELSE Toward(src),
        second |-> IF role = "Ascend" THEN Toward(src) ELSE Toward(dst) ]

Postings == [ p \in Pay |-> [ n \in SignerSet(p) |->
                LET h == derive_hop(n, p)
                IN  hop_postings(h.role, h.first, h.second, amount[p]) ] ]

(* Both child accounts of the hop must be in the node's record.            *)
HopDerives(n, p) == DOMAIN Postings[p][n] \ {Parent} \subseteq attached

BadRequest(p) == amount[p] = 0 \/ payer_addr[p] = payee_addr[p]

(* verify_transfer (expiry is the check that can change) and the append.   *)
Appends(n, p) ==
  /\ p \notin expired
  /\ amount[p] <= I64_MAX
  /\ Balanced(Postings[p][n])
  /\ CanonicalTransfer(derive_hop(n, p).role, Postings[p][n], amount[p])
  /\ CanApply(bal[n], Postings[p][n])

(* Broken variant: the replay guard is left out.                           *)
HopOutcomeNoReplayGuard(n, p, contended) ==
  IF ~contended /\ ~BadRequest(p) /\ Appends(n, p) THEN "Applied" ELSE "Rejected"

(***************************************************************************)
(* apply_hop and apply_order: the exclusive lock is asked for before       *)
(* anything else, the replay guard before the checks that may change.      *)
(***************************************************************************)
HopOutcome(n, p, contended) ==
  IF contended \/ BadRequest(p) THEN "Rejected"
  ELSE IF p \in consumed[n]     THEN "Duplicate"
  ELSE IF Appends(n, p)         THEN "Applied"
  ELSE "Rejected"

(* Broken variant: the payment id is not recorded as consumed.             *)
AppendHopUnrecorded(n, p) ==
  /\ bal' = [bal EXCEPT ![n] = apply_deltas(@, Postings[p][n])]
  /\ UNCHANGED consumed

AppendHop(n, p) ==
  /\ bal' = [bal EXCEPT ![n] = apply_deltas(@, Postings[p][n])]
  /\ consumed' = [consumed EXCEPT ![n] = @ \cup {p}]

-----------------------------------------------------------------------------
(***************************************************************************)
(* SettlementManager.                                                      *)
(***************************************************************************)

(* The position in q of the oldest key that is still live: what eviction   *)
(* pops, with the stale keys before it.                                    *)
OldestLive(q, live) == CHOOSE i \in 1..Len(q) : q[i] \in live /\ \A j \in 1..(i - 1) : q[j] \notin live

PopTo(q, i) == SubSeq(q, i + 1, Len(q))

(* Broken variant: one too many before anything is evicted.                *)
EvictedByLate(n, p) ==
  LET live == At(n, pending)
      q    == pending_order[n]
  IN  IF p \in pending \/ Cardinality(live) <= MAX_PENDING THEN {}
      ELSE {q[OldestLive(q, live)]}

(* The payments evicted when p is reserved at n: none, or the oldest.      *)
EvictedBy(n, p) ==
  LET live == At(n, pending)
      q    == pending_order[n]
  IN  IF p \in pending \/ Cardinality(live) < MAX_PENDING THEN {}
      ELSE {q[OldestLive(q, live)]}

reserve(n, p) ==
  LET live == At(n, pending)
      q    == pending_order[n]
      kept == IF EvictedBy(n, p) = {} THEN q ELSE PopTo(q, OldestLive(q, live))
  IN  /\ pending' = (pending \ EvictedBy(n, p)) \cup {p}
      /\ pending_order' = [pending_order EXCEPT ![n] = IF p \in pending THEN q ELSE Append(kept, p)]

(* The payments whose outcome n remembers.                                 *)
Remembered(n) == { p \in At(n, Pay) : terminal[p] # "none" }

record_terminal(n, p, outcome) ==
  LET live  == Remembered(n)
      full  == Cardinality(live) >= MAX_TERMINAL
      q     == terminal_order[n]
      i     == OldestLive(q, live)
      again == terminal[p] # "none"
  IN  /\ terminal' = [ r \in Pay |-> IF r = p THEN outcome
                                     ELSE IF ~again /\ full /\ r = q[i] THEN "none"
                                     ELSE terminal[r] ]
      /\ terminal_order' =
           [terminal_order EXCEPT ![n] = IF again THEN @
                                         ELSE Append(IF full THEN PopTo(@, i) ELSE @, p)]

(* How a remembered or fresh outcome is told to the wallet.                *)
settle_reject_to_status(outcome) ==
  IF outcome = "IntermediateRejected" THEN "Partial" ELSE "Indeterminate"

-----------------------------------------------------------------------------
Init ==
  /\ consumed = [ n \in Node |-> {} ]
  /\ bal = Funds
  /\ attached = Child
  /\ expired = {}
  /\ pending = {}
  /\ pending_order = [ n \in Origins |-> << >> ]
  /\ terminal = [ p \in Pay |-> "none" ]
  /\ terminal_order = [ n \in Origins |-> << >> ]
  /\ net = {}
  /\ wallet = [ p \in Pay |-> "idle" ]
  /\ sends = [ p \in Pay |-> 0 ]
  /\ restarts = 0
  /\ detaches = 0

(* The wallet signs an order, remembers it as pending and submits it.      *)
SendOrder(p) ==
  /\ wallet[p] = "idle"
  /\ sends[p] < MaxSends
  /\ wallet' = [wallet EXCEPT ![p] = "pending"]
  /\ sends' = [sends EXCEPT ![p] = @ + 1]
  /\ net' = net \cup {Order(p)}
  /\ UNCHANGED <<node_vars, mgr_vars, env_vars>>

(* A client submits the same signed order again.                           *)
ResendOrder(p) ==
  /\ wallet[p] # "idle"
  /\ sends[p] < MaxSends
  /\ sends' = [sends EXCEPT ![p] = @ + 1]
  /\ net' = net \cup {Order(p)}
  /\ UNCHANGED <<node_vars, mgr_vars, env_vars, wallet>>

(* The children of kind User: who lives at an address of Node is none.     *)
UserChildren == attached \ Node

PayeeIsLocal(p) == SameLeaf(p) /\ payee_addr[p] \in UserChildren

(* The checks handle_settlement_order makes before it applies its hop.     *)
CascadeRoutes(p) ==
  /\ ~SameLeaf(p)
  /\ Signers[p] # None
  /\ Len(Signers[p]) <= MAX_SETTLE_HOPS
  /\ HopDerives(Origin(p), p)

(* Refused before the ledger is asked: the sender is no user child here,   *)
(* its anchor does not match, or no signer path fits.                      *)
OrderRefused(p) ==
  \/ payer_addr[p] \notin UserChildren
  \/ p \notin AnchorOk
  \/ ~PayeeIsLocal(p) /\ ~CascadeRoutes(p)

(* Broken variant: a refusal before the debit is told as Indeterminate.    *)
RefuseOrderVaguely(p) ==
  /\ Order(p) \in net
  /\ OrderRefused(p)
  /\ Handled(Order(p), {Reply(p, "Indeterminate", FALSE)})
  /\ UNCHANGED <<node_vars, mgr_vars, env_vars, wallet, sends>>

RefuseOrder(p) ==
  /\ Order(p) \in net
  /\ OrderRefused(p)
  /\ Handled(Order(p), {Reply(p, "Rejected", FALSE)})
  /\ UNCHANGED <<node_vars, mgr_vars, env_vars, wallet, sends>>

(* apply_same_leaf_order: one Direct entry, answered at once.              *)
ApplySameLeafOrder(p, contended, proven) ==
  LET n == Origin(p)
      outcome == HopOutcome(n, p, contended)
      told == IF outcome # "Rejected" /\ ~proven THEN "Indeterminate" ELSE outcome
  IN  /\ Order(p) \in net
      /\ ~OrderRefused(p)
      /\ PayeeIsLocal(p)
      /\ IF outcome = "Applied" THEN AppendHop(n, p) ELSE UNCHANGED node_vars
      /\ Handled(Order(p), {Reply(p, told, told \in {"Applied", "Duplicate"})})
      /\ UNCHANGED <<mgr_vars, env_vars, wallet, sends>>

(* Broken variant: the origin counts its own hop twice.                    *)
ReserveOrderSkippingHop(p, contended) ==
  LET n == Origin(p)
  IN  /\ Order(p) \in net
      /\ ~OrderRefused(p)
      /\ ~PayeeIsLocal(p)
      /\ HopOutcome(n, p, contended) = "Applied"
      /\ AppendHop(n, p)
      /\ reserve(n, p)
      /\ Handled(Order(p), {Forward(p, 2)})
      /\ UNCHANGED <<terminal, terminal_order, env_vars, wallet, sends>>

(* handle_settlement_order, hop applied: reserve, answer the evicted       *)
(* payment with a timeout, start the cascade.                              *)
ReserveOrder(p, contended) ==
  LET n == Origin(p)
  IN  /\ Order(p) \in net
      /\ ~OrderRefused(p)
      /\ ~PayeeIsLocal(p)
      /\ HopOutcome(n, p, contended) = "Applied"
      /\ AppendHop(n, p)
      /\ reserve(n, p)
      /\ Handled(Order(p), {Forward(p, 1)}
                             \cup { Reply(q, "Indeterminate", FALSE) : q \in EvictedBy(n, p) })
      /\ UNCHANGED <<terminal, terminal_order, env_vars, wallet, sends>>

(* handle_settlement_order, not applied: rejected, silent while in flight, *)
(* or answered from what is remembered of the earlier cascade.             *)
AnswerOrder(p, contended) ==
  LET n == Origin(p)
      outcome == HopOutcome(n, p, contended)
      InFlight == p \in pending /\ terminal[p] = "none"
  IN  /\ Order(p) \in net
      /\ ~OrderRefused(p)
      /\ ~PayeeIsLocal(p)
      /\ outcome # "Applied"
      /\ Handled(Order(p),
           IF outcome = "Rejected" THEN {Reply(p, "Rejected", FALSE)}
           ELSE IF InFlight THEN {}
           ELSE IF terminal[p] \in {"none", "Applied"}
                THEN {Reply(p, "Duplicate", terminal[p] = "Applied")}
                ELSE {Reply(p, settle_reject_to_status(terminal[p]), FALSE)})
      /\ UNCHANGED <<node_vars, mgr_vars, env_vars, wallet, sends>>

-----------------------------------------------------------------------------
(***************************************************************************)
(* handle_settle_forward at the signer after the i hops already carried.   *)
(* A signer address nobody lives at receives nothing, and a path that is   *)
(* too long is dropped here as well.                                       *)
(***************************************************************************)
ReceivesForward(n, p) == n \in Node /\ Len(Signers[p]) <= MAX_SETTLE_HOPS

ForwardRejects(n, p, contended) ==
  \/ n = PayeeLeaf(p) /\ payee_addr[p] \notin UserChildren
  \/ HopDerives(n, p) /\ HopOutcome(n, p, contended) = "Rejected"

(* The hop is refused: the origin is told where the cascade stopped.       *)
RefuseForward(p, i, contended) ==
  LET n == Signers[p][i + 1]
      outcome == IF ForwardRejects(n, p, contended) THEN "IntermediateRejected" ELSE "Malformed"
  IN  /\ Forward(p, i) \in net
      /\ ReceivesForward(n, p)
      /\ ForwardRejects(n, p, contended) \/ ~HopDerives(n, p)
      /\ Handled(Forward(p, i), {Result(p, outcome, n)})
      /\ UNCHANGED <<node_vars, mgr_vars, env_vars, wallet, sends>>

(* The hop applies, or had applied: relayed to the next signer, or at the  *)
(* payee's leaf answered with its proof (silently dropped without one).    *)
ApplyForward(p, i, contended, proven) ==
  LET n == Signers[p][i + 1]
      outcome == HopOutcome(n, p, contended)
      next == IF i + 1 < Len(Signers[p]) THEN {Forward(p, i + 1)}
              ELSE IF proven THEN {Result(p, "Applied", n)} ELSE {}
  IN  /\ Forward(p, i) \in net
      /\ ReceivesForward(n, p)
      /\ ~ForwardRejects(n, p, contended)
      /\ HopDerives(n, p)
      /\ IF outcome = "Applied" THEN AppendHop(n, p) ELSE UNCHANGED node_vars
      /\ Handled(Forward(p, i), next)
      /\ UNCHANGED <<mgr_vars, env_vars, wallet, sends>>

(***************************************************************************)
(* handle_settle_result at the origin.                                     *)
(***************************************************************************)
ResultExpected(m) ==
  /\ m.pay \in pending
  /\ IF m.outcome = "Applied" THEN m.src = PayeeLeaf(m.pay)
     ELSE m.src \in SignerSet(m.pay)

IgnoreResult(m) ==
  /\ m.type = "Result"
  /\ ~ResultExpected(m)
  /\ Handled(m, {})
  /\ UNCHANGED <<node_vars, mgr_vars, env_vars, wallet, sends>>

(* An Applied result whose proof does not verify resolves the payment as   *)
(* Indeterminate and is not remembered.                                    *)
HandleResult(m, verified) ==
  LET p == m.pay
      resolved == m.outcome # "Applied" \/ verified
      status == IF m.outcome # "Applied" THEN settle_reject_to_status(m.outcome)
                ELSE IF verified THEN "Applied" ELSE "Indeterminate"
  IN  /\ m.type = "Result"
      /\ ResultExpected(m)
      /\ pending' = pending \ {p}
      /\ IF resolved THEN record_terminal(Origin(p), p, m.outcome)
                     ELSE UNCHANGED <<terminal, terminal_order>>
      /\ Handled(m, {Reply(p, status, status = "Applied")})
      /\ UNCHANGED <<node_vars, pending_order, env_vars, wallet, sends>>

(* Broken variants: the sweep tells the payer that the payment failed, or  *)
(* keeps the reservation, or does not tell the payer at all.               *)
SweepExpiredAsPartial(p) ==
  /\ p \in pending
  /\ pending' = pending \ {p}
  /\ net' = net \cup {Reply(p, "Partial", FALSE)}
  /\ UNCHANGED <<node_vars, pending_order, terminal, terminal_order, env_vars, wallet, sends>>

SweepExpiredKeeping(p) ==
  /\ p \in pending
  /\ net' = net \cup {Reply(p, "Indeterminate", FALSE)}
  /\ UNCHANGED <<node_vars, mgr_vars, env_vars, wallet, sends>>

SweepExpiredSilently(p) ==
  /\ p \in pending
  /\ pending' = pending \ {p}
  /\ UNCHANGED <<node_vars, pending_order, terminal, terminal_order, env_vars, net, wallet, sends>>

(* sweep_settlements, for one payment whose deadline has passed. Time is   *)
(* not modelled: any pending payment may be overdue.                       *)
SweepExpired(p) ==
  /\ p \in pending
  /\ pending' = pending \ {p}
  /\ net' = net \cup {Reply(p, "Indeterminate", FALSE)}
  /\ UNCHANGED <<node_vars, pending_order, terminal, terminal_order, env_vars, wallet, sends>>

(* Broken variant: the status is believed without its proof.               *)
SettlementStateTrusting(m) == m.status

(***************************************************************************)
(* apply_settlement_result in the wallet: every answer is final, and an    *)
(* Applied or Duplicate without a proof is kept as Unverified. An answer   *)
(* to an order that is no longer pending is unknown and ignored.           *)
(***************************************************************************)
SettlementState(m) ==
  IF m.status \in {"Applied", "Duplicate"} /\ ~m.proof THEN "Unverified" ELSE m.status

ApplyReply(m) ==
  /\ m.type = "Reply"
  /\ wallet' = IF wallet[m.pay] = "pending" THEN [wallet EXCEPT ![m.pay] = SettlementState(m)]
               ELSE wallet
  /\ net' = net \ {m}
  /\ UNCHANGED <<node_vars, mgr_vars, env_vars, sends>>

-----------------------------------------------------------------------------
(***************************************************************************)
(* What happens around the cascade.                                        *)
(***************************************************************************)

(* A node restarts: the ledger is replayed from disk, the manager is new.  *)
Restart(n) ==
  /\ restarts < MaxRestarts
  /\ restarts' = restarts + 1
  /\ pending' = pending \ At(n, Pay)
  /\ pending_order' = [pending_order EXCEPT ![n] = << >>]
  /\ terminal' = [ p \in Pay |-> IF Origin(p) = n THEN "none" ELSE terminal[p] ]
  /\ terminal_order' = [terminal_order EXCEPT ![n] = << >>]
  /\ UNCHANGED <<node_vars, attached, expired, detaches, net, wallet, sends>>

(* A child leaves its parent's record.                                     *)
Detach(c) ==
  /\ c \in attached
  /\ detaches < MaxDetaches
  /\ detaches' = detaches + 1
  /\ attached' = attached \ {c}
  /\ UNCHANGED <<node_vars, mgr_vars, expired, restarts, net, wallet, sends>>

Expire(p) ==
  /\ p \in MayExpire \ expired
  /\ expired' = expired \cup {p}
  /\ UNCHANGED <<node_vars, mgr_vars, attached, restarts, detaches, net, wallet, sends>>

Lose(m) ==
  /\ m.type \in LoseKinds
  /\ net' = net \ {m}
  /\ UNCHANGED <<node_vars, mgr_vars, env_vars, wallet, sends>>

HandleOrder(p) ==
  \/ RefuseOrder(p)
  \/ \E contended \in Contention :
       \/ \E proven \in Proofs : ApplySameLeafOrder(p, contended, proven)
       \/ ReserveOrder(p, contended)
       \/ AnswerOrder(p, contended)

HandleForward(p, i) ==
  \E contended \in Contention :
    \/ RefuseForward(p, i, contended)
    \/ \E proven \in Proofs : ApplyForward(p, i, contended, proven)

Next ==
  \/ \E p \in Pay : \/ SendOrder(p) \/ ResendOrder(p) \/ HandleOrder(p)
                    \/ SweepExpired(p) \/ Expire(p)
                    \/ \E i \in 1..(Len(Signers[p]) - 1) : HandleForward(p, i)
  \/ \E m \in net : \/ IgnoreResult(m) \/ (\E verified \in Proofs : HandleResult(m, verified))
                    \/ ApplyReply(m) \/ Lose(m)
  \/ \E n \in Origins : Restart(n)
  \/ \E c \in attached : Detach(c)

Spec == Init /\ [][Next]_vars

(***************************************************************************)
(* A node keeps draining its inbox and sweeping, and the wallet keeps      *)
(* polling; the network promises nothing.                                  *)
(***************************************************************************)
Fairness ==
  /\ \A p \in Pay : WF_vars(HandleOrder(p)) /\ WF_vars(SweepExpired(p))
  /\ WF_vars(\E m \in net : ApplyReply(m))

LiveSpec == Spec /\ Fairness
-----------------------------------------------------------------------------
(***************************************************************************)
(* Properties.                                                             *)
(***************************************************************************)

(* Every variable has its type.                                            *)
TypeOK ==
  /\ consumed \in [Node -> SUBSET Pay]
  /\ DOMAIN bal = Node /\ \A n \in Node : bal[n] \in [DOMAIN Funds[n] -> Amount]
  /\ attached \subseteq Child
  /\ expired \subseteq Pay
  /\ pending \subseteq Pay
  /\ pending_order \in [Origins -> Seq(Pay)]
  /\ terminal \in [Pay -> Outcome \cup {"none"}]
  /\ terminal_order \in [Origins -> Seq(Pay)]
  /\ net \subseteq Message
  /\ wallet \in [Pay -> Status \cup {"idle", "pending", "Unverified"}]
  /\ sends \in [Pay -> 0..MaxSends]
  /\ restarts \in 0..MaxRestarts
  /\ detaches \in 0..MaxDetaches

AppliedAt(p, i) == Signers[p][i] \in Node /\ p \in consumed[Signers[p][i]]

Debited(p) == p \in consumed[Origin(p)]

Credited(p) == Signers[p] # None /\ AppliedAt(p, Len(Signers[p]))

(* No hop is applied before the hops between it and the payer: whatever is *)
(* lost, refused or restarted, value never appears further along the route *)
(* (handle_settle_forward) than it has left the payer.                     *)
PrefixApplied ==
  \A p \in Pay : \A j \in 1..Len(Signers[p]) : AppliedAt(p, j) => \A i \in 1..j : AppliedAt(p, i)

(* What the origin remembers as Applied, or the wallet records as Applied  *)
(* or as a proven Duplicate, was credited at the payee's leaf.             *)
AppliedMeansCredited ==
  \A p \in Pay : terminal[p] = "Applied" \/ wallet[p] \in {"Applied", "Duplicate"} => Credited(p)

(* Partial, Indeterminate and Unverified tell the payer that the debit is  *)
(* committed, and a pending reservation stands for one: the payer's hop    *)
(* has indeed applied (settle_reject_to_status, send_timeout_result).      *)
UnsettledMeansDebited ==
  \A p \in Pay : p \in pending \/ wallet[p] \in {"Partial", "Indeterminate", "Unverified"} => Debited(p)

(***************************************************************************)
(* With at-most-once delivery and one submission per order the cascade     *)
(* implements what the payer is promised: every answer the wallet records  *)
(* is true, and Rejected and Partial stay true (apply_settlement_result    *)
(* drops the pending order on the first answer, so no correction follows). *)
(***************************************************************************)
Hops == [ p \in Pay |-> Len(Signers[p]) ]

Stage == [ p \in Pay |-> Cardinality({ i \in 1..Len(Signers[p]) : AppliedAt(p, i) }) ]

C == INSTANCE PaymentContract WITH stage <- Stage, told <- wallet

Contract == C!Spec

(* The books of both sides of an edge differ by exactly the payments that  *)
(* one side has applied and the other has not yet, and always in the       *)
(* direction in which the parent owes more than the child claims: no       *)
(* payment is applied twice and no claim is unbacked. An edge is a child   *)
(* node that has an account at its parent.                                 *)
Edges == { c \in Node : ~is_root(c) /\ parent(c) \in Node /\ c \in DOMAIN Funds[parent(c)] }

Crosses(p, c) == {c, parent(c)} \subseteq SignerSet(p)

HalfApplied(c) ==
  { p \in Pay : Crosses(p, c) /\ (p \in consumed[c]) # (p \in consumed[parent(c)]) }

EdgesReconcile ==
  \A c \in Edges :
    bal[parent(c)][c] - bal[c][Parent]
      = Funds[parent(c)][c] - Funds[c][Parent] + SumOver(amount, HalfApplied(c))

(* Every live key can be found by the eviction: reserve, take_pending and  *)
(* sweep_expired leave stale keys in the insertion order, never the other  *)
(* way round.                                                              *)
Keys(q) == { q[i] : i \in 1..Len(q) }

KeysNamed ==
  \A n \in Origins : /\ At(n, pending) \subseteq Keys(pending_order[n])
                     /\ Remembered(n) \subseteq Keys(terminal_order[n])

(* The manager stays within its bounds (MAX_PENDING, MAX_TERMINAL), its    *)
(* order of outcomes too, and its evictions always find their key.         *)
ManagerBounded ==
  /\ KeysNamed
  /\ \A n \in Origins : /\ Cardinality(At(n, pending)) <= MAX_PENDING
                        /\ Cardinality(Remembered(n)) <= MAX_TERMINAL
                        /\ Len(terminal_order[n]) <= MAX_TERMINAL

(***************************************************************************)
(* Why the two properties above hold: no message in flight claims more     *)
(* than the ledgers say. A forward is at most one hop ahead of the prefix  *)
(* that has applied, a result exists only for a debited payment, and a     *)
(* proof only for a credited one.                                          *)
(***************************************************************************)
Truthful(m) ==
  CASE m.type = "Forward" -> /\ m.hops < Len(Signers[m.pay])
                             /\ \A i \in 1..m.hops : AppliedAt(m.pay, i)
    [] m.type = "Result"  -> Debited(m.pay) /\ (m.outcome = "Applied" => Credited(m.pay))
    [] m.type = "Reply"   -> /\ m.status # "Rejected" => Debited(m.pay)
                             /\ m.proof => Credited(m.pay)
                             /\ m.status = "Applied" => m.proof
    [] OTHER              -> TRUE

CascadeInv ==
  /\ PrefixApplied
  /\ AppliedMeansCredited
  /\ UnsettledMeansDebited
  /\ \A p \in Pay : terminal[p] # "none" => Debited(p)
  /\ \A m \in net : Truthful(m)

(* Every reservation is resolved, by its result or by the sweep.           *)
PendingResolved == \A p \in Pay : p \in pending ~> p \notin pending

(* Every submitted order is answered even if the cascade is lost.          *)
PayerAnswered == \A p \in Pay : wallet[p] = "pending" ~> wallet[p] # "pending"
=============================================================================
