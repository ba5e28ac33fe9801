------------------------------- MODULE Wallet -------------------------------
(***************************************************************************)
(* A browser wallet (crates/client-wasm): the calls its page makes         *)
(* (ClientNode, lib.rs), the frames its parent sends (ControlHandler,      *)
(* control.rs, and MsgHandler, lib.rs) and the page that stores the two    *)
(* documents of WalletState, and reloads (web/src/lib/api.js).             *)
(*                                                                         *)
(* A call waits for an answer while frames are handled and other calls are *)
(* made. The nodes are as much of the node program as the wallet sees;     *)
(* Membership and ControlGate model it. Frames arrive in any order: one    *)
(* that stays is one its sender still retries. Duplicates of envelopes are *)
(* in Transport.                                                           *)
(***************************************************************************)
EXTENDS WalletState, FiniteSets

CONSTANTS
  Node,           \* the nodes a wallet may join
  SlotAt,         \* [Node -> slot it gives the wallet]
  PrefixOf,       \* [Node -> Seq of its addresses, one per epoch]
  KeyOf,          \* [Node -> Seq of its ledger keys, the current one last]
  PayeeLeaf,      \* nodes that are the leaf of a payee
  Identity,       \* user identities (Ethereum keys)
  Target,         \* nodes that routed requests go to
  CONTROL_COMMIT_ATTEMPTS,
  INBOX,          \* capacity of the two delivery queues
  MaxJoins,       \* bound: joins
  MaxActs         \* bound: calls, operator commands and faults together

VARIABLES
  local, led, ident,     \* the documents and the user identity in memory
  guard,                 \* [parent, generation]: newest re-base of that parent
  inbox, replies,        \* ledger envelopes and routed replies not yet taken
  events,                \* kinds of control events not yet drained
  calls,                 \* calls of the page that wait
  disk,                  \* [state, ledger]: the stored documents
  node,                  \* [Node -> its side of the link]
  net,                   \* frames under way
  aux,                   \* what happened, for the properties only
  joins, acts

ASSUME NodeAssumption ==
  /\ Nil \notin Node
  /\ \A p \in Node : /\ SlotAt[p] \in Slot
                     /\ PrefixOf[p] \in Seq(OctAddr) \ {<< >>}
                     /\ DOMAIN KeyOf[p] = 1..Len(KeyOf[p]) /\ Len(KeyOf[p]) \in Nat \ {0}

ASSUME UserAssumption ==
  /\ Identity # {}
  /\ PayeeLeaf \subseteq Node
  /\ {INBOX, MaxJoins} \subseteq Nat

counters == <<joins, acts>>
memory == <<local, led, guard, events>>
vars == <<memory, ident, inbox, replies, calls, disk, node, net, aux, counters>>

NoGuard == [parent |-> Nil, generation |-> 0]

NoProof == [node |-> Nil, key |-> Nil]

(* n is an epoch or a height.                                              *)
Frame(kind, from, id, address, key, n) ==
  [kind |-> kind, from |-> from, id |-> id, address |-> address, key |-> key, n |-> n,
   status |-> "none", proof |-> NoProof]

(* did: what the node did with a commit that was sent so far.              *)
Call(kind, to, id) ==
  [kind |-> kind, to |-> to, id |-> id, st |-> "sent", address |-> None,
   old |-> Nil, new |-> Nil, tries |-> 1, did |-> "nothing"]

prefix(p) == PrefixOf[p][node[p].epoch]
AddressAt(p) == child(prefix(p), SlotAt[p])
key(p) == KeyOf[p][node[p].keys]

Init ==
  /\ local = LocalState /\ led = LedgerState /\ guard = NoGuard
  /\ ident = CHOOSE k \in Identity : TRUE
  /\ inbox = << >> /\ replies = << >> /\ events = {} /\ calls = {}
  /\ disk = [state |-> LocalState, ledger |-> LedgerState]
  /\ node = [ p \in Node |-> [listed |-> 0, queued |-> 0, epoch |-> 1, keys |-> 1, height |-> 0,
                              anchor |-> Nil, marks |-> {}] ]
  /\ net = {}
  /\ aux = [missed |-> {}, used |-> {}, lapsed |-> {}, heard |-> FALSE, regressed |-> FALSE, verdicts |-> {}]
  /\ joins = 0 /\ acts = 0

(* Calls of the page, commands of operators and faults share one bound.    *)
Counted == acts < MaxActs /\ acts' = acts + 1

Act == Counted /\ UNCHANGED joins

(* joined_context: the calls that need a place in the tree.                *)
joined_context == local.address # None /\ Attached(local)

-----------------------------------------------------------------------------
(***************************************************************************)
(* Storing and reloading.                                                  *)
(***************************************************************************)
persistState(d, s) == [d EXCEPT !.state = s]
persistLedgerState(d, l) == [d EXCEPT !.ledger = l]

(* The page after the control events ev: the ledger document first, and    *)
(* only when the parent changed.                                           *)
DrainInto(d, s, l, ev) ==
  IF ev = {} THEN d
  ELSE persistState(IF "parent" \in ev THEN persistLedgerState(d, l) ELSE d, s)

drainControlEvents ==
  /\ events # {}
  /\ disk' = DrainInto(disk, local, led, events)
  /\ events' = {}
  /\ UNCHANGED <<local, led, guard, ident, inbox, replies, calls, node, net, aux, counters>>

(* from_bytes: an unreadable document starts empty; the ledger document is *)
(* then bound to the link of the other one.                                *)
LocalState_from_bytes(d, reads) == IF reads THEN d.state ELSE [LocalState EXCEPT !.link = Lost]

LedgerState_from_bytes(d, reads, s) ==
  IF reads THEN d.ledger ELSE [LedgerState EXCEPT !.link = s.link]

(* The page is closed and opened: what was not stored is gone, calls end,  *)
(* and both documents are stored again.                                    *)
Reload(stateReads, ledgerReads) ==
  LET s == LocalState_from_bytes(disk, stateReads)
      l == LedgerState_from_bytes(disk, ledgerReads, s)
  IN  /\ Act
      /\ local' = s /\ led' = l /\ guard' = NoGuard /\ events' = {}
      /\ inbox' = << >> /\ replies' = << >> /\ calls' = {}
      /\ disk' = [state |-> s, ledger |-> l]
      /\ aux' = [aux EXCEPT
            !.heard = FALSE,
            !.regressed = (s.link = local.link /\ @) \/ s.epoch < local.epoch \/ s.link # local.link,
            !.lapsed = @ \cup { <<c.to, joins>> : c \in { x \in calls : x.kind = "leave" } }
                         \cup (IF s.link = local.link THEN {} ELSE {<<s.parent, s.link>>})
                         \cup (IF s.outbound = local.outbound THEN {}
                               ELSE {<<s.outbound.parent, s.outbound.nonce>>}) ]
      /\ UNCHANGED <<ident, node, net>>

-----------------------------------------------------------------------------
(***************************************************************************)
(* Joining and leaving.                                                    *)
(***************************************************************************)

(* join_inner: the request is recorded before the parent is dialled.       *)
Join(p) ==
  /\ Counted
  /\ joins < MaxJoins
  /\ joins' = joins + 1
  /\ local' = set_outbound(local, joins', p)
  /\ calls' = calls \cup {Call("join", p, joins')}
  /\ UNCHANGED <<led, guard, events, ident, inbox, replies, disk, node, net, aux>>

(* The parent queues the request, keeps one that is queued already, or has *)
(* no room for another, also of a wallet it lists.                         *)
handle_join(c) ==
  LET p == c.to
      Answer(st) == calls' = (calls \ {c}) \cup {[c EXCEPT !.st = st]}
  IN  /\ c.kind = "join" /\ c.st = "sent"
      /\ \/ /\ Answer("pending")
            /\ node' = [node EXCEPT ![p].queued = IF @ = 0 THEN c.id ELSE @]
         \/ /\ node[p].queued = 0
            /\ Answer("refused")
            /\ UNCHANGED node
      /\ UNCHANGED <<memory, ident, inbox, replies, disk, net, aux, counters>>

(* The answer of the parent; a refusal clears whatever is outstanding.     *)
join_returns(c) ==
  LET refused == c.st = "refused"
      ev == IF refused THEN events \cup {"other"} ELSE events
  IN  /\ c.kind = "join" /\ c.st \in {"pending", "refused"}
      /\ local' = IF refused THEN reject_outbound(local) ELSE local
      /\ disk' = DrainInto(persistState(disk, local'), local', led, ev)
      /\ events' = {}
      /\ calls' = calls \ {c}
      /\ UNCHANGED <<led, guard, ident, inbox, replies, node, net, aux, counters>>

approve_pending(p) ==
  LET r == node[p]
  IN  /\ r.queued # 0
      /\ node' = [node EXCEPT ![p].listed = r.queued, ![p].queued = 0]
      /\ net' = net \cup {Frame("Approved", p, r.queued, AddressAt(p), key(p), r.epoch)}
      /\ UNCHANGED <<memory, ident, inbox, replies, calls, disk, aux, counters>>

(* control reject: with the nonce of the queued request, or with none.     *)
reject_pending(p) ==
  /\ Act
  /\ node' = [node EXCEPT ![p].queued = 0]
  /\ net' = net \cup {Frame("Rejected", p, node[p].queued, None, Nil, 0)}
  /\ UNCHANGED <<memory, ident, inbox, replies, calls, disk, aux>>

handle_join_approved(f) ==
  /\ f.kind = "Approved"
  /\ net' = net \ {f}
  /\ IF on_join_approved_ok(local, f)
     THEN /\ local' = on_join_approved(local, f)
          /\ led' = [rebind_parent(led, f.key) EXCEPT !.link = f.id]
          /\ guard' = NoGuard
          /\ events' = events \cup {"parent"}
          /\ aux' = [aux EXCEPT !.heard = FALSE,
                                 !.regressed = \E x \in aux.used : x[1] = f.from /\ x[2] > f.n]
     ELSE UNCHANGED <<memory, aux>>
  /\ UNCHANGED <<ident, inbox, replies, calls, disk, node, counters>>

handle_join_rejected(f) ==
  /\ f.kind = "Rejected"
  /\ net' = net \ {f}
  /\ IF on_join_rejected_ok(local, f)
     THEN local' = reject_outbound(local) /\ events' = events \cup {"other"}
     ELSE UNCHANGED <<local, events>>
  /\ UNCHANGED <<led, guard, ident, inbox, replies, calls, disk, node, aux, counters>>

Leave ==
  /\ Act
  /\ joined_context
  /\ calls' = calls \cup {Call("leave", local.parent, joins)}
  /\ UNCHANGED <<memory, ident, inbox, replies, disk, node, net, aux>>

handle_exit(c) ==
  /\ c.kind = "leave" /\ c.st = "sent"
  /\ node' = [node EXCEPT ![c.to].listed = 0, ![c.to].anchor = Nil]
  /\ calls' = (calls \ {c}) \cup {[c EXCEPT !.st = "accepted"]}
  /\ UNCHANGED <<memory, ident, inbox, replies, disk, net, aux, counters>>

(* Whatever the parent said, and whoever is the parent by now.             *)
Detached ==
  /\ local' = apply_detach(local)
  /\ led' = IF local' = local THEN led ELSE [clear_parent_binding(led) EXCEPT !.link = 0]
  /\ events' = IF local' = local THEN events ELSE events \cup {"parent"}

leave_returns(c) ==
  /\ c.kind = "leave"
  /\ \/ c.st = "accepted" /\ UNCHANGED counters
     \/ c.st = "sent" /\ Act
  /\ Detached
  /\ disk' = persistState(persistLedgerState(disk, led'), local')
  /\ calls' = calls \ {c}
  /\ aux' = IF local' = local THEN [aux EXCEPT !.lapsed = @ \cup {<<c.to, joins>>}] ELSE aux
  /\ UNCHANGED <<guard, ident, inbox, replies, node, net>>

(* The operator of p detaches the wallet. The notice revokes every request *)
(* made so far.                                                            *)
apply_detach_child(p) ==
  /\ Act
  /\ node[p].listed # 0
  /\ node' = [node EXCEPT ![p].listed = 0, ![p].anchor = Nil]
  /\ net' = net \cup {Frame("Detach", p, joins, None, Nil, 0)}
  /\ UNCHANGED <<memory, ident, inbox, replies, calls, disk, aux>>

handle_detach_notice(f) ==
  /\ f.kind = "Detach"
  /\ net' = net \ {f}
  /\ IF local.parent = f.from
     THEN Detached /\ guard' = NoGuard /\ UNCHANGED aux
     ELSE aux' = [aux EXCEPT !.lapsed = @ \cup {<<f.from, f.id>>}] /\ UNCHANGED memory
  /\ UNCHANGED <<ident, inbox, replies, calls, disk, node, counters>>

-----------------------------------------------------------------------------
(***************************************************************************)
(* The address of the parent changes.                                      *)
(***************************************************************************)
propagate_rebase(p) ==
  LET e == node[p].epoch + 1
  IN  /\ Act
      /\ e <= Len(PrefixOf[p])
      /\ node' = [node EXCEPT ![p].epoch = e]
      /\ net' = IF node[p].listed = 0 THEN net
                ELSE net \cup {Frame("Rebase", p, 0, child(PrefixOf[p][e], SlotAt[p]), Nil, e)}
      /\ UNCHANGED <<memory, ident, inbox, replies, calls, disk, aux>>

(* The newest generation applied from the current parent.                  *)
Stored == IF guard.parent = local.parent THEN guard.generation ELSE 0

(* Broken variant: the mark is not advanced.                               *)
AdvanceNever(f) == [parent |-> f.from, generation |-> Stored]

Advance(f) == [parent |-> f.from, generation |-> f.n]

handle_rebase(f) ==
  LET mine  == Attached(local) /\ f.from = local.parent /\ slot(f.address) = local.slot
      newer == f.n > Stored
      clash == f.n = Stored /\ f.address # local.address
  IN  /\ f.kind = "Rebase"
      /\ net' = net \ {f}
      /\ IF mine /\ newer
         THEN /\ local' = apply_rebase(local, f)
              /\ guard' = Advance(f)
              /\ aux' = [aux EXCEPT !.heard = TRUE, !.used = @ \cup {<<f.from, f.n>>},
                    !.regressed = f.n < node[f.from].epoch /\ (@ \/ (~aux.heard /\ f.n < local.epoch))]
         ELSE /\ guard' = IF mine THEN [parent |-> f.from, generation |-> Stored] ELSE guard
              /\ aux' = IF mine /\ ~clash THEN aux
                        ELSE [aux EXCEPT !.missed = @ \cup {<<f.from, f.n>>}]
              /\ UNCHANGED local
      /\ UNCHANGED <<led, events, ident, inbox, replies, calls, disk, node, counters>>

-----------------------------------------------------------------------------
(***************************************************************************)
(* Balances and payments.                                                  *)
(***************************************************************************)
Receipt(kind, p, id) == Frame(kind, p, id, AddressAt(p), key(p), node[p].height + 1)

(* A parent answers the BalanceQuery of a wallet it knows.                 *)
BalanceQuery(p) ==
  IF node[p].listed = 0 THEN UNCHANGED <<node, net>>
  ELSE /\ node' = [node EXCEPT ![p].height = @ + 1]
       /\ net' = net \cup {Receipt("Receipt", p, 0)}

RequestBalance ==
  /\ Act
  /\ joined_context
  /\ BalanceQuery(local.parent)
  /\ UNCHANGED <<memory, ident, inbox, replies, calls, disk, aux>>

(* send_payment: an order with a fresh number (a random nonce in the code) *)
(* is entered in the document in memory, and sent. It is signed with the   *)
(* identity of this moment.                                                *)
SendPayment ==
  /\ Act
  /\ joined_context
  /\ ~Listed(led.pending, acts')
  /\ led' = push_pending(led, acts')
  /\ calls' = calls \cup {[Call("payment", local.parent, acts') EXCEPT !.old = ident]}
  /\ UNCHANGED <<local, guard, events, ident, inbox, replies, disk, node, net, aux>>

(* The parent of an anchored user wants the order signed by the anchor. A  *)
(* payee of the leaf q is paid.                                            *)
Settled(c, q) ==
  LET p == c.to
  IN  IF node[p].anchor \notin {Nil, c.old}
      THEN [Frame("Result", p, c.id, AddressAt(p), Nil, 0) EXCEPT !.status = "rejected"]
      ELSE [Receipt("Result", p, c.id) EXCEPT !.status = "applied", !.proof = [node |-> q, key |-> key(q)]]

(* The parent acknowledges an order; the result is an envelope of its own. *)
handle_order(c) ==
  LET p == c.to
  IN  /\ c.kind = "payment" /\ c.st = "sent"
      /\ calls' = (calls \ {c}) \cup {[c EXCEPT !.st = "accepted"]}
      /\ IF node[p].listed = 0 THEN UNCHANGED <<node, net>>
         ELSE \E q \in PayeeLeaf :
                /\ net' = net \cup {Settled(c, q)}
                /\ node' = [node EXCEPT ![p].height = IF Settled(c, q).n = 0 THEN @ ELSE @ + 1]
      /\ UNCHANGED <<memory, ident, inbox, replies, disk, aux, counters>>

(* sendPayment of the page stores the order when it is acknowledged. It    *)
(* takes the events that wait in the same turn, so the step comes when     *)
(* try_recv_ledger_event has left none. A send that throws (CallFails)     *)
(* stores nothing.                                                         *)
payment_returns(c) ==
  /\ c.kind = "payment" /\ c.st = "accepted"
  /\ inbox = << >>
  /\ disk' = persistLedgerState(disk, led)
  /\ calls' = calls \ {c}
  /\ UNCHANGED <<memory, ident, inbox, replies, node, net, aux, counters>>

(* For the present address; ledger traffic from the present parent only.   *)
parent_rule(f) ==
  local.address # None /\ f.address = local.address /\ (f.kind = "Routed" \/ f.from = local.parent)

(* MsgHandler::handle: without room in its queue an envelope is refused.   *)
MsgHandler_handle(f) ==
  LET control == f.kind = "Routed"
      Into(q) == IF parent_rule(f) /\ Len(q) < INBOX THEN Append(q, f) ELSE q
  IN  /\ f.kind \in {"Receipt", "Result", "Routed"}
      /\ net' = net \ {f}
      /\ inbox' = IF control THEN inbox ELSE Into(inbox)
      /\ replies' = IF control THEN Into(replies) ELSE replies
      /\ UNCHANGED <<memory, ident, calls, disk, node, aux, counters>>

(* The page takes a ledger envelope, long after it was accepted perhaps,   *)
(* and applies it for the parent of this moment (ledger_binding).          *)
try_recv_ledger_event ==
  LET f == Head(inbox)
  IN  /\ inbox # << >>
      /\ inbox' = Tail(inbox)
      /\ led' = IF ~Attached(local) THEN led
                ELSE IF f.kind = "Receipt" THEN apply_balance_receipt(led, f, local.parent)
                ELSE apply_settlement_result(led, f, local.parent)
      /\ disk' = persistLedgerState(disk, led')
      /\ UNCHANGED <<local, guard, events, ident, replies, calls, node, net, aux, counters>>

(* What the user decides about a pin is stored at once (confirmPin,        *)
(* acceptPinChange).                                                       *)
Decide(l) ==
  /\ Act
  /\ l # led
  /\ led' = l
  /\ disk' = persistLedgerState(disk, led')
  /\ UNCHANGED <<local, guard, events, ident, inbox, replies, calls, node, net, aux>>

confirm_pin(q) ==
  Decide(confirm_leaf_pin(IF q = local.parent THEN confirm_pinned_ledger(led, q) ELSE led, q))

accept_pin_change(q) ==
  Decide(accept_leaf_key_change(IF q = local.parent THEN accept_pinned_ledger_change(led, q)
                                ELSE led, q))

(* The key of a receive URI, pinned before a payment (pinPayeeLeaf): in    *)
(* memory only, until something else stores the document.                  *)
pin_payee_leaf(q, k) ==
  /\ Act
  /\ led' = pin_leaf_key_from_receive(led, q, k)
  /\ led' # led
  /\ UNCHANGED <<local, guard, events, ident, inbox, replies, calls, disk, node, net, aux>>

(* The operator of p replaces its ledger key.                              *)
NewLedgerKey(p) ==
  /\ Act
  /\ node[p].keys < Len(KeyOf[p])
  /\ node' = [node EXCEPT ![p].keys = @ + 1]
  /\ UNCHANGED <<memory, ident, inbox, replies, calls, disk, net, aux>>

-----------------------------------------------------------------------------
(***************************************************************************)
(* The anchor of the user at its parent.                                   *)
(***************************************************************************)
set_user_identity(k) ==
  /\ Act
  /\ k # ident
  /\ ident' = k
  /\ UNCHANGED <<memory, inbox, replies, calls, disk, node, net, aux>>

Commit(kind, k) ==
  /\ Act
  /\ joined_context
  /\ calls' = calls \cup {[Call(kind, local.parent, acts') EXCEPT !.old = ident, !.new = k]}
  /\ UNCHANGED <<memory, ident, inbox, replies, disk, node, net, aux>>

register_eth_address == Commit("register", ident)

rotate_eth_address(k) == k # ident /\ Commit("rotate", k)

(* The replay mark is set first; a registration needs a user without an    *)
(* anchor, a rotation the signature of the anchor.                         *)
handle_register_eth_address(c) ==
  LET r == node[c.to]
      fits == r.listed # 0 /\ IF c.kind = "register" THEN r.anchor = Nil ELSE r.anchor = c.old
      st == IF c.id \in r.marks THEN "Replay" ELSE IF fits THEN "Accepted" ELSE "Rejected"
  IN  /\ c.kind \in {"register", "rotate"} /\ c.st = "sent"
      /\ node' = [node EXCEPT ![c.to].marks = @ \cup {c.id},
                              ![c.to].anchor = IF st = "Accepted" THEN c.new ELSE @]
      /\ calls' = (calls \ {c}) \cup
                  {[c EXCEPT !.st = st, !.did = IF st = "Replay" \/ @ = "Accepted" THEN @ ELSE st]}
      /\ UNCHANGED <<memory, ident, inbox, replies, disk, net, aux, counters>>

(* Broken variant: a frame with a new nonce for every attempt.             *)
ResendFresh(c) == [c EXCEPT !.st = "sent", !.tries = @ + 1, !.id = @ + 10]

(* The identical frame again, after an attempt without an answer.          *)
Resend(c) == [c EXCEPT !.st = "sent", !.tries = @ + 1]

(* commit_control_idempotent: Replay counts as applied. A registration is  *)
(* one exchange, and leaves the identity in memory alone.                  *)
commit_returns(c) ==
  LET said == IF c.st = "Accepted" \/ (c.st = "Replay" /\ c.kind = "rotate") THEN "accepted" ELSE "rejected"
  IN  /\ c.kind \in {"register", "rotate"} /\ c.st # "sent"
      /\ ident' = IF said = "accepted" /\ c.kind = "rotate" THEN c.new ELSE ident
      /\ calls' = calls \ {c}
      /\ aux' = [aux EXCEPT !.verdicts = @ \cup {[kind |-> c.kind, said |-> said, did |-> c.did,
                                                  tries |-> c.tries, asked |-> 0, answered |-> 0]}]
      /\ UNCHANGED <<memory, inbox, replies, disk, node, net, counters>>

-----------------------------------------------------------------------------
(***************************************************************************)
(* Requests routed over the tree to a node above.                          *)
(***************************************************************************)
(* The reply of t to request id, sent to the address that asked.           *)
send_control_reply(t, id, a) == Frame("Routed", t, id, a, Nil, 0)

exchange_routed_control(t) ==
  /\ Act
  /\ joined_context
  /\ calls' = calls \cup {[Call("routed", t, acts') EXCEPT !.address = local.address, !.st = "waiting"]}
  /\ net' = net \cup {send_control_reply(t, acts', local.address)}
  /\ UNCHANGED <<memory, ident, inbox, replies, disk, node, aux>>

(* Broken variant: the reply of the target will do, whatever it answers.   *)
verify_routed_replyAny(c, f) == f.from = c.to

verify_routed_reply(c, f) == f.id = c.id /\ f.from = c.to /\ f.address = c.address

(* The oldest call holds the queue and drops what is not its reply.        *)
routed_takes(c) ==
  LET f == Head(replies)
  IN  /\ c.kind = "routed" /\ replies # << >>
      /\ \A d \in calls : d.kind = "routed" => c.id <= d.id
      /\ replies' = Tail(replies)
      /\ IF verify_routed_reply(c, f)
         THEN /\ calls' = calls \ {c}
              /\ aux' = [aux EXCEPT !.verdicts = @ \cup
                          {[kind |-> "routed", said |-> "answered", did |-> "none", tries |-> 1,
                            asked |-> c.id, answered |-> f.id]}]
         ELSE UNCHANGED <<calls, aux>>
      /\ UNCHANGED <<memory, ident, inbox, disk, node, net, counters>>

-----------------------------------------------------------------------------
(* An exchange without an answer, handled by the other side or not. (That  *)
(* of leave is leave_returns.)                                             *)
CallFails(c) ==
  /\ Act
  /\ c.kind # "leave"
  /\ calls' = IF c.kind = "rotate" /\ c.tries < CONTROL_COMMIT_ATTEMPTS
              THEN (calls \ {c}) \cup {Resend(c)} ELSE calls \ {c}
  /\ UNCHANGED <<memory, ident, inbox, replies, disk, node, net, aux>>

(* A frame its sender gives up: a reply, a refused decision, or a notice   *)
(* to a child that is none any more.                                       *)
Lose(f) ==
  /\ Act
  /\ net' = net \ {f}
  /\ aux' = [aux EXCEPT !.missed = IF f.kind = "Rebase" THEN @ \cup {<<f.from, f.n>>} ELSE @,
                        !.lapsed = IF f.kind = "Detach" THEN @ \cup {<<f.from, f.id>>} ELSE @]
  /\ UNCHANGED <<memory, ident, inbox, replies, calls, disk, node>>

Next ==
  \/ \E p \in Node : \/ Join(p) \/ approve_pending(p) \/ reject_pending(p) \/ apply_detach_child(p)
                     \/ propagate_rebase(p) \/ NewLedgerKey(p) \/ confirm_pin(p)
                     \/ accept_pin_change(p)
                     \/ pin_payee_leaf(p, key(p))
  \/ \E c \in calls : \/ handle_join(c) \/ join_returns(c) \/ handle_exit(c) \/ leave_returns(c)
                      \/ handle_register_eth_address(c) \/ commit_returns(c) \/ routed_takes(c)
                      \/ handle_order(c) \/ payment_returns(c) \/ CallFails(c)
  \/ \E f \in net : \/ handle_join_approved(f) \/ handle_join_rejected(f) \/ handle_rebase(f)
                    \/ handle_detach_notice(f) \/ MsgHandler_handle(f) \/ Lose(f)
  \/ Leave \/ RequestBalance \/ SendPayment
  \/ register_eth_address \/ try_recv_ledger_event \/ drainControlEvents
  \/ \E t \in Target : exchange_routed_control(t)
  \/ \E k \in Identity : set_user_identity(k) \/ rotate_eth_address(k)
  \/ \E s, l \in BOOLEAN : Reload(s, l)

Spec == Init /\ [][Next]_vars

-----------------------------------------------------------------------------
Keys == { Nil } \cup UNION { { KeyOf[p][i] : i \in DOMAIN KeyOf[p] } : p \in Node }

(* The documents belong to different links.                                *)
Torn == led.link # local.link

(* Types and bounds: the lists of pins, changes and settlements and the    *)
(* two queues keep within their limits, the wallet has an address exactly  *)
(* when it has a parent, and only an attached wallet has orders under way. *)
TypeOK ==
  /\ local.parent \in Node \cup {Nil} /\ local.slot \in Slot /\ local.rejected \in BOOLEAN
  /\ local.outbound.nonce \in 0..MaxJoins /\ local.outbound.parent \in Node \cup {Nil}
  /\ (local.address = None) = (local.parent = Nil)
  /\ Attached(local) => slot(local.address) = local.slot
  /\ led.pinned \in Keys /\ led.trust \in {"Confirmed", "Unconfirmed"}
  /\ Len(led.pending) <= MAX_PENDING_ORDERS /\ Len(led.leaves) <= MAX_PINNED_LEAF_KEYS
  /\ Len(led.changes) <= MAX_LEAF_KEY_CHANGES /\ Len(led.settlements) <= MAX_SETTLEMENT_RECORDS
  /\ Len(inbox) <= INBOX /\ Len(replies) <= INBOX
  /\ led.pending # << >> /\ ~Torn => Attached(local)
  /\ ident \in Identity /\ events \subseteq {"parent", "other"}

(* A wallet that has a parent is a child of that parent, or will hear that *)
(* it is not: a notice is under way, or it is leaving. The exceptions: the *)
(* notice was given up or came before the approval it revokes, an exit was *)
(* handled after the wallet, detached meanwhile, had been approved again,  *)
(* or a reload brought back a link or a request that had ended. A wallet   *)
(* has an address and orders under way only while it has a parent.         *)
LinkKnown ==
  /\ TypeOK
  /\ Attached(local) =>
    \/ node[local.parent].listed # 0
    \/ \E x \in aux.lapsed : x[1] = local.parent /\ local.link <= x[2]
    \/ \E f \in net : f.kind = "Detach" /\ f.from = local.parent
    \/ \E c \in calls : c.kind = "leave" /\ c.to = local.parent

(* The address of an attached wallet is the one its parent gives it, or a  *)
(* notice of the change is under way. The exceptions: that notice was      *)
(* given up or refused (it is sent once), an older one was taken when the  *)
(* guard was empty, right after a join or a reload, or with a late         *)
(* approval, or a reload brought back an older address. handle_rebase      *)
(* pushes no event, so the page does not store an address it applied until *)
(* something else stores the document: a reload before that restores the   *)
(* address from before the re-base, and no notice corrects it unless the   *)
(* parent moves again.                                                     *)
AddressCurrent ==
  LET p == local.parent
      e == node[p].epoch
  IN  Attached(local) /\ node[p].listed = local.link =>
        \/ local.address = AddressAt(p)
        \/ \E f \in net : f.kind = "Rebase" /\ f.from = p /\ f.n = e
        \/ <<p, e>> \in aux.missed
        \/ aux.regressed

(* The balance shown is one the current parent attested, however late its  *)
(* receipt is applied; the exception is a reload that cannot read where    *)
(* the wallet was, or finds the two documents stored on different sides of *)
(* a change of the parent.                                                 *)
BalanceOfLink == led.balance # NoBalance /\ ~Torn => led.balance.of = local.parent

(* A rotation reported as accepted moved the anchor, and one reported as   *)
(* rejected did not, whatever attempts or answers were lost. The exception:*)
(* a refusal whose answer was lost is reported as accepted, because the    *)
(* next attempt is answered with Replay.                                   *)
RotationTrue ==
  \A v \in aux.verdicts : v.kind # "routed" =>
    IF v.said = "accepted" THEN v.did = "Accepted" \/ (v.did = "Rejected" /\ v.tries > 1)
    ELSE v.did # "Accepted"

(* The reply a routed request returns was sent for that request, also when *)
(* an earlier request to the same node timed out and its reply came late.  *)
RoutedAnswersMatch == \A v \in aux.verdicts : v.kind = "routed" => v.asked = v.answered

(* What a call returns to the page is true of that call, however many      *)
(* attempts it took and whatever came too late (commit_control_idempotent, *)
(* exchange_routed_control).                                               *)
VerdictsTrue == RotationTrue /\ RoutedAnswersMatch

(* A pinned key is replaced by another one only if that key was presented, *)
(* recorded as a change and so put before the user, also by a reload, when *)
(* pins from receive URIs were not stored yet. The exception is a reload   *)
(* when the list of pins is full: a pin that was pushed out of it and made *)
(* again with another key, both in memory only, is the stored one again.   *)
PinsStay ==
  [][ /\ \A q \in Node : LET was == pinned_leaf_key(led, q)  now == pinned_leaf_key(led', q)
                         IN  was # Nil /\ now \notin {Nil, was} =>
                               \/ now = presented_key(led, q)
                               \/ led' = disk.ledger /\ Len(led.leaves) = MAX_PINNED_LEAF_KEYS
      /\ local.link > 0 /\ local'.link = local.link /\ led.pinned # Nil
           => led'.pinned \in {led.pinned, Nil, presented_key(led, local.parent)} ]_vars
=============================================================================
