----------------------------- MODULE Membership -----------------------------
(***************************************************************************)
(* How the tree is built and kept consistent: joins, approvals, exits,     *)
(* detachments, re-slots and re-bases, as the handlers of ControlNode      *)
(* (crates/node/src/control.rs) and the operator commands of main.rs       *)
(* perform them on the records of each node.                               *)
(*                                                                         *)
(* A node has files and, while it runs, an engine with copies of them. A   *)
(* request makes the engine read record and registry again                 *)
(* (refresh_control_plane); the join queues and the periodic tasks go on   *)
(* with the copies. Frames between nodes are single exchanges that may be  *)
(* lost and that overtake each other. Operators are honest and every key   *)
(* belongs to its node, so a signature check is a check of the sender.     *)
(*                                                                         *)
(* A command of the operator is a process of its own: it reads the files,  *)
(* works on its copies and saves them later, and nothing keeps the running *)
(* node from saving in between. The operator of a node gives one command   *)
(* after the other; LiveCommand says which of them are given while the     *)
(* node runs, the others only while it is stopped.                         *)
(***************************************************************************)
EXTENDS Record, SequencesExt

CONSTANTS
  Node,                \* nodes that run
  User,                \* browser users: they only appear as children
  Trees,               \* [Node -> address]: the trees to start from, None when unattached
  JoinTarget,          \* pairs <<n, p>>: the operators may want p as the parent of n
  AskSlot,             \* slots operators and applicants ask for
  AskAddress,          \* addresses operators assert
  LiveCommand,         \* commands that operators give beside a running node
  MAX_PENDING_JOINS, MAX_STORED_DECISIONS, MAX_PENDING_REBASE,
  MaxOps,              \* bound: operator commands, those that placed the nodes included
  MaxJoins,            \* bound: join requests
  MaxLost,             \* bound: frames lost
  MaxCrash             \* bound: stops of a node

VARIABLES
  file,     \* [Node -> [rec, peers, pending, outbound]]: node.json and the others
  eng,      \* [Node -> [up, rec, pending, outbound, retry, decisions]]: the engine
  cli,      \* [Node -> the command under way: what it will save and send, or Idle]
  net,      \* frames under way
  hand,     \* history: the pairs <<n, p>> that topo set-parent has linked
  joins, ops, lost, crashes

(* A node does not dial itself, and "none" names no peer.                  *)
ASSUME NamesAssumption ==
  /\ "none" \notin Node \cup User
  /\ \A j \in JoinTarget : j[1] \in Node /\ j[2] \in Node /\ j[1] # j[2]

(* The nodes that have a place at the start form a tree.                   *)
ASSUME TreesAssumption ==
  \A t \in Trees :
    /\ t \in [Node -> OctAddr \cup {None}]
    /\ \A n \in Node : t[n] # None /\ ~is_root(t[n]) => \E p \in Node : t[p] = parent(t[n])
    /\ \A m, n \in Node : t[m] = t[n] /\ t[m] # None => m = n

ASSUME AskAssumption ==
  /\ AskSlot \subseteq Slot \cup {AnySlot}
  /\ AskAddress \subseteq OctAddr \cup {None}
  /\ {MAX_PENDING_JOINS, MAX_STORED_DECISIONS, MAX_PENDING_REBASE} \subseteq Nat \ {0}

ASSUME LiveAssumption == LiveCommand \subseteq {"join", "approve", "reject", "exit", "topo"}

counters == <<hand, joins, ops, lost, crashes>>
vars == <<file, eng, cli, net, counters>>

Idle == [cmd |-> "none"]

NoJoin == [nonce |-> 0, parent |-> "none", slot |-> AnySlot]

Request == {"Join", "Approved", "Rejected", "Exit", "DetachNotice", "Rebase", "Pull", "Snapshot"}

(* A frame; again: its sender queues it once more when it is not delivered.*)
Frame(kind, from, to, again, body) ==
  [kind |-> kind, from |-> from, to |-> to, again |-> again, body |-> body]

(* The engine of a node that does not run, and of one that has started.    *)
Stopped(n) == [ up |-> FALSE, rec |-> NodeRecord(n), pending |-> << >>, outbound |-> NoJoin,
                retry |-> << >>, decisions |-> << >> ]

ControlNode_open(f) == [ up |-> TRUE, rec |-> f.rec, pending |-> f.pending, outbound |-> f.outbound,
                         retry |-> << >>, decisions |-> << >> ]

-----------------------------------------------------------------------------
(***************************************************************************)
(* Notices.                                                                *)
(***************************************************************************)

(* Broken variant: the generation is that of the next change.              *)
queue_rebase_noticeAhead(r, c, s, again) ==
  Frame("Rebase", r.id, c, again,
        [parent_address |-> r.address, address |-> child(r.address, s), generation |-> r.address_epoch + 1])

(* One Rebase notice, with the sender's epoch as its generation.           *)
queue_rebase_notice(r, c, s, again) ==
  Frame("Rebase", r.id, c, again,
        [parent_address |-> r.address, address |-> child(r.address, s), generation |-> r.address_epoch])

(* propagate_rebase: one for every child, at the slot it is listed with.   *)
propagate_rebase(r, again) ==
  { queue_rebase_notice(r, c, r.children[c].slot, again) : c \in Kids(r) }

(* The queue q without its first entry in S. Queues hold one entry for     *)
(* each key, so this removes all of a key.                                 *)
Without(q, S) == IF S = {} THEN q ELSE RemoveAt(q, LowestOf(S))

(* Failed notices go back for the sweep: only those for current children,  *)
(* one for each child and kind, and the newest when there are too many.    *)
requeue_pending_rebase(q, r, f) ==
  LET others == Without(q, { i \in DOMAIN q : q[i].to = f.to /\ q[i].kind = f.kind })
      all    == Append(others, f)
  IN  IF f.to \notin Kids(r) THEN q
      ELSE IF Len(all) > MAX_PENDING_REBASE THEN Tail(all) ELSE all

(* store_decision: the latest for each applicant, and the newest overall.  *)
store_decision(q, f) ==
  LET all == Append(Without(q, { i \in DOMAIN q : q[i].to = f.to }), f)
  IN  IF Len(all) > MAX_STORED_DECISIONS THEN Tail(all) ELSE all

pending_for(q, c) == { q[i] : i \in { j \in DOMAIN q : q[j].node = c } }

remove_pending(q, c) == Without(q, { i \in DOMAIN q : q[i].node = c })

(* ControlStore::save writes both queues, whichever was changed.           *)
ControlStore_save(f, pending, outbound) == [f EXCEPT !.pending = pending, !.outbound = outbound]

(* The registry has one row for a node: the ledger key registered for it.  *)
insert(p, c, k) == [ m \in DOMAIN p \cup {c} |-> IF m = c THEN k ELSE p[m] ]

(* A row with another key is replaced.                                     *)
reconcile_peer_row(p, c, k) == IF c \in DOMAIN p THEN [p EXCEPT ![c] = k] ELSE insert(p, c, k)

(* Broken variant: the slot was free when the request was queued.          *)
SlotForQueued(r, c, s) == IF s # AnySlot THEN {s} ELSE { f \in Free(r) : \A g \in Free(r) : f <= g }

(* The slot an applicant gets: the one it holds already, the one asked for *)
(* if it is free, or the lowest free one.                                  *)
SlotFor(r, c, s) ==
  IF c \in Kids(r) THEN IF s \in {AnySlot, r.children[c].slot} \cup Free(r) THEN {r.children[c].slot} ELSE {}
  ELSE IF s # AnySlot THEN Free(r) \cap {s}
  ELSE { f \in Free(r) : \A g \in Free(r) : f <= g }

(* Broken variant: a child that is listed already is taken for registered. *)
approve_pendingListed(f, pend, q, s) ==
  [f EXCEPT !.rec = IF q.node \in Kids(f.rec) THEN @ ELSE attach_child(f.rec, q.node, q.kind, s),
            !.peers = IF q.node \in Kids(f.rec) THEN @ ELSE reconcile_peer_row(f.peers, q.node, q.ledger),
            !.pending = remove_pending(pend, q.node)]

(* The files after an approval of q at slot s: record, registry, queue.    *)
approve_pending(f, pend, q, s) ==
  [f EXCEPT !.rec = IF q.node \in Kids(f.rec) THEN @ ELSE attach_child(f.rec, q.node, q.kind, s),
            !.peers = reconcile_peer_row(f.peers, q.node, q.ledger),
            !.pending = remove_pending(pend, q.node)]

(* The exchange a node waits in ends with it.                              *)
Unanswered(S, n) ==
  { f \in S : ~(f.kind = "Snapshot" /\ f.to = n) /\ ~(f.kind = "Pull" /\ f.from = n) }

(* A crash leaves the first k of the three writes done.                    *)
Written(f, new, k) ==
  [f EXCEPT !.rec = new.rec,
            !.peers = IF k >= 2 THEN new.peers ELSE @,
            !.pending = IF k >= 3 THEN new.pending ELSE @]

JoinRequest(n, s, k) == [node |-> n, kind |-> "node", ledger |-> k, slot |-> s, nonce |-> k]

approval(n, f, q, s) ==
  Frame("Approved", n, q.node, FALSE,
        [slot |-> s, address |-> child(f.rec.address, s), nonce |-> q.nonce])

JoinRejection(n, c, k) == Frame("Rejected", n, c, FALSE, [nonce |-> k])

-----------------------------------------------------------------------------
(* The files of node n in the tree t; a node without a place is not yet    *)
(* started: its operator joins it to the tree first.                       *)
PlacedAt(t, n) ==
  LET below == { c \in Node : t[c] # None /\ ~is_root(t[c]) /\ parent(t[c]) = t[n] }
      above == { p \in Node : t[n] # None /\ ~is_root(t[n]) /\ parent(t[n]) = t[p] }
  IN  [ rec |-> [ id |-> n,
                  address |-> t[n],
                  parent |-> IF above = {} THEN NoLink
                             ELSE [id |-> CHOOSE p \in above : TRUE, slot |-> slot(t[n]), generation |-> 0],
                  children |-> [ c \in below |->
                                   [kind |-> "node", slot |-> slot(t[c]), eth_address |-> "none"] ],
                  address_epoch |-> IF t[n] = None THEN 0 ELSE 1 ],
        peers |-> [ m \in below \cup above |-> 0 ],
        pending |-> << >>,
        outbound |-> NoJoin ]

Init ==
  /\ \E t \in Trees : /\ file = [ n \in Node |-> PlacedAt(t, n) ]
                      /\ eng = [ n \in Node |-> IF t[n] = None THEN Stopped(n) ELSE ControlNode_open(file[n]) ]
                      /\ ops = Cardinality({ n \in Node : t[n] # None })
  /\ cli = [ n \in Node |-> Idle ]
  /\ net = {}
  /\ hand = {} /\ joins = 0 /\ lost = 0 /\ crashes = 0

(* An operator command has read the files; it will save what it changes of *)
(* new, and then send the frames in send.                                  *)
Command(n, cmd, new, send) ==
  /\ ops < MaxOps /\ ops' = ops + 1
  /\ cli[n] = Idle
  /\ eng[n].up => cmd \in LiveCommand
  /\ cli' = [cli EXCEPT ![n] = [cmd |-> cmd, new |-> new, send |-> send]]

(* The files f after the command x has saved: an approval all its files, a *)
(* join and a rejection the queues, exit and topo the record.              *)
Saves(f, x) ==
  IF x.cmd = "approve" THEN x.new
  ELSE IF x.cmd \in {"join", "reject"} THEN ControlStore_save(f, x.new.pending, x.new.outbound)
  ELSE [f EXCEPT !.rec = x.new.rec]

CliSave(n) ==
  /\ cli[n] # Idle
  /\ file' = [file EXCEPT ![n] = Saves(file[n], cli[n])]
  /\ net' = net \cup cli[n].send
  /\ cli' = [cli EXCEPT ![n] = Idle]
  /\ UNCHANGED <<eng, counters>>

(* A request of the operator, or of an administrator, to the running node. *)
AdminRequest(n) == ops < MaxOps /\ ops' = ops + 1 /\ eng[n].up

(* The running node n takes a frame: refresh_control_plane comes first.    *)
Receives(f, kind) == f.kind = kind /\ f.to \in Node /\ eng[f.to].up

(* The engine and the file of n after it has saved record r.               *)
SaveRecord(n, r) ==
  /\ file' = [file EXCEPT ![n].rec = r]
  /\ eng' = [eng EXCEPT ![n].rec = r]

(* A request that changes nothing but the engine's copy of the record.     *)
Refresh(n) == eng' = [eng EXCEPT ![n].rec = file[n].rec]

-----------------------------------------------------------------------------
(***************************************************************************)
(* Joining.                                                                *)
(***************************************************************************)

(* control join: the request is kept as the outbound one, replacing any    *)
(* other, and sent. A ledger key is named by the join that presented it.   *)
CliJoin(n, p, s) ==
  LET k == joins + 1
  IN  /\ joins < MaxJoins /\ joins' = k
      /\ Command(n, "join", [file[n] EXCEPT !.outbound = [nonce |-> k, parent |-> p, slot |-> s]],
                 {Frame("Join", n, p, FALSE, JoinRequest(n, s, k))})
      /\ UNCHANGED <<file, eng, net, hand, lost, crashes>>

(* An applicant is queued once; a child that is listed already is queued   *)
(* whatever slot it asks for. Saving the queue saves the outbound join too.*)
handle_join(f) ==
  LET n == f.to
      q == f.body
      r == file[n].rec
      queued == Append(eng[n].pending, q)
      room   == Len(eng[n].pending) < MAX_PENDING_JOINS
      wanted == \/ q.node \in Kids(r)
                \/ IF q.slot = AnySlot THEN Free(r) # {} ELSE q.slot \in Free(r)
  IN  /\ Receives(f, "Join")
      /\ net' = net \ {f}
      /\ IF pending_for(eng[n].pending, q.node) = {} /\ room /\ wanted
         THEN /\ eng' = [eng EXCEPT ![n] = [@ EXCEPT !.rec = r, !.pending = queued]]
              /\ file' = [file EXCEPT ![n] = ControlStore_save(@, queued, eng[n].outbound)]
         ELSE Refresh(n) /\ UNCHANGED file
      /\ UNCHANGED <<cli, counters>>

(* AdminApproveJoin at the running node.                                   *)
AdminApprove(n, c, s) ==
  LET f == file[n]
  IN  /\ AdminRequest(n)
      /\ f.rec.address # None
      /\ \E q \in pending_for(eng[n].pending, c), at \in SlotFor(f.rec, c, s) :
           LET new == approve_pending(f, eng[n].pending, q, at)
               a   == approval(n, f, q, at)
           IN  /\ file' = [file EXCEPT ![n] = ControlStore_save(new, new.pending, eng[n].outbound)]
               /\ eng' = [eng EXCEPT ![n] = [@ EXCEPT !.rec = new.rec, !.pending = new.pending,
                                                    !.decisions = store_decision(eng[n].decisions, a)]]
               /\ net' = net \cup {a}
      /\ UNCHANGED <<cli, hand, joins, lost, crashes>>

(* The node crashes after the first k writes of an approval.               *)
CrashApproving(n, c, s, k) ==
  LET f == file[n]
  IN  /\ AdminRequest(n)
      /\ crashes < MaxCrash /\ crashes' = crashes + 1
      /\ f.rec.address # None
      /\ \E q \in pending_for(eng[n].pending, c), at \in SlotFor(f.rec, c, s) :
           file' = [file EXCEPT ![n] = Written(f, approve_pending(f, eng[n].pending, q, at), k)]
      /\ eng' = [eng EXCEPT ![n] = Stopped(n)]
      /\ net' = Unanswered(net, n)
      /\ UNCHANGED <<cli, hand, joins, lost>>

(* control approve: from the files, to the files.                          *)
CliApprove(n, c, s) ==
  LET f == file[n]
  IN  /\ f.rec.address # None
      /\ \E q \in pending_for(f.pending, c), at \in SlotFor(f.rec, c, s) :
           Command(n, "approve", approve_pending(f, f.pending, q, at), {approval(n, f, q, at)})
      /\ UNCHANGED <<file, eng, net, hand, joins, lost, crashes>>

(* AdminRejectJoin.                                                        *)
AdminReject(n, c) ==
  /\ AdminRequest(n)
  /\ \E q \in pending_for(eng[n].pending, c) :
       LET kept == remove_pending(eng[n].pending, c)
           d    == JoinRejection(n, c, q.nonce)
       IN  /\ eng' = [eng EXCEPT ![n] = [@ EXCEPT !.rec = file[n].rec, !.pending = kept,
                                                !.decisions = store_decision(eng[n].decisions, d)]]
           /\ file' = [file EXCEPT ![n] = ControlStore_save(@, kept, eng[n].outbound)]
           /\ net' = net \cup {d}
  /\ UNCHANGED <<cli, hand, joins, lost, crashes>>

(* control reject: without a queued request it sends nonce 0.              *)
CliReject(n, c) ==
  LET q == pending_for(file[n].pending, c)
      k == IF q = {} THEN 0 ELSE (CHOOSE x \in q : TRUE).nonce
  IN  /\ Command(n, "reject", [file[n] EXCEPT !.pending = remove_pending(@, c)], {JoinRejection(n, c, k)})
      /\ UNCHANGED <<file, eng, net, hand, joins, lost, crashes>>

(* AdminRedeliverJoin: the stored decision is signed and sent again.       *)
AdminRedeliver(n, c) ==
  /\ AdminRequest(n)
  /\ \E i \in DOMAIN eng[n].decisions :
       /\ eng[n].decisions[i].to = c
       /\ net' = net \cup {eng[n].decisions[i]}
       /\ eng' = [eng EXCEPT ![n] = [@ EXCEPT !.rec = file[n].rec,
                                            !.decisions = store_decision(eng[n].decisions, eng[n].decisions[i])]]
  /\ UNCHANGED <<file, cli, hand, joins, lost, crashes>>

(* Broken variant: any approval of the parent that was asked will do.      *)
AnswersAny(f, o) == o # NoJoin /\ o.parent = f.from

(* The approval answers the outbound request of the engine.                *)
Answers(f, o) == o # NoJoin /\ o.parent = f.from /\ o.nonce = f.body.nonce

AttachedRecord(r, f) ==
  set_address(set_parent(unset_address(r), f.from, f.body.slot), f.body.address)

(* The applicant takes its place: link and address, the parent's row, then *)
(* the outbound join is cleared and the new prefix handed to the children. *)
handle_join_approved(f) ==
  LET n == f.to
      r == AttachedRecord(file[n].rec, f)
  IN  /\ Receives(f, "Approved")
      /\ IF Answers(f, eng[n].outbound) /\ validate(r)
         THEN /\ file' = [file EXCEPT ![n] = [ControlStore_save(@, eng[n].pending, NoJoin) EXCEPT
                                             !.rec = r, !.peers = reconcile_peer_row(file[n].peers, f.from, 0)]]
              /\ eng' = [eng EXCEPT ![n] = [@ EXCEPT !.rec = r, !.outbound = NoJoin]]
              /\ net' = (net \ {f}) \cup propagate_rebase(r, TRUE)
         ELSE Refresh(n) /\ net' = net \ {f} /\ UNCHANGED file
      /\ UNCHANGED <<cli, counters>>

(* The applicant crashes after it has written the record (k = 1), or the   *)
(* record and the registry (k = 2).                                        *)
CrashJoining(f, k) ==
  LET n == f.to
      r == AttachedRecord(file[n].rec, f)
  IN  /\ Receives(f, "Approved")
      /\ crashes < MaxCrash /\ crashes' = crashes + 1
      /\ Answers(f, eng[n].outbound) /\ validate(r)
      /\ file' = [file EXCEPT ![n] = [@ EXCEPT !.rec = r,
                                             !.peers = IF k = 2 THEN reconcile_peer_row(file[n].peers, f.from, 0)
                                                       ELSE file[n].peers]]
      /\ eng' = [eng EXCEPT ![n] = Stopped(n)]
      /\ net' = Unanswered(net \ {f}, n)
      /\ UNCHANGED <<cli, hand, joins, ops, lost>>

(* A rejection cancels the outbound join it answers; nonce 0 answers any.  *)
handle_join_rejected(f) ==
  LET n == f.to
      o == eng[n].outbound
  IN  /\ Receives(f, "Rejected")
      /\ net' = net \ {f}
      /\ IF o # NoJoin /\ o.parent = f.from /\ f.body.nonce \in {0, o.nonce}
         THEN /\ eng' = [eng EXCEPT ![n] = [@ EXCEPT !.rec = file[n].rec, !.outbound = NoJoin]]
              /\ file' = [file EXCEPT ![n] = ControlStore_save(@, eng[n].pending, NoJoin)]
         ELSE Refresh(n) /\ UNCHANGED file
      /\ UNCHANGED <<cli, counters>>

(* CreateChild for a user: link and row in one request.                    *)
handle_create_child(n, u, s) ==
  /\ AdminRequest(n)
  /\ IF u \in Kids(file[n].rec)
     THEN /\ file' = [file EXCEPT ![n].peers = reconcile_peer_row(@, u, 0)]
          /\ Refresh(n)
     ELSE /\ attach_child_ok(file[n].rec, u, s)
          /\ LET r == attach_child(file[n].rec, u, "user", s)
             IN  /\ file' = [file EXCEPT ![n] = [@ EXCEPT !.rec = r, !.peers = reconcile_peer_row(file[n].peers, u, 0)]]
                 /\ eng' = [eng EXCEPT ![n].rec = r]
  /\ UNCHANGED <<cli, net, hand, joins, lost, crashes>>

(* RegisterEthAddress of a user child: the first anchor needs the new key, *)
(* a change needs the incumbent's.                                         *)
handle_register_eth_address(n, u, signer) ==
  LET r == file[n].rec
  IN  /\ AdminRequest(n)
      /\ u \in Kids(r) \cap DOMAIN file[n].peers /\ r.children[u].kind = "user"
      /\ signer = IF r.children[u].eth_address = "none" THEN "new" ELSE "incumbent"
      /\ SaveRecord(n, set_child_eth_address(r, u, IF signer = "new" THEN "first" ELSE "rotated"))
      /\ UNCHANGED <<cli, net, hand, joins, lost, crashes>>

-----------------------------------------------------------------------------
(***************************************************************************)
(* Leaving.                                                                *)
(***************************************************************************)

(* DetachChild and AdminDetachChild: the row stays, the child is told.     *)
apply_detach_child(n, c) ==
  /\ AdminRequest(n)
  /\ c \in Kids(file[n].rec)
  /\ SaveRecord(n, detach_child(file[n].rec, c))
  /\ net' = net \cup {Frame("DetachNotice", n, c, TRUE, << >>)}
  /\ UNCHANGED <<cli, hand, joins, lost, crashes>>

(* The records the topo commands make of the record r of node n. They edit *)
(* node.json alone: no registry row, and nobody is told.                   *)
TopoEdits(n, r) ==
  LET edits ==
        {unset_parent(r)}
          \cup { set_parent(r, x[1], x[2]) :
                   x \in { y \in Node \X (AskSlot \ {AnySlot}) : <<n, y[1]>> \in JoinTarget } }
          \cup { set_address_value(r, a) : a \in AskAddress }
          \cup { detach_child(r, c) : c \in Kids(r) }
          \cup { attach_child(r, x[1], "node", x[2]) :
                   x \in { y \in Node \X AskSlot : <<y[1], n>> \in JoinTarget /\ attach_child_ok(r, y[1], y[2]) } }
          \cup { attach_child(r, x[1], "user", x[2]) :
                   x \in { y \in User \X AskSlot : attach_child_ok(r, y[1], y[2]) } }
  IN  { e \in edits : validate(e) }

(* A topo command; a parent it sets is the operator's own word.            *)
TopoEdit(n, r) ==
  /\ Command(n, "topo", [file[n] EXCEPT !.rec = r], {})
  /\ hand' = IF r.parent.id \in {"none", file[n].rec.parent.id} THEN hand ELSE hand \cup {<<n, r.parent.id>>}
  /\ UNCHANGED <<file, eng, net, joins, lost, crashes>>

(* control exit reads the record, tells the parent and waits for it; what  *)
(* it then saves is the exit (apply_exit) from the record it has read.     *)
CliExit(n) ==
  LET r == rebase_to_root(file[n].rec)
  IN  /\ HasParent(file[n].rec)
      /\ Command(n, "exit", [file[n] EXCEPT !.rec = r], propagate_rebase(r, FALSE))
      /\ net' = net \cup {Frame("Exit", n, file[n].rec.parent.id, FALSE, << >>)}
      /\ UNCHANGED <<file, eng, hand, joins, lost, crashes>>

(* The parent drops the link of a child it has a row for.                  *)
handle_exit(f) ==
  LET n == f.to
      r == file[n].rec
  IN  /\ Receives(f, "Exit")
      /\ net' = net \ {f}
      /\ SaveRecord(n, IF f.from \in DOMAIN file[n].peers \cap Kids(r) THEN detach_child(r, f.from) ELSE r)
      /\ UNCHANGED <<cli, counters>>

(* The child's side of a detachment: only the current parent is heard, and *)
(* only with its row.                                                      *)
FromParent(f, n) == file[n].rec.parent.id = f.from /\ f.from \in DOMAIN file[n].peers

handle_detach_notice(f) ==
  LET n == f.to
      r == rebase_to_root(file[n].rec)
  IN  /\ Receives(f, "DetachNotice")
      /\ IF FromParent(f, n)
         THEN SaveRecord(n, r) /\ net' = (net \ {f}) \cup propagate_rebase(r, TRUE)
         ELSE Refresh(n) /\ net' = net \ {f} /\ UNCHANGED file
      /\ UNCHANGED <<cli, counters>>

-----------------------------------------------------------------------------
(***************************************************************************)
(* Re-basing.                                                              *)
(***************************************************************************)

(* A notice of the current parent: stale ones are ignored, the same        *)
(* address only advances the mark, the same generation with another        *)
(* address is refused, and a newer one is applied and handed on.           *)
handle_rebase(f) ==
  LET n == f.to
      r == file[n].rec
      b == f.body
      moved == apply_rebase(r, b.address, slot(b.address), b.generation)
  IN  /\ Receives(f, "Rebase")
      /\ IF FromParent(f, n) /\ parent(b.address) = b.parent_address
             /\ b.generation > r.parent.generation /\ validate(moved)
         THEN /\ SaveRecord(n, moved)
              /\ net' = (net \ {f}) \cup IF r.address = b.address THEN {} ELSE propagate_rebase(moved, TRUE)
         ELSE Refresh(n) /\ net' = net \ {f} /\ UNCHANGED file
      /\ UNCHANGED <<cli, counters>>

(* MoveChild and AdminMoveChild: a node child only; its own slot is free   *)
(* for it; it alone is told, if there is an address to tell.               *)
apply_move_child(n, c, s) ==
  LET r  == file[n].rec
      at == IF s # AnySlot THEN s ELSE LowestOf(Slot \ TakenBy(r, Kids(r) \ {c}))
      new == move_child_slot(r, c, at)
  IN  /\ AdminRequest(n)
      /\ c \in Kids(r) /\ r.children[c].kind = "node"
      /\ move_child_slot_ok(r, c, at)
      /\ SaveRecord(n, new)
      /\ net' = IF new = r \/ r.address = None THEN net
                ELSE net \cup {queue_rebase_notice(new, c, at, TRUE)}
      /\ UNCHANGED <<cli, hand, joins, lost, crashes>>

(* SetAddress: nobody is told, the children find out when they pull.       *)
handle_set_address(n, a) ==
  LET r == set_address_value(file[n].rec, a)
  IN  /\ AdminRequest(n)
      /\ validate(r)
      /\ SaveRecord(n, r)
      /\ UNCHANGED <<cli, net, hand, joins, lost, crashes>>

(* The periodic pull, from the engine's copy of the record; the task waits *)
(* for its answer before it pulls again.                                   *)
pull_rebase_from_parent(n) ==
  LET r == eng[n].rec
  IN  /\ eng[n].up /\ HasParent(r)
      /\ \A g \in net : ~(g.kind = "Pull" /\ g.from = n) /\ ~(g.kind = "Snapshot" /\ g.to = n)
      /\ net' = net \cup {Frame("Pull", n, r.parent.id, FALSE, << >>)}
      /\ UNCHANGED <<file, eng, cli, counters>>

(* The parent answers a current child with its snapshot.                   *)
handle_rebase_pull(f) ==
  LET n == f.to
      r == file[n].rec
  IN  /\ Receives(f, "Pull")
      /\ net' = (net \ {f}) \cup
                  IF f.from \in Kids(r) \cap DOMAIN file[n].peers
                  THEN {Frame("Snapshot", n, f.from, FALSE,
                              [address |-> r.address, slot |-> r.children[f.from].slot])}
                  ELSE {}
      /\ Refresh(n)
      /\ UNCHANGED <<file, cli, counters>>

(* Broken variant: the slot of the snapshot has to be the known one.       *)
AdoptableSameSlot(b, r) == b.address # None /\ b.slot = r.parent.slot

(* A snapshot with an address; its slot is adopted, not compared.          *)
Adoptable(b, r) == b.address # None

(* The snapshot is checked and applied on the engine's copy of the record, *)
(* which no request has refreshed; the mark stays.                         *)
apply_pull_snapshot(f) ==
  LET n == f.to
      r == eng[n].rec
      b == f.body
      a == child(b.address, b.slot)
      moved == apply_rebase(r, a, b.slot, r.parent.generation)
  IN  /\ f.kind = "Snapshot" /\ eng[n].up
      /\ IF HasParent(r) /\ r.parent.id = f.from /\ Adoptable(b, r) /\ r.address # a
         THEN SaveRecord(n, moved) /\ net' = (net \ {f}) \cup propagate_rebase(moved, TRUE)
         ELSE net' = net \ {f} /\ UNCHANGED <<file, eng>>
      /\ UNCHANGED <<cli, counters>>

-----------------------------------------------------------------------------
(***************************************************************************)
(* Faults.                                                                 *)
(***************************************************************************)

(* A frame is not delivered; a notice of a running node is queued again.   *)
Lose(f) ==
  LET n == f.from
  IN  /\ lost < MaxLost /\ lost' = lost + 1
      /\ net' = net \ {f}
      /\ eng' = IF f.again /\ eng[n].up
                THEN [eng EXCEPT ![n].retry = requeue_pending_rebase(@, eng[n].rec, f)] ELSE eng
      /\ UNCHANGED <<file, cli, hand, joins, ops, crashes>>

(* sweep_pending_rebase: what is queued for current children goes out.     *)
sweep_pending_rebase(n) ==
  /\ eng[n].up /\ eng[n].retry # << >>
  /\ net' = net \cup { f \in ToSet(eng[n].retry) : f.to \in Kids(eng[n].rec) }
  /\ eng' = [eng EXCEPT ![n].retry = << >>]
  /\ UNCHANGED <<file, cli, counters>>

Stop(n) ==
  /\ eng[n].up
  /\ crashes < MaxCrash /\ crashes' = crashes + 1
  /\ eng' = [eng EXCEPT ![n] = Stopped(n)]
  /\ net' = Unanswered(net, n)
  /\ UNCHANGED <<file, cli, hand, joins, ops, lost>>

Start(n) ==
  /\ ~eng[n].up /\ cli[n].cmd \in LiveCommand \cup {"none"}
  /\ eng' = [eng EXCEPT ![n] = ControlNode_open(file[n])]
  /\ UNCHANGED <<file, cli, net, counters>>

(* The browser takes what is sent to a user.                               *)
ToUser(f) == f.to \in User /\ net' = net \ {f} /\ UNCHANGED <<file, eng, cli, counters>>

Receive(f) ==
  \/ handle_join(f) \/ handle_join_approved(f) \/ handle_join_rejected(f)
  \/ handle_exit(f) \/ handle_detach_notice(f) \/ handle_rebase(f)
  \/ handle_rebase_pull(f) \/ apply_pull_snapshot(f) \/ ToUser(f)

Next ==
  \/ \E f \in net : Receive(f) \/ Lose(f) \/ \E k \in 1..2 : CrashJoining(f, k)
  \/ \E n \in Node : \/ pull_rebase_from_parent(n) \/ sweep_pending_rebase(n)
                     \/ Stop(n) \/ Start(n) \/ CliExit(n) \/ CliSave(n)
                     \/ \E r \in TopoEdits(n, file[n].rec) : TopoEdit(n, r)
                     \/ \E a \in AskAddress : handle_set_address(n, a)
  \/ \E p \in JoinTarget, s \in AskSlot : CliJoin(p[1], p[2], s)
  \/ \E n, c \in Node : \/ AdminReject(n, c) \/ CliReject(n, c) \/ AdminRedeliver(n, c)
                        \/ apply_detach_child(n, c)
                        \/ \E s \in AskSlot : \/ AdminApprove(n, c, s) \/ CliApprove(n, c, s)
                                              \/ apply_move_child(n, c, s)
                                              \/ \E k \in 1..3 : CrashApproving(n, c, s, k)
  \/ \E n \in Node, u \in User : \/ \E s \in AskSlot : handle_create_child(n, u, s)
                                 \/ \E k \in {"new", "incumbent"} : handle_register_eth_address(n, u, k)

Spec == Init /\ [][Next]_vars

(***************************************************************************)
(* Fairness: the ticker of a running node pulls and sweeps again and       *)
(* again, exchanges end, and a stopped node is started again.              *)
(***************************************************************************)
Fairness ==
  /\ \A n \in Node :
       /\ WF_vars(pull_rebase_from_parent(n))
       /\ WF_vars(sweep_pending_rebase(n))
       /\ WF_vars(Start(n))
       /\ WF_vars(CliSave(n))
  /\ \A n, m \in Node : WF_vars(\E f \in net : f.from = m /\ f.to = n /\ Receive(f))

LiveSpec == Spec /\ Fairness
-----------------------------------------------------------------------------
(* Every record passes validate, on file and in the engine, and the queues *)
(* stay within their bounds.                                               *)
TypeOK ==
  /\ \A n \in Node :
       /\ validate(file[n].rec) /\ validate(eng[n].rec)
       /\ Len(file[n].pending) <= MAX_PENDING_JOINS
       /\ Len(eng[n].retry) <= MAX_PENDING_REBASE
       /\ Len(eng[n].decisions) <= MAX_STORED_DECISIONS
       /\ \A i, j \in DOMAIN file[n].pending :
            i # j => file[n].pending[i].node # file[n].pending[j].node
  /\ \A f \in net : f.kind \in Request

(* A node that has taken its place is known to its parent: the registry of *)
(* the parent has its row, so that its exit and its pulls are heard. The   *)
(* parent saves record, registry and queue one after the other and may     *)
(* crash in between; approving again must repair what is missing. Only     *)
(* topo set-parent makes a link without the row. It takes that no control  *)
(* approve is given beside the running parent: both rewrite the registry   *)
(* from their copies, and a row can get lost.                              *)
KnownToParent ==
  \A c, p \in Node : file[c].rec.parent.id = p /\ <<c, p>> \notin hand => c \in DOMAIN file[p].peers

(* "The same generation must not mean two different prefixes"              *)
(* (handle_rebase refuses such a notice for good): whatever moves, exits   *)
(* and re-bases happen, a node never has two notices for one child under   *)
(* one generation that name different addresses.                           *)
SameEpochSamePrefix ==
  LET notices == { f \in net \cup UNION { ToSet(eng[n].retry) : n \in Node } : f.kind = "Rebase" }
  IN  \A f, g \in notices : f.from = g.from /\ f.to = g.to /\ f.body.generation = g.body.generation
                            => f.body.address = g.body.address

(* A child's mark never runs ahead of its parent's epoch: it would ignore  *)
(* every later notice of that parent as stale.                             *)
MarkWithinEpoch ==
  \A c, p \in Node : file[c].rec.parent.id = p => file[c].rec.parent.generation <= file[p].rec.address_epoch

(* A generation means one address, for the node that sends notices and for *)
(* the child that keeps the newest it has taken. It takes that the         *)
(* commands that save the record (approve, exit, topo) find the node       *)
(* stopped: beside it they count an epoch that the node counts as well.    *)
EpochsAgree == SameEpochSamePrefix /\ MarkWithinEpoch

(* A node gets a new parent only from the approval of the last join its    *)
(* operator made, or from topo set-parent: approvals of earlier joins, of  *)
(* this or of another parent, come too late, and a parent that was left    *)
(* does not come back. It takes that of all commands only rejections are   *)
(* given beside the running node: a join is news that the engine does not  *)
(* read, and a record saved beside it is saved over.                       *)
LatestJoinWins ==
  [][ \A n \in Node :
        LET p == file'[n].rec.parent.id
            byHand == cli[n].cmd = "topo" /\ cli'[n] = Idle
        IN  p \in Node /\ p # file[n].rec.parent.id /\ ~byHand =>
              \E f \in net : /\ f.kind = "Approved" /\ f.to = n /\ f.from = p
                             /\ f.body.nonce = file[n].outbound.nonce ]_vars

(* The place a parent lists a child at, and has its row for, is the        *)
(* child's address.                                                        *)
InPlace(c) ==
  LET p == file[c].rec.parent.id
  IN  p \in Node /\ c \in Kids(file[p].rec) \cap DOMAIN file[p].peers /\ file[p].rec.address # None =>
        file[c].rec.address = child(file[p].rec.address, file[p].rec.children[c].slot)

(* Whatever notices are lost, late or out of order, and whichever nodes    *)
(* were down, once the operators are done every node ends up at the        *)
(* address its parent derives for it, because it keeps pulling.            *)
Convergence == <>[](\A c \in Node : InPlace(c))
=============================================================================
