---------------------------- MODULE LedgerService ----------------------------
(***************************************************************************)
(* The value operations of one node (crates/node/src/ledger_service.rs):   *)
(* delegated issue and burn, fund, prefund, edge close, account opening,   *)
(* transfers and commitments, run by the node process and by operator      *)
(* commands in processes of their own on the same data directory.          *)
(*                                                                         *)
(* Every mutation takes the exclusive ledger lock, replays the log, checks *)
(* its guards against the replayed books and appends its entries one after *)
(* the other. A process may crash between any two of these steps. The      *)
(* node's record (its parent link and its children) has no lock in common  *)
(* with the ledger. One append is atomic here; FileLog opens it up.        *)
(***************************************************************************)
EXTENDS Entries

CONSTANTS
  Account,       \* ids of the children that may get an account
  Request,       \* delegated value requests: [kind, id, account, amount]
  Command,       \* operator commands: [kind, account, amount]
  Payment,       \* transfers: [kind, id, role, first, second, amount]
  MaxOps,        \* bound: requests, commands and payments started
  MaxCrashes,    \* bound: process crashes
  MaxMoves,      \* bound: changes of the record
  MAX_COMMITMENTS

VARIABLES
  log,           \* entries.log
  commits,       \* commitments.log: the heights of its chain
  torn,          \* a partial frame at the end of commitments.log
  view,          \* [Proc -> the log as the process last replayed it]
  task,          \* [Proc -> the operation holding the ledger lock, or Idle]
  kids, linked,  \* the record: current children, and is there a parent link?
  deferred,      \* authorized value requests waiting for the ledger
  answers,       \* replies given to delegated value requests
  ops, crashes, moves    \* counters behind the bounds

(* A delegated request is named by a hash, an operator command by a number *)
(* of its own.                                                             *)
ASSUME OperationAssumption ==
  /\ \A r \in Request : r.kind \in {"Issue", "Burn"} /\ r.id \notin Nat
  /\ \A c \in Command : c.kind \in {"fund", "prefund", "edge_close", "open_account", "commit"}
  /\ \A t \in Payment : t.kind = "transfer"
  /\ \A x \in Request \cup Command \cup Payment : x.amount \in Amount

ASSUME BoundAssumption == MaxOps \in Nat /\ MaxCrashes \in Nat /\ MaxMoves \in Nat

vars == <<log, commits, torn, view, task, kids, linked, deferred, answers, ops, crashes, moves>>

Proc == {"node", "cli"}

Idle == [op |-> Nil, todo |-> << >>]

-----------------------------------------------------------------------------
(***************************************************************************)
(* What an operation decides right after lock and refresh, from the        *)
(* replayed log s: the entries it will append, or the answer it returns.   *)
(***************************************************************************)
Appending(entries) == [status |-> "Applied", todo |-> entries]
Return(status)   == [status |-> status, todo |-> << >>]

ensure_account_open(s, c) == IF IsOpen(Books(s), c) THEN << >> ELSE <<OpenAccount(c)>>

(* Broken variants: no dedupe by request id, or one that ignores the       *)
(* parameters of the earlier request.                                      *)
admin_value_applyAgain(s, r) ==
  IF r.kind = "Issue" THEN Appending(ensure_account_open(s, r.account)
                                     \o <<Issue(r.account, r.amount, r.id)>>)
  ELSE IF r.amount > balance_of(s, r.account) THEN Return("InsufficientBalance")
  ELSE Appending(<<Burn(r.account, r.amount, r.id)>>)

admin_value_applyLoose(s, r) ==
  IF \E e \in rebuild_value_index(s) : e.nonce = r.id THEN Return("Duplicate")
  ELSE admin_value_applyAgain(s, r)

admin_value_apply(s, r) ==
  LET prior == { e \in rebuild_value_index(s) : e.nonce = r.id }
      Same(e) == e.body = r.kind /\ e.child = r.account /\ e.amount = r.amount
  IN  IF prior # {} THEN Return(IF \E e \in prior : Same(e) THEN "Duplicate" ELSE "BadRequest")
      ELSE IF r.kind = "Issue" THEN Appending(ensure_account_open(s, r.account)
                                              \o <<Issue(r.account, r.amount, r.id)>>)
      ELSE IF r.amount > balance_of(s, r.account) THEN Return("InsufficientBalance")
      ELSE Appending(<<Burn(r.account, r.amount, r.id)>>)

(* The nonce of an operator command is fresh.                              *)
fund(s, c, nonce) ==
  Appending(ensure_account_open(s, c.account) \o <<Issue(c.account, c.amount, nonce)>>)

prefund(s, root, c, nonce) ==
  IF root THEN Return("Refused")
  ELSE Appending(ensure_account_open(s, c.account)
                 \o <<Transfer("Descend", Parent, c.account, c.amount, nonce)>>)

edge_close(s, root, nonce) ==
  LET balance == Books(s)[Parent]
  IN  IF balance = 0 THEN Return("Nothing")
      ELSE IF ~root  THEN Return("Refused")
      ELSE Appending(<<EdgeClose(balance, nonce)>>)

(* apply_order and apply_hop; Settlement models their other guards.        *)
apply_hop(s, t) ==
  IF t.id \in rebuild_consumed(s) THEN Return("Duplicate")
  ELSE Appending(<<Transfer(t.role, t.first, t.second, t.amount, t.id)>>)

(* A commitment is at the head, above the last one. A partial frame in the *)
(* file is a hard error.                                                   *)
commit(s) ==
  IF torn \/ Len(commits) >= MAX_COMMITMENTS THEN Return("Refused")
  ELSE IF commits # << >> /\ Len(s) <= Last(commits) THEN Return("Refused")
  ELSE Appending(<<Entry("Commit", Parent, Len(s), [a \in {} |-> 0], Nil)>>)

Decide(s, root, op, nonce) ==
  CASE op.kind \in {"Issue", "Burn"} -> admin_value_apply(s, op)
    [] op.kind = "transfer"     -> apply_hop(s, op)
    [] op.kind = "fund"         -> fund(s, op, nonce)
    [] op.kind = "prefund"      -> prefund(s, root, op, nonce)
    [] op.kind = "edge_close"   -> edge_close(s, root, nonce)
    [] op.kind = "open_account" -> Appending(ensure_account_open(s, op.account))
    [] op.kind = "commit"       -> commit(s)
-----------------------------------------------------------------------------
Init ==
  /\ log = << >> /\ commits = << >> /\ torn = FALSE
  /\ view = [p \in Proc |-> << >>]
  /\ task = [p \in Proc |-> Idle]
  /\ kids = Account /\ linked = TRUE
  /\ deferred = {} /\ answers = {}
  /\ ops = 0 /\ crashes = 0 /\ moves = 0

store_vars  == <<log, commits, torn>>
record_vars == <<kids, linked, moves>>

Answered(op, status) ==
  answers' = IF op \in Request THEN answers \cup {[op |-> op, status |-> status]} ELSE answers

(* A delegated request is authorized and checked against the record under  *)
(* the control lock, and deferred; the ledger is not read.                 *)
prepare_admin_value(r) ==
  /\ ops < MaxOps
  /\ ops' = ops + 1
  /\ IF r.account \in kids /\ r.amount # 0
     THEN deferred' = deferred \cup {r} /\ UNCHANGED answers
     ELSE Answered(r, IF r.amount = 0 THEN "BadRequest" ELSE "NotFound") /\ UNCHANGED deferred
  /\ UNCHANGED <<store_vars, view, task, record_vars, crashes>>

Locked == \E p \in Proc : task[p] # Idle

(* Broken variant: the log is not replayed.                                *)
refresh_from_diskStale(p) == view[p]

refresh_from_disk(p) == log

(* Lock, refresh, decide. A lock held elsewhere fails at once.             *)
Run(p, op) ==
  LET s   == refresh_from_disk(p)
      res == Decide(s, ~linked, op, ops)
  IN  IF Locked THEN Answered(op, "Internal") /\ UNCHANGED <<view, task>>
      ELSE /\ view' = [view EXCEPT ![p] = s]
           /\ IF res.todo = << >>
              THEN Answered(op, res.status) /\ UNCHANGED task
              ELSE task' = [task EXCEPT ![p] = [op |-> op, todo |-> res.todo]] /\ UNCHANGED answers

(* execute_ledger_mutation, in the node process, after the control lock    *)
(* was dropped.                                                            *)
execute_ledger_mutation(r) ==
  /\ r \in deferred
  /\ task["node"] = Idle
  /\ deferred' = deferred \ {r}
  /\ Run("node", r)
  /\ UNCHANGED <<store_vars, record_vars, ops, crashes>>

RunPayment(t) ==
  /\ ops < MaxOps
  /\ ops' = ops + 1
  /\ task["node"] = Idle
  /\ Run("node", t)
  /\ UNCHANGED <<store_vars, record_vars, deferred, crashes>>

RunCommand(c) ==
  /\ ops < MaxOps
  /\ ops' = ops + 1
  /\ task["cli"] = Idle
  /\ c.kind \in {"fund", "prefund"} => c.amount > 0
  /\ Run("cli", c)
  /\ UNCHANGED <<store_vars, record_vars, deferred, crashes>>

(* Broken variant: an append that fails leaves the lock behind.            *)
AppendEntryStuck(p) ==
  LET e  == [Head(task[p].todo) EXCEPT !.seq = Len(view[p])]
  IN  /\ task[p].todo # << >>
      /\ e.body # "Commit"
      /\ Appendable(Books(view[p]), Len(view[p]), e)
      /\ log' = Append(log, e)
      /\ view' = [view EXCEPT ![p] = Append(@, e)]
      /\ task' = [task EXCEPT ![p].todo = Tail(@)]
      /\ UNCHANGED <<answers, commits, torn, record_vars, deferred, ops, crashes>>

(* The next entry of the running operation is appended, or the operation   *)
(* fails and returns; the last append returns too.                         *)
AppendEntry(p) ==
  LET e  == [Head(task[p].todo) EXCEPT !.seq = Len(view[p])]
      ok == Appendable(Books(view[p]), Len(view[p]), e)
  IN  /\ task[p].todo # << >>
      /\ e.body # "Commit"
      /\ IF ok
         THEN /\ log' = Append(log, e)
              /\ view' = [view EXCEPT ![p] = Append(@, e)]
              /\ task' = [task EXCEPT ![p].todo = Tail(@)]
              /\ UNCHANGED answers
         ELSE /\ task' = [task EXCEPT ![p] = Idle]
              /\ Answered(task[p].op, "Internal")
              /\ UNCHANGED <<log, view>>
      /\ UNCHANGED <<commits, torn, record_vars, deferred, ops, crashes>>

AppendCommitment(p) ==
  /\ task[p].todo # << >>
  /\ Head(task[p].todo).body = "Commit"
  /\ commits' = Append(commits, Head(task[p].todo).amount)
  /\ task' = [task EXCEPT ![p].todo = Tail(@)]
  /\ UNCHANGED <<log, torn, view, record_vars, deferred, answers, ops, crashes>>

(* The operation returns: the lock is released and the reply is sent.      *)
Finish(p) ==
  /\ task[p] # Idle /\ task[p].todo = << >>
  /\ Answered(task[p].op, "Applied")
  /\ task' = [task EXCEPT ![p] = Idle]
  /\ UNCHANGED <<store_vars, view, record_vars, deferred, ops, crashes>>

(* A process dies at work: its lock goes, what it had only in memory is    *)
(* lost, and a commitment it was writing may be left as a partial frame.   *)
Crash(p) ==
  /\ crashes < MaxCrashes
  /\ task[p] # Idle \/ (p = "node" /\ deferred # {})
  /\ crashes' = crashes + 1
  /\ task' = [task EXCEPT ![p] = Idle]
  /\ view' = [view EXCEPT ![p] = log]
  /\ deferred' = IF p = "node" THEN {} ELSE deferred
  /\ \/ UNCHANGED torn
     \/ /\ task[p].todo # << >> /\ Head(task[p].todo).body = "Commit"
        /\ torn' = TRUE
  /\ UNCHANGED <<log, commits, record_vars, answers, ops>>

(* The record changes beside the ledger: apply_exit and a new attachment,  *)
(* a child leaving or joining.                                             *)
MoveRecord ==
  /\ moves < MaxMoves
  /\ moves' = moves + 1
  /\ \/ linked' = ~linked /\ UNCHANGED kids
     \/ (\E c \in kids : kids' = kids \ {c}) /\ UNCHANGED linked
  /\ UNCHANGED <<store_vars, view, task, deferred, answers, ops, crashes>>

Next ==
  \/ \E r \in Request : prepare_admin_value(r) \/ execute_ledger_mutation(r)
  \/ \E t \in Payment : RunPayment(t)
  \/ \E c \in Command : RunCommand(c)
  \/ \E p \in Proc : AppendEntry(p) \/ AppendCommitment(p) \/ Finish(p) \/ Crash(p)
  \/ MoveRecord

Spec == Init /\ [][Next]_vars

(* The node drains its deferred requests, and an operation that holds the  *)
(* lock goes on: nothing in it waits for another process.                  *)
Fairness ==
  /\ \A r \in Request : WF_vars(execute_ledger_mutation(r))
  /\ \A p \in Proc : WF_vars(AppendEntry(p) \/ AppendCommitment(p) \/ Finish(p))

LiveSpec == Spec /\ Fairness
-----------------------------------------------------------------------------
(***************************************************************************)
(* Properties.                                                             *)
(***************************************************************************)
Nonce == { r.id : r \in Request } \cup { t.id : t \in Payment } \cup (0..MaxOps) \cup {Nil}

(* Every variable has its type, and at most one operation holds the lock.  *)
TypeOK ==
  /\ \A i \in DOMAIN log : log[i].body # "Commit" /\ log[i].nonce \in Nonce
  /\ \A i \in DOMAIN commits : commits[i] \in Nat
  /\ torn \in BOOLEAN /\ linked \in BOOLEAN
  /\ kids \subseteq Account
  /\ deferred \subseteq Request
  /\ \A p, q \in Proc : task[p] # Idle /\ task[q] # Idle => p = q
  /\ \A a \in answers : a.op \in Request
  /\ ops \in 0..MaxOps /\ crashes \in 0..MaxCrashes /\ moves \in 0..MaxMoves
  /\ \A c \in DOMAIN Books(log) : Books(log)[c] \in Amount

(* Derived equity is explained by the log alone: issues lower it, burns    *)
(* raise it, edge closes write it off and no transfer moves it. The books  *)
(* the log replays to are in range all the while.                          *)
Total(body) == SumOver([ i \in DOMAIN log |-> log[i].amount ], { i \in DOMAIN log : log[i].body = body })

EquityAccounted ==
  /\ TypeOK
  /\ equity(Books(log)) = Total("Burn") - Total("Issue") - Total("EdgeClose")

(* Whatever the processes interleave and wherever they crash, the log and  *)
(* the commitment chain replay: open_ledger and verify_chain check every   *)
(* entry and every height again and refuse the whole file otherwise.       *)
StoreVerifies ==
  /\ \A i \in DOMAIN log : Appendable(Books(SubSeq(log, 1, i - 1)), i - 1, log[i])
  /\ \A i \in DOMAIN commits : /\ commits[i] <= Len(log)
                               /\ i > 1 => commits[i - 1] < commits[i]

(* A delegated request changes value once, however often it is retried     *)
(* after a crash, a lost reply or a contended lock.                        *)
ValueOnce ==
  \A i, j \in DOMAIN log :
    /\ {log[i].body, log[j].body} \subseteq {"Issue", "Burn"}
    /\ log[i].nonce = log[j].nonce
    => i = j

(* The reply to a delegated request is true of the log: applied and        *)
(* duplicate name an entry with exactly the request's parameters, and a    *)
(* conflict an entry that used the request id for something else (it has   *)
(* the code of a request for nothing).                                     *)
Did(e, r) == e.body = r.kind /\ e.child = r.account /\ e.amount = r.amount /\ e.nonce = r.id

AnswersTrue ==
  \A a \in answers :
    /\ a.status \in {"Applied", "Duplicate"} => \E i \in DOMAIN log : Did(log[i], a.op)
    /\ a.status = "BadRequest" /\ a.op.amount # 0 =>
         \E i \in DOMAIN log : log[i].nonce = a.op.id /\ ~Did(log[i], a.op)

(* Every deferred request is answered, unless a process dies first.        *)
DeferredAnswered ==
  \A r \in Request : r \in deferred ~> (crashes > 0 \/ \E a \in answers : a.op = r)
=============================================================================
