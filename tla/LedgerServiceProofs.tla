------------------------- MODULE LedgerServiceProofs -------------------------
(***************************************************************************)
(* Proofs about the value operations of a node, for any requests, commands *)
(* and payments and any number of crashes: the log and the commitment      *)
(* chain replay, a delegated request changes value once, and its reply is  *)
(* true of the log.                                                        *)
(***************************************************************************)
EXTENDS LedgerService, SequenceTheorems, FiniteSetTheorems, WellFoundedInduction, TLAPS

(***************************************************************************)
(* Sequences and entries, whatever they hold.                              *)
(***************************************************************************)
IsSeq(s) == \E S : s \in Seq(S)

(* The length and the domain of a sequence.                                *)
LEMMA SeqFacts ==
  ASSUME NEW s, IsSeq(s)
  PROVE  Len(s) \in Nat /\ DOMAIN s = 1..Len(s) /\ (s = << >> <=> Len(s) = 0)
<1>1. PICK S : s \in Seq(S)
  BY DEF IsSeq
<1>. QED
  BY <1>1, EmptySeq, LenProperties

(* The empty sequence.                                                     *)
LEMMA SeqEmpty == IsSeq(<< >>) /\ Len(<< >>) = 0
<1>1. << >> \in Seq({})
  BY EmptySeq
<1>. QED
  BY <1>1, EmptySeq DEF IsSeq

(* An appended element is the last, the others stay where they are.        *)
LEMMA SeqAppend ==
  ASSUME NEW s, IsSeq(s), NEW e
  PROVE  /\ IsSeq(Append(s, e)) /\ Len(Append(s, e)) = Len(s) + 1
         /\ Append(s, e)[Len(s) + 1] = e
         /\ \A i \in 1..Len(s) : Append(s, e)[i] = s[i]
<1>1. PICK S : s \in Seq(S)
  BY DEF IsSeq
<1>. DEFINE T == S \cup {e}
<1>2. s \in Seq(T) /\ e \in T
  BY <1>1
<1>. HIDE DEF T
<1>3. /\ Append(s, e) \in Seq(T) /\ Len(Append(s, e)) = Len(s) + 1
      /\ Append(s, e)[Len(s) + 1] = e
      /\ \A i \in 1..Len(s) : Append(s, e)[i] = s[i]
  BY <1>2, AppendProperties
<1>. QED
  BY <1>3 DEF IsSeq

(* The tail of a sequence, and its head.                                   *)
LEMMA SeqTail ==
  ASSUME NEW s, IsSeq(s), s # << >>
  PROVE  /\ IsSeq(Tail(s)) /\ Len(Tail(s)) = Len(s) - 1
         /\ \A i \in 1..(Len(s) - 1) : Tail(s)[i] = s[i + 1]
         /\ Head(s) = s[1] /\ 1 <= Len(s)
<1>1. PICK S : s \in Seq(S)
  BY DEF IsSeq
<1>2. Tail(s) \in Seq(S) /\ Len(Tail(s)) = Len(s) - 1 /\ \A i \in 1..(Len(s) - 1) : Tail(s)[i] = s[i + 1]
  BY <1>1, HeadTailProperties
<1>3. Head(s) = s[1] /\ 1 <= Len(s)
  BY <1>1, EmptySeq
<1>. QED
  BY <1>2, <1>3 DEF IsSeq

(* What precedes an appended entry is the log before it.                   *)
LEMMA SeqPrefix ==
  ASSUME NEW s, IsSeq(s), NEW e
  PROVE  /\ SubSeq(Append(s, e), 1, Len(s)) = s
         /\ \A k \in Nat : k <= Len(s) => SubSeq(Append(s, e), 1, k) = SubSeq(s, 1, k)
<1>1. PICK S : s \in Seq(S)
  BY DEF IsSeq
<1>. DEFINE T == S \cup {e}
<1>2. s \in Seq(T) /\ e \in T
  BY <1>1
<1>. HIDE DEF T
<1>3. Append(s, e) \in Seq(T) /\ Len(Append(s, e)) = Len(s) + 1 /\ \A i \in 1..Len(s) : Append(s, e)[i] = s[i]
  BY <1>2, AppendProperties
<1>4. ASSUME NEW k \in Nat, k <= Len(s)
      PROVE  SubSeq(Append(s, e), 1, k) = SubSeq(s, 1, k)
  <2>1. SubSeq(s, 1, k) = [i \in 1..k |-> s[i]]
    BY <1>2, <1>4
  <2>2. SubSeq(Append(s, e), 1, k) = [i \in 1..k |-> Append(s, e)[i]]
    BY <1>3, <1>4
  <2>3. \A i \in 1..k : i \in 1..Len(s)
    BY <1>2, <1>4
  <2>. QED
    BY <1>3, <2>1, <2>2, <2>3
<1>5. SubSeq(s, 1, Len(s)) = s
  BY <1>1
<1>. QED
  BY <1>1, <1>4, <1>5

Row(q, b, r, c, m, d, n) ==
  [seq |-> q, body |-> b, role |-> r, child |-> c, amount |-> m, deltas |-> d, nonce |-> n]

IsEntry(e) == \E q, b, r, c, m, d, n : e = Row(q, b, r, c, m, d, n)

(* Numbering an entry leaves its other fields.                             *)
LEMMA EntryNumbered ==
  ASSUME NEW e, IsEntry(e), NEW k, NEW f, f = [e EXCEPT !.seq = k]
  PROVE  f.body = e.body /\ f.child = e.child /\ f.amount = e.amount /\ f.nonce = e.nonce
<1>1. PICK q, b, r, c, m, d, n : e = Row(q, b, r, c, m, d, n)
  BY DEF IsEntry
<1>2. f = Row(k, b, r, c, m, d, n)
  BY <1>1 DEF Row
<1>. QED
  BY <1>1, <1>2 DEF Row

(* The fields of an entry as Entry builds it.                              *)
LEMMA EntryFields ==
  ASSUME NEW b, NEW c, NEW m, NEW d, NEW n, NEW e, e = Entry(b, c, m, d, n)
  PROVE  IsEntry(e) /\ e.body = b /\ e.child = c /\ e.amount = m /\ e.nonce = n
<1>1. e = Row(0, b, NoHop, c, m, d, n)
  BY DEF Row, Entry
<1>2. IsEntry(e)
  BY <1>1 DEF IsEntry
<1>3. e.body = b /\ e.child = c /\ e.amount = m /\ e.nonce = n
  BY <1>1 DEF Row
<1>. QED
  BY <1>2, <1>3

(* The fields of the entry of a settlement hop.                            *)
LEMMA TransferFields ==
  ASSUME NEW r, NEW a, NEW b, NEW m, NEW n, NEW e, e = Transfer(r, a, b, m, n)
  PROVE  IsEntry(e) /\ e.body = "Transfer" /\ e.amount = m /\ e.nonce = n
<1>1. PICK d : d = hop_postings(r, a, b, m)
  OBVIOUS
<1>2. e = [Row(0, "Transfer", NoHop, b, m, d, n) EXCEPT !.role = r]
  BY <1>1 DEF Transfer, Entry, Row
<1>3. e = Row(0, "Transfer", r, b, m, d, n)
  BY <1>2 DEF Row
<1>4. IsEntry(e)
  BY <1>3 DEF IsEntry
<1>5. e.body = "Transfer" /\ e.amount = m /\ e.nonce = n
  BY <1>3 DEF Row
<1>. QED
  BY <1>4, <1>5
-----------------------------------------------------------------------------
(***************************************************************************)
(* What an operation may still have to append: of the entries only the     *)
(* last can change value or be a commitment. One that changes value has a  *)
(* nonce no other has, and a commitment is higher than all before it.      *)
(***************************************************************************)
Value(e) == e.body \in {"Issue", "Burn"}

Fresh(e, s, n) ==
  Value(e) => /\ \A k \in 1..Len(s) : Value(s[k]) => s[k].nonce # e.nonce
              /\ e.nonce \in Nat => e.nonce < n

Climbs(e, s, h) ==
  e.body = "Commit" => /\ e.amount \in Nat /\ e.amount <= Len(s)
                       /\ h # << >> => h[Len(h)] < e.amount

Plan(t, s, h, n) ==
  /\ IsSeq(t)
  /\ \A i \in 1..Len(t) : /\ IsEntry(t[i])
                          /\ Value(t[i]) \/ t[i].body = "Commit" => i = Len(t)
                          /\ Fresh(t[i], s, n) /\ Climbs(t[i], s, h)

(* An empty plan is a plan.                                                *)
LEMMA NothingPlanned == ASSUME NEW s, NEW h, NEW n PROVE Plan(<< >>, s, h, n)
BY SeqEmpty DEF Plan

(* A plan of one entry.                                                    *)
LEMMA OnePlanned ==
  ASSUME NEW x, IsEntry(x), NEW s, NEW h, NEW n, Fresh(x, s, n), Climbs(x, s, h)
  PROVE  Plan(<<x>>, s, h, n) /\ <<x>> # << >> /\ <<x>>[Len(<<x>>)] = x
<1>0. PICK t : t = <<x>>
  OBVIOUS
<1>1. t \in Seq({x}) /\ Len(t) = 1 /\ t[1] = x /\ t # << >>
  BY <1>0
<1>2. IsSeq(t)
  BY <1>1 DEF IsSeq
<1>3. \A i \in 1..1 : i = 1
  OBVIOUS
<1>4. Plan(t, s, h, n)
  BY <1>1, <1>2, <1>3 DEF Plan
<1>. QED
  BY <1>0, <1>1, <1>4

(* A plan of an account to open and the entry that needs it.               *)
LEMMA TwoPlanned ==
  ASSUME NEW o, IsEntry(o), o.body = "OpenAccount",
         NEW x, IsEntry(x), NEW s, NEW h, NEW n, Fresh(x, s, n), Climbs(x, s, h),
         NEW t, t = <<o>> \o <<x>>
  PROVE  Plan(t, s, h, n) /\ t # << >> /\ t[Len(t)] = x
<1>1. t \in Seq({o, x}) /\ Len(t) = 2 /\ t[1] = o /\ t[2] = x
  OBVIOUS
<1>2. IsSeq(t)
  BY <1>1 DEF IsSeq
<1>3. t # << >>
  BY <1>1
<1>4. ~Value(o) /\ o.body # "Commit" /\ Fresh(o, s, n) /\ Climbs(o, s, h)
  BY DEF Value, Fresh, Climbs
<1>5. \A i \in 1..2 : i = 1 \/ i = 2
  OBVIOUS
<1>. QED
  BY <1>1, <1>2, <1>3, <1>4, <1>5 DEF Plan

(* What a decision to append is going to append.                           *)
LEMMA AppendingTodo == ASSUME NEW t, NEW res, res = Appending(t) PROVE res.todo = t
BY DEF Appending

(* An account that is not open is opened first.                            *)
Opening(s, c, x) == ensure_account_open(s, c) \o <<x>>

(* A plan that opens the account first when it is not open.                *)
LEMMA OpenedPlanned ==
  ASSUME NEW s, NEW c, NEW x, IsEntry(x), NEW h, NEW n, Fresh(x, s, n), Climbs(x, s, h),
         NEW t, t = Opening(s, c, x)
  PROVE  Plan(t, s, h, n) /\ t # << >> /\ t[Len(t)] = x
<1>1. CASE ensure_account_open(s, c) = << >>
  <2>1. << >> \o <<x>> = <<x>>
    OBVIOUS
  <2>2. t = <<x>>
    BY <1>1, <2>1, Zenon DEF Opening
  <2>. QED
    BY <2>2, OnePlanned, Zenon
<1>2. CASE ensure_account_open(s, c) = <<OpenAccount(c)>>
  <2>1. PICK o : o = OpenAccount(c)
    OBVIOUS
  <2>3. t = <<o>> \o <<x>>
    BY <1>2, <2>1, Zenon DEF Opening
  <2>4. IsEntry(o) /\ o.body = "OpenAccount"
    BY <2>1, EntryFields DEF OpenAccount
  <2>. QED
    BY <2>3, <2>4, TwoPlanned, Zenon
<1>. QED
  BY <1>1, <1>2 DEF ensure_account_open

Known(s, n) == \A i \in 1..Len(s) : Value(s[i]) /\ s[i].nonce \in Nat => s[i].nonce < n

(* admin_value_apply: a request that is already in the log is answered     *)
(* from it, and one that is not is planned under its own id.               *)
LEMMA ValuePlanned ==
  ASSUME NEW s, IsSeq(s), NEW h, NEW n, NEW r \in Request,
         NEW res, res = admin_value_apply(s, r)
  PROVE  /\ Plan(res.todo, s, h, n)
         /\ res.todo = << >> =>
              /\ res.status # "Applied"
              /\ res.status = "Duplicate" => \E i \in 1..Len(s) : Did(s[i], r)
              /\ res.status = "BadRequest" => \E i \in 1..Len(s) : s[i].nonce = r.id /\ ~Did(s[i], r)
         /\ res.todo # << >> => Did(res.todo[Len(res.todo)], r)
<1>. DEFINE prior == { e \in rebuild_value_index(s) : e.nonce = r.id }
            Same(e) == e.body = r.kind /\ e.child = r.account /\ e.amount = r.amount
<1>0. r.kind \in {"Issue", "Burn"} /\ r.id \notin Nat
  BY OperationAssumption
<1>1. \A e \in prior : \E i \in 1..Len(s) : e = s[i] /\ s[i].nonce = r.id
  BY SeqFacts DEF rebuild_value_index
<1>2. \A i \in 1..Len(s) : Value(s[i]) /\ s[i].nonce = r.id => s[i] \in prior
  BY SeqFacts DEF rebuild_value_index, Value
<1>3. \A e : e.nonce = r.id => (Same(e) <=> Did(e, r))
  BY DEF Did
<1>. DEFINE Issues == Issue(r.account, r.amount, r.id)
            Burns == Burn(r.account, r.amount, r.id)
<1>4. \/ prior # {} /\ res = Return(IF \E e \in prior : Same(e) THEN "Duplicate" ELSE "BadRequest")
      \/ prior = {} /\ r.kind = "Issue" /\ res = Appending(ensure_account_open(s, r.account) \o <<Issues>>)
      \/ prior = {} /\ res = Return("InsufficientBalance")
      \/ prior = {} /\ r.kind = "Burn" /\ res = Appending(<<Burns>>)
  BY <1>0, Zenon DEF admin_value_apply
<1>. HIDE DEF prior, Same
<1>5. CASE prior # {} /\ \E e \in prior : Same(e)
  <2>1. res.todo = << >> /\ res.status = "Duplicate"
    BY <1>4, <1>5 DEF Return
  <2>2. \E i \in 1..Len(s) : Did(s[i], r)
    BY <1>1, <1>3, <1>5
  <2>. QED
    BY <2>1, <2>2, NothingPlanned
<1>6. CASE prior # {} /\ ~\E e \in prior : Same(e)
  <2>1. res.todo = << >> /\ res.status = "BadRequest"
    BY <1>4, <1>6 DEF Return
  <2>2. \E i \in 1..Len(s) : s[i].nonce = r.id /\ ~Did(s[i], r)
    BY <1>1, <1>3, <1>6
  <2>. QED
    BY <2>1, <2>2, NothingPlanned
<1>7. CASE prior = {} /\ r.kind = "Issue" /\ res = Appending(ensure_account_open(s, r.account) \o <<Issues>>)
  <2>1. PICK x : x = Issues
    OBVIOUS
  <2>2. IsEntry(x) /\ x.body = "Issue" /\ x.child = r.account /\ x.amount = r.amount /\ x.nonce = r.id
    BY <2>1, EntryFields DEF Issue
  <2>3. Fresh(x, s, n) /\ Climbs(x, s, h)
    BY <1>0, <1>2, <1>7, <2>2 DEF Fresh, Climbs
  <2>4. res.todo = Opening(s, r.account, x)
    BY <1>7, <2>1, AppendingTodo, Zenon DEF Opening
  <2>5. Plan(res.todo, s, h, n) /\ res.todo # << >> /\ res.todo[Len(res.todo)] = x
    BY <2>2, <2>3, <2>4, OpenedPlanned
  <2>. QED
    BY <1>7, <2>2, <2>5 DEF Did
<1>8. CASE prior = {} /\ res = Return("InsufficientBalance")
  BY <1>8, NothingPlanned DEF Return
<1>9. CASE prior = {} /\ r.kind = "Burn" /\ res = Appending(<<Burns>>)
  <2>1. PICK x : x = Burns
    OBVIOUS
  <2>2. IsEntry(x) /\ x.body = "Burn" /\ x.child = r.account /\ x.amount = r.amount /\ x.nonce = r.id
    BY <2>1, EntryFields DEF Burn
  <2>3. Fresh(x, s, n) /\ Climbs(x, s, h)
    BY <1>0, <1>2, <1>9, <2>2 DEF Fresh, Climbs
  <2>4. res.todo = <<x>>
    BY <1>9, <2>1 DEF Appending
  <2>5. Plan(res.todo, s, h, n) /\ res.todo # << >> /\ res.todo[Len(res.todo)] = x
    BY <2>2, <2>3, <2>4, OnePlanned, Zenon
  <2>. QED
    BY <1>9, <2>2, <2>5 DEF Did
<1>. QED
  BY <1>4, <1>5, <1>6, <1>7, <1>8, <1>9

(* What any operation plans, and what a request is answered at once.       *)
LEMMA Planned ==
  ASSUME NEW s, IsSeq(s), commits \in Seq(Nat), NEW n \in Nat, Known(s, n),
         NEW op \in Request \cup Command \cup Payment, NEW root,
         NEW res, res = Decide(s, root, op, n)
  PROVE  /\ Plan(res.todo, s, commits, n + 1)
         /\ op \in Request => Plan(res.todo, s, commits, n)
         /\ op \in Request /\ res.todo = << >> =>
              /\ res.status # "Applied"
              /\ res.status = "Duplicate" => \E i \in 1..Len(s) : Did(s[i], op)
              /\ res.status = "BadRequest" => \E i \in 1..Len(s) : s[i].nonce = op.id /\ ~Did(s[i], op)
         /\ op \in Request /\ res.todo # << >> => Did(res.todo[Len(res.todo)], op)
<1>1. CASE op \in Request
  <2>1. op.kind \in {"Issue", "Burn"}
    BY <1>1, OperationAssumption
  <2>2. res = admin_value_apply(s, op)
    BY <2>1 DEF Decide
  <2>. QED
    BY <1>1, <2>2, ValuePlanned
<1>2. CASE op \in Payment
  <2>1. op.kind = "transfer" /\ op \notin Request
    BY <1>2, OperationAssumption
  <2>2. res = apply_hop(s, op)
    BY <2>1 DEF Decide
  <2>3. CASE res = Return("Duplicate")
    BY <2>1, <2>3, NothingPlanned DEF Return
  <2>4. CASE res = Appending(<<Transfer(op.role, op.first, op.second, op.amount, op.id)>>)
    <3>1. PICK x : x = Transfer(op.role, op.first, op.second, op.amount, op.id)
      OBVIOUS
    <3>2. IsEntry(x) /\ x.body = "Transfer"
      BY <3>1, TransferFields
    <3>3. Fresh(x, s, n + 1) /\ Climbs(x, s, commits)
      BY <3>2 DEF Fresh, Climbs, Value
    <3>4. res.todo = <<x>>
      BY <2>4, <3>1 DEF Appending
    <3>. QED
      BY <2>1, <3>2, <3>3, <3>4, OnePlanned, Zenon
  <2>. QED
    BY <2>2, <2>3, <2>4 DEF apply_hop
<1>3. CASE op \in Command
  <2>1. op.kind \in {"fund", "prefund", "edge_close", "open_account", "commit"} /\ op \notin Request
    BY <1>3, OperationAssumption
  <2>2. ASSUME res.todo = << >> PROVE Plan(res.todo, s, commits, n + 1)
    BY <2>2, NothingPlanned
  <2>3. ASSUME NEW x, IsEntry(x), Fresh(x, s, n + 1), Climbs(x, s, commits),
               res = Appending(<<x>>) \/ res = Appending(Opening(s, op.account, x))
        PROVE  Plan(res.todo, s, commits, n + 1)
    <3>1. res.todo = <<x>> \/ res.todo = Opening(s, op.account, x)
      BY <2>3, AppendingTodo, Zenon
    <3>2. CASE res.todo = <<x>>
      BY <2>3, <3>2, OnePlanned, Zenon
    <3>3. CASE res.todo = Opening(s, op.account, x)
      BY <2>3, <3>3, OpenedPlanned
    <3>. QED
      BY <3>1, <3>2, <3>3
  <2>4. CASE op.kind = "fund"
    <3>1. PICK x : x = Issue(op.account, op.amount, n)
      OBVIOUS
    <3>2. IsEntry(x) /\ x.body = "Issue" /\ x.nonce = n
      BY <3>1, EntryFields DEF Issue
    <3>3. Fresh(x, s, n + 1) /\ Climbs(x, s, commits)
      BY <3>2 DEF Fresh, Climbs, Known
    <3>4. res = fund(s, op, n)
      BY <2>4 DEF Decide
    <3>5. res = Appending(Opening(s, op.account, x))
      BY <3>1, <3>4, Zenon DEF Opening, fund
    <3>. QED
      BY <2>1, <2>3, <3>2, <3>3, <3>5, Zenon
  <2>5. CASE op.kind = "prefund"
    <3>1. PICK x : x = Transfer("Descend", Parent, op.account, op.amount, n)
      OBVIOUS
    <3>2. IsEntry(x) /\ x.body = "Transfer"
      BY <3>1, TransferFields
    <3>3. Fresh(x, s, n + 1) /\ Climbs(x, s, commits)
      BY <3>2 DEF Fresh, Climbs, Value
    <3>4. res = prefund(s, root, op, n)
      BY <2>5 DEF Decide
    <3>5. res = Return("Refused") \/ res = Appending(Opening(s, op.account, x))
      BY <3>1, <3>4, Zenon DEF Opening, prefund
    <3>6. CASE res = Return("Refused")
      BY <2>1, <2>2, <3>6 DEF Return
    <3>. QED
      BY <2>1, <2>3, <3>2, <3>3, <3>5, <3>6, Zenon
  <2>6. CASE op.kind = "edge_close"
    <3>1. PICK x : x = EdgeClose(Books(s)[Parent], n)
      OBVIOUS
    <3>2. IsEntry(x) /\ x.body = "EdgeClose"
      BY <3>1, EntryFields DEF EdgeClose
    <3>3. Fresh(x, s, n + 1) /\ Climbs(x, s, commits)
      BY <3>2 DEF Fresh, Climbs, Value
    <3>4. res = edge_close(s, root, n)
      BY <2>6 DEF Decide
    <3>5. res = Return("Refused") \/ res = Return("Nothing") \/ res = Appending(<<x>>)
      BY <3>1, <3>4, Zenon DEF edge_close
    <3>6. CASE res = Return("Refused") \/ res = Return("Nothing")
      BY <2>1, <2>2, <3>6 DEF Return
    <3>. QED
      BY <2>1, <2>3, <3>2, <3>3, <3>5, <3>6, Zenon
  <2>7. CASE op.kind = "open_account"
    <3>1. PICK x : x = OpenAccount(op.account)
      OBVIOUS
    <3>2. IsEntry(x) /\ x.body = "OpenAccount"
      BY <3>1, EntryFields DEF OpenAccount
    <3>3. Fresh(x, s, n + 1) /\ Climbs(x, s, commits)
      BY <3>2 DEF Fresh, Climbs, Value
    <3>4. res = Appending(ensure_account_open(s, op.account))
      BY <2>7 DEF Decide
    <3>5. res = Appending(<< >>) \/ res = Appending(<<x>>)
      BY <3>1, <3>4, Zenon DEF ensure_account_open
    <3>6. CASE res = Appending(<< >>)
      BY <2>1, <2>2, <3>6 DEF Appending
    <3>. QED
      BY <2>1, <2>3, <3>2, <3>3, <3>5, <3>6, Zenon
  <2>8. CASE op.kind = "commit"
    <3>1. PICK x : x = Entry("Commit", Parent, Len(s), [a \in {} |-> 0], Nil)
      OBVIOUS
    <3>2. IsEntry(x) /\ x.body = "Commit" /\ x.amount = Len(s)
      BY <3>1, EntryFields
    <3>3. res = commit(s)
      BY <2>8 DEF Decide
    <3>4. CASE res = Return("Refused")
      BY <2>1, <2>2, <3>4 DEF Return
    <3>5. CASE res = Appending(<<x>>) /\ (commits # << >> => ~(Len(s) <= Last(commits)))
      <4>1. commits # << >> => commits[Len(commits)] < Len(s)
        BY <3>5, SeqFacts DEF Last
      <4>2. Fresh(x, s, n + 1) /\ Climbs(x, s, commits)
        BY <3>2, <4>1, SeqFacts DEF Fresh, Climbs, Value
      <4>. QED
        BY <2>1, <2>3, <3>2, <3>5, <4>2, Zenon
    <3>. QED
      BY <3>1, <3>3, <3>4, <3>5, Zenon DEF commit
  <2>. QED
    BY <2>1, <2>4, <2>5, <2>6, <2>7, <2>8
<1>. QED
  BY <1>1, <1>2, <1>3
-----------------------------------------------------------------------------
(***************************************************************************)
(* The inductive invariant. The operation with the lock works on the log   *)
(* as it is, and what it has still to append fits it; a request under way  *)
(* has its entry in the log or as the last of those it will append.        *)
(***************************************************************************)
Task(o, t) == [op |-> o, todo |-> t]

Types ==
  /\ IsSeq(log) /\ commits \in Seq(Nat) /\ ops \in Nat
  /\ task = [p \in Proc |-> task[p]] /\ view = [p \in Proc |-> view[p]]
  /\ \A p \in Proc : \E o, t : task[p] = Task(o, t)

Lock ==
  /\ \A p, q \in Proc : task[p] # Idle /\ task[q] # Idle => p = q
  /\ \A p \in Proc : task[p] # Idle => view[p] = log

Plans == \A p \in Proc : Plan(task[p].todo, log, commits, ops)

Doing(x) ==
  x.op \in Request => \/ \E i \in 1..Len(log) : Did(log[i], x.op)
                      \/ x.todo # << >> /\ Did(x.todo[Len(x.todo)], x.op)

Promises == \A p \in Proc : task[p] # Idle => Doing(task[p])

LedgerInv ==
  /\ Types /\ Lock /\ Plans /\ Promises
  /\ Known(log, ops) /\ ValueOnce /\ StoreVerifies /\ AnswersTrue

(* An idle process has no operation and no plan.                           *)
LEMMA IdleTask == Idle = Task(Nil, << >>) /\ Idle.todo = << >>
BY DEF Idle, Task

(* The fields of a task.                                                   *)
LEMMA TaskFields == ASSUME NEW o, NEW t PROVE Task(o, t).op = o /\ Task(o, t).todo = t
BY DEF Task

(* A plan stays one when the counter moves on, and the next entry is left. *)
LEMMA PlanLater ==
  ASSUME NEW t, NEW s, NEW h, NEW n \in Nat, NEW m \in Nat, n <= m, Plan(t, s, h, n)
  PROVE  Plan(t, s, h, m)
BY DEF Plan, Fresh

(* Replies stay true while the log grows.                                  *)
Grows ==
  /\ IsSeq(log) /\ IsSeq(log') /\ Len(log) <= Len(log')
  /\ \A i \in 1..Len(log) : log'[i] = log[i]

Says(op, status) ==
  /\ status \in {"Applied", "Duplicate"} => \E i \in 1..Len(log) : Did(log[i], op)
  /\ status = "BadRequest" /\ op.amount # 0 =>
       \E i \in 1..Len(log) : log[i].nonce = op.id /\ ~Did(log[i], op)

(* What a longer log says includes what it said.                           *)
LEMMA SaysGrow ==
  ASSUME Grows, NEW op, NEW status, Says(op, status)
  PROVE  Says(op, status)'
<1>1. Len(log) \in Nat /\ Len(log') \in Nat
  BY SeqFacts DEF Grows
<1>2. \A i \in 1..Len(log) : i \in 1..Len(log') /\ log'[i] = log[i]
  BY <1>1 DEF Grows
<1>. QED
  BY <1>2 DEF Says, Did

(* Answers stay true while the log grows.                                  *)
LEMMA RepliesKeep ==
  ASSUME Grows, AnswersTrue,
         \/ UNCHANGED answers
         \/ \E op, status : Answered(op, status) /\ (op \in Request => Says(op, status)')
  PROVE  AnswersTrue'
<1>0. DOMAIN log = 1..Len(log) /\ DOMAIN log' = 1..Len(log')
  BY SeqFacts DEF Grows
<1>1. \A a \in answers : Says(a.op, a.status)
  BY <1>0 DEF AnswersTrue, Says
<1>2. \A a \in answers : Says(a.op, a.status)'
  <2>1. ASSUME NEW a \in answers PROVE Says(a.op, a.status)'
    <3>1. PICK o, t : o = a.op /\ t = a.status
      OBVIOUS
    <3>2. Says(o, t)'
      BY <1>1, <3>1, SaysGrow
    <3>. QED
      BY <3>1, <3>2
  <2>. QED
    BY <2>1
<1>3. \A a \in answers' : Says(a.op, a.status)'
  <2>1. CASE UNCHANGED answers
    BY <1>2, <2>1
  <2>2. ASSUME NEW op, NEW status, Answered(op, status), op \in Request => Says(op, status)'
        PROVE  \A a \in answers' : Says(a.op, a.status)'
    <3>1. PICK b : b = [op |-> op, status |-> status]
      OBVIOUS
    <3>2. b.op = op /\ b.status = status
      BY <3>1
    <3>3. answers' = answers \/ (op \in Request /\ answers' = answers \cup {b})
      BY <2>2, <3>1, Zenon DEF Answered
    <3>. QED
      BY <1>2, <2>2, <3>2, <3>3
  <2>. QED
    BY <2>1, <2>2
<1>. QED
  BY <1>0, <1>3 DEF AnswersTrue, Says

(* A new task of one process leaves the others.                            *)
LEMMA TaskSet ==
  ASSUME Types, NEW p \in Proc, NEW o, NEW t, task' = [task EXCEPT ![p] = Task(o, t)]
  PROVE  /\ task' = [q \in Proc |-> task'[q]] /\ task'[p] = Task(o, t)
         /\ \A q \in Proc \ {p} : task'[q] = task[q]
         /\ \A q \in Proc : \E a, b : task'[q] = Task(a, b)
<1>1. task = [q \in Proc |-> task[q]]
  BY DEF Types
<1>2. /\ task' = [q \in Proc |-> task'[q]] /\ task'[p] = Task(o, t)
      /\ \A q \in Proc \ {p} : task'[q] = task[q]
  BY <1>1
<1>3. ASSUME NEW q \in Proc PROVE \E a, b : task'[q] = Task(a, b)
  <2>1. CASE q = p
    BY <1>2, <2>1, Zenon
  <2>2. CASE q # p
    <3>1. task'[q] = task[q]
      BY <1>2, <2>2
    <3>. QED
      BY <3>1, Zenon DEF Types
  <2>. QED
    BY <2>1, <2>2
<1>. QED
  BY <1>2, <1>3

(* The next entry of an operation is handed over.                          *)
LEMMA TodoNext ==
  ASSUME Types, NEW p \in Proc, NEW x, task' = [task EXCEPT ![p].todo = x]
  PROVE  task' = [task EXCEPT ![p] = Task(task[p].op, x)]
<1>1. task = [q \in Proc |-> task[q]]
  BY DEF Types
<1>2. PICK o, t : task[p] = Task(o, t)
  BY DEF Types
<1>3. task[p].op = o
  BY <1>2, TaskFields
<1>4. [task[p] EXCEPT !.todo = x] = Task(o, x)
  BY <1>2 DEF Task
<1>5. task' = [task EXCEPT ![p] = [task[p] EXCEPT !.todo = x]]
  BY <1>1
<1>. QED
  BY <1>3, <1>4, <1>5, Zenon

(* A new view of one process leaves the others.                            *)
LEMMA ViewSet ==
  ASSUME Types, NEW p \in Proc, NEW x, view' = [view EXCEPT ![p] = x]
  PROVE  view' = [q \in Proc |-> view'[q]] /\ view'[p] = x /\ \A q \in Proc \ {p} : view'[q] = view[q]
<1>1. view = [q \in Proc |-> view[q]]
  BY DEF Types
<1>. QED
  BY <1>1

(* Nobody but p has the lock, so only the work of p can change.            *)
LEMMA HolderAlone ==
  ASSUME LedgerInv, NEW p \in Proc, task[p] # Idle
  PROVE  view[p] = log /\ \A q \in Proc \ {p} : task[q] = Idle
BY DEF LedgerInv, Lock

(* A step that leaves the store alone keeps what is said of it.            *)
LEMMA StoreKept ==
  ASSUME LedgerInv, UNCHANGED <<log, commits>>, ops' \in Nat, ops <= ops'
  PROVE  /\ Grows /\ Known(log, ops)' /\ ValueOnce' /\ StoreVerifies'
         /\ \A x : Doing(x) => Doing(x)'
         /\ \A t : Plan(t, log, commits, ops) => Plan(t, log, commits, ops)'
<1>1. Grows
  <2>1. IsSeq(log) /\ IsSeq(log')
    BY DEF LedgerInv, Types
  <2>2. Len(log) <= Len(log')
    BY <2>1, SeqFacts
  <2>. QED
    BY <2>1, <2>2 DEF Grows
<1>2. Known(log, ops)'
  BY DEF LedgerInv, Types, Known
<1>3. ValueOnce' /\ StoreVerifies'
  BY DEF LedgerInv, ValueOnce, StoreVerifies
<1>4. \A t : Plan(t, log, commits, ops) => Plan(t, log, commits, ops)'
  BY PlanLater DEF LedgerInv, Types
<1>5. \A x : Doing(x) => Doing(x)'
  BY DEF Doing
<1>. QED
  BY <1>1, <1>2, <1>3, <1>4, <1>5

(* Steps that start, end or drop no operation.                             *)
LEMMA QuietStep ==
  ASSUME LedgerInv, UNCHANGED <<log, commits, task, view>>, ops' \in Nat, ops <= ops',
         \/ UNCHANGED answers
         \/ \E op, status : Answered(op, status) /\ (op \in Request => Says(op, status)')
  PROVE  LedgerInv'
<1>1. Types' /\ Lock'
  BY DEF LedgerInv, Types, Lock
<1>2. Plans' /\ Promises'
  BY StoreKept DEF LedgerInv, Plans, Promises
<1>3. AnswersTrue'
  BY StoreKept, RepliesKeep DEF LedgerInv
<1>. QED
  BY <1>1, <1>2, <1>3, StoreKept DEF LedgerInv

(* The operation of p ends, or p gets one while nobody has the lock.       *)
LEMMA HandOver ==
  ASSUME LedgerInv, UNCHANGED <<log, commits>>, ops' \in Nat, ops <= ops',
         NEW p \in Proc, NEW o, NEW t, task' = [task EXCEPT ![p] = Task(o, t)],
         Task(o, t) # Idle => /\ \A q \in Proc : task[q] = Idle
                              /\ view'[p] = log /\ Doing(Task(o, t)),
         Plan(t, log, commits, ops'),
         view' = view \/ view' = [view EXCEPT ![p] = log],
         \/ UNCHANGED answers
         \/ \E op, status : Answered(op, status) /\ (op \in Request => Says(op, status)')
  PROVE  LedgerInv'
<1>1. /\ task' = [q \in Proc |-> task'[q]] /\ task'[p] = Task(o, t)
      /\ \A q \in Proc \ {p} : task'[q] = task[q]
      /\ \A q \in Proc : \E a, b : task'[q] = Task(a, b)
  BY TaskSet DEF LedgerInv
<1>2. view' = [q \in Proc |-> view'[q]] /\ \A q \in Proc \ {p} : view'[q] = view[q]
  BY ViewSet DEF LedgerInv, Types
<1>3. Types'
  BY <1>1, <1>2 DEF LedgerInv, Types
<1>4. Lock'
  BY <1>1, <1>2 DEF LedgerInv, Lock
<1>5. task'[p].todo = t
  BY <1>1, TaskFields
<1>6. Plans'
  BY <1>1, <1>5, StoreKept DEF LedgerInv, Plans
<1>7. Promises'
  BY <1>1, StoreKept DEF LedgerInv, Promises
<1>8. AnswersTrue'
  BY StoreKept, RepliesKeep DEF LedgerInv
<1>. QED
  BY <1>3, <1>4, <1>6, <1>7, <1>8, StoreKept DEF LedgerInv

(* Lock, refresh, decide.                                                  *)
LEMMA RunStep ==
  ASSUME LedgerInv, NEW p \in Proc, NEW op \in Request \cup Command \cup Payment, Run(p, op),
         task[p] = Idle, UNCHANGED <<log, commits>>,
         ops' = ops + 1 \/ (op \in Request /\ ops' = ops)
  PROVE  LedgerInv'
<1>1. ops \in Nat /\ ops' \in Nat /\ ops <= ops' /\ IsSeq(log) /\ commits \in Seq(Nat)
  BY DEF LedgerInv, Types
<1>2. PICK res : res = Decide(log, ~linked, op, ops)
  OBVIOUS
<1>3. \/ Locked /\ Answered(op, "Internal") /\ UNCHANGED <<view, task>>
      \/ /\ ~Locked /\ view' = [view EXCEPT ![p] = log] /\ res.todo = << >>
         /\ Answered(op, res.status) /\ UNCHANGED task
      \/ /\ ~Locked /\ view' = [view EXCEPT ![p] = log] /\ res.todo # << >>
         /\ task' = [task EXCEPT ![p] = Task(op, res.todo)] /\ UNCHANGED answers
  BY <1>2 DEF Run, refresh_from_disk, Task
<1>4. /\ Plan(res.todo, log, commits, ops + 1)
      /\ op \in Request => Plan(res.todo, log, commits, ops)
      /\ op \in Request /\ res.todo = << >> => Says(op, res.status)
      /\ op \in Request /\ res.todo # << >> => Did(res.todo[Len(res.todo)], op)
  <2>1. Known(log, ops)
    BY DEF LedgerInv
  <2>. QED
    BY <1>1, <1>2, <2>1, Planned DEF Says
<1>5. CASE Locked /\ Answered(op, "Internal") /\ UNCHANGED <<view, task>>
  <2>1. Says(op, "Internal")'
    BY DEF Says
  <2>. QED
    BY <1>1, <1>5, <2>1, QuietStep
<1>6. CASE /\ view' = [view EXCEPT ![p] = log] /\ res.todo = << >>
           /\ Answered(op, res.status) /\ UNCHANGED task
  <2>1. op \in Request => Says(op, res.status)'
    BY <1>4, <1>6 DEF Says
  <2>2. task' = [task EXCEPT ![p] = Task(Nil, << >>)]
    <3>1. task = [q \in Proc |-> task[q]]
      BY DEF LedgerInv, Types
    <3>. QED
      BY <1>6, <3>1, IdleTask
  <2>3. Plan(<< >>, log, commits, ops')
    BY NothingPlanned
  <2>4. \E o, status : Answered(o, status) /\ (o \in Request => Says(o, status)')
    BY <1>6, <2>1
  <2>. QED
    BY <1>1, <1>6, <2>2, <2>3, <2>4, IdleTask, HandOver
<1>7. CASE /\ ~Locked /\ view' = [view EXCEPT ![p] = log] /\ res.todo # << >>
           /\ task' = [task EXCEPT ![p] = Task(op, res.todo)] /\ UNCHANGED answers
  <2>1. \A q \in Proc : task[q] = Idle
    BY <1>7 DEF Locked
  <2>2. view'[p] = log
    BY <1>7, ViewSet DEF LedgerInv
  <2>3. Doing(Task(op, res.todo))
    BY <1>4, <1>7, TaskFields DEF Doing
  <2>4. Plan(res.todo, log, commits, ops')
    BY <1>4
  <2>. QED
    BY <1>1, <1>7, <2>1, <2>2, <2>3, <2>4, HandOver
<1>. QED
  BY <1>3, <1>5, <1>6, <1>7

(* The operation returns, or its process dies.                             *)
LEMMA EndStep ==
  ASSUME LedgerInv, NEW p \in Proc, Finish(p) \/ Crash(p)
  PROVE  LedgerInv'
<1>1. ops \in Nat /\ ops' = ops /\ UNCHANGED <<log, commits>> /\ Idle = Task(Nil, << >>)
  BY IdleTask DEF LedgerInv, Types, Finish, Crash, store_vars
<1>2. task' = [task EXCEPT ![p] = Task(Nil, << >>)] /\ Plan(<< >>, log, commits, ops')
  BY <1>1, NothingPlanned DEF Finish, Crash
<1>3. view' = view \/ view' = [view EXCEPT ![p] = log]
  BY DEF Finish, Crash
<1>4. \/ UNCHANGED answers
      \/ \E op, status : Answered(op, status) /\ (op \in Request => Says(op, status)')
  <2>1. CASE Crash(p)
    BY <2>1 DEF Crash
  <2>2. CASE Finish(p)
    <3>1. PICK o : o = task[p].op
      OBVIOUS
    <3>2. Answered(o, "Applied")
      BY <2>2, <3>1 DEF Finish
    <3>3. o \in Request => Says(o, "Applied")
      BY <2>2, <3>1 DEF Finish, LedgerInv, Promises, Doing, Says
    <3>4. o \in Request => Says(o, "Applied")'
      BY <1>1, <3>3 DEF Says
    <3>. QED
      BY <3>2, <3>4
  <2>. QED
    BY <2>1, <2>2
<1>5. ops' \in Nat /\ ops <= ops'
  BY <1>1
<1>. QED
  BY <1>1, <1>2, <1>3, <1>4, <1>5, HandOver

(* An entry that fits goes to the log of the process that has the lock.    *)
Appends(p, e) ==
  /\ task[p].todo # << >>
  /\ e = [Head(task[p].todo) EXCEPT !.seq = Len(view[p])]
  /\ Appendable(Books(view[p]), Len(view[p]), e)
  /\ log' = Append(log, e)
  /\ view' = [view EXCEPT ![p] = Append(@, e)]
  /\ task' = [task EXCEPT ![p].todo = Tail(@)]
  /\ UNCHANGED <<answers, commits, ops>>

(* Appending the next planned entry keeps the invariant.                   *)
LEMMA AppendStep ==
  ASSUME LedgerInv, NEW p \in Proc, NEW e, Appends(p, e)
  PROVE  LedgerInv'
<1>1. task[p] # Idle
  BY IdleTask DEF Appends
<1>2. view[p] = log /\ \A q \in Proc \ {p} : task[q] = Idle
  BY <1>1, HolderAlone
<1>3. PICK t, o, n : t = task[p].todo /\ o = task[p].op /\ n = Len(log)
  OBVIOUS
<1>4. Plan(t, log, commits, ops) /\ IsSeq(t) /\ t # << >> /\ IsSeq(log) /\ n \in Nat /\ DOMAIN log = 1..n
  BY <1>3, SeqFacts DEF LedgerInv, Plans, Plan, Types, Appends
<1>0. PICK u, m : u = Tail(t) /\ m = Len(t)
  OBVIOUS
<1>5. /\ IsSeq(u) /\ Len(u) = m - 1 /\ m = Len(t) /\ m \in Nat /\ 1 <= m
      /\ \A i \in 1..(m - 1) : u[i] = t[i + 1]
  BY <1>0, <1>4, SeqTail, SeqFacts
<1>6. IsEntry(t[1]) /\ (Value(t[1]) => m = 1) /\ Fresh(t[1], log, ops)
  BY <1>4, <1>5 DEF Plan
<1>7. e.body = t[1].body /\ e.child = t[1].child /\ e.amount = t[1].amount /\ e.nonce = t[1].nonce
  <2>1. Head(task[p].todo) = t[1]
    BY <1>3, <1>4, SeqTail
  <2>. QED
    BY <1>6, <2>1, EntryNumbered DEF Appends
<1>8. /\ IsSeq(log') /\ Len(log') = n + 1 /\ log'[n + 1] = e /\ DOMAIN log' = 1..(n + 1)
      /\ \A i \in 1..n : log'[i] = log[i]
  BY <1>3, <1>4, SeqAppend, SeqFacts DEF Appends
<1>9. \A i \in 1..(n + 1) : i \in 1..n \/ i = n + 1
  BY <1>4
<1>10. task' = [task EXCEPT ![p] = Task(o, u)]
  <2>1. task' = [task EXCEPT ![p].todo = u]
    BY <1>0, <1>3 DEF LedgerInv, Types, Appends
  <2>. QED
    BY <1>3, <2>1, TodoNext DEF LedgerInv
<1>11. /\ task' = [q \in Proc |-> task'[q]] /\ task'[p] = Task(o, u)
       /\ \A q \in Proc \ {p} : task'[q] = Idle
       /\ \A q \in Proc : \E a, b : task'[q] = Task(a, b)
  <2>1. Types
    BY DEF LedgerInv
  <2>2. /\ task' = [q \in Proc |-> task'[q]] /\ task'[p] = Task(o, u)
        /\ \A q \in Proc \ {p} : task'[q] = task[q]
        /\ \A q \in Proc : \E a, b : task'[q] = Task(a, b)
    BY <1>10, <2>1, TaskSet, Zenon
  <2>. QED
    BY <1>2, <2>2, Zenon
<1>12. view' = [q \in Proc |-> view'[q]] /\ view'[p] = log'
  BY <1>2 DEF LedgerInv, Types, Appends
<1>13. Types'
  BY <1>8, <1>11, <1>12 DEF LedgerInv, Types, Appends
<1>14. Lock'
  BY <1>11, <1>12 DEF Lock
<1>15. Plan(u, log, commits, ops)'
  <2>1. ASSUME NEW i \in 1..(m - 1)
        PROVE  /\ IsEntry(t[i + 1]) /\ (Value(t[i + 1]) \/ t[i + 1].body = "Commit" => i = m - 1)
               /\ Fresh(t[i + 1], log', ops) /\ Climbs(t[i + 1], log', commits)
    <3>0. i \in Nat /\ 1 <= i /\ i <= m - 1
      BY <1>5
    <3>1. i + 1 \in 1..m /\ m # 1
      BY <1>5, <3>0
    <3>2. /\ IsEntry(t[i + 1]) /\ (Value(t[i + 1]) \/ t[i + 1].body = "Commit" => i + 1 = m)
          /\ Fresh(t[i + 1], log, ops) /\ Climbs(t[i + 1], log, commits)
      BY <1>4, <1>5, <3>1 DEF Plan
    <3>3. ~Value(e)
      BY <1>6, <1>7, <3>1 DEF Value
    <3>4. Fresh(t[i + 1], log', ops)
      BY <1>8, <1>9, <3>2, <3>3, <1>3 DEF Fresh
    <3>5. Climbs(t[i + 1], log', commits)
      BY <1>3, <1>4, <1>8, <3>2 DEF Climbs
    <3>6. Value(t[i + 1]) \/ t[i + 1].body = "Commit" => i = m - 1
      BY <1>5, <3>0, <3>2
    <3>. QED
      BY <3>2, <3>4, <3>5, <3>6
  <2>. QED
    BY <1>5, <2>1 DEF Plan, Appends
<1>16. Plans'
  <2>1. task'[p].todo = u
    <3>1. task'[p] = Task(o, u)
      BY <1>11, Zenon
    <3>2. Task(o, u).todo = u
      BY TaskFields
    <3>. QED
      BY <3>1, <3>2, Zenon
  <2>2. \A q \in Proc \ {p} : task'[q].todo = << >>
    BY <1>11, IdleTask
  <2>3. Plan(<< >>, log, commits, ops)'
    BY NothingPlanned
  <2>. QED
    BY <1>15, <2>1, <2>2, <2>3 DEF Plans
<1>17. Promises'
  <2>1. Doing(Task(o, u))'
    <3>1. SUFFICES ASSUME o \in Request, ~\E i \in 1..(n + 1) : Did(log'[i], o)
                   PROVE  u # << >> /\ Did(u[Len(u)], o)
      BY <1>8, TaskFields DEF Doing
    <3>2. n + 1 \in 1..(n + 1) /\ \A i \in 1..n : i \in 1..(n + 1)
      BY <1>4
    <3>3. ~\E i \in 1..n : Did(log[i], o)
      BY <1>8, <3>1, <3>2
    <3>4. Did(t[m], o)
      BY <1>1, <1>3, <1>5, <3>1, <3>3 DEF LedgerInv, Promises, Doing
    <3>5. ~Did(e, o)
      BY <1>8, <3>1, <3>2
    <3>6. m # 1
      BY <1>7, <3>4, <3>5 DEF Did
    <3>7. m - 1 \in 1..(m - 1) /\ Len(u) # 0
      BY <1>5, <3>6
    <3>8. u[Len(u)] = t[m]
      BY <1>5, <3>7
    <3>. QED
      BY <1>5, <3>4, <3>7, <3>8, SeqFacts
  <2>. QED
    BY <1>11, <2>1 DEF Promises
<1>18. Known(log, ops)'
  BY <1>3, <1>6, <1>7, <1>8, <1>9 DEF LedgerInv, Known, Fresh, Value, Appends
<1>19. ValueOnce'
  <2>1. \A i \in 1..n : Value(log[i]) /\ Value(e) => log[i].nonce # e.nonce
    BY <1>3, <1>6, <1>7 DEF Fresh, Value
  <2>2. \A i, j \in 1..n : Value(log[i]) /\ Value(log[j]) /\ log[i].nonce = log[j].nonce => i = j
    BY <1>4 DEF LedgerInv, ValueOnce, Value
  <2>3. \A i, j \in 1..(n + 1) : Value(log'[i]) /\ Value(log'[j]) /\ log'[i].nonce = log'[j].nonce => i = j
    BY <1>8, <1>9, <2>1, <2>2
  <2>. QED
    BY <1>8, <2>3 DEF ValueOnce, Value
<1>20. StoreVerifies'
  <2>1. \A i \in 1..n : Appendable(Books(SubSeq(log, 1, i - 1)), i - 1, log[i])
    BY <1>4 DEF LedgerInv, StoreVerifies
  <2>2. \A i \in 1..(n + 1) : Appendable(Books(SubSeq(log', 1, i - 1)), i - 1, log'[i])
    <3>1. SUFFICES ASSUME NEW i \in 1..(n + 1)
                   PROVE  Appendable(Books(SubSeq(log', 1, i - 1)), i - 1, log'[i])
      OBVIOUS
    <3>2. CASE i = n + 1
      <4>1. SubSeq(log', 1, i - 1) = log /\ i - 1 = n
        BY <1>3, <1>4, <3>2, SeqPrefix DEF Appends
      <4>. QED
        BY <1>2, <1>3, <1>8, <3>2, <4>1 DEF Appends
    <3>3. CASE i \in 1..n
      <4>1. i - 1 \in Nat /\ i - 1 <= n
        BY <1>4, <3>3
      <4>2. SubSeq(log', 1, i - 1) = SubSeq(log, 1, i - 1)
        BY <1>3, <1>4, <4>1, SeqPrefix DEF Appends
      <4>. QED
        BY <1>8, <2>1, <3>3, <4>2
    <3>. QED
      BY <1>9, <3>2, <3>3
  <2>3. \A i \in DOMAIN commits : commits[i] <= n + 1
    <3>1. \A i \in DOMAIN commits : commits[i] \in Nat /\ commits[i] <= n
      BY <1>3 DEF LedgerInv, Types, StoreVerifies
    <3>. QED
      BY <1>4, <3>1
  <2>. QED
    BY <1>8, <2>2, <2>3 DEF LedgerInv, StoreVerifies, Appends
<1>21. AnswersTrue'
  <2>1. Grows
    BY <1>3, <1>4, <1>8 DEF Grows
  <2>. QED
    BY <2>1, RepliesKeep DEF LedgerInv, Appends
<1>. QED
  BY <1>13, <1>14, <1>16, <1>17, <1>18, <1>19, <1>20, <1>21 DEF LedgerInv

(* A commitment is the last thing its operation does.                      *)
LEMMA CommitStep ==
  ASSUME LedgerInv, NEW p \in Proc, AppendCommitment(p)
  PROVE  LedgerInv'
<1>1. task[p] # Idle
  BY IdleTask DEF AppendCommitment
<1>2. view[p] = log /\ \A q \in Proc \ {p} : task[q] = Idle
  BY <1>1, HolderAlone
<1>3. PICK t, o, x : t = task[p].todo /\ o = task[p].op /\ x = Head(t)
  OBVIOUS
<1>4. Plan(t, log, commits, ops) /\ IsSeq(t) /\ t # << >> /\ x.body = "Commit"
  BY <1>3 DEF LedgerInv, Plans, Plan, AppendCommitment
<1>5. x = t[1] /\ Len(t) \in Nat /\ 1 <= Len(t)
  BY <1>3, <1>4, SeqTail, SeqFacts
<1>6. Len(t) = 1 /\ Climbs(x, log, commits)
  BY <1>4, <1>5 DEF Plan
<1>7. Tail(t) = << >>
  <2>1. PICK u : u = Tail(t)
    OBVIOUS
  <2>2. IsSeq(u) /\ Len(u) = Len(t) - 1
    BY <1>4, <2>1, SeqTail
  <2>3. u = << >>
    BY <1>6, <2>2, SeqFacts
  <2>. QED
    BY <2>1, <2>3, Zenon
<1>8. task' = [task EXCEPT ![p] = Task(o, << >>)]
  <2>1. task' = [task EXCEPT ![p].todo = << >>]
    BY <1>3, <1>7 DEF AppendCommitment, LedgerInv, Types
  <2>. QED
    BY <1>3, <2>1, TodoNext DEF LedgerInv
<1>9. /\ task' = [q \in Proc |-> task'[q]] /\ task'[p] = Task(o, << >>)
      /\ \A q \in Proc \ {p} : task'[q] = task[q]
      /\ \A q \in Proc : \E a, b : task'[q] = Task(a, b)
  BY <1>8, TaskSet DEF LedgerInv
<1>10. UNCHANGED <<log, view, answers, ops>> /\ commits' = Append(commits, x.amount)
  BY <1>3 DEF AppendCommitment
<1>11. x.amount \in Nat /\ x.amount <= Len(log) /\ (commits # << >> => commits[Len(commits)] < x.amount)
  BY <1>4, <1>6 DEF Climbs
<1>12. Types'
  BY <1>9, <1>10, <1>11 DEF LedgerInv, Types
<1>13. Lock'
  BY <1>2, <1>9, <1>10 DEF LedgerInv, Lock
<1>14. Plans'
  <2>1. \A q \in Proc : task'[q].todo = << >>
    BY <1>2, <1>9, TaskFields, IdleTask
  <2>2. Plan(<< >>, log, commits, ops)'
    BY NothingPlanned
  <2>. QED
    BY <2>1, <2>2 DEF Plans
<1>15. Promises'
  <2>1. Doing(Task(o, << >>))'
    <3>1. SUFFICES ASSUME o \in Request PROVE \E i \in 1..Len(log) : Did(log[i], o)
      BY <1>10, TaskFields DEF Doing
    <3>2. o.kind # "Commit"
      BY <3>1, OperationAssumption
    <3>3. ~Did(t[Len(t)], o)
      BY <1>4, <1>5, <1>6, <3>2 DEF Did
    <3>. QED
      BY <1>1, <1>3, <3>1, <3>3 DEF LedgerInv, Promises, Doing
  <2>. QED
    BY <1>2, <1>9, <2>1 DEF Promises
<1>16. StoreVerifies'
  <2>. DEFINE n == Len(commits)
  <2>1. commits \in Seq(Nat) /\ n \in Nat
    BY DEF LedgerInv, Types
  <2>2. /\ Len(commits') = n + 1 /\ DOMAIN commits' = 1..(n + 1) /\ commits'[n + 1] = x.amount
        /\ \A i \in 1..n : commits'[i] = commits[i]
    BY <1>10, <1>11, <2>1, AppendProperties
  <2>3. \A i \in 1..n : commits[i] <= Len(log) /\ (i > 1 => commits[i - 1] < commits[i])
    BY <2>1 DEF LedgerInv, StoreVerifies
  <2>4. n # 0 => commits[n] < x.amount
    BY <1>11, <2>1
  <2>. HIDE DEF n
  <2>5. ASSUME NEW i \in 1..(n + 1)
        PROVE  commits'[i] <= Len(log) /\ (i > 1 => commits'[i - 1] < commits'[i])
    <3>1. CASE i = n + 1
      BY <1>11, <2>1, <2>2, <2>4, <3>1
    <3>2. CASE i \in 1..n
      BY <2>1, <2>2, <2>3, <3>2
    <3>. QED
      BY <2>1, <3>1, <3>2
  <2>. QED
    BY <1>10, <2>2, <2>5 DEF LedgerInv, StoreVerifies
<1>17. Known(log, ops)' /\ ValueOnce' /\ AnswersTrue'
  BY <1>10 DEF LedgerInv, Known, ValueOnce, AnswersTrue
<1>. QED
  BY <1>12, <1>13, <1>14, <1>15, <1>16, <1>17 DEF LedgerInv

(* The invariant holds initially.                                          *)
LEMMA InitLedger == Init => LedgerInv
<1>. SUFFICES ASSUME Init PROVE LedgerInv
  OBVIOUS
<1>1. Len(log) = 0 /\ IsSeq(log) /\ DOMAIN log = {} /\ commits \in Seq(Nat) /\ DOMAIN commits = {}
  BY SeqEmpty, EmptySeq DEF Init
<1>2. \A p \in Proc : task[p] = Idle
  BY DEF Init
<1>3. Types
  BY <1>1, <1>2, IdleTask DEF Init, Types
<1>4. Lock /\ Promises
  BY <1>2 DEF Lock, Promises
<1>5. Plans
  BY <1>2, IdleTask, NothingPlanned DEF Plans
<1>6. Known(log, ops)
  BY <1>1 DEF Known
<1>7. ValueOnce /\ StoreVerifies /\ AnswersTrue
  BY <1>1 DEF Init, ValueOnce, StoreVerifies, AnswersTrue
<1>. QED
  BY <1>3, <1>4, <1>5, <1>6, <1>7 DEF LedgerInv

(* Every step keeps the invariant.                                         *)
LEMMA StepLedger == LedgerInv /\ [Next]_vars => LedgerInv'
<1>. SUFFICES ASSUME LedgerInv, [Next]_vars PROVE LedgerInv'
  OBVIOUS
<1>0. ops \in Nat
  BY DEF LedgerInv, Types
<1>1. CASE UNCHANGED vars
  BY <1>0, <1>1, QuietStep DEF vars
<1>2. ASSUME NEW r \in Request, prepare_admin_value(r) PROVE LedgerInv'
  <2>1. ops' \in Nat /\ ops <= ops' /\ UNCHANGED <<log, commits, task, view>>
    BY <1>0, <1>2 DEF prepare_admin_value, store_vars
  <2>2. PICK st : st = IF r.amount = 0 THEN "BadRequest" ELSE "NotFound"
    OBVIOUS
  <2>3. UNCHANGED answers \/ Answered(r, st)
    BY <1>2, <2>2 DEF prepare_admin_value
  <2>4. Says(r, st)'
    BY <2>2 DEF Says
  <2>. QED
    BY <2>1, <2>3, <2>4, QuietStep
<1>3. ASSUME NEW r \in Request, execute_ledger_mutation(r) PROVE LedgerInv'
  BY <1>3, RunStep DEF execute_ledger_mutation, store_vars, Proc
<1>4. ASSUME NEW t \in Payment, RunPayment(t) PROVE LedgerInv'
  BY <1>4, RunStep DEF RunPayment, store_vars, Proc
<1>5. ASSUME NEW c \in Command, RunCommand(c) PROVE LedgerInv'
  BY <1>5, RunStep DEF RunCommand, store_vars, Proc
<1>6. ASSUME NEW p \in Proc, AppendEntry(p) PROVE LedgerInv'
  <2>1. PICK e : e = [Head(task[p].todo) EXCEPT !.seq = Len(view[p])]
    OBVIOUS
  <2>2. CASE Appendable(Books(view[p]), Len(view[p]), e)
    <3>1. Appends(p, e)
      BY <1>6, <2>1, <2>2 DEF AppendEntry, Appends
    <3>. QED
      BY <3>1, AppendStep
  <2>3. CASE ~Appendable(Books(view[p]), Len(view[p]), e)
    <3>1. /\ task' = [task EXCEPT ![p] = Idle] /\ Answered(task[p].op, "Internal")
          /\ UNCHANGED <<log, view, commits, ops>>
      BY <1>6, <2>1, <2>3 DEF AppendEntry
    <3>2. Idle = Task(Nil, << >>) /\ Plan(<< >>, log, commits, ops') /\ ops' \in Nat /\ ops <= ops'
      BY <1>0, <3>1, IdleTask, NothingPlanned
    <3>3. PICK o : o = task[p].op
      OBVIOUS
    <3>4. Answered(o, "Internal") /\ Says(o, "Internal")'
      BY <3>1, <3>3 DEF Says
    <3>. QED
      BY <3>1, <3>2, <3>4, HandOver
  <2>. QED
    BY <2>2, <2>3
<1>7. ASSUME NEW p \in Proc, AppendCommitment(p) \/ Finish(p) \/ Crash(p) PROVE LedgerInv'
  BY <1>7, CommitStep, EndStep
<1>8. CASE MoveRecord
  BY <1>0, <1>8, QuietStep DEF MoveRecord, store_vars
<1>. QED
  BY <1>1, <1>2, <1>3, <1>4, <1>5, <1>6, <1>7, <1>8 DEF Next

(* The invariant always holds.                                             *)
LEMMA LedgerInvariance == Spec => []LedgerInv
<1>. QED
  BY InitLedger, StepLedger, PTL DEF Spec
-----------------------------------------------------------------------------
(* The ledger replays (open_ledger, verify_chain), whatever the node and   *)
(* the operator commands interleave and wherever a process crashes: every  *)
(* entry passes the check of append again at its place, and commitments    *)
(* climb within the log.                                                   *)
THEOREM StoreReplays == Spec => []StoreVerifies
<1>1. LedgerInv => StoreVerifies
  BY DEF LedgerInv
<1>. QED
  BY <1>1, LedgerInvariance, PTL

(* A delegated request changes value once (admin_value_apply), however     *)
(* often it is retried after a crash, a lost reply or a contended lock.    *)
THEOREM RequestOnce == Spec => []ValueOnce
<1>1. LedgerInv => ValueOnce
  BY DEF LedgerInv
<1>. QED
  BY <1>1, LedgerInvariance, PTL

(* The reply to a delegated request is true of the log when it is given    *)
(* and ever after: what it calls applied or duplicate is an entry with the *)
(* request's parameters, and a conflict is one with others.                *)
THEOREM RepliesTrue == Spec => []AnswersTrue
<1>1. LedgerInv => AnswersTrue
  BY DEF LedgerInv
<1>. QED
  BY <1>1, LedgerInvariance, PTL

-----------------------------------------------------------------------------
(***************************************************************************)
(* Sums. SumOver takes the elements of a set in an order of its own; the   *)
(* lemmas show that there is such a sum of every finite set and that the   *)
(* order does not matter.                                                  *)
(***************************************************************************)
(* A nonempty set of naturals has a least element.                         *)
LEMMA LeastNat ==
  ASSUME NEW T \in SUBSET Nat, T # {}
  PROVE  \E x \in T : \A y \in T : x <= y
<1>1. \E x \in T : \A y \in T : ~(<<y, x>> \in OpToRel(<, Nat))
  BY NatLessThanWellFounded, WFMin, Zenon
<1>2. \E x \in T : \A y \in T : ~(y < x)
  BY <1>1, Zenon DEF OpToRel
<1>. QED
  BY <1>2

Some(s) == CHOOSE x \in s : TRUE

(* A set of terms is finite, and the terms are integers.                   *)
Terms(f, S) == IsFiniteSet(S) /\ \A x \in S : f[x] \in Int

(* What a table g of the sums of all subsets of S says of one of them.     *)
SumStep(f, g, s) == IF s = {} THEN 0 ELSE f[Some(s)] + g[s \ {Some(s)}]

SumTable(f, S, g) == g = [ s \in SUBSET S |-> SumStep(f, g, s) ]

(* Taking an element away makes a set smaller.                             *)
LEMMA Smaller ==
  ASSUME NEW S, IsFiniteSet(S), NEW x \in S
  PROVE  /\ IsFiniteSet(S \ {x}) /\ Cardinality(S \ {x}) \in Nat /\ Cardinality(S) \in Nat
         /\ Cardinality(S \ {x}) < Cardinality(S)
<1>1. IsFiniteSet(S \ {x}) /\ Cardinality(S \ {x}) = Cardinality(S) - 1
  BY FS_RemoveElement
<1>. QED
  BY <1>1, FS_CardinalityType

(* A set that is not empty has some element.                               *)
LEMMA SomeIn == ASSUME NEW s, s # {} PROVE Some(s) \in s
  BY DEF Some

(* A table that is right for sets of up to k elements, and a better one.   *)
Partly(f, S, g, k) == \A s \in SUBSET S : Cardinality(s) <= k => g[s] = SumStep(f, g, s)

Improved(f, S, g) == [ s \in SUBSET S |-> SumStep(f, g, s) ]

(* A part of a finite set is finite and not larger.                        *)
LEMMA SubFinite ==
  ASSUME NEW S, IsFiniteSet(S), NEW s \in SUBSET S
  PROVE  IsFiniteSet(s) /\ Cardinality(s) \in Nat /\ Cardinality(s) <= Cardinality(S)
  BY FS_Subset, FS_CardinalityType

(* Improving a table makes it right for one more element.                  *)
LEMMA PartlyNext ==
  ASSUME NEW f, NEW S, IsFiniteSet(S), NEW g, NEW k \in Int, Partly(f, S, g, k)
  PROVE  Partly(f, S, Improved(f, S, g), k + 1)
<1>1. PICK h : h = Improved(f, S, g)
  OBVIOUS
<1>2. \A s \in SUBSET S : h[s] = SumStep(f, g, s)
  BY <1>1 DEF Improved
<1>3. ASSUME NEW s \in SUBSET S, Cardinality(s) <= k + 1
      PROVE  h[s] = SumStep(f, h, s)
  <2>1. CASE s = {}
    BY <1>2, <2>1 DEF SumStep
  <2>2. CASE s # {}
    <3>1. PICK r : r = s \ {Some(s)}
      OBVIOUS
    <3>2. r \in SUBSET S /\ Cardinality(r) <= k
      <4>1. Some(s) \in s
        BY <2>2, SomeIn
      <4>2. IsFiniteSet(s)
        BY SubFinite
      <4>3. Cardinality(r) \in Nat /\ Cardinality(s) \in Nat /\ Cardinality(r) < Cardinality(s)
        BY <3>1, <4>1, <4>2, Smaller
      <4>. QED
        BY <1>3, <3>1, <4>3
    <3>3. h[r] = g[r]
      BY <1>2, <3>2 DEF Partly
    <3>. QED
      BY <1>2, <2>2, <3>1, <3>3 DEF SumStep
  <2>. QED
    BY <2>1, <2>2
<1>. QED
  BY <1>1, <1>3 DEF Partly

(* So there is a table that is right for all subsets of a finite set.      *)
LEMMA TableExists ==
  ASSUME NEW f, NEW S, IsFiniteSet(S)
  PROVE  \E g : SumTable(f, S, g)
<1>. DEFINE T == { k \in Nat : ~\E g : Partly(f, S, g, k) }
<1>1. T = {}
  <2>. SUFFICES ASSUME T # {} PROVE FALSE
    OBVIOUS
  <2>1. PICK k \in T : \A m \in T : k <= m
    <3>. T \in SUBSET Nat
      OBVIOUS
    <3>. HIDE DEF T
    <3>. QED
      BY LeastNat
  <2>2. PICK m \in Int : m = k - 1
    OBVIOUS
  <2>3. \E g : Partly(f, S, g, m)
    <3>1. CASE k = 0
      <4>1. \A s \in SUBSET S : ~(Cardinality(s) <= m)
        BY <2>2, <3>1, SubFinite
      <4>. QED
        BY <4>1 DEF Partly
    <3>2. CASE k # 0
      <4>1. m \in Nat /\ m \notin T
        BY <2>1, <2>2, <3>2
      <4>. QED
        BY <4>1
    <3>. QED
      BY <3>1, <3>2
  <2>4. PICK g : Partly(f, S, g, m)
    BY <2>3
  <2>5. Partly(f, S, Improved(f, S, g), m + 1)
    BY <2>4, PartlyNext
  <2>. QED
    BY <2>1, <2>2, <2>5
<1>2. PICK n \in Nat : n = Cardinality(S)
  BY FS_CardinalityType
<1>3. PICK g : Partly(f, S, g, n)
  BY <1>1
<1>4. PICK h : h = Improved(f, S, g)
  OBVIOUS
<1>5. Partly(f, S, h, n + 1)
  BY <1>3, <1>4, PartlyNext
<1>6. \A s \in SUBSET S : h[s] = SumStep(f, h, s)
  BY <1>2, <1>5, SubFinite DEF Partly
<1>7. h = [ s \in SUBSET S |-> h[s] ]
  BY <1>4 DEF Improved
<1>. QED
  BY <1>6, <1>7 DEF SumTable

(* SumOver reads a table.                                                  *)
LEMMA SumIsTable ==
  ASSUME NEW f, NEW S, IsFiniteSet(S)
  PROVE  \E g : SumTable(f, S, g) /\ SumOver(f, S) = g[S]
<1>1. PICK g : g = CHOOSE h : SumTable(f, S, h)
  OBVIOUS
<1>2. SumTable(f, S, g)
  BY <1>1, TableExists
<1>3. SumOver(f, S) = (CHOOSE h : h = [ s \in SUBSET S |-> IF s = {} THEN 0 ELSE f[CHOOSE x \in s : TRUE] + h[s \ {CHOOSE x \in s : TRUE}] ])[S]
  BY DEF SumOver, MapThenSumSet, MapThenFoldSet
<1>4. SumOver(f, S) = (CHOOSE h : SumTable(f, S, h))[S]
  BY <1>3 DEF SumTable, SumStep, Some
<1>. QED
  BY <1>1, <1>2, <1>4

(* Two tables agree on the sets both have, if the terms are the same.      *)
LEMMA TablesAgree ==
  ASSUME NEW f, NEW g, NEW S, NEW T, NEW a, NEW b,
         IsFiniteSet(S), SumTable(f, S, a), SumTable(g, T, b),
         NEW s \in SUBSET S, s \in SUBSET T, \A x \in s : f[x] = g[x]
  PROVE  a[s] = b[s]
<1>. DEFINE D(k) == \E r \in SUBSET s : Cardinality(r) = k /\ a[r] # b[r]
            B == { k \in Nat : D(k) }
<1>1. \A r \in SUBSET s : a[r] = SumStep(f, a, r) /\ b[r] = SumStep(g, b, r)
  BY DEF SumTable
<1>2. B = {}
  <2>. SUFFICES ASSUME B # {} PROVE FALSE
    OBVIOUS
  <2>1. PICK k \in B : \A m \in B : k <= m
    <3>. B \in SUBSET Nat
      OBVIOUS
    <3>. HIDE DEF B
    <3>. QED
      BY LeastNat
  <2>2. PICK r \in SUBSET s : Cardinality(r) = k /\ a[r] # b[r]
    BY <2>1
  <2>3. r # {}
    BY <1>1, <2>2 DEF SumStep
  <2>4. PICK q : q = r \ {Some(r)}
    OBVIOUS
  <2>5. Some(r) \in r
    BY <2>3, SomeIn
  <2>6. q \in SUBSET s /\ Cardinality(q) \in Nat /\ Cardinality(q) < k
    <3>1. IsFiniteSet(r)
      BY SubFinite
    <3>. QED
      BY <2>2, <2>4, <2>5, <3>1, Smaller
  <2>7. a[q] = b[q]
    <3>1. PICK m \in Nat : m = Cardinality(q)
      BY <2>6
    <3>2. m \notin B
      BY <2>1, <2>6, <3>1
    <3>. QED
      BY <2>6, <3>1, <3>2
  <2>8. f[Some(r)] = g[Some(r)]
    BY <2>5
  <2>. QED
    BY <1>1, <2>2, <2>3, <2>4, <2>7, <2>8 DEF SumStep
<1>3. PICK n \in Nat : n = Cardinality(s)
  BY SubFinite
<1>4. ~D(n)
  BY <1>2
<1>. QED
  BY <1>3, <1>4

(* A sum takes one element of its set and adds the sum of the others.      *)
LEMMA SumStart ==
  ASSUME NEW f, NEW S, Terms(f, S)
  PROVE  /\ S = {} => SumOver(f, S) = 0
         /\ S # {} => SumOver(f, S) = f[Some(S)] + SumOver(f, S \ {Some(S)})
<1>1. PICK a : SumTable(f, S, a) /\ SumOver(f, S) = a[S]
  BY SumIsTable DEF Terms
<1>2. a[S] = SumStep(f, a, S)
  BY <1>1 DEF SumTable
<1>3. ASSUME S # {} PROVE SumOver(f, S) = f[Some(S)] + SumOver(f, S \ {Some(S)})
  <2>1. PICK T : T = S \ {Some(S)}
    OBVIOUS
  <2>2. Some(S) \in S
    BY <1>3, SomeIn
  <2>3. IsFiniteSet(T) /\ T \in SUBSET S
    BY <2>1, <2>2, Smaller DEF Terms
  <2>4. PICK b : SumTable(f, T, b) /\ SumOver(f, T) = b[T]
    BY <2>3, SumIsTable
  <2>5. a[T] = b[T]
    <3>1. IsFiniteSet(S) /\ T \in SUBSET T
      BY DEF Terms
    <3>. QED
      BY <1>1, <2>3, <2>4, <3>1, TablesAgree
  <2>. QED
    BY <1>1, <1>2, <1>3, <2>1, <2>4, <2>5 DEF SumStep
<1>. QED
  BY <1>1, <1>2, <1>3 DEF SumStep

(* Only the terms of the set matter.                                       *)
LEMMA SumSame ==
  ASSUME NEW f, NEW g, NEW S, IsFiniteSet(S), \A x \in S : f[x] = g[x]
  PROVE  SumOver(f, S) = SumOver(g, S)
<1>1. PICK a : SumTable(f, S, a) /\ SumOver(f, S) = a[S]
  BY SumIsTable
<1>2. PICK b : SumTable(g, S, b) /\ SumOver(g, S) = b[S]
  BY SumIsTable
<1>3. S \in SUBSET S
  OBVIOUS
<1>4. a[S] = b[S]
  BY <1>1, <1>2, <1>3, TablesAgree
<1>. QED
  BY <1>1, <1>2, <1>4

(* What a set of terms says of its sum, in whatever order it is taken.     *)
Sums(f, S) ==
  /\ SumOver(f, S) \in Int
  /\ \A x \in S : SumOver(f, S) = f[x] + SumOver(f, S \ {x})

(* Any element may be taken first: otherwise there is a smallest set of    *)
(* which this is not so, and taking two of its elements in either order    *)
(* leaves the same smaller set.                                            *)
LEMMA SumAny ==
  ASSUME NEW f, NEW S, Terms(f, S)
  PROVE  Sums(f, S)
<1>. DEFINE D(k) == \E r \in SUBSET S : Cardinality(r) = k /\ ~Sums(f, r)
            B == { k \in Nat : D(k) }
<1>0. IsFiniteSet(S)
  BY DEF Terms
<1>1. B = {}
  <2>. SUFFICES ASSUME B # {} PROVE FALSE
    OBVIOUS
  <2>1. PICK k \in B : \A m \in B : k <= m
    <3>. B \in SUBSET Nat
      OBVIOUS
    <3>. HIDE DEF B
    <3>. QED
      BY LeastNat
  <2>2. PICK r \in SUBSET S : Cardinality(r) = k /\ ~Sums(f, r)
    BY <2>1
  <2>3. IsFiniteSet(r) /\ \A x \in r : f[x] \in Int
    BY <1>0, SubFinite DEF Terms
  <2>4. ASSUME NEW x \in r
        PROVE  Sums(f, r \ {x})
    <3>1. PICK q : q = r \ {x}
      OBVIOUS
    <3>2. q \in SUBSET S /\ Cardinality(q) \in Nat /\ Cardinality(q) < k
      BY <2>2, <2>3, <3>1, Smaller
    <3>3. PICK m \in Nat : m = Cardinality(q)
      BY <3>2
    <3>4. m \notin B
      BY <2>1, <3>2, <3>3
    <3>. QED
      BY <3>1, <3>2, <3>3, <3>4
  <2>6. SumOver(f, r) \in Int
    <3>0. (r = {} => SumOver(f, r) = 0)
          /\ (r # {} => SumOver(f, r) = f[Some(r)] + SumOver(f, r \ {Some(r)}))
      BY <2>3, SumStart DEF Terms
    <3>1. CASE r = {}
      <4>1. 0 \in Int
        OBVIOUS
      <4>2. PICK z : z = SumOver(f, r)
        OBVIOUS
      <4>. QED
        BY <3>0, <3>1, <4>1, <4>2, Zenon
    <3>2. CASE r # {}
      <4>1. Some(r) \in r
        BY <3>2, SomeIn
      <4>2. SumOver(f, r \ {Some(r)}) \in Int
        BY <2>4, <4>1 DEF Sums
      <4>3. SumOver(f, r) = f[Some(r)] + SumOver(f, r \ {Some(r)})
        BY <2>3, <3>2, SumStart DEF Terms
      <4>. QED
        BY <2>3, <4>1, <4>2, <4>3
    <3>. QED
      BY <3>1, <3>2
  <2>7. ASSUME NEW x \in r
        PROVE  SumOver(f, r) = f[x] + SumOver(f, r \ {x})
    <3>1. PICK y : y = Some(r)
      OBVIOUS
    <3>2. y \in r
      <4>1. r # {}
        OBVIOUS
      <4>. QED
        BY <3>1, <4>1, SomeIn
    <3>3. SumOver(f, r) = f[y] + SumOver(f, r \ {y})
      BY <2>3, <3>1, SumStart DEF Terms
    <3>4. CASE x = y
      BY <3>3, <3>4
    <3>5. CASE x # y
      <4>1. PICK z : z = SumOver(f, (r \ {y}) \ {x})
        OBVIOUS
      <4>2. (r \ {x}) \ {y} = (r \ {y}) \ {x} /\ x \in r \ {y} /\ y \in r \ {x}
        BY <3>2, <3>5
      <4>3. Sums(f, r \ {x}) /\ Sums(f, r \ {y})
        BY <2>4, <3>2
      <4>4. SumOver(f, r \ {y}) = f[x] + z
        BY <4>1, <4>2, <4>3 DEF Sums
      <4>5. SumOver(f, r \ {x}) = f[y] + z
        BY <4>1, <4>2, <4>3 DEF Sums
      <4>6. f[x] \in Int /\ f[y] \in Int /\ z \in Int
        <5>2. PICK w : w = r \ {y}
          OBVIOUS
        <5>3. PICK q : q = w \ {x}
          OBVIOUS
        <5>4. q \in SUBSET S /\ Cardinality(q) \in Nat /\ Cardinality(q) < k
          <6>1. IsFiniteSet(w) /\ Cardinality(w) \in Nat /\ Cardinality(w) < Cardinality(r)
            BY <2>3, <3>2, <5>2, Smaller
          <6>2. x \in w
            BY <4>2, <5>2
          <6>3. Cardinality(q) \in Nat /\ Cardinality(q) < Cardinality(w)
            BY <5>3, <6>1, <6>2, Smaller
          <6>4. k \in Nat /\ Cardinality(r) = k
            BY <2>2
          <6>. QED
            BY <5>2, <5>3, <6>1, <6>3, <6>4
        <5>5. PICK m \in Nat : m = Cardinality(q)
          BY <5>4
        <5>6. m \notin B
          BY <2>1, <5>4, <5>5
        <5>7. Sums(f, q)
          BY <5>4, <5>5, <5>6
        <5>. QED
          BY <2>3, <3>2, <4>1, <5>2, <5>3, <5>7 DEF Sums
      <4>. QED
        BY <3>3, <4>4, <4>5, <4>6
    <3>. QED
      BY <3>4, <3>5
  <2>. QED
    BY <2>2, <2>6, <2>7 DEF Sums
<1>2. PICK n \in Nat : n = Cardinality(S)
  BY <1>0, FS_CardinalityType
<1>3. ~D(n)
  BY <1>1
<1>. QED
  BY <1>2, <1>3

(* Adding a term adds it to the sum.                                       *)
LEMMA SumAdd ==
  ASSUME NEW f, NEW S, Terms(f, S), NEW x, x \notin S, f[x] \in Int
  PROVE  Terms(f, S \cup {x}) /\ SumOver(f, S \cup {x}) = SumOver(f, S) + f[x]
<1>1. PICK T : T = S \cup {x}
  OBVIOUS
<1>2. Terms(f, T)
  BY <1>1, FS_AddElement DEF Terms
<1>3. x \in T /\ T \ {x} = S
  BY <1>1
<1>4. SumOver(f, T) = f[x] + SumOver(f, T \ {x})
  BY <1>2, <1>3, SumAny DEF Sums
<1>5. PICK n \in Int : n = SumOver(f, S)
  BY SumAny DEF Sums
<1>6. SumOver(f, T \ {x}) = n
  BY <1>3, <1>5, Zenon
<1>7. SumOver(f, T) = n + f[x]
  BY <1>4, <1>5, <1>6
<1>. QED
  BY <1>1, <1>2, <1>5, <1>7, Zenon

(* Taking a term away takes it from the sum.                               *)
LEMMA SumDrop ==
  ASSUME NEW f, NEW S, Terms(f, S), NEW x \in S
  PROVE  Terms(f, S \ {x}) /\ SumOver(f, S \ {x}) = SumOver(f, S) - f[x]
<1>1. Terms(f, S \ {x})
  BY Smaller DEF Terms
<1>2. SumOver(f, S) = f[x] + SumOver(f, S \ {x}) /\ f[x] \in Int
  BY SumAny DEF Sums, Terms
<1>3. SumOver(f, S \ {x}) \in Int
  BY <1>1, SumAny DEF Sums
<1>. QED
  BY <1>1, <1>2, <1>3

(* Two sets of terms that differ in one.                                   *)
OneTerm(f, g, S, x) ==
  Terms(f, S) /\ x \in S /\ g[x] \in Int /\ \A y \in S \ {x} : g[y] = f[y]

(* Changing one term changes the sum by as much.                           *)
LEMMA SumPoint ==
  ASSUME NEW f, NEW g, NEW S, NEW x, OneTerm(f, g, S, x)
  PROVE  Terms(g, S) /\ SumOver(g, S) = SumOver(f, S) + (g[x] - f[x])
<1>. USE DEF OneTerm
<1>1. Terms(g, S) /\ f[x] \in Int
  BY DEF Terms
<1>2. PICK T : T = S \ {x}
  OBVIOUS
<1>3. IsFiniteSet(T) /\ Terms(f, T)
  BY <1>2, Smaller DEF Terms
<1>4. PICK n \in Int : n = SumOver(f, T)
  BY <1>3, SumAny DEF Sums
<1>5. SumOver(g, T) = n
  BY <1>2, <1>3, <1>4, SumSame
<1>6. SumOver(f, S) = f[x] + SumOver(f, S \ {x}) /\ SumOver(g, S) = g[x] + SumOver(g, S \ {x})
  BY <1>1, SumAny DEF Sums
<1>7. SumOver(f, S) = f[x] + n /\ SumOver(g, S) = g[x] + n
  BY <1>2, <1>4, <1>5, <1>6, Zenon
<1>. QED
  BY <1>1, <1>7
-----------------------------------------------------------------------------
(***************************************************************************)
(* Replay. FoldLeft is a table over the subsets of the positions of a log; *)
(* it exists as that of the sums does, and on the first k positions it is  *)
(* the books after k entries.                                              *)
(***************************************************************************)
FoldStep(s, g, r) == IF r = {} THEN new_balances ELSE ApplyEntry(g[r \ {Max(r)}], s[Max(r)])

FoldTable(s, g) == g = [ r \in SUBSET DOMAIN s |-> FoldStep(s, g, r) ]

FoldPartly(s, g, k) == \A r \in SUBSET DOMAIN s : Cardinality(r) <= k => g[r] = FoldStep(s, g, r)

FoldImproved(s, g) == [ r \in SUBSET DOMAIN s |-> FoldStep(s, g, r) ]

(* A set of positions that is not empty has a last one.                    *)
LEMMA MaxIn ==
  ASSUME NEW n \in Nat, NEW r \in SUBSET (1..n), r # {}
  PROVE  Max(r) \in r
<1>. DEFINE T == { n - x : x \in r }
<1>1. T \in SUBSET Nat /\ T # {}
  <2>1. \A x \in r : n - x \in Nat
    OBVIOUS
  <2>2. \E x : x \in r
    OBVIOUS
  <2>. QED
    BY <2>1, <2>2
<1>. HIDE DEF T
<1>2. PICK k \in T : \A m \in T : k <= m
  BY <1>1, LeastNat
<1>3. PICK x \in r : k = n - x
  BY <1>2 DEF T
<1>4. \A y \in r : x >= y
  <2>1. ASSUME NEW y \in r PROVE x >= y
    <3>1. n - y \in T
      BY DEF T
    <3>2. n - x <= n - y
      BY <1>2, <1>3, <3>1
    <3>. QED
      BY <3>2
  <2>. QED
    BY <2>1
<1>. QED
  BY <1>3, <1>4 DEF Max

(* The last of the first k positions.                                      *)
LEMMA MaxFirst ==
  ASSUME NEW k \in Nat, k # 0
  PROVE  1..k # {} /\ Max(1..k) = k /\ (1..k) \ {k} = 1..(k - 1)
<1>1. k \in 1..k /\ \A y \in 1..k : k >= y
  OBVIOUS
<1>2. Max(1..k) \in 1..k /\ \A y \in 1..k : Max(1..k) >= y
  BY <1>1 DEF Max
<1>. QED
  BY <1>1, <1>2

(* Improving a table makes it right for one more position.                 *)
LEMMA FoldNext ==
  ASSUME NEW s, IsSeq(s), NEW g, NEW k \in Int, FoldPartly(s, g, k)
  PROVE  FoldPartly(s, FoldImproved(s, g), k + 1)
<1>1. PICK h : h = FoldImproved(s, g)
  OBVIOUS
<1>2. \A r \in SUBSET DOMAIN s : h[r] = FoldStep(s, g, r)
  BY <1>1 DEF FoldImproved
<1>3. PICK n \in Nat : DOMAIN s = 1..n
  BY SeqFacts
<1>4. IsFiniteSet(DOMAIN s)
  BY <1>3, FS_Interval
<1>5. ASSUME NEW r \in SUBSET DOMAIN s, Cardinality(r) <= k + 1
      PROVE  h[r] = FoldStep(s, h, r)
  <2>1. CASE r = {}
    BY <1>2, <2>1 DEF FoldStep
  <2>2. CASE r # {}
    <3>1. PICK q : q = r \ {Max(r)}
      OBVIOUS
    <3>2. q \in SUBSET DOMAIN s /\ Cardinality(q) <= k
      <4>1. Max(r) \in r
        BY <1>3, <2>2, MaxIn
      <4>2. IsFiniteSet(r)
        BY <1>4, SubFinite
      <4>3. Cardinality(q) \in Nat /\ Cardinality(r) \in Nat /\ Cardinality(q) < Cardinality(r)
        BY <3>1, <4>1, <4>2, Smaller
      <4>. QED
        BY <1>5, <3>1, <4>3
    <3>3. h[q] = g[q]
      BY <1>2, <3>2 DEF FoldPartly
    <3>. QED
      BY <1>2, <2>2, <3>1, <3>3 DEF FoldStep
  <2>. QED
    BY <2>1, <2>2
<1>. QED
  BY <1>1, <1>5 DEF FoldPartly

(* So there is a table that is right for all sets of positions.            *)
LEMMA FoldExists ==
  ASSUME NEW s, IsSeq(s)
  PROVE  \E g : FoldTable(s, g)
<1>0. IsFiniteSet(DOMAIN s)
  <2>1. PICK n \in Nat : DOMAIN s = 1..n
    BY SeqFacts
  <2>. QED
    BY <2>1, FS_Interval
<1>. DEFINE T == { k \in Nat : ~\E g : FoldPartly(s, g, k) }
<1>1. T = {}
  <2>. SUFFICES ASSUME T # {} PROVE FALSE
    OBVIOUS
  <2>1. PICK k \in T : \A m \in T : k <= m
    <3>. T \in SUBSET Nat
      OBVIOUS
    <3>. HIDE DEF T
    <3>. QED
      BY LeastNat
  <2>2. PICK m \in Int : m = k - 1
    OBVIOUS
  <2>3. \E g : FoldPartly(s, g, m)
    <3>1. CASE k = 0
      <4>1. \A r \in SUBSET DOMAIN s : ~(Cardinality(r) <= m)
        BY <1>0, <2>2, <3>1, SubFinite
      <4>. QED
        BY <4>1 DEF FoldPartly
    <3>2. CASE k # 0
      <4>1. m \in Nat /\ m \notin T
        BY <2>1, <2>2, <3>2
      <4>. QED
        BY <4>1
    <3>. QED
      BY <3>1, <3>2
  <2>4. PICK g : FoldPartly(s, g, m)
    BY <2>3
  <2>5. FoldPartly(s, FoldImproved(s, g), m + 1)
    BY <2>4, FoldNext
  <2>. QED
    BY <2>1, <2>2, <2>5
<1>2. PICK n \in Nat : n = Cardinality(DOMAIN s)
  BY <1>0, FS_CardinalityType
<1>3. PICK g : FoldPartly(s, g, n)
  BY <1>1
<1>4. PICK h : h = FoldImproved(s, g)
  OBVIOUS
<1>5. FoldPartly(s, h, n + 1)
  BY <1>3, <1>4, FoldNext
<1>6. \A r \in SUBSET DOMAIN s : h[r] = FoldStep(s, h, r)
  BY <1>0, <1>2, <1>5, SubFinite DEF FoldPartly
<1>7. h = [ r \in SUBSET DOMAIN s |-> h[r] ]
  BY <1>4 DEF FoldImproved
<1>. QED
  BY <1>6, <1>7 DEF FoldTable

(* The books of a log are read off its table.                              *)
LEMMA BooksTable ==
  ASSUME NEW s, IsSeq(s)
  PROVE  \E g : FoldTable(s, g) /\ Books(s) = g[DOMAIN s]
<1>1. PICK g : g = CHOOSE h : FoldTable(s, h)
  OBVIOUS
<1>2. FoldTable(s, g)
  BY <1>1, FoldExists
<1>3. Books(s) = (CHOOSE h : h = [ r \in SUBSET DOMAIN s |->
                    IF r = {} THEN new_balances ELSE ApplyEntry(h[r \ {Max(r)}], s[Max(r)]) ])[DOMAIN s]
  BY DEF Books, FoldLeft, MapThenFoldSet
<1>4. Books(s) = (CHOOSE h : FoldTable(s, h))[DOMAIN s]
  BY <1>3 DEF FoldTable, FoldStep
<1>. QED
  BY <1>1, <1>2, <1>4

(* Two tables agree on the first positions, if the entries there do.       *)
LEMMA FoldAgree ==
  ASSUME NEW s, IsSeq(s), NEW t, IsSeq(t), NEW a, NEW b, FoldTable(s, a), FoldTable(t, b),
         NEW n \in Nat, n <= Len(s), n <= Len(t), \A i \in 1..n : s[i] = t[i]
  PROVE  a[1..n] = b[1..n]
<1>. DEFINE B == { k \in Nat : k <= n /\ a[1..k] # b[1..k] }
<1>0. \A k \in Nat : k <= n => 1..k \in SUBSET DOMAIN s /\ 1..k \in SUBSET DOMAIN t
  BY SeqFacts
<1>1. \A k \in Nat : k <= n => a[1..k] = FoldStep(s, a, 1..k) /\ b[1..k] = FoldStep(t, b, 1..k)
  BY <1>0 DEF FoldTable
<1>2. B = {}
  <2>. SUFFICES ASSUME B # {} PROVE FALSE
    OBVIOUS
  <2>1. PICK k \in B : \A m \in B : k <= m
    <3>. B \in SUBSET Nat
      OBVIOUS
    <3>. HIDE DEF B
    <3>. QED
      BY LeastNat
  <2>2. k \in Nat /\ k <= n /\ a[1..k] # b[1..k]
    OBVIOUS
  <2>3. k # 0
    <3>1. SUFFICES ASSUME k = 0 PROVE FALSE
      OBVIOUS
    <3>2. 1..k = {}
      BY <3>1
    <3>. QED
      BY <1>1, <2>2, <3>2 DEF FoldStep
  <2>4. PICK m \in Nat : m = k - 1
    BY <2>2, <2>3
  <2>5. a[1..m] = b[1..m]
    BY <2>1, <2>2, <2>4
  <2>6. 1..k # {} /\ Max(1..k) = k /\ (1..k) \ {k} = 1..m
    BY <2>2, <2>3, <2>4, MaxFirst
  <2>7. s[k] = t[k]
    BY <2>2, <2>3
  <2>8. a[1..k] = ApplyEntry(a[1..m], s[k]) /\ b[1..k] = ApplyEntry(b[1..m], t[k])
    <3>1. a[1..k] = FoldStep(s, a, 1..k) /\ b[1..k] = FoldStep(t, b, 1..k)
      BY <1>1, <2>2
    <3>2. PICK r : r = 1..k
      OBVIOUS
    <3>3. r # {} /\ Max(r) = k /\ r \ {k} = 1..m
      BY <2>6, <3>2
    <3>4. FoldStep(s, a, r) = ApplyEntry(a[1..m], s[k]) /\ FoldStep(t, b, r) = ApplyEntry(b[1..m], t[k])
      BY <3>3, Zenon DEF FoldStep
    <3>. QED
      BY <3>1, <3>2, <3>4
  <2>. QED
    BY <2>2, <2>5, <2>7, <2>8
<1>. QED
  BY <1>2

(* A replay ends with the last entry (Ledger::append, replay).             *)
LEMMA BooksAppend ==
  ASSUME NEW s, IsSeq(s), NEW e
  PROVE  Books(Append(s, e)) = ApplyEntry(Books(s), e)
<1>1. PICK t : t = Append(s, e)
  OBVIOUS
<1>2. PICK n \in Nat : n = Len(s) /\ DOMAIN s = 1..n
  BY SeqFacts
<1>3. PICK k \in Nat : k = n + 1
  OBVIOUS
<1>4. IsSeq(t) /\ Len(t) = k /\ t[k] = e /\ \A i \in 1..n : t[i] = s[i]
  BY <1>1, <1>2, <1>3, SeqAppend
<1>5. DOMAIN t = 1..k
  BY <1>4, SeqFacts
<1>6. PICK a : FoldTable(s, a) /\ Books(s) = a[1..n]
  BY <1>2, BooksTable
<1>7. PICK b : FoldTable(t, b) /\ Books(t) = b[1..k]
  BY <1>4, <1>5, BooksTable
<1>8. a[1..n] = b[1..n]
  <2>1. n <= Len(s) /\ n <= Len(t)
    BY <1>2, <1>3, <1>4
  <2>. QED
    BY <1>4, <1>6, <1>7, <2>1, FoldAgree
<1>9. 1..k # {} /\ Max(1..k) = k /\ (1..k) \ {k} = 1..n
  BY <1>3, MaxFirst
<1>10. b[1..k] = FoldStep(t, b, 1..k)
  BY <1>5, <1>7 DEF FoldTable
<1>11. FoldStep(t, b, 1..k) = ApplyEntry(b[1..n], e)
  <2>1. PICK r : r = 1..k
    OBVIOUS
  <2>2. r # {} /\ Max(r) = k /\ r \ {k} = 1..n
    BY <1>9, <2>1
  <2>3. FoldStep(t, b, r) = ApplyEntry(b[1..n], t[k])
    BY <2>2, Zenon DEF FoldStep
  <2>. QED
    BY <1>4, <2>1, <2>3
<1>. QED
  BY <1>1, <1>6, <1>7, <1>8, <1>10, <1>11

(* Nothing is replayed from an empty log.                                  *)
LEMMA BooksEmpty == Books(<< >>) = new_balances
<1>1. PICK s : s = << >>
  OBVIOUS
<1>2. IsSeq(s) /\ DOMAIN s = {}
  BY <1>1, SeqEmpty, SeqFacts
<1>3. PICK g : FoldTable(s, g) /\ Books(s) = g[{}]
  BY <1>2, BooksTable
<1>4. g[{}] = FoldStep(s, g, {})
  BY <1>2, <1>3 DEF FoldTable
<1>. QED
  BY <1>1, <1>3, <1>4 DEF FoldStep

-----------------------------------------------------------------------------
(***************************************************************************)
(* What one entry does to the books.                                       *)
(***************************************************************************)
Sound(b) ==
  /\ b = [ a \in DOMAIN b |-> b[a] ] /\ \A a \in DOMAIN b : b[a] \in Amount
  /\ Parent \in DOMAIN b /\ IsFiniteSet(DOMAIN b)

Bodies == {"OpenAccount", "Issue", "Burn", "EdgeClose", "Transfer"}

(* By how much an entry changes the equity of the node.                    *)
Shift(e) == IF e.body \in {"Issue", "EdgeClose"} THEN 0 - e.amount
            ELSE IF e.body = "Burn" THEN e.amount ELSE 0

(* The children of sound books have a sum.                                 *)
LEMMA SoundTerms ==
  ASSUME NEW b, Sound(b), NEW K, K = Children(b)
  PROVE  /\ Terms(b, K) /\ SumOver(b, K) \in Int /\ b[Parent] \in Int
         /\ equity(b) = b[Parent] - SumOver(b, K)
<1>1. \A a \in DOMAIN b : b[a] \in Int
  BY WidthAssumption DEF Sound, Amount
<1>2. IsFiniteSet(K)
  BY Smaller DEF Sound, Children
<1>3. Terms(b, K)
  BY <1>1, <1>2 DEF Terms, Children
<1>. QED
  BY <1>1, <1>3, SumAny DEF Sums, Sound, equity

(* Deltas that fit keep the books sound.                                   *)
LEMMA AppliedSound ==
  ASSUME NEW b, Sound(b), NEW d, CanApply(b, d), NEW c, c = apply_deltas(b, d)
  PROVE  /\ Sound(c) /\ DOMAIN c = DOMAIN b /\ Children(c) = Children(b)
         /\ \A a \in DOMAIN b : c[a] = IF a \in DOMAIN d THEN b[a] + d[a] ELSE b[a]
<1>1. DOMAIN c = DOMAIN b /\ \A a \in DOMAIN b : c[a] = IF a \in DOMAIN d THEN b[a] + d[a] ELSE b[a]
  BY DEF apply_deltas
<1>2. \A a \in DOMAIN b : c[a] \in Amount
  BY <1>1 DEF Sound, CanApply
<1>3. c = [ a \in DOMAIN c |-> c[a] ]
  BY DEF apply_deltas
<1>. QED
  BY <1>1, <1>2, <1>3 DEF Sound, Children

(* Deltas on Parent and on one child.                                      *)
LEMMA EquityOne ==
  ASSUME NEW b, Sound(b), NEW d, CanApply(b, d), NEW c, c = apply_deltas(b, d),
         NEW x \in Children(b), NEW u \in Int, NEW v \in Int,
         c[Parent] = b[Parent] + u, c[x] = b[x] + v, \A a \in Children(b) \ {x} : c[a] = b[a]
  PROVE  equity(c) = equity(b) + (u - v)
<1>1. Sound(c) /\ Children(c) = Children(b)
  BY AppliedSound
<1>2. PICK K : K = Children(b)
  OBVIOUS
<1>3. /\ Terms(b, K) /\ SumOver(b, K) \in Int /\ b[Parent] \in Int
      /\ equity(b) = b[Parent] - SumOver(b, K) /\ equity(c) = c[Parent] - SumOver(c, K)
  BY <1>1, <1>2, SoundTerms
<1>4. b[x] \in Int
  BY <1>2, <1>3 DEF Terms
<1>5. SumOver(c, K) = SumOver(b, K) + (c[x] - b[x])
  <2>1. c[x] \in Int
    BY <1>4
  <2>. QED
    BY <1>2, <1>3, <2>1, SumPoint DEF OneTerm
<1>. QED
  BY <1>3, <1>4, <1>5

(* Deltas that move v from one child to another.                           *)
LEMMA EquityMove ==
  ASSUME NEW b, Sound(b), NEW d, CanApply(b, d), NEW c, c = apply_deltas(b, d),
         NEW x \in Children(b), NEW y \in Children(b), x # y, NEW v \in Int,
         c[Parent] = b[Parent], c[x] = b[x] + v, c[y] = b[y] - v,
         \A a \in Children(b) \ {x, y} : c[a] = b[a]
  PROVE  equity(c) = equity(b)
<1>1. Sound(c) /\ Children(c) = Children(b)
  BY AppliedSound
<1>2. PICK K : K = Children(b)
  OBVIOUS
<1>3. /\ Terms(b, K) /\ SumOver(b, K) \in Int /\ b[Parent] \in Int
      /\ equity(b) = b[Parent] - SumOver(b, K) /\ equity(c) = c[Parent] - SumOver(c, K)
  BY <1>1, <1>2, SoundTerms
<1>4. b[x] \in Int /\ b[y] \in Int
  BY <1>2, <1>3 DEF Terms
<1>5. PICK h : h = [ a \in K |-> IF a = x THEN b[x] + v ELSE b[a] ]
  OBVIOUS
<1>6. Terms(h, K) /\ SumOver(h, K) = SumOver(b, K) + (h[x] - b[x])
  <2>1. h[x] \in Int /\ \A a \in K \ {x} : h[a] = b[a]
    BY <1>2, <1>4, <1>5
  <2>. QED
    BY <1>2, <1>3, <2>1, SumPoint DEF OneTerm
<1>7. SumOver(c, K) = SumOver(h, K) + (c[y] - h[y])
  <2>1. c[y] \in Int /\ \A a \in K \ {y} : c[a] = h[a]
    BY <1>2, <1>4, <1>5
  <2>2. y \in K /\ Terms(h, K)
    BY <1>2, <1>6
  <2>3. OneTerm(h, c, K, y)
    BY <2>1, <2>2 DEF OneTerm
  <2>. QED
    BY <2>3, SumPoint, Zenon
<1>8. h[x] = b[x] + v /\ h[y] = b[y]
  BY <1>2, <1>5
<1>9. PICK n \in Int : n = SumOver(b, K)
  BY <1>3
<1>10. SumOver(h, K) = n + v
  BY <1>4, <1>6, <1>8, <1>9
<1>11. SumOver(c, K) = n
  BY <1>4, <1>7, <1>8, <1>9, <1>10
<1>. QED
  BY <1>3, <1>9, <1>11

(* Opening an account adds a zero.                                         *)
LEMMA EquityOpen ==
  ASSUME NEW b, Sound(b), NEW x, ~IsOpen(b, x), NEW c, c = open_account(b, x)
  PROVE  Sound(c) /\ equity(c) = equity(b)
<1>1. PICK D : D = DOMAIN b \cup {x}
  OBVIOUS
<1>2. DOMAIN c = D /\ \A a \in D : c[a] = IF a \in DOMAIN b THEN b[a] ELSE 0
  BY <1>1 DEF open_account
<1>3. c = [ a \in DOMAIN c |-> c[a] ]
  BY DEF open_account
<1>4. IsFiniteSet(D)
  BY <1>1, FS_AddElement DEF Sound
<1>5. 0 \in Amount
  BY WidthAssumption DEF Amount
<1>6. Sound(c)
  BY <1>1, <1>2, <1>3, <1>4, <1>5 DEF Sound
<1>7. PICK K : K = Children(b)
  OBVIOUS
<1>8. x \notin DOMAIN b /\ x # Parent
  BY DEF IsOpen, Sound
<1>9. Children(c) = K \cup {x} /\ x \notin K
  BY <1>1, <1>2, <1>7, <1>8 DEF Children
<1>10. /\ Terms(b, K) /\ SumOver(b, K) \in Int /\ b[Parent] \in Int
       /\ equity(b) = b[Parent] - SumOver(b, K)
  BY <1>7, SoundTerms
<1>11. equity(c) = c[Parent] - SumOver(c, K \cup {x})
  BY <1>6, <1>9, SoundTerms
<1>12. \A a \in K : c[a] = b[a]
  BY <1>1, <1>2, <1>7 DEF Children
<1>13. Terms(c, K) /\ SumOver(c, K) = SumOver(b, K)
  <2>1. Terms(c, K)
    BY <1>10, <1>12 DEF Terms
  <2>2. IsFiniteSet(K)
    BY <1>10 DEF Terms
  <2>. QED
    BY <1>12, <2>1, <2>2, SumSame
<1>14. c[x] = 0 /\ c[Parent] = b[Parent]
  BY <1>1, <1>2, <1>8 DEF Sound
<1>15. SumOver(c, K \cup {x}) = SumOver(c, K) + c[x]
  BY <1>9, <1>13, <1>14, SumAdd
<1>. QED
  BY <1>6, <1>10, <1>11, <1>13, <1>14, <1>15

(* An entry that passes Ledger::append keeps the books sound, and changes  *)
(* the equity as its body says.                                            *)
LEMMA EquityStep ==
  ASSUME NEW b, Sound(b), NEW k, NEW e, e.body \in Bodies, e.amount \in Int,
         Appendable(b, k, e), NEW c, c = ApplyEntry(b, e)
  PROVE  Sound(c) /\ equity(c) = equity(b) + Shift(e)
<1>1. PICK d : d = e.deltas
  OBVIOUS
<1>2. PICK m \in Int : m = e.amount
  OBVIOUS
<1>3. equity(b) \in Int
  BY SoundTerms
<1>4. CanApply(b, d)
  BY <1>1 DEF Appendable
<1>5. CASE e.body = "OpenAccount"
  <2>1. c = open_account(b, e.child) /\ ~IsOpen(b, e.child) /\ Shift(e) = 0
    BY <1>5 DEF ApplyEntry, Appendable, Shift
  <2>. QED
    BY <1>3, <2>1, EquityOpen
<1>6. CASE e.body # "OpenAccount"
  <2>1. c = apply_deltas(b, d)
    BY <1>1, <1>6 DEF ApplyEntry
  <2>2. /\ Sound(c)
        /\ \A a \in DOMAIN b : c[a] = IF a \in DOMAIN d THEN b[a] + d[a] ELSE b[a]
    BY <1>4, <2>1, AppliedSound
  <2>3. /\ Parent \in DOMAIN b /\ b[Parent] \in Int /\ \A a \in DOMAIN b : b[a] \in Int
        /\ DOMAIN d \subseteq DOMAIN b /\ \A a : a \in Children(b) <=> a \in DOMAIN b /\ a # Parent
    BY <1>4, WidthAssumption DEF Sound, CanApply, Children, Amount
  <2>4. CASE e.body \in {"Issue", "Burn"}
    <3>1. PICK v \in Int : v = IF e.body = "Issue" THEN m ELSE 0 - m
      OBVIOUS
    <3>2. PICK x : x = e.child
      OBVIOUS
    <3>3. d = [ a \in {x} |-> v ] /\ Boundary(d)
      BY <1>1, <1>2, <2>4, <3>1, <3>2 DEF Appendable, validate_shape, posting_rule
    <3>4. DOMAIN d = {x} /\ d[x] = v /\ x # Parent
      BY <3>3 DEF Boundary
    <3>5. x \in Children(b)
      BY <2>3, <3>4
    <3>6. /\ c[Parent] = b[Parent] + 0 /\ c[x] = b[x] + v
          /\ \A a \in Children(b) \ {x} : c[a] = b[a]
      BY <2>2, <2>3, <3>4, <3>5
    <3>7. equity(c) = equity(b) + (0 - v)
      BY <1>4, <2>1, <3>5, <3>6, EquityOne
    <3>8. Shift(e) = 0 - v
      BY <1>2, <2>4, <3>1 DEF Shift
    <3>. QED
      BY <2>2, <3>7, <3>8
  <2>5. CASE e.body = "EdgeClose"
    <3>1. d = [ a \in {Parent} |-> 0 - m ]
      BY <1>1, <1>2, <2>5 DEF Appendable, validate_shape
    <3>2. PICK K : K = Children(b)
      OBVIOUS
    <3>3. /\ Terms(b, K) /\ SumOver(b, K) \in Int /\ equity(b) = b[Parent] - SumOver(b, K)
      BY <3>2, SoundTerms
    <3>4. c[Parent] = b[Parent] + (0 - m) /\ \A a \in K : c[a] = b[a]
      BY <2>2, <2>3, <3>1, <3>2
    <3>5. equity(c) = c[Parent] - SumOver(c, K)
      BY <1>4, <2>1, <2>2, <3>2, AppliedSound, SoundTerms
    <3>6. SumOver(c, K) = SumOver(b, K)
      BY <3>3, <3>4, SumSame DEF Terms
    <3>7. Shift(e) = 0 - m
      BY <1>2, <2>5 DEF Shift
    <3>. QED
      BY <2>2, <2>3, <3>3, <3>4, <3>5, <3>6, <3>7
  <2>6. CASE e.body = "Transfer"
    <3>1. CanonicalTransfer(e.role, d, m) /\ Shift(e) = 0
      BY <1>1, <1>2, <2>6 DEF Appendable, validate_shape, Shift
    <3>2. IsFiniteSet(DOMAIN d) /\ Cardinality(DOMAIN d) = 2
      BY <2>3, <3>1, FS_Subset DEF CanonicalTransfer, Sound
    <3>3. CASE e.role \in {"Ascend", "Descend"}
      <4>1. PICK v \in Int : v = IF e.role = "Ascend" THEN 0 - m ELSE m
        OBVIOUS
      <4>2. Parent \in DOMAIN d /\ \A a \in DOMAIN d : d[a] = v
        BY <3>1, <3>3, <4>1 DEF CanonicalTransfer
      <4>3. IsFiniteSet(DOMAIN d \ {Parent}) /\ Cardinality(DOMAIN d \ {Parent}) = 1
        BY <3>2, <4>2, FS_RemoveElement
      <4>4. PICK x : DOMAIN d \ {Parent} = {x}
        BY <4>3, FS_Singleton
      <4>5. DOMAIN d = {Parent, x} /\ x # Parent /\ x \in Children(b)
        BY <2>3, <4>2, <4>4
      <4>6. /\ c[Parent] = b[Parent] + v /\ c[x] = b[x] + v
            /\ \A a \in Children(b) \ {x} : c[a] = b[a]
        BY <2>2, <2>3, <4>2, <4>5
      <4>7. equity(c) = equity(b) + (v - v)
        BY <1>4, <2>1, <4>5, <4>6, EquityOne
      <4>. QED
        BY <1>3, <2>2, <3>1, <4>7
    <3>4. CASE e.role \notin {"Ascend", "Descend"}
      <4>1. Parent \notin DOMAIN d /\ { d[a] : a \in DOMAIN d } = {m, 0 - m} /\ m > 0
        BY <3>1, <3>4 DEF CanonicalTransfer
      <4>2. PICK x \in DOMAIN d : d[x] = m
        BY <4>1
      <4>3. PICK y \in DOMAIN d : d[y] = 0 - m
        BY <4>1
      <4>4. x # y
        BY <1>2, <4>1, <4>2, <4>3
      <4>5. IsFiniteSet(DOMAIN d \ {x}) /\ Cardinality(DOMAIN d \ {x}) = 1
        BY <3>2, <4>2, FS_RemoveElement
      <4>6. PICK z : DOMAIN d \ {x} = {z}
        BY <4>5, FS_Singleton
      <4>7. DOMAIN d = {x, y}
        BY <4>2, <4>3, <4>4, <4>6
      <4>8. x \in Children(b) /\ y \in Children(b)
        BY <2>3, <4>1, <4>7
      <4>9. /\ c[Parent] = b[Parent] /\ c[x] = b[x] + m /\ c[y] = b[y] - m
            /\ \A a \in Children(b) \ {x, y} : c[a] = b[a]
        BY <2>2, <2>3, <4>1, <4>2, <4>3, <4>7, <4>8
      <4>10. equity(c) = equity(b)
        BY <1>4, <2>1, <4>4, <4>8, <4>9, EquityMove
      <4>. QED
        BY <1>3, <2>2, <3>1, <4>10
    <3>. QED
      BY <3>3, <3>4
  <2>. QED
    BY <1>6, <2>4, <2>5, <2>6 DEF Bodies
<1>. QED
  BY <1>5, <1>6

-----------------------------------------------------------------------------
(***************************************************************************)
(* What an operation may plan: entries of a known body, with an amount and *)
(* a nonce of their types.                                                 *)
(***************************************************************************)
Fit(e) == e.body \in Bodies \cup {"Commit"} /\ e.amount \in Nat /\ e.nonce \in Nonce

Fits(t) == \A i \in 1..Len(t) : Fit(t[i])

(* A plan of no entry, of one, and of one after an opening.                *)
LEMMA FitsPlans ==
  ASSUME NEW x, NEW t
  PROVE  /\ t = << >> => Fits(t)
         /\ Fit(x) /\ t = <<x>> => Fits(t)
         /\ \A s, c : Fit(x) /\ t = Opening(s, c, x) => Fits(t)
<1>1. t = << >> => Fits(t)
  BY SeqEmpty DEF Fits
<1>2. Fit(x) /\ t = <<x>> => Fits(t)
  <2>1. SUFFICES ASSUME Fit(x), t = <<x>> PROVE Fits(t)
    OBVIOUS
  <2>2. Len(t) = 1 /\ t[1] = x
    BY <2>1
  <2>3. \A i \in 1..1 : i = 1
    OBVIOUS
  <2>. QED
    BY <2>1, <2>2, <2>3 DEF Fits
<1>3. ASSUME NEW s, NEW c, Fit(x), t = Opening(s, c, x)
      PROVE  Fits(t)
  <2>1. CASE ensure_account_open(s, c) = << >>
    <3>1. << >> \o <<x>> = <<x>>
      OBVIOUS
    <3>2. t = <<x>>
      BY <1>3, <2>1, <3>1, Zenon DEF Opening
    <3>. QED
      BY <1>2, <1>3, <3>2
  <2>2. CASE ensure_account_open(s, c) = <<OpenAccount(c)>>
    <3>1. PICK o : o = OpenAccount(c)
      OBVIOUS
    <3>2. t = <<o>> \o <<x>>
      BY <1>3, <2>2, <3>1, Zenon DEF Opening
    <3>3. Len(t) = 2 /\ t[1] = o /\ t[2] = x
      BY <3>2
    <3>4. o.body = "OpenAccount" /\ o.amount = 0 /\ o.nonce = Nil
      BY <3>1, EntryFields DEF OpenAccount
    <3>5. Fit(o)
      BY <3>4 DEF Fit, Bodies, Nonce
    <3>6. \A i \in 1..2 : i = 1 \/ i = 2
      OBVIOUS
    <3>. QED
      BY <1>3, <3>3, <3>5, <3>6 DEF Fits
  <2>. QED
    BY <2>1, <2>2 DEF ensure_account_open
<1>. QED
  BY <1>1, <1>2, <1>3

(* Whatever an operation decides, its plan fits.                           *)
LEMMA Fitting ==
  ASSUME NEW s, IsSeq(s), NEW n \in 0..MaxOps, Books(s)[Parent] \in Nat,
         NEW op \in Request \cup Command \cup Payment, NEW root,
         NEW res, res = Decide(s, root, op, n)
  PROVE  Fits(res.todo)
<1>0. op.amount \in Nat /\ n \in Nonce /\ Nil \in Nonce /\ (op \in Request \cup Payment => op.id \in Nonce)
  BY OperationAssumption, BoundAssumption, WidthAssumption DEF Amount, Nonce
<1>1. \A status : res = Return(status) => res.todo = << >>
  BY DEF Return
<1>2. \A t : res = Appending(t) => res.todo = t
  BY DEF Appending
<1>3. ASSUME NEW x, Fit(x), NEW c,
             \/ res = Appending(<<x>>) \/ res = Appending(Opening(s, c, x))
             \/ \E status : res = Return(status)
      PROVE  Fits(res.todo)
  BY <1>1, <1>2, <1>3, FitsPlans
<1>4. CASE op \in Request
  <2>1. op.kind \in {"Issue", "Burn"}
    BY <1>4, OperationAssumption
  <2>2. res = admin_value_apply(s, op)
    BY <2>1 DEF Decide
  <2>3. PICK x : x = Issue(op.account, op.amount, op.id)
    OBVIOUS
  <2>4. PICK y : y = Burn(op.account, op.amount, op.id)
    OBVIOUS
  <2>5. Fit(x)
    <3>1. x.body = "Issue" /\ x.amount = op.amount /\ x.nonce = op.id
      BY <2>3, EntryFields DEF Issue
    <3>. QED
      BY <1>0, <1>4, <3>1 DEF Fit, Bodies
  <2>6. Fit(y)
    <3>1. y.body = "Burn" /\ y.amount = op.amount /\ y.nonce = op.id
      BY <2>4, EntryFields DEF Burn
    <3>. QED
      BY <1>0, <1>4, <3>1 DEF Fit, Bodies
  <2>7. \/ \E status : res = Return(status)
        \/ res = Appending(Opening(s, op.account, x))
        \/ res = Appending(<<y>>)
    BY <2>2, <2>3, <2>4, Zenon DEF admin_value_apply, Opening
  <2>. QED
    BY <1>3, <2>5, <2>6, <2>7
<1>5. CASE op \in Payment
  <2>1. op.kind = "transfer"
    BY <1>5, OperationAssumption
  <2>2. res = apply_hop(s, op)
    BY <2>1 DEF Decide
  <2>3. PICK x : x = Transfer(op.role, op.first, op.second, op.amount, op.id)
    OBVIOUS
  <2>4. x.body = "Transfer" /\ x.amount = op.amount /\ x.nonce = op.id
    BY <2>3, TransferFields
  <2>5. Fit(x)
    BY <1>0, <1>5, <2>4 DEF Fit, Bodies
  <2>6. (\E status : res = Return(status)) \/ res = Appending(<<x>>)
    BY <2>2, <2>3, Zenon DEF apply_hop
  <2>. QED
    BY <1>3, <2>5, <2>6
<1>6. CASE op \in Command
  <2>1. op.kind \in {"fund", "prefund", "edge_close", "open_account", "commit"}
    BY <1>6, OperationAssumption
  <2>2. CASE op.kind = "fund"
    <3>1. PICK x : x = Issue(op.account, op.amount, n)
      OBVIOUS
    <3>2. x.body = "Issue" /\ x.amount = op.amount /\ x.nonce = n
      BY <3>1, EntryFields DEF Issue
    <3>3. Fit(x)
      BY <1>0, <3>2 DEF Fit, Bodies
    <3>4. res = fund(s, op, n)
      BY <2>2 DEF Decide
    <3>5. res = Appending(Opening(s, op.account, x))
      BY <3>1, <3>4, Zenon DEF Opening, fund
    <3>. QED
      BY <1>3, <3>3, <3>5
  <2>3. CASE op.kind = "prefund"
    <3>1. PICK x : x = Transfer("Descend", Parent, op.account, op.amount, n)
      OBVIOUS
    <3>2. x.body = "Transfer" /\ x.amount = op.amount /\ x.nonce = n
      BY <3>1, TransferFields
    <3>3. Fit(x)
      BY <1>0, <3>2 DEF Fit, Bodies
    <3>4. res = prefund(s, root, op, n)
      BY <2>3 DEF Decide
    <3>5. (\E status : res = Return(status)) \/ res = Appending(Opening(s, op.account, x))
      BY <3>1, <3>4, Zenon DEF Opening, prefund
    <3>. QED
      BY <1>3, <3>3, <3>5
  <2>4. CASE op.kind = "edge_close"
    <3>0. PICK m \in Nat : m = Books(s)[Parent]
      OBVIOUS
    <3>1. PICK x : x = EdgeClose(m, n)
      OBVIOUS
    <3>2. x.body = "EdgeClose" /\ x.amount = m /\ x.nonce = n
      BY <3>1, EntryFields DEF EdgeClose
    <3>3. Fit(x)
      BY <1>0, <3>2 DEF Fit, Bodies
    <3>4. res = edge_close(s, root, n)
      BY <2>4 DEF Decide
    <3>5. (\E status : res = Return(status)) \/ res = Appending(<<x>>)
      BY <3>0, <3>1, <3>4, Zenon DEF edge_close
    <3>. QED
      BY <1>3, <3>3, <3>5
  <2>5. CASE op.kind = "open_account"
    <3>1. PICK x : x = OpenAccount(op.account)
      OBVIOUS
    <3>2. x.body = "OpenAccount" /\ x.amount = 0 /\ x.nonce = Nil
      BY <3>1, EntryFields DEF OpenAccount
    <3>3. Fit(x)
      BY <1>0, <3>2 DEF Fit, Bodies
    <3>4. res = Appending(ensure_account_open(s, op.account))
      BY <2>5 DEF Decide
    <3>5. res = Appending(<< >>) \/ res = Appending(<<x>>)
      BY <3>1, <3>4, Zenon DEF ensure_account_open
    <3>. QED
      BY <1>2, <1>3, <3>3, <3>5, FitsPlans
  <2>6. CASE op.kind = "commit"
    <3>1. PICK x : x = Entry("Commit", Parent, Len(s), [a \in {} |-> 0], Nil)
      OBVIOUS
    <3>2. x.body = "Commit" /\ x.amount = Len(s) /\ x.nonce = Nil
      BY <3>1, EntryFields
    <3>3. Fit(x)
      BY <1>0, <3>2, SeqFacts DEF Fit
    <3>4. res = commit(s)
      BY <2>6 DEF Decide
    <3>5. (\E status : res = Return(status)) \/ res = Appending(<<x>>)
      BY <3>1, <3>4, Zenon DEF commit
    <3>. QED
      BY <1>3, <3>3, <3>5
  <2>. QED
    BY <2>1, <2>2, <2>3, <2>4, <2>5, <2>6
<1>. QED
  BY <1>4, <1>5, <1>6

-----------------------------------------------------------------------------
(***************************************************************************)
(* The equity is accounted for. Total, of any log:                         *)
(***************************************************************************)
Amounts(s) == [ i \in DOMAIN s |-> s[i].amount ]

Places(s, body) == { i \in DOMAIN s : s[i].body = body }

Counted(s, body) == SumOver(Amounts(s), Places(s, body))

Whole(s) == \A i \in 1..Len(s) : s[i].amount \in Int

Counts(s, e, t) ==
  \A body : /\ Counted(s, body) \in Int
            /\ Counted(t, body) = Counted(s, body) + (IF e.body = body THEN e.amount ELSE 0)

(* An appended entry counts for its own body.                              *)
LEMMA CountedStep ==
  ASSUME NEW s, IsSeq(s), Whole(s), NEW e, e.amount \in Int,
         NEW t, t = Append(s, e)
  PROVE  Counts(s, e, t)
<1>. SUFFICES ASSUME NEW body
              PROVE  /\ Counted(s, body) \in Int
                     /\ Counted(t, body) = Counted(s, body) + (IF e.body = body THEN e.amount ELSE 0)
  BY DEF Counts
<1>1. PICK n \in Nat : n = Len(s) /\ DOMAIN s = 1..n
  BY SeqFacts
<1>2. PICK k \in Nat : k = n + 1
  OBVIOUS
<1>3. IsSeq(t) /\ Len(t) = k /\ t[k] = e /\ \A i \in 1..n : t[i] = s[i]
  BY <1>1, <1>2, SeqAppend
<1>4. DOMAIN t = 1..k
  BY <1>3, SeqFacts
<1>5. \A i : i \in 1..k <=> (i \in 1..n \/ i = k)
  BY <1>2
<1>6. k \notin 1..n
  BY <1>2
<1>7. PICK f : f = Amounts(s)
  OBVIOUS
<1>8. PICK g : g = Amounts(t)
  OBVIOUS
<1>9. PICK S : S = Places(s, body)
  OBVIOUS
<1>10. g[k] = e.amount /\ \A i \in 1..n : g[i] = f[i] /\ f[i] \in Int
  BY <1>1, <1>3, <1>4, <1>5, <1>7, <1>8 DEF Amounts, Whole
<1>11. S \subseteq 1..n /\ Places(t, body) = IF e.body = body THEN S \cup {k} ELSE S
  BY <1>1, <1>3, <1>4, <1>5, <1>6, <1>9 DEF Places
<1>12. IsFiniteSet(S)
  <2>1. PICK I : I = 1..n
    OBVIOUS
  <2>2. IsFiniteSet(I)
    BY <2>1, FS_Interval
  <2>. QED
    BY <1>11, <2>1, <2>2, FS_Subset
<1>13. Terms(f, S) /\ Terms(g, S) /\ \A i \in S : f[i] = g[i]
  BY <1>10, <1>11, <1>12 DEF Terms
<1>14. SumOver(f, S) \in Int /\ SumOver(f, S) = SumOver(g, S)
  BY <1>12, <1>13, SumAny, SumSame DEF Sums
<1>15. Counted(s, body) = SumOver(f, S)
  BY <1>7, <1>9 DEF Counted
<1>16. CASE e.body = body
  <2>1. k \notin S /\ g[k] \in Int
    BY <1>6, <1>10, <1>11
  <2>2. SumOver(g, S \cup {k}) = SumOver(g, S) + g[k]
    BY <1>13, <2>1, SumAdd
  <2>3. Counted(t, body) = SumOver(g, S \cup {k})
    BY <1>8, <1>11, <1>16 DEF Counted
  <2>. QED
    BY <1>10, <1>14, <1>15, <1>16, <2>2, <2>3
<1>17. CASE e.body # body
  <2>1. Counted(t, body) = SumOver(g, S)
    BY <1>8, <1>11, <1>17 DEF Counted
  <2>. QED
    BY <1>14, <1>15, <1>17, <2>1
<1>. QED
  BY <1>16, <1>17

Accounted(s) == equity(Books(s)) = Counted(s, "Burn") - Counted(s, "Issue") - Counted(s, "EdgeClose")

Entries(s) == \A i \in 1..Len(s) : s[i].body \in Bodies /\ s[i].amount \in Nat /\ s[i].nonce \in Nonce

(* What is said of the log and of the plans.                               *)
LogInv == Sound(Books(log)) /\ Entries(log) /\ Accounted(log)

PlanInv == \A p \in Proc : Fits(task[p].todo)

(* The types of what the log does not decide.                              *)
EnvInv ==
  /\ torn \in BOOLEAN /\ linked \in BOOLEAN
  /\ kids \subseteq Account /\ deferred \subseteq Request
  /\ \A a \in answers : a.op \in Request
  /\ ops \in 0..MaxOps /\ crashes \in 0..MaxCrashes /\ moves \in 0..MaxMoves

EquityInv == LogInv /\ PlanInv /\ EnvInv

(* An appended entry that passed the checks keeps the log accounted for.   *)
LEMMA LogStep ==
  ASSUME NEW s, IsSeq(s), Sound(Books(s)), Entries(s), Accounted(s),
         NEW e, e.body \in Bodies, e.amount \in Nat, e.nonce \in Nonce,
         Appendable(Books(s), Len(s), e), NEW t, t = Append(s, e)
  PROVE  Sound(Books(t)) /\ Entries(t) /\ Accounted(t)
<1>1. Books(t) = ApplyEntry(Books(s), e)
  BY BooksAppend
<1>2. Sound(Books(t)) /\ equity(Books(t)) = equity(Books(s)) + Shift(e)
  <2>1. PICK b : b = Books(s)
    OBVIOUS
  <2>2. PICK c : c = ApplyEntry(b, e)
    OBVIOUS
  <2>3. e.amount \in Int
    OBVIOUS
  <2>4. Sound(c) /\ equity(c) = equity(b) + Shift(e)
    BY <2>1, <2>2, <2>3, EquityStep
  <2>. QED
    BY <1>1, <2>1, <2>2, <2>4
<1>3. Whole(s)
  BY DEF Entries, Whole
<1>4. /\ Counted(s, "Burn") \in Int /\ Counted(s, "Issue") \in Int /\ Counted(s, "EdgeClose") \in Int
      /\ Counted(t, "Burn") = Counted(s, "Burn") + (IF e.body = "Burn" THEN e.amount ELSE 0)
      /\ Counted(t, "Issue") = Counted(s, "Issue") + (IF e.body = "Issue" THEN e.amount ELSE 0)
      /\ Counted(t, "EdgeClose") = Counted(s, "EdgeClose") + (IF e.body = "EdgeClose" THEN e.amount ELSE 0)
  <2>1. e.amount \in Int
    OBVIOUS
  <2>2. Counts(s, e, t)
    BY <1>3, <2>1, CountedStep
  <2>. QED
    BY <2>2 DEF Counts
<1>5. Accounted(t)
  BY <1>2, <1>4 DEF Accounted, Shift
<1>6. Entries(t)
  <2>1. PICK n \in Nat : n = Len(s)
    BY SeqFacts
  <2>2. Len(t) = n + 1 /\ t[n + 1] = e /\ \A i \in 1..n : t[i] = s[i]
    BY <2>1, SeqAppend
  <2>3. \A i \in 1..(n + 1) : i \in 1..n \/ i = n + 1
    OBVIOUS
  <2>. QED
    BY <2>1, <2>2, <2>3 DEF Entries
<1>. QED
  BY <1>2, <1>5, <1>6

(* The log changes only when an operation appends an entry that fits.      *)
LEMMA LogKept ==
  ASSUME LedgerInv, LogInv, PlanInv, [Next]_vars
  PROVE  LogInv'
<1>1. CASE UNCHANGED log
  BY <1>1 DEF LogInv
<1>2. ASSUME NEW p \in Proc, AppendEntry(p), log' # log
      PROVE  LogInv'
  <2>1. PICK t : t = task[p].todo
    OBVIOUS
  <2>2. PICK e : e = [Head(t) EXCEPT !.seq = Len(view[p])]
    OBVIOUS
  <2>3. /\ t # << >> /\ e.body # "Commit" /\ Appendable(Books(view[p]), Len(view[p]), e)
        /\ log' = Append(log, e)
    BY <1>2, <2>1, <2>2 DEF AppendEntry
  <2>4. view[p] = log
    <3>1. task[p] # Idle
      BY <2>1, <2>3, IdleTask
    <3>. QED
      BY <3>1, HolderAlone
  <2>5. IsSeq(t) /\ IsSeq(log) /\ Fits(t) /\ \A i \in 1..Len(t) : IsEntry(t[i])
    BY <2>1 DEF LedgerInv, Plans, Plan, Types, PlanInv
  <2>6. Head(t) = t[1] /\ 1 \in 1..Len(t)
    BY <2>3, <2>5, SeqTail, SeqFacts
  <2>7. IsEntry(t[1]) /\ Fit(t[1])
    BY <2>5, <2>6 DEF Fits
  <2>8. e.body = t[1].body /\ e.amount = t[1].amount /\ e.nonce = t[1].nonce
    BY <2>2, <2>6, <2>7, EntryNumbered
  <2>9. e.body \in Bodies /\ e.amount \in Nat /\ e.nonce \in Nonce
    BY <2>3, <2>7, <2>8 DEF Fit
  <2>10. PICK u : u = log'
    OBVIOUS
  <2>11. Sound(Books(u)) /\ Entries(u) /\ Accounted(u)
    BY <2>3, <2>4, <2>5, <2>9, <2>10, LogStep DEF LogInv
  <2>. QED
    BY <2>10, <2>11 DEF LogInv
<1>3. UNCHANGED log \/ \E p \in Proc : AppendEntry(p)
  <2>1. ASSUME NEW p \in Proc, AppendCommitment(p) \/ Finish(p) \/ Crash(p) PROVE UNCHANGED log
    BY <2>1 DEF AppendCommitment, Finish, Crash, store_vars
  <2>2. ASSUME NEW r \in Request, prepare_admin_value(r) \/ execute_ledger_mutation(r) PROVE UNCHANGED log
    BY <2>2 DEF prepare_admin_value, execute_ledger_mutation, store_vars
  <2>3. ASSUME NEW t \in Payment, RunPayment(t) PROVE UNCHANGED log
    BY <2>3 DEF RunPayment, store_vars
  <2>4. ASSUME NEW c \in Command, RunCommand(c) PROVE UNCHANGED log
    BY <2>4 DEF RunCommand, store_vars
  <2>5. CASE MoveRecord
    BY <2>5 DEF MoveRecord, store_vars
  <2>6. CASE UNCHANGED vars
    BY <2>6 DEF vars
  <2>. QED
    BY <2>1, <2>2, <2>3, <2>4, <2>5, <2>6 DEF Next
<1>. QED
  BY <1>1, <1>2, <1>3

(* A plan of p that fits replaces the one it had.                          *)
LEMMA PlanSet ==
  ASSUME LedgerInv, PlanInv, NEW p \in Proc, NEW o, NEW t, Fits(t), task' = [task EXCEPT ![p] = Task(o, t)]
  PROVE  PlanInv'
<1>1. task'[p] = Task(o, t) /\ \A q \in Proc \ {p} : task'[q] = task[q]
  BY TaskSet DEF LedgerInv
<1>2. task'[p].todo = t
  BY <1>1, TaskFields
<1>3. ASSUME NEW q \in Proc PROVE Fits(task'[q].todo)
  <2>1. CASE q = p
    BY <1>2, <2>1
  <2>2. CASE q # p
    <3>1. task'[q] = task[q]
      BY <1>1, <2>2
    <3>2. Fits(task[q].todo)
      BY DEF PlanInv
    <3>. QED
      BY <3>1, <3>2, Zenon
  <2>. QED
    BY <2>1, <2>2
<1>. QED
  BY <1>3, Zenon DEF PlanInv

(* A planned entry is done, and the others still fit.                      *)
LEMMA PlanTail ==
  ASSUME LedgerInv, PlanInv, NEW p \in Proc, task[p].todo # << >>,
         task' = [task EXCEPT ![p].todo = Tail(@)]
  PROVE  PlanInv'
<1>1. PICK t : t = task[p].todo
  OBVIOUS
<1>2. PICK u : u = Tail(t)
  OBVIOUS
<1>3. task' = [task EXCEPT ![p].todo = u]
  BY <1>1, <1>2 DEF LedgerInv, Types
<1>4. task' = [task EXCEPT ![p] = Task(task[p].op, u)]
  BY <1>3, TodoNext DEF LedgerInv
<1>5. IsSeq(t) /\ Fits(t) /\ t # << >>
  BY <1>1 DEF LedgerInv, Plans, Plan, PlanInv
<1>6. PICK m \in Nat : m = Len(t)
  BY <1>5, SeqFacts
<1>7. Len(u) = m - 1 /\ \A i \in 1..(m - 1) : u[i] = t[i + 1]
  BY <1>2, <1>5, <1>6, SeqTail
<1>8. \A i \in 1..(m - 1) : i + 1 \in 1..m
  OBVIOUS
<1>9. Fits(u)
  BY <1>5, <1>6, <1>7, <1>8 DEF Fits
<1>10. PICK o : o = task[p].op
  OBVIOUS
<1>11. task' = [task EXCEPT ![p] = Task(o, u)]
  BY <1>4, <1>10
<1>. QED
  BY <1>9, <1>11, PlanSet

(* Lock, refresh, decide: the new plan fits.                               *)
LEMMA PlanRun ==
  ASSUME LedgerInv, LogInv, PlanInv, ops \in 0..MaxOps, NEW p \in Proc,
         NEW op \in Request \cup Command \cup Payment, Run(p, op)
  PROVE  PlanInv'
<1>1. PICK res : res = Decide(log, ~linked, op, ops)
  OBVIOUS
<1>2. UNCHANGED task \/ task' = [task EXCEPT ![p] = Task(op, res.todo)]
  BY <1>1 DEF Run, refresh_from_disk, Task
<1>3. Fits(res.todo)
  <2>1. IsSeq(log)
    BY DEF LedgerInv, Types
  <2>2. Books(log)[Parent] \in Nat
    BY WidthAssumption DEF LogInv, Sound, Amount
  <2>. QED
    BY <1>1, <2>1, <2>2, Fitting
<1>4. CASE UNCHANGED task
  BY <1>4 DEF PlanInv
<1>. QED
  BY <1>2, <1>3, <1>4, PlanSet

(* Plans always fit.                                                       *)
LEMMA PlanKept ==
  ASSUME LedgerInv, LogInv, PlanInv, EnvInv, [Next]_vars
  PROVE  PlanInv'
<1>0. ops \in 0..MaxOps /\ "node" \in Proc /\ "cli" \in Proc
  BY DEF EnvInv, Proc
<1>1. CASE UNCHANGED task
  BY <1>1 DEF PlanInv
<1>2. ASSUME NEW r \in Request, execute_ledger_mutation(r) PROVE PlanInv'
  BY <1>0, <1>2, PlanRun DEF execute_ledger_mutation
<1>3. ASSUME NEW t \in Payment, RunPayment(t) PROVE PlanInv'
  BY <1>0, <1>3, PlanRun DEF RunPayment
<1>4. ASSUME NEW c \in Command, RunCommand(c) PROVE PlanInv'
  BY <1>0, <1>4, PlanRun DEF RunCommand
<1>5. ASSUME NEW p \in Proc, AppendEntry(p) \/ AppendCommitment(p) \/ Finish(p) \/ Crash(p)
      PROVE  PlanInv'
  <2>1. \/ task' = [task EXCEPT ![p] = Idle]
        \/ task[p].todo # << >> /\ task' = [task EXCEPT ![p].todo = Tail(@)]
    BY <1>5 DEF AppendEntry, AppendCommitment, Finish, Crash
  <2>2. CASE task' = [task EXCEPT ![p] = Idle]
    <3>1. task' = [task EXCEPT ![p] = Task(Nil, << >>)] /\ Fits(<< >>)
      BY <2>2, IdleTask, FitsPlans
    <3>. QED
      BY <3>1, PlanSet
  <2>3. CASE task[p].todo # << >> /\ task' = [task EXCEPT ![p].todo = Tail(@)]
    BY <2>3, PlanTail
  <2>. QED
    BY <2>1, <2>2, <2>3
<1>6. ASSUME NEW r \in Request, prepare_admin_value(r) PROVE UNCHANGED task
  BY <1>6 DEF prepare_admin_value
<1>7. CASE MoveRecord
  BY <1>1, <1>7 DEF MoveRecord
<1>8. CASE UNCHANGED vars
  BY <1>1, <1>8 DEF vars
<1>. QED
  BY <1>1, <1>2, <1>3, <1>4, <1>5, <1>6, <1>7, <1>8 DEF Next

(* Only requests are answered.                                             *)
LEMMA AnswerTypes ==
  ASSUME \A a \in answers : a.op \in Request,
         UNCHANGED answers \/ \E op, status : Answered(op, status)
  PROVE  \A a \in answers' : a.op \in Request
<1>1. CASE UNCHANGED answers
  BY <1>1
<1>2. ASSUME NEW op, NEW status, Answered(op, status)
      PROVE  \A a \in answers' : a.op \in Request
  <2>1. PICK b : b = [op |-> op, status |-> status]
    OBVIOUS
  <2>2. b.op = op
    BY <2>1
  <2>3. answers' = answers \/ (op \in Request /\ answers' = answers \cup {b})
    BY <1>2, <2>1, Zenon DEF Answered
  <2>. QED
    BY <2>2, <2>3
<1>. QED
  BY <1>1, <1>2

(* The other types are kept.                                               *)
LEMMA EnvKept ==
  ASSUME EnvInv, [Next]_vars
  PROVE  EnvInv'
<1>0. /\ torn \in BOOLEAN /\ linked \in BOOLEAN /\ kids \subseteq Account /\ deferred \subseteq Request
      /\ \A a \in answers : a.op \in Request
      /\ ops \in 0..MaxOps /\ crashes \in 0..MaxCrashes /\ moves \in 0..MaxMoves
  BY DEF EnvInv
<1>1. ASSUME NEW p, NEW op, Run(p, op) PROVE UNCHANGED answers \/ \E o, status : Answered(o, status)
  BY <1>1 DEF Run
<1>2. ASSUME NEW r \in Request, prepare_admin_value(r) PROVE EnvInv'
  <2>1. UNCHANGED answers \/ \E op, status : Answered(op, status)
    BY <1>2 DEF prepare_admin_value
  <2>2. \A a \in answers' : a.op \in Request
    BY <1>0, <2>1, AnswerTypes
  <2>. QED
    BY <1>0, <1>2, <2>2, BoundAssumption DEF prepare_admin_value, EnvInv, store_vars, record_vars
<1>3. ASSUME NEW r \in Request, execute_ledger_mutation(r) PROVE EnvInv'
  <2>2. \A a \in answers' : a.op \in Request
    BY <1>0, <1>1, <1>3, AnswerTypes DEF execute_ledger_mutation
  <2>. QED
    BY <1>0, <1>3, <2>2 DEF execute_ledger_mutation, EnvInv, store_vars, record_vars
<1>4. ASSUME NEW t \in Payment, RunPayment(t) PROVE EnvInv'
  <2>2. \A a \in answers' : a.op \in Request
    BY <1>0, <1>1, <1>4, AnswerTypes DEF RunPayment
  <2>. QED
    BY <1>0, <1>4, <2>2, BoundAssumption DEF RunPayment, EnvInv, store_vars, record_vars
<1>5. ASSUME NEW c \in Command, RunCommand(c) PROVE EnvInv'
  <2>2. \A a \in answers' : a.op \in Request
    BY <1>0, <1>1, <1>5, AnswerTypes DEF RunCommand
  <2>. QED
    BY <1>0, <1>5, <2>2, BoundAssumption DEF RunCommand, EnvInv, store_vars, record_vars
<1>6. ASSUME NEW p \in Proc, AppendEntry(p) PROVE EnvInv'
  <2>1. UNCHANGED answers \/ \E op, status : Answered(op, status)
    BY <1>6 DEF AppendEntry
  <2>2. \A a \in answers' : a.op \in Request
    BY <1>0, <2>1, AnswerTypes
  <2>. QED
    BY <1>0, <1>6, <2>2 DEF AppendEntry, EnvInv, record_vars
<1>7. ASSUME NEW p \in Proc, AppendCommitment(p) PROVE EnvInv'
  BY <1>0, <1>7 DEF AppendCommitment, EnvInv, record_vars
<1>8. ASSUME NEW p \in Proc, Finish(p) PROVE EnvInv'
  <2>1. UNCHANGED answers \/ \E op, status : Answered(op, status)
    BY <1>8 DEF Finish
  <2>2. \A a \in answers' : a.op \in Request
    BY <1>0, <2>1, AnswerTypes
  <2>. QED
    BY <1>0, <1>8, <2>2 DEF Finish, EnvInv, store_vars, record_vars
<1>9. ASSUME NEW p \in Proc, Crash(p) PROVE EnvInv'
  <2>1. torn' \in BOOLEAN
    BY <1>0, <1>9, Zenon DEF Crash
  <2>2. crashes' \in 0..MaxCrashes
    BY <1>0, <1>9, BoundAssumption DEF Crash
  <2>3. deferred' \subseteq Request
    BY <1>0, <1>9 DEF Crash
  <2>4. UNCHANGED <<kids, linked, moves, answers, ops>>
    BY <1>9 DEF Crash, record_vars
  <2>. QED
    BY <1>0, <2>1, <2>2, <2>3, <2>4 DEF EnvInv
<1>10. CASE MoveRecord
  <2>1. linked' \in BOOLEAN
    <3>1. linked' = ~linked \/ linked' = linked
      BY <1>10, Zenon DEF MoveRecord
    <3>. QED
      BY <1>0, <3>1, Zenon
  <2>2. moves' \in 0..MaxMoves
    BY <1>0, <1>10, BoundAssumption DEF MoveRecord
  <2>3. kids' \subseteq Account
    BY <1>0, <1>10 DEF MoveRecord
  <2>4. UNCHANGED <<torn, deferred, answers, ops, crashes>>
    BY <1>10 DEF MoveRecord, store_vars
  <2>. QED
    BY <1>0, <2>1, <2>2, <2>3, <2>4 DEF EnvInv
<1>11. CASE UNCHANGED vars
  BY <1>0, <1>11 DEF vars, EnvInv
<1>. QED
  BY <1>2, <1>3, <1>4, <1>5, <1>6, <1>7, <1>8, <1>9, <1>10, <1>11 DEF Next

(* New books are sound and nothing is to be accounted for.                 *)
LEMMA InitEquity == Init => EquityInv
<1>. SUFFICES ASSUME Init PROVE EquityInv
  OBVIOUS
<1>1. log = << >> /\ Len(log) = 0 /\ DOMAIN log = {}
  BY SeqEmpty, SeqFacts DEF Init
<1>2. PICK b : b = new_balances
  OBVIOUS
<1>3. Books(log) = b
  BY <1>1, <1>2, BooksEmpty
<1>4. DOMAIN b = {Parent} /\ b[Parent] = 0 /\ b = [ a \in DOMAIN b |-> b[a] ]
  BY <1>2 DEF new_balances
<1>5. Sound(b)
  <2>1. IsFiniteSet({Parent})
    BY FS_Singleton
  <2>. QED
    BY <1>4, <2>1, WidthAssumption DEF Sound, Amount
<1>6. \A f : SumOver(f, {}) = 0
  BY SumStart, FS_EmptySet DEF Terms
<1>7. equity(b) = 0
  <2>1. Children(b) = {}
    BY <1>4 DEF Children
  <2>. QED
    BY <1>4, <1>6, <2>1 DEF equity
<1>8. \A body : Counted(log, body) = 0
  <2>1. \A body : Places(log, body) = {}
    BY <1>1 DEF Places
  <2>. QED
    BY <1>6, <2>1 DEF Counted
<1>9. LogInv
  BY <1>1, <1>3, <1>5, <1>7, <1>8 DEF LogInv, Entries, Accounted
<1>10. PlanInv
  <2>1. \A p \in Proc : task[p] = Idle
    BY DEF Init
  <2>2. Fits(<< >>)
    BY FitsPlans
  <2>. QED
    BY <2>1, <2>2, IdleTask DEF PlanInv
<1>11. EnvInv
  <2>1. torn = FALSE /\ linked = TRUE
    BY DEF Init
  <2>2. torn \in BOOLEAN /\ linked \in BOOLEAN
    BY <2>1, Zenon
  <2>3. ops \in 0..MaxOps /\ crashes \in 0..MaxCrashes /\ moves \in 0..MaxMoves
    BY BoundAssumption DEF Init
  <2>4. kids \subseteq Account /\ deferred \subseteq Request /\ \A a \in answers : a.op \in Request
    BY DEF Init
  <2>. QED
    BY <2>2, <2>3, <2>4 DEF EnvInv
<1>. QED
  BY <1>9, <1>10, <1>11 DEF EquityInv

(***************************************************************************)
(* Value is created and destroyed only by the entries that say so: for any *)
(* requests, commands, payments and crashes, the equity a replay derives   *)
(* (Balances::equity) is what was burned less what was issued and written  *)
(* off, and every balance on the way is in its range.                      *)
(***************************************************************************)
THEOREM EquityExplained == Spec => []EquityAccounted
<1>1. EquityInv /\ LedgerInv /\ [Next]_vars => EquityInv'
  BY LogKept, PlanKept, EnvKept DEF EquityInv
<1>2. EquityInv /\ LedgerInv => EquityAccounted
  <2>. SUFFICES ASSUME EquityInv, LedgerInv PROVE EquityAccounted
    OBVIOUS
  <2>1. \A body : Total(body) = Counted(log, body)
    BY DEF Total, Counted, Amounts, Places
  <2>2. equity(Books(log)) = Total("Burn") - Total("Issue") - Total("EdgeClose")
    BY <2>1 DEF EquityInv, LogInv, Accounted
  <2>3. DOMAIN log = 1..Len(log) /\ commits \in Seq(Nat)
    BY SeqFacts DEF LedgerInv, Types
  <2>4. \A i \in DOMAIN log : log[i].body # "Commit" /\ log[i].nonce \in Nonce
    BY <2>3 DEF EquityInv, LogInv, Entries, Bodies
  <2>5. \A i \in DOMAIN commits : commits[i] \in Nat
    BY <2>3
  <2>6. \A p, q \in Proc : task[p] # Idle /\ task[q] # Idle => p = q
    BY DEF LedgerInv, Lock
  <2>7. \A c \in DOMAIN Books(log) : Books(log)[c] \in Amount
    BY DEF EquityInv, LogInv, Sound
  <2>8. TypeOK
    BY <2>4, <2>5, <2>6, <2>7 DEF TypeOK, EquityInv, EnvInv
  <2>. QED
    BY <2>2, <2>8 DEF EquityAccounted
<1>. QED
  BY <1>1, <1>2, InitEquity, LedgerInvariance, PTL DEF Spec
=============================================================================
