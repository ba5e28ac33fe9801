-------------------------- MODULE MembershipProofs --------------------------
(***************************************************************************)
(* What holds of the control plane for every set of nodes and users, every *)
(* tree to start from and every bound: records stay valid and queues       *)
(* bounded, a node's parent knows it, a generation means one address, and  *)
(* only the approval of the latest join gives a node a new parent.         *)
(***************************************************************************)
EXTENDS Membership, SequenceTheorems, WellFoundedInduction, TLAPS

Peer == Node \cup User

(***************************************************************************)
(* Types. IsRecord(r, n): the record of node n, which passes validate; a   *)
(* link to a parent is none, or names a node.                              *)
(***************************************************************************)
ChildLink == [kind : {"node", "user"}, slot : Slot, eth_address : {"none", "first", "rotated"}]

IsLink(l) == /\ l \in [id : Node \cup {"none"}, slot : Slot \cup {-1}, generation : Nat]
             /\ l.id = "none" => l = NoLink

IsKids(k) == /\ k = [ c \in DOMAIN k |-> k[c] ] /\ DOMAIN k \subseteq Peer
             /\ \A c \in DOMAIN k : k[c] \in ChildLink

MkRecord(id, address, link, kids, epoch) ==
  [id |-> id, address |-> address, parent |-> link, children |-> kids, address_epoch |-> epoch]

IsRecord(r, n) ==
  /\ r = MkRecord(n, r.address, r.parent, r.children, r.address_epoch)
  /\ r.address \in Seq(Slot) /\ r.address_epoch \in Nat
  /\ IsLink(r.parent) /\ IsKids(r.children)
  /\ validate(r)

(* What validate asks of a node's link and address, and of its children.   *)
LinkFits(n, a, l) ==
  /\ l # NoLink => l.id # n /\ l.slot \in Slot
  /\ a # None => IF l # NoLink THEN Len(a) >= 2 /\ a[Len(a)] = l.slot ELSE Len(a) = 1

KidsFit(n, k) ==
  /\ \A c \in DOMAIN k : c # n
  /\ \A c, d \in DOMAIN k : c # d => k[c].slot # k[d].slot

JoinBody == [node : Node, kind : {"node"}, ledger : Nat, slot : Slot \cup {AnySlot}, nonce : Nat]

IsPending(q, n) ==
  /\ q \in Seq(JoinBody) /\ Len(q) <= MAX_PENDING_JOINS
  /\ \A i \in 1..Len(q) : q[i].node # n
  /\ \A i, j \in 1..Len(q) : i # j => q[i].node # q[j].node

Outbound == [nonce : Nat, parent : Node \cup {"none"}, slot : Slot \cup {AnySlot}]

MkFile(rec, peers, pending, outbound) ==
  [rec |-> rec, peers |-> peers, pending |-> pending, outbound |-> outbound]

IsFile(f, n) ==
  /\ f = MkFile(f.rec, f.peers, f.pending, f.outbound)
  /\ IsRecord(f.rec, n) /\ IsPending(f.pending, n) /\ f.outbound \in Outbound

(* The frames of each kind.                                                *)
Shaped ==
  [kind : {"Join"}, from : Node, to : Node, again : BOOLEAN, body : JoinBody]
    \cup [kind : {"Approved"}, from : Node, to : Node, again : BOOLEAN,
          body : [slot : Slot, address : Seq(Slot) \ {None}, nonce : Nat]]
    \cup [kind : {"Rejected"}, from : Node, to : Node, again : BOOLEAN, body : [nonce : Nat]]
    \cup [kind : {"Exit", "DetachNotice", "Pull"}, from : Node, to : Node, again : BOOLEAN, body : {<< >>}]
    \cup [kind : {"Rebase"}, from : Node, to : Peer, again : BOOLEAN,
          body : [parent_address : Seq(Slot), address : Seq(Slot) \ {None}, generation : Nat]]
    \cup [kind : {"Snapshot"}, from : Node, to : Node, again : BOOLEAN, body : [address : Seq(Slot), slot : Slot]]

MkEng(up, rec, pending, outbound, retry, decisions) ==
  [up |-> up, rec |-> rec, pending |-> pending, outbound |-> outbound, retry |-> retry, decisions |-> decisions]

IsEng(e, n) ==
  /\ e = MkEng(e.up, e.rec, e.pending, e.outbound, e.retry, e.decisions)
  /\ e.up \in BOOLEAN /\ IsRecord(e.rec, n) /\ IsPending(e.pending, n) /\ e.outbound \in Outbound
  /\ e.retry \in Seq(Shaped) /\ Len(e.retry) <= MAX_PENDING_REBASE
  /\ e.decisions \in Seq(Shaped) /\ Len(e.decisions) <= MAX_STORED_DECISIONS

(* A command under way, and what it will send: an approval has its row in  *)
(* the registry it saves, a notice the address and epoch of the record.    *)
Sends(f, n, x) ==
  /\ f \in Shaped /\ f.from = n
  /\ f.kind = "Join" => f.body.node # f.to
  /\ f.kind = "Approved" => x.cmd = "approve" /\ f.to \in DOMAIN x.new.peers
  /\ f.kind = "Rebase" => /\ x.cmd = "exit"
                          /\ f.body.generation = x.new.rec.address_epoch
                          /\ f.body.address = child(x.new.rec.address, x.new.rec.children[f.to].slot)

IsCli(x, n) ==
  x # Idle => /\ x.cmd \in {"join", "approve", "reject", "exit", "topo"}
              /\ IsFile(x.new, n)
              /\ \A f \in x.send : Sends(f, n, x)

Beside(e, x) == e.up /\ x # Idle => x.cmd \in LiveCommand

Nodes == \A n \in Node : IsFile(file[n], n) /\ IsEng(eng[n], n) /\ IsCli(cli[n], n) /\ Beside(eng[n], cli[n])

(***************************************************************************)
(* What the commands beside a running node leave alone: its registry, its  *)
(* record too, or its outbound join as well.                               *)
(***************************************************************************)
RowsAlone == "approve" \notin LiveCommand

RecordAlone == LiveCommand \subseteq {"join", "reject"}

JoinsAlone == LiveCommand \subseteq {"reject"}

(* The parent named in a record r of node n has a row for n, wherever the  *)
(* record is: on file, in the engine, or in a command.                     *)
Rowed(n, r) ==
  r.parent.id \in Node /\ <<n, r.parent.id>> \notin hand => n \in DOMAIN file[r.parent.id].peers

Rows(n, f, e, x) ==
  /\ Rowed(n, f.rec) /\ Rowed(n, e.rec)
  /\ x # Idle => /\ Rowed(n, x.new.rec)
                 /\ x.cmd = "approve" => DOMAIN f.peers \subseteq DOMAIN x.new.peers

(* The mark in a record is one of the parent's generations. A running      *)
(* engine has the record on file, and a command that saves the record has  *)
(* the next one.                                                           *)
Marked(r) == r.parent.id \in Node => r.parent.generation <= file[r.parent.id].rec.address_epoch

Records(f, e, x) ==
  /\ Marked(f.rec) /\ (e.up => e.rec = f.rec)
  /\ x # Idle /\ x.cmd \in {"approve", "exit", "topo"} =>
       /\ Marked(x.new.rec) /\ f.rec.address_epoch <= x.new.rec.address_epoch
       /\ x.cmd = "approve" => x.new.rec.parent = f.rec.parent
       /\ x.cmd = "exit" => x.new.rec.parent.id = "none" /\ f.rec.address_epoch < x.new.rec.address_epoch

(* The join a running engine waits for is the one on file, and so is the   *)
(* one that a rejection under way will save again.                         *)
Joins(f, e, x) ==
  /\ e.up => e.outbound \in {NoJoin, f.outbound}
  /\ x # Idle /\ x.cmd = "reject" => /\ f.outbound \in {NoJoin, x.new.outbound}
                                     /\ e.up => e.outbound \in {NoJoin, x.new.outbound}

(* What a frame says of its sender: an approval that the row is written, a *)
(* notice that its generation has been reached.                            *)
Backed(f) ==
  /\ f.kind = "Join" => f.body.node # f.to
  /\ RowsAlone /\ f.kind = "Approved" => f.to \in DOMAIN file[f.from].peers
  /\ RecordAlone /\ f.kind = "Rebase" => f.body.generation <= file[f.from].rec.address_epoch

Elements(q) == { q[i] : i \in 1..Len(q) }

(* Everything that is under way, queued again, or kept to be sent again.   *)
Frames == net \cup { f \in Shaped : \E n \in Node : f \in Elements(eng[n].retry) \cup Elements(eng[n].decisions) }

SameNotice(f, g) ==
  /\ f.kind = "Rebase" /\ g.kind = "Rebase" /\ f.from = g.from /\ f.to = g.to
  /\ f.body.generation = g.body.generation
  => f.body.address = g.body.address

MemberInv ==
  /\ DOMAIN file = Node /\ DOMAIN eng = Node /\ DOMAIN cli = Node /\ joins \in Nat
  /\ file = [ n \in Node |-> file[n] ] /\ eng = [ n \in Node |-> eng[n] ] /\ cli = [ n \in Node |-> cli[n] ]
  /\ Nodes
  /\ net \subseteq Shaped
  /\ \A f \in Frames : Backed(f)
  /\ RowsAlone => \A n \in Node : Rows(n, file[n], eng[n], cli[n])
  /\ RecordAlone => \A n \in Node : Records(file[n], eng[n], cli[n])
  /\ RecordAlone => \A f, g \in Frames : SameNotice(f, g)
  /\ JoinsAlone => \A n \in Node : Joins(file[n], eng[n], cli[n])
-----------------------------------------------------------------------------
(***************************************************************************)
(* Queues.                                                                 *)
(***************************************************************************)
LEMMA Least ==
  ASSUME NEW T \in SUBSET Nat, T # {}
  PROVE  LowestOf(T) \in T
<1>1. \E x \in T : \A y \in T : ~(<<y, x>> \in OpToRel(<, Nat))
  BY NatLessThanWellFounded, WFMin, Zenon
<1>2. \E x \in T : \A y \in T : ~(y < x)
  BY <1>1, Zenon DEF OpToRel
<1>3. \E x \in T : \A y \in T : x <= y
  BY <1>2
<1>. QED
  BY <1>3 DEF LowestOf

(* The queue without an entry: each of the others once, in their order.    *)
LEMMA RemoveAtFacts ==
  ASSUME NEW S, NEW s \in Seq(S), NEW k \in 1..Len(s)
  PROVE  /\ RemoveAt(s, k) \in Seq(S)
         /\ Len(RemoveAt(s, k)) = Len(s) - 1
         /\ \A i \in 1..(Len(s) - 1) : RemoveAt(s, k)[i] = s[IF i < k THEN i ELSE i + 1]
<1>. DEFINE n == Len(s)
            a == SubSeq(s, 1, k - 1)
            b == SubSeq(s, k + 1, n)
<1>1. n \in Nat /\ k \in Nat /\ 1 <= k /\ k <= n
  OBVIOUS
<1>2. a \in Seq(S) /\ Len(a) = k - 1 /\ \A i \in 1..(k - 1) : a[i] = s[i]
  BY <1>1
<1>3. b \in Seq(S) /\ Len(b) = n - k /\ \A i \in 1..(n - k) : b[i] = s[i + k]
  BY <1>1
<1>. HIDE DEF a, b
<1>4. /\ a \o b \in Seq(S) /\ Len(a \o b) = Len(a) + Len(b)
      /\ \A i \in 1..(Len(a) + Len(b)) : (a \o b)[i] = IF i <= Len(a) THEN a[i] ELSE b[i - Len(a)]
  BY <1>2, <1>3, ConcatProperties
<1>5. RemoveAt(s, k) = a \o b
  BY DEF RemoveAt, a, b
<1>. HIDE DEF n
<1>6. ASSUME NEW i \in 1..(n - 1)
      PROVE  (a \o b)[i] = s[IF i < k THEN i ELSE i + 1]
  <2>1. CASE i < k
    <3>1. i \in 1..(k - 1) /\ i \in 1..(Len(a) + Len(b)) /\ i <= Len(a)
      BY <1>1, <1>2, <1>3, <2>1
    <3>. QED
      BY <1>2, <1>4, <2>1, <3>1
  <2>2. CASE ~(i < k)
    <3>1. i - (k - 1) \in 1..(n - k) /\ i \in 1..(Len(a) + Len(b)) /\ ~(i <= Len(a)) /\ Len(a) = k - 1
      BY <1>1, <1>2, <1>3, <2>2
    <3>2. (a \o b)[i] = b[i - (k - 1)]
      BY <1>4, <3>1
    <3>3. i - (k - 1) + k = i + 1
      BY <1>1
    <3>4. b[i - (k - 1)] = s[i + 1]
      BY <1>3, <3>1, <3>3
    <3>. QED
      BY <2>2, <3>2, <3>4
  <2>. QED
    BY <2>1, <2>2
<1>7. Len(a \o b) = n - 1
  BY <1>1, <1>2, <1>3, <1>4
<1>. QED
  BY <1>4, <1>5, <1>6, <1>7 DEF n

(* Without takes nothing but one entry away.                               *)
LEMMA WithoutFacts ==
  ASSUME NEW S, NEW q \in Seq(S), NEW T \in SUBSET DOMAIN q
  PROVE  /\ Without(q, T) \in Seq(S) /\ Len(Without(q, T)) <= Len(q)
         /\ \A i \in 1..Len(Without(q, T)) : \E j \in 1..Len(q) : Without(q, T)[i] = q[j]
         /\ \A i, j \in 1..Len(Without(q, T)) :
              i # j => \E x, y \in 1..Len(q) : x # y /\ Without(q, T)[i] = q[x] /\ Without(q, T)[j] = q[y]
<1>0. Len(q) \in Nat /\ DOMAIN q = 1..Len(q)
  BY LenProperties
<1>1. CASE T = {}
  <2>1. Without(q, T) = q
    BY <1>1 DEF Without
  <2>. QED
    BY <1>0, <2>1
<1>2. CASE T # {}
  <2>. DEFINE k == LowestOf(T)
              w == RemoveAt(q, k)
              At(i) == IF i < k THEN i ELSE i + 1
  <2>1. T \in SUBSET Nat
    BY <1>0
  <2>2. k \in 1..Len(q)
    BY <1>0, <1>2, <2>1, Least
  <2>3. Without(q, T) = w
    BY <1>2 DEF Without
  <2>. HIDE DEF k
  <2>4. w \in Seq(S) /\ Len(w) = Len(q) - 1 /\ \A i \in 1..(Len(q) - 1) : w[i] = q[At(i)]
    BY <2>2, RemoveAtFacts
  <2>. HIDE DEF w
  <2>5. Len(w) <= Len(q)
    BY <1>0, <2>4
  <2>6. \A i \in 1..Len(w) : At(i) \in 1..Len(q) /\ w[i] = q[At(i)]
    BY <1>0, <2>2, <2>4
  <2>7. \A i, j \in 1..Len(w) : i # j => At(i) # At(j)
    BY <1>0, <2>2, <2>4
  <2>. HIDE DEF At
  <2>8. \A i \in 1..Len(w) : \E j \in 1..Len(q) : w[i] = q[j]
    BY <2>6, Zenon
  <2>9. \A i, j \in 1..Len(w) : i # j => \E x, y \in 1..Len(q) : x # y /\ w[i] = q[x] /\ w[j] = q[y]
    BY <2>6, <2>7, Zenon
  <2>. QED
    BY <2>3, <2>4, <2>5, <2>8, <2>9
<1>. QED
  BY <1>1, <1>2

(* A queue that takes one more at the end, and loses its head when full.   *)
LEMMA NewestFacts ==
  ASSUME NEW S, NEW q \in Seq(S), NEW f \in S, NEW m \in Nat \ {0}, Len(q) <= m, NEW T \in SUBSET DOMAIN q
  PROVE  LET all == Append(Without(q, T), f)
             new == IF Len(all) > m THEN Tail(all) ELSE all
         IN  /\ new \in Seq(S) /\ Len(new) <= m
             /\ \A g \in Elements(new) : g \in Elements(q) \/ g = f
<1>. DEFINE w == Without(q, T)
            all == Append(w, f)
            t == Tail(all)
<1>0. Len(q) \in Nat
  BY LenProperties
<1>1. w \in Seq(S) /\ Len(w) <= Len(q) /\ \A i \in 1..Len(w) : w[i] \in Elements(q)
  <2>1. w \in Seq(S) /\ Len(w) <= Len(q) /\ \A i \in 1..Len(w) : \E j \in 1..Len(q) : w[i] = q[j]
    BY WithoutFacts
  <2>. QED
    BY <2>1, Zenon DEF Elements
<1>. HIDE DEF w
<1>2. Len(w) \in Nat
  BY <1>1, LenProperties
<1>3. /\ all \in Seq(S) /\ Len(all) = Len(w) + 1 /\ all[Len(w) + 1] = f
      /\ \A i \in 1..Len(w) : all[i] = w[i]
  BY <1>1, AppendProperties
<1>. HIDE DEF all
<1>4. \A i \in 1..Len(all) : all[i] \in Elements(q) \/ all[i] = f
  <2>1. \A i \in 1..Len(all) : i \in 1..Len(w) \/ i = Len(w) + 1
    BY <1>2, <1>3
  <2>. QED
    BY <1>1, <1>3, <2>1
<1>5. \A g \in Elements(all) : g \in Elements(q) \/ g = f
  BY <1>4, Zenon DEF Elements
<1>6. CASE ~(Len(all) > m)
  <2>1. Len(all) <= m
    BY <1>2, <1>3, <1>6
  <2>. QED
    BY <1>3, <1>5, <1>6, <2>1, Zenon DEF all, w
<1>7. CASE Len(all) > m
  <2>1. all # << >>
    BY <1>2, <1>3, EmptySeq
  <2>2. t \in Seq(S) /\ Len(t) = Len(all) - 1 /\ \A i \in 1..Len(t) : t[i] = all[i + 1]
    BY <1>3, <2>1, HeadTailProperties
  <2>. HIDE DEF t
  <2>3. Len(t) <= m
    BY <1>0, <1>1, <1>2, <1>3, <2>2
  <2>4. \A i \in 1..Len(t) : i + 1 \in 1..Len(all)
    BY <1>2, <1>3, <2>2
  <2>5. \A i \in 1..Len(t) : t[i] \in Elements(q) \/ t[i] = f
    BY <1>4, <2>2, <2>4
  <2>6. \A g \in Elements(t) : g \in Elements(q) \/ g = f
    BY <2>5, Zenon DEF Elements
  <2>. QED
    BY <1>7, <2>2, <2>3, <2>6, Zenon DEF t, all, w
<1>. QED
  BY <1>6, <1>7

LEMMA RemovePendingFacts ==
  ASSUME NEW n, NEW q, IsPending(q, n), NEW c
  PROVE  IsPending(remove_pending(q, c), n)
<1>. DEFINE T == { i \in DOMAIN q : q[i].node = c }
            w == Without(q, T)
<1>1. q \in Seq(JoinBody) /\ Len(q) \in Nat /\ Len(q) <= MAX_PENDING_JOINS /\ MAX_PENDING_JOINS \in Nat
  BY AskAssumption, LenProperties DEF IsPending
<1>2. /\ w \in Seq(JoinBody) /\ Len(w) <= Len(q)
      /\ \A i \in 1..Len(w) : \E j \in 1..Len(q) : w[i] = q[j]
      /\ \A i, j \in 1..Len(w) : i # j => \E x, y \in 1..Len(q) : x # y /\ w[i] = q[x] /\ w[j] = q[y]
  <2>1. T \in SUBSET DOMAIN q
    OBVIOUS
  <2>. HIDE DEF T
  <2>. QED
    BY <1>1, <2>1, WithoutFacts
<1>3. remove_pending(q, c) = w
  BY DEF remove_pending
<1>. HIDE DEF w, T
<1>4. Len(w) \in Nat /\ Len(w) <= MAX_PENDING_JOINS
  BY <1>1, <1>2, LenProperties
<1>5. \A i \in 1..Len(w) : w[i].node # n
  <2>1. \A j \in 1..Len(q) : q[j].node # n
    BY DEF IsPending
  <2>. QED
    BY <1>2, <2>1, Zenon
<1>6. \A i, j \in 1..Len(w) : i # j => w[i].node # w[j].node
  <2>1. \A i, j \in 1..Len(q) : i # j => q[i].node # q[j].node
    BY DEF IsPending
  <2>2. ASSUME NEW i \in 1..Len(w), NEW j \in 1..Len(w), i # j
        PROVE  w[i].node # w[j].node
    <3>1. PICK x \in 1..Len(q), y \in 1..Len(q) : x # y /\ w[i] = q[x] /\ w[j] = q[y]
      BY <1>2, <2>2
    <3>2. q[x].node # q[y].node
      BY <2>1, <3>1
    <3>. QED
      BY <3>1, <3>2
  <2>. QED
    BY <2>2
<1>. QED
  BY <1>2, <1>3, <1>4, <1>5, <1>6 DEF IsPending
-----------------------------------------------------------------------------
(***************************************************************************)
(* Records: what a mutator returns, and that it passes validate.           *)
(***************************************************************************)
LEMMA RecordParts ==
  ASSUME NEW n, NEW r, IsRecord(r, n)
  PROVE  /\ r = MkRecord(n, r.address, r.parent, r.children, r.address_epoch)
         /\ r.address \in Seq(Slot) /\ r.address_epoch \in Nat /\ IsLink(r.parent) /\ IsKids(r.children)
         /\ LinkFits(n, r.address, r.parent) /\ KidsFit(n, r.children)
<1>1. r.id = n
  BY DEF IsRecord, MkRecord
<1>2. validate(r)
  BY DEF IsRecord
<1>3. LinkFits(n, r.address, r.parent)
  BY <1>1, <1>2 DEF validate, LinkFits, HasParent, depth, slot, is_root
<1>4. KidsFit(n, r.children)
  BY <1>1, <1>2 DEF validate, KidsFit, Kids
<1>. QED
  BY <1>3, <1>4 DEF IsRecord

LEMMA RecordMade ==
  ASSUME NEW n, NEW a \in Seq(Slot), NEW l, NEW k, NEW e \in Nat, IsLink(l), IsKids(k), LinkFits(n, a, l), KidsFit(n, k)
  PROVE  IsRecord(MkRecord(n, a, l, k, e), n)
<1>. DEFINE r == MkRecord(n, a, l, k, e)
<1>1. r.id = n /\ r.address = a /\ r.parent = l /\ r.children = k /\ r.address_epoch = e
  BY DEF MkRecord
<1>. HIDE DEF r
<1>2. \A c \in DOMAIN k : k[c].slot \in Slot
  BY DEF IsKids, ChildLink
<1>3. validate(r)
  BY <1>1, <1>2 DEF validate, LinkFits, KidsFit, HasParent, Kids, depth, slot, is_root
<1>4. r = MkRecord(n, r.address, r.parent, r.children, r.address_epoch)
  BY <1>1 DEF r
<1>. QED
  BY <1>1, <1>3, <1>4 DEF IsRecord, r

(* The fields of a record made of its parts.                               *)
LEMMA Fields ==
  ASSUME NEW n, NEW a, NEW l, NEW k, NEW e
  PROVE  LET r == MkRecord(n, a, l, k, e)
         IN  r.id = n /\ r.address = a /\ r.parent = l /\ r.children = k /\ r.address_epoch = e
BY DEF MkRecord

(* The node whose record names a parent.                                   *)
LEMMA ParentNamed ==
  ASSUME NEW n, NEW r, IsRecord(r, n)
  PROVE  /\ HasParent(r) <=> r.parent.id \in Node
         /\ r.parent.id = "none" \/ r.parent.id \in Node \ {n}
<1>1. IsLink(r.parent) /\ LinkFits(n, r.address, r.parent)
  BY RecordParts
<1>2. r.parent.id \in Node \cup {"none"} /\ "none" \notin Node
  BY <1>1, NamesAssumption DEF IsLink
<1>3. NoLink.id = "none"
  BY DEF NoLink
<1>. QED
  BY <1>1, <1>2, <1>3 DEF HasParent, IsLink, LinkFits

LEMMA NoLinkIs == IsLink(NoLink) /\ NoLink.id = "none" /\ NoLink.id \notin Node /\ NoLink.generation = 0
<1>1. NoLink.id = "none" /\ NoLink.generation = 0
  BY DEF NoLink
<1>2. IsLink(NoLink)
  BY DEF NoLink, IsLink
<1>. QED
  BY <1>1, <1>2, NamesAssumption

(* set_address_value: the epoch grows exactly when the address changes.    *)
LEMMA AddressSet ==
  ASSUME NEW n, NEW a, NEW l, NEW k, NEW e \in Nat, NEW b
  PROVE  \E d \in Nat : /\ set_address_value(MkRecord(n, a, l, k, e), b) = MkRecord(n, b, l, k, d)
                        /\ d >= e /\ (a # b => d > e)
<1>. DEFINE r == MkRecord(n, a, l, k, e)
<1>1. CASE a = b
  <2>1. set_address_value(r, b) = MkRecord(n, b, l, k, e)
    BY <1>1 DEF set_address_value, MkRecord
  <2>. QED
    BY <1>1, <2>1
<1>2. CASE a # b
  <2>1. set_address_value(r, b) = MkRecord(n, b, l, k, e + 1)
    BY <1>2 DEF set_address_value, MkRecord
  <2>2. e + 1 \in Nat /\ e + 1 >= e /\ e + 1 > e
    OBVIOUS
  <2>. QED
    BY <2>1, <2>2
<1>. QED
  BY <1>1, <1>2

(* The exit and detach primitive: a root with the same children.           *)
LEMMA RootFacts ==
  ASSUME NEW n, NEW r, IsRecord(r, n)
  PROVE  \E d \in Nat : /\ rebase_to_root(r) = MkRecord(n, <<0>>, NoLink, r.children, d)
                        /\ IsRecord(rebase_to_root(r), n)
                        /\ d >= r.address_epoch /\ (HasParent(r) => d > r.address_epoch)
<1>. DEFINE a == r.address
            l == r.parent
            k == r.children
            e == r.address_epoch
<1>1. /\ r = MkRecord(n, a, l, k, e) /\ a \in Seq(Slot) /\ e \in Nat /\ IsKids(k)
      /\ LinkFits(n, a, l) /\ KidsFit(n, k)
  BY RecordParts
<1>. HIDE DEF a, l, k, e
<1>2. [r EXCEPT !.parent = NoLink] = MkRecord(n, a, NoLink, k, e)
  BY <1>1 DEF MkRecord
<1>3. PICK d \in Nat : /\ set_address_value(MkRecord(n, a, NoLink, k, e), <<0>>) = MkRecord(n, <<0>>, NoLink, k, d)
                       /\ d >= e /\ (a # <<0>> => d > e)
  BY <1>1, AddressSet
<1>4. rebase_to_root(r) = MkRecord(n, <<0>>, NoLink, k, d)
  BY <1>2, <1>3 DEF rebase_to_root
<1>5. <<0>> \in Seq(Slot) /\ Len(<<0>>) = 1 /\ <<0>> # None
  BY DEF Slot, MAX_SLOT, None
<1>6. LinkFits(n, <<0>>, NoLink)
  BY <1>5 DEF LinkFits
<1>7. IsRecord(MkRecord(n, <<0>>, NoLink, k, d), n)
  BY <1>1, <1>5, <1>6, NoLinkIs, RecordMade
<1>8. l # NoLink => a # <<0>>
  BY <1>1, <1>5 DEF LinkFits
<1>. QED
  BY <1>3, <1>4, <1>7, <1>8 DEF HasParent, a, l, k, e

LEMMA UnsetFacts ==
  ASSUME NEW n, NEW r, IsRecord(r, n)
  PROVE  LET u == unset_parent(r)
         IN  IsRecord(u, n) /\ u.parent = NoLink /\ u.address_epoch >= r.address_epoch
<1>. DEFINE a == r.address
            l == r.parent
            k == r.children
            e == r.address_epoch
            cut == MkRecord(n, a, NoLink, k, e)
<1>1. /\ r = MkRecord(n, a, l, k, e) /\ a \in Seq(Slot) /\ e \in Nat /\ IsKids(k)
      /\ LinkFits(n, a, l) /\ KidsFit(n, k)
  BY RecordParts
<1>. HIDE DEF a, l, k, e
<1>2. [r EXCEPT !.parent = NoLink] = cut /\ r.address = a
  BY <1>1 DEF MkRecord, a
<1>3. CASE a # None /\ ~is_root(a)
  <2>1. PICK d \in Nat : set_address_value(cut, None) = MkRecord(n, None, NoLink, k, d) /\ d >= e
    BY <1>1, AddressSet
  <2>2. unset_parent(r) = MkRecord(n, None, NoLink, k, d)
    BY <1>2, <1>3, <2>1 DEF unset_parent
  <2>3. LinkFits(n, None, NoLink) /\ None \in Seq(Slot)
    BY DEF LinkFits, None
  <2>4. IsRecord(MkRecord(n, None, NoLink, k, d), n)
    BY <1>1, <2>3, NoLinkIs, RecordMade
  <2>. QED
    BY <2>1, <2>2, <2>4, Fields DEF e
<1>4. CASE ~(a # None /\ ~is_root(a))
  <2>1. unset_parent(r) = cut
    BY <1>2, <1>4 DEF unset_parent
  <2>2. LinkFits(n, a, NoLink)
    BY <1>4 DEF LinkFits, is_root, depth
  <2>3. IsRecord(cut, n)
    BY <1>1, <2>2, NoLinkIs, RecordMade
  <2>4. e >= e
    BY <1>1
  <2>. QED
    BY <2>1, <2>3, <2>4, Fields DEF e
<1>. QED
  BY <1>3, <1>4

(* set_address_value on its own: validate decides.                         *)
LEMMA AssertFacts ==
  ASSUME NEW n, NEW r, IsRecord(r, n), NEW b \in Seq(Slot), validate(set_address_value(r, b))
  PROVE  LET u == set_address_value(r, b)
         IN  IsRecord(u, n) /\ u.parent = r.parent /\ u.address_epoch >= r.address_epoch
<1>. DEFINE a == r.address
            l == r.parent
            k == r.children
            e == r.address_epoch
<1>1. /\ r = MkRecord(n, a, l, k, e) /\ e \in Nat /\ IsKids(k) /\ IsLink(l) /\ KidsFit(n, k)
  BY RecordParts
<1>. HIDE DEF a, l, k, e
<1>2. PICK d \in Nat : set_address_value(r, b) = MkRecord(n, b, l, k, d) /\ d >= e
  BY <1>1, AddressSet
<1>3. IsRecord(MkRecord(n, b, l, k, d), n)
  BY <1>1, <1>2, Fields DEF IsRecord
<1>. QED
  BY <1>2, <1>3, Fields DEF l, e

(* The link and the address an approval gives; the epoch always advances.  *)
LEMMA AttachedFacts ==
  ASSUME NEW n, NEW r, IsRecord(r, n), NEW f, f.from \in Node, f.body.slot \in Slot,
         f.body.address \in Seq(Slot) \ {None}, validate(AttachedRecord(r, f))
  PROVE  LET u == AttachedRecord(r, f)
         IN  /\ IsRecord(u, n) /\ u.parent.id = f.from /\ u.parent.generation = 0
             /\ u.address_epoch > r.address_epoch
<1>. DEFINE a == r.address
            l == r.parent
            k == r.children
            e == r.address_epoch
            b == f.body.address
            m == [id |-> f.from, slot |-> f.body.slot, generation |-> 0]
<1>1. /\ r = MkRecord(n, a, l, k, e) /\ e \in Nat /\ IsKids(k)
  BY RecordParts
<1>2. m \in [id : Node \cup {"none"}, slot : Slot \cup {-1}, generation : Nat] /\ m.id = f.from
  OBVIOUS
<1>3. IsLink(m) /\ m.id = f.from /\ m.generation = 0
  BY <1>2, NamesAssumption DEF IsLink
<1>. HIDE DEF a, l, k, e
<1>4. PICK d \in Nat : unset_address(r) = MkRecord(n, None, l, k, d) /\ d >= e
  BY <1>1, AddressSet DEF unset_address
<1>5. set_parent(MkRecord(n, None, l, k, d), f.from, f.body.slot) = MkRecord(n, None, m, k, d)
  BY DEF set_parent, MkRecord
<1>. HIDE DEF m
<1>6. PICK g \in Nat : set_address(MkRecord(n, None, m, k, d), b) = MkRecord(n, b, m, k, g) /\ g > d
  BY AddressSet DEF set_address
<1>7. AttachedRecord(r, f) = MkRecord(n, b, m, k, g)
  BY <1>4, <1>5, <1>6 DEF AttachedRecord
<1>8. IsRecord(MkRecord(n, b, m, k, g), n)
  BY <1>1, <1>3, <1>7, Fields DEF IsRecord
<1>9. g > e
  BY <1>1, <1>4, <1>6
<1>. QED
  BY <1>3, <1>7, <1>8, <1>9, Fields DEF e

(* A re-base: the same parent, its mark no lower, and a new epoch for a    *)
(* new address.                                                            *)
LEMMA RebaseFacts ==
  ASSUME NEW n, NEW r, IsRecord(r, n), HasParent(r), NEW b \in Seq(Slot), NEW s \in Slot, NEW g \in Nat
  PROVE  LET u == apply_rebase(r, b, s, g)
         IN  /\ u.parent.id = r.parent.id
             /\ u.parent.generation = IF g > r.parent.generation THEN g ELSE r.parent.generation
             /\ u.address_epoch >= r.address_epoch /\ (r.address # b => u.address_epoch > r.address_epoch)
             /\ (Len(b) >= 2 /\ b[Len(b)] = s) \/ validate(u) => IsRecord(u, n)
<1>. DEFINE a == r.address
            l == r.parent
            k == r.children
            e == r.address_epoch
            Lk(h) == [id |-> l.id, slot |-> s, generation |-> h]
            h == IF g > l.generation THEN g ELSE l.generation
            u == apply_rebase(r, b, s, g)
<1>1. /\ r = MkRecord(n, a, l, k, e) /\ e \in Nat /\ IsKids(k) /\ IsLink(l) /\ KidsFit(n, k) /\ LinkFits(n, a, l)
  BY RecordParts
<1>2. l.id \in Node \ {n} /\ l.generation \in Nat
  <2>1. r.parent.id \in Node /\ (r.parent.id = "none" \/ r.parent.id \in Node \ {n})
    BY ParentNamed
  <2>2. r.parent.generation \in Nat
    BY <1>1 DEF IsLink
  <2>. QED
    BY <2>1, <2>2, NamesAssumption
<1>. HIDE DEF a, l, k, e
<1>3. PICK d \in Nat : /\ set_address_value(r, b) = MkRecord(n, b, l, k, d)
                       /\ d >= e /\ (a # b => d > e)
  BY <1>1, AddressSet
<1>4. l = [id |-> l.id, slot |-> l.slot, generation |-> l.generation]
  BY <1>1 DEF IsLink
<1>5. [l EXCEPT !.slot = s] = Lk(l.generation)
  BY <1>4
<1>6. [set_address_value(r, b) EXCEPT !.parent.slot = s] = MkRecord(n, b, Lk(l.generation), k, d)
  BY <1>3, <1>5 DEF MkRecord
<1>7. \A x \in Nat : IsLink(Lk(x)) /\ Lk(x) # NoLink /\ Lk(x).id = l.id /\ Lk(x).slot = s /\ Lk(x).generation = x
  <2>. TAKE x \in Nat
  <2>1. Lk(x) \in [id : Node \cup {"none"}, slot : Slot \cup {-1}, generation : Nat]
    BY <1>2
  <2>2. Lk(x).id = l.id /\ Lk(x).slot = s /\ Lk(x).generation = x
    OBVIOUS
  <2>. HIDE DEF Lk
  <2>3. l.id # "none" /\ NoLink.id = "none"
    BY <1>2, NamesAssumption, NoLinkIs
  <2>4. Lk(x) # NoLink
    BY <2>2, <2>3
  <2>. QED
    BY <2>1, <2>2, <2>3, <2>4 DEF IsLink
<1>8. [Lk(l.generation) EXCEPT !.generation = g] = Lk(g)
  OBVIOUS
<1>. HIDE DEF Lk
<1>9. u = MkRecord(n, b, Lk(h), k, d)
  <2>. DEFINE v == MkRecord(n, b, Lk(l.generation), k, d)
  <2>1. u = set_parent_generation(v, g)
    BY <1>6 DEF apply_rebase
  <2>2. HasParent(v) /\ v.parent = Lk(l.generation) /\ v.parent.generation = l.generation
    BY <1>2, <1>7, Fields DEF HasParent
  <2>3. [v EXCEPT !.parent.generation = g] = MkRecord(n, b, Lk(g), k, d)
    BY <1>8 DEF MkRecord
  <2>4. CASE g > l.generation
    BY <2>1, <2>2, <2>3, <2>4 DEF set_parent_generation
  <2>5. CASE ~(g > l.generation)
    BY <2>1, <2>2, <2>5 DEF set_parent_generation
  <2>. QED
    BY <2>4, <2>5
<1>10. h \in Nat
  BY <1>2
<1>. HIDE DEF h, u
<1>11. (Len(b) >= 2 /\ b[Len(b)] = s) \/ validate(u) => IsRecord(u, n)
  <2>1. CASE Len(b) >= 2 /\ b[Len(b)] = s
    <3>1. LinkFits(n, b, Lk(h))
      BY <1>2, <1>7, <1>10, <2>1 DEF LinkFits
    <3>. QED
      BY <1>1, <1>3, <1>7, <1>9, <1>10, <3>1, RecordMade
  <2>2. CASE validate(u)
    BY <1>1, <1>3, <1>7, <1>9, <1>10, <2>2, Fields DEF IsRecord
  <2>. QED
    BY <2>1, <2>2
<1>12. u.parent = Lk(h) /\ u.address_epoch = d
  BY <1>9, Fields
<1>13. u.parent.id = l.id /\ u.parent.generation = h
  BY <1>7, <1>10, <1>12
<1>. QED
  BY <1>3, <1>11, <1>12, <1>13 DEF u, h, l, e, a

(* Another list of children: nothing else of the record changes.           *)
LEMMA KidsChanged ==
  ASSUME NEW n, NEW r, IsRecord(r, n), NEW k, IsKids(k), KidsFit(n, k), NEW d \in Nat
  PROVE  LET u == MkRecord(n, r.address, r.parent, k, d)
         IN  IsRecord(u, n) /\ u.parent = r.parent /\ u.address_epoch = d /\ u.children = k /\ u.address = r.address
<1>1. /\ r.address \in Seq(Slot) /\ IsLink(r.parent) /\ LinkFits(n, r.address, r.parent)
  BY RecordParts
<1>2. IsRecord(MkRecord(n, r.address, r.parent, k, d), n)
  BY <1>1, RecordMade
<1>. QED
  BY <1>2, Fields

LEMMA DetachFacts ==
  ASSUME NEW n, NEW r, IsRecord(r, n), NEW c
  PROVE  LET u == detach_child(r, c)
         IN  IsRecord(u, n) /\ u.parent = r.parent /\ u.address_epoch = r.address_epoch
<1>. DEFINE k == [ d \in Kids(r) \ {c} |-> r.children[d] ]
<1>1. /\ r = MkRecord(n, r.address, r.parent, r.children, r.address_epoch) /\ r.address_epoch \in Nat
      /\ IsKids(r.children) /\ KidsFit(n, r.children)
  BY RecordParts
<1>2. detach_child(r, c) = MkRecord(n, r.address, r.parent, k, r.address_epoch)
  BY <1>1 DEF detach_child, MkRecord
<1>3. DOMAIN k = DOMAIN r.children \ {c} /\ \A d \in DOMAIN k : k[d] = r.children[d]
  BY DEF Kids
<1>3a. k = [ d \in DOMAIN k |-> k[d] ]
  OBVIOUS
<1>. HIDE DEF k
<1>4. IsKids(k) /\ KidsFit(n, k)
  BY <1>1, <1>3, <1>3a DEF IsKids, KidsFit
<1>. QED
  BY <1>1, <1>2, <1>4, KidsChanged

LEMMA AttachFacts ==
  ASSUME NEW n, NEW r, IsRecord(r, n), NEW c \in Peer \ {n}, c \notin Kids(r), NEW kind \in {"node", "user"},
         NEW s, s \in Free(r) \/ (s = AnySlot /\ Free(r) # {})
  PROVE  LET u == attach_child(r, c, kind, s)
         IN  IsRecord(u, n) /\ u.parent = r.parent /\ u.address_epoch = r.address_epoch
<1>. DEFINE at == IF s = AnySlot THEN LowestOf(Free(r)) ELSE s
            new == [kind |-> kind, slot |-> at, eth_address |-> "none"]
            k == [ d \in Kids(r) \cup {c} |-> IF d = c THEN new ELSE r.children[d] ]
<1>1. /\ r = MkRecord(n, r.address, r.parent, r.children, r.address_epoch) /\ r.address_epoch \in Nat
      /\ IsKids(r.children) /\ KidsFit(n, r.children)
  BY RecordParts
<1>2. attach_child(r, c, kind, s) = MkRecord(n, r.address, r.parent, k, r.address_epoch)
  BY <1>1 DEF attach_child, MkRecord
<1>3. at \in Free(r)
  <2>1. Free(r) \in SUBSET Nat
    BY DEF Free, Slot, MAX_SLOT
  <2>2. AnySlot \notin Nat
    BY DEF AnySlot
  <2>3. Free(r) # {} => LowestOf(Free(r)) \in Free(r)
    BY <2>1, Least
  <2>. QED
    BY <2>1, <2>2, <2>3
<1>. HIDE DEF at
<1>4. at \in Slot /\ \A d \in DOMAIN r.children : r.children[d].slot # at
  BY <1>3 DEF Free, TakenBy, Kids
<1>5. new \in ChildLink /\ new.slot = at
  BY <1>4 DEF ChildLink
<1>. HIDE DEF new
<1>6. /\ DOMAIN k = DOMAIN r.children \cup {c} /\ c \notin DOMAIN r.children /\ k[c] = new
      /\ \A d \in DOMAIN r.children : k[d] = r.children[d]
  BY DEF Kids
<1>7. k = [ d \in DOMAIN k |-> k[d] ]
  OBVIOUS
<1>. HIDE DEF k
<1>8. IsKids(k)
  BY <1>1, <1>5, <1>6, <1>7 DEF IsKids
<1>9. KidsFit(n, k)
  BY <1>1, <1>4, <1>5, <1>6 DEF KidsFit
<1>. QED
  BY <1>1, <1>2, <1>8, <1>9, KidsChanged

(* One child link changed, and the epoch with it or not.                   *)
LEMMA LinkChanged ==
  ASSUME NEW n, NEW r, IsRecord(r, n), NEW c \in Kids(r), NEW x \in ChildLink,
         \A d \in Kids(r) \ {c} : r.children[d].slot # x.slot
  PROVE  IsKids([r.children EXCEPT ![c] = x]) /\ KidsFit(n, [r.children EXCEPT ![c] = x])
<1>. DEFINE k == [r.children EXCEPT ![c] = x]
<1>1. IsKids(r.children) /\ KidsFit(n, r.children)
  BY RecordParts
<1>2. /\ DOMAIN k = DOMAIN r.children /\ c \in DOMAIN k /\ k[c] = x
      /\ \A d \in DOMAIN k : d # c => k[d] = r.children[d]
  BY DEF Kids
<1>3. k = [ d \in DOMAIN k |-> k[d] ]
  OBVIOUS
<1>. HIDE DEF k
<1>4. IsKids(k)
  BY <1>1, <1>2, <1>3 DEF IsKids
<1>5. KidsFit(n, k)
  BY <1>1, <1>2 DEF KidsFit, Kids
<1>. QED
  BY <1>4, <1>5 DEF k

LEMMA EthFacts ==
  ASSUME NEW n, NEW r, IsRecord(r, n), NEW c \in Kids(r), NEW anchor \in {"first", "rotated"}
  PROVE  LET u == set_child_eth_address(r, c, anchor)
         IN  IsRecord(u, n) /\ u.parent = r.parent /\ u.address_epoch = r.address_epoch
<1>. DEFINE x == [r.children[c] EXCEPT !.eth_address = anchor]
            k == [r.children EXCEPT ![c] = x]
<1>1. /\ r = MkRecord(n, r.address, r.parent, r.children, r.address_epoch) /\ r.address_epoch \in Nat
      /\ IsKids(r.children) /\ KidsFit(n, r.children)
  BY RecordParts
<1>2. r.children[c] \in ChildLink
  BY <1>1 DEF IsKids, Kids
<1>3. x \in ChildLink /\ x.slot = r.children[c].slot
  BY <1>2 DEF ChildLink
<1>4. set_child_eth_address(r, c, anchor) = MkRecord(n, r.address, r.parent, k, r.address_epoch)
  BY <1>1 DEF set_child_eth_address, MkRecord
<1>. HIDE DEF x
<1>5. \A d \in Kids(r) \ {c} : r.children[d].slot # x.slot
  BY <1>1, <1>3 DEF KidsFit, Kids
<1>6. IsKids(k) /\ KidsFit(n, k)
  BY <1>3, <1>5, LinkChanged
<1>. QED
  BY <1>1, <1>4, <1>6, KidsChanged

(* A re-slot: the child is at the new slot under a new epoch, or nothing   *)
(* has changed.                                                            *)
LEMMA MoveFacts ==
  ASSUME NEW n, NEW r, IsRecord(r, n), NEW c, NEW s, move_child_slot_ok(r, c, s)
  PROVE  LET u == move_child_slot(r, c, s)
         IN  /\ IsRecord(u, n) /\ u.parent = r.parent /\ u.address_epoch >= r.address_epoch
             /\ u # r => u.address_epoch > r.address_epoch
             /\ c \in Kids(u) /\ u.children[c].slot = s /\ s \in Slot
<1>. DEFINE x == [r.children[c] EXCEPT !.slot = s]
            k == [r.children EXCEPT ![c] = x]
            d == r.address_epoch + 1
<1>1. /\ r = MkRecord(n, r.address, r.parent, r.children, r.address_epoch) /\ r.address_epoch \in Nat
      /\ IsKids(r.children) /\ KidsFit(n, r.children)
  BY RecordParts
<1>2. c \in Kids(r) /\ s \in Slot /\ \A y \in Kids(r) \ {c} : r.children[y].slot # s
  BY DEF move_child_slot_ok, TakenBy
<1>3. CASE r.children[c].slot = s
  <2>1. move_child_slot(r, c, s) = r
    BY <1>3 DEF move_child_slot
  <2>. QED
    BY <1>1, <1>2, <1>3, <2>1
<1>4. CASE r.children[c].slot # s
  <2>1. r.children[c] \in ChildLink
    BY <1>1, <1>2 DEF IsKids, Kids
  <2>2. x \in ChildLink /\ x.slot = s
    BY <1>2, <2>1 DEF ChildLink
  <2>3. move_child_slot(r, c, s) = MkRecord(n, r.address, r.parent, k, d)
    <3>1. move_child_slot(r, c, s) = [r EXCEPT !.children[c].slot = s, !.address_epoch = @ + 1]
      BY <1>4 DEF move_child_slot
    <3>2. [r EXCEPT !.children[c].slot = s] = MkRecord(n, r.address, r.parent, k, r.address_epoch)
      BY <1>1 DEF MkRecord
    <3>. HIDE DEF k
    <3>3. [MkRecord(n, r.address, r.parent, k, r.address_epoch) EXCEPT !.address_epoch = @ + 1]
            = MkRecord(n, r.address, r.parent, k, d)
      BY DEF MkRecord
    <3>. QED
      BY <3>1, <3>2, <3>3
  <2>4. c \in DOMAIN k /\ k[c] = x
    BY <1>2 DEF Kids
  <2>. HIDE DEF x
  <2>5. IsKids(k) /\ KidsFit(n, k)
    BY <1>2, <2>2, LinkChanged
  <2>6. d \in Nat /\ d >= r.address_epoch /\ d > r.address_epoch
    BY <1>1
  <2>. HIDE DEF k, d
  <2>7. LET u == MkRecord(n, r.address, r.parent, k, d)
        IN  IsRecord(u, n) /\ u.parent = r.parent /\ u.address_epoch = d /\ u.children = k
    BY <2>5, <2>6, KidsChanged
  <2>. QED
    BY <1>2, <2>2, <2>3, <2>4, <2>6, <2>7 DEF Kids
<1>. QED
  BY <1>3, <1>4
-----------------------------------------------------------------------------
(***************************************************************************)
(* A step. Every action changes one node: F, E and X are its files, its    *)
(* engine and its command afterwards.                                      *)
(***************************************************************************)
Changes(n, F, E, X) ==
  /\ file' = [file EXCEPT ![n] = F] /\ eng' = [eng EXCEPT ![n] = E] /\ cli' = [cli EXCEPT ![n] = X]

(* What may be new under way: what node n says of itself when its record   *)
(* is r and its registry p, and a notice only under an epoch it has not    *)
(* had before.                                                             *)
New(f, n, r, p) ==
  /\ f \in Shaped /\ f.from = n
  /\ f.kind = "Join" => f.body.node # f.to
  /\ f.kind = "Approved" => f.to \in DOMAIN p
  /\ f.kind = "Rebase" => /\ f.body.generation = r.address_epoch
                          /\ RecordAlone => r.address_epoch > file[n].rec.address_epoch
                          /\ f.body.address = child(r.address, r.children[f.to].slot)

(* The approval of parent p for the join of node n that is on file.        *)
Approval(n, p) ==
  \E f \in net : f.kind = "Approved" /\ f.to = n /\ f.from = p /\ f.body.nonce = file[n].outbound.nonce

(* The parts of the invariant for the node that changes. Its rows: none is *)
(* lost, and the parents its records name have theirs already.             *)
RowedThen(n, r) ==
  r.parent.id \in Node /\ <<n, r.parent.id>> \notin hand' => n \in DOMAIN file[r.parent.id].peers

RowsKept(n, F, E, X) ==
  /\ DOMAIN file[n].peers \subseteq DOMAIN F.peers
  /\ RowedThen(n, F.rec) /\ RowedThen(n, E.rec)
  /\ X # Idle => /\ RowedThen(n, X.new.rec)
                 /\ X.cmd = "approve" => DOMAIN F.peers \subseteq DOMAIN X.new.peers

(* Its record: the epoch does not go back.                                 *)
RecordKept(n, F, E, X) == file[n].rec.address_epoch <= F.rec.address_epoch /\ Records(F, E, X)

(* Its join: another parent comes from topo, or answers it.                *)
JoinsKept(n, F, E, X) ==
  /\ Joins(F, E, X)
  /\ F.rec.parent.id \in Node /\ F.rec.parent.id # file[n].rec.parent.id => 
       (cli[n].cmd = "topo" /\ X = Idle) \/ Approval(n, F.rec.parent.id)

JoinStep ==
  JoinsAlone => \A n \in Node :
    LET p == file'[n].rec.parent.id
        byHand == cli[n].cmd = "topo" /\ cli'[n] = Idle
    IN  p \in Node /\ p # file[n].rec.parent.id /\ ~byHand =>
          \E f \in net : /\ f.kind = "Approved" /\ f.to = n /\ f.from = p
                         /\ f.body.nonce = file[n].outbound.nonce

(* The sender of a frame is a node, and so is the receiver of most.        *)
LEMMA ShapedFacts ==
  ASSUME NEW f \in Shaped
  PROVE  /\ f.kind \in Request /\ f.from \in Node /\ f.to \in Peer /\ f.again \in BOOLEAN
         /\ f.kind # "Rebase" => f.to \in Node
         /\ f.kind = "Join" => f.body \in JoinBody
         /\ f.kind = "Approved" => f.body \in [slot : Slot, address : Seq(Slot) \ {None}, nonce : Nat]
         /\ f.kind = "Rejected" => f.body \in [nonce : Nat]
         /\ f.kind = "Rebase" => f.body \in [parent_address : Seq(Slot), address : Seq(Slot) \ {None}, generation : Nat]
         /\ f.kind = "Snapshot" => f.body \in [address : Seq(Slot), slot : Slot]
BY DEF Shaped, Request, Peer

LEMMA FramesShaped ==
  ASSUME net \subseteq Shaped
  PROVE  Frames \subseteq Shaped
BY DEF Frames

(* Who may count on the record may count on the registry, too.             *)
LEMMA AloneFacts == (JoinsAlone => RecordAlone) /\ (RecordAlone => RowsAlone)
BY DEF JoinsAlone, RecordAlone, RowsAlone

(* The row of node m with the parent in r, and the mark in r, after the    *)
(* step.                                                                   *)
RowedAfter(m, r) ==
  r.parent.id \in Node /\ <<m, r.parent.id>> \notin hand' => m \in DOMAIN file'[r.parent.id].peers

MarkedAfter(r) == r.parent.id \in Node => r.parent.generation <= file'[r.parent.id].rec.address_epoch

LEMMA StepLemma ==
  ASSUME MemberInv, NEW n \in Node, NEW F, NEW E, NEW X, Changes(n, F, E, X), joins' \in Nat, hand \subseteq hand',
         IsFile(F, n), IsEng(E, n), IsCli(X, n), Beside(E, X),
         RowsAlone => RowsKept(n, F, E, X), RecordAlone => RecordKept(n, F, E, X), JoinsAlone => JoinsKept(n, F, E, X),
         net' \subseteq Shaped,
         \A f \in net' \cup Elements(E.retry) \cup Elements(E.decisions) : f \in Frames \/ New(f, n, F.rec, F.peers)
  PROVE  MemberInv' /\ JoinStep
<1>0. /\ Nodes /\ net \subseteq Shaped /\ (\A f \in Frames : Backed(f))
      /\ DOMAIN file = Node /\ DOMAIN eng = Node /\ DOMAIN cli = Node
      /\ file = [ m \in Node |-> file[m] ] /\ eng = [ m \in Node |-> eng[m] ] /\ cli = [ m \in Node |-> cli[m] ]
  BY DEF MemberInv
<1>0a. /\ RowsAlone => \A m \in Node : Rows(m, file[m], eng[m], cli[m])
       /\ RecordAlone => \A m \in Node : Records(file[m], eng[m], cli[m])
       /\ RecordAlone => \A f, g \in Frames : SameNotice(f, g)
       /\ JoinsAlone => \A m \in Node : Joins(file[m], eng[m], cli[m])
  BY DEF MemberInv
<1>1. /\ DOMAIN file' = Node /\ DOMAIN eng' = Node /\ DOMAIN cli' = Node
      /\ file' = [ m \in Node |-> file'[m] ] /\ eng' = [ m \in Node |-> eng'[m] ] /\ cli' = [ m \in Node |-> cli'[m] ]
      /\ file'[n] = F /\ eng'[n] = E /\ cli'[n] = X
      /\ \A m \in Node : m # n => file'[m] = file[m] /\ eng'[m] = eng[m] /\ cli'[m] = cli[m]
  BY <1>0 DEF Changes
<1>2. Nodes'
  BY <1>0, <1>1, Zenon DEF Nodes
<1>3. \A m \in Node : file[m].rec.address_epoch \in Nat /\ file'[m].rec.address_epoch \in Nat
  <2>1. \A m \in Node : file[m].rec.address_epoch \in Nat
    BY <1>0 DEF Nodes, IsFile, IsRecord
  <2>2. F.rec.address_epoch \in Nat
    BY DEF IsFile, IsRecord
  <2>. QED
    BY <1>1, <2>1, <2>2
<1>3a. RowsAlone => \A m \in Node : DOMAIN file[m].peers \subseteq DOMAIN file'[m].peers
  BY <1>1 DEF RowsKept
<1>3b. RecordAlone => \A m \in Node : file[m].rec.address_epoch <= file'[m].rec.address_epoch
  <2>1. \A x \in Nat : x <= x
    OBVIOUS
  <2>. QED
    BY <1>1, <1>3, <2>1 DEF RecordKept
<1>4. ASSUME RowsAlone, NEW m \in Node PROVE Rows(m, file[m], eng[m], cli[m])'
  <2>1. \A r : RowedThen(m, r) => RowedAfter(m, r)
    BY <1>3a, <1>4 DEF RowedThen, RowedAfter
  <2>2. \A r : Rowed(m, r) => RowedThen(m, r)
    BY DEF RowedThen, Rowed
  <2>3. CASE m = n
    <3>1. RowsKept(n, F, E, X)
      BY <1>4
    <3>2. RowedAfter(n, F.rec) /\ RowedAfter(n, E.rec) /\ (X # Idle => RowedAfter(n, X.new.rec))
      BY <2>1, <2>3, <3>1 DEF RowsKept
    <3>. QED
      BY <1>1, <2>3, <3>1, <3>2 DEF Rows, Rowed, RowedAfter, RowsKept
  <2>4. CASE m # n
    <3>1. Rows(m, file[m], eng[m], cli[m])
      BY <1>0a, <1>4
    <3>2. RowedAfter(m, file[m].rec) /\ RowedAfter(m, eng[m].rec) /\ (cli[m] # Idle => RowedAfter(m, cli[m].new.rec))
      BY <2>1, <2>2, <3>1 DEF Rows
    <3>3. file'[m] = file[m] /\ eng'[m] = eng[m] /\ cli'[m] = cli[m]
      BY <1>1, <2>4
    <3>. QED
      BY <3>1, <3>2, <3>3 DEF Rows, Rowed, RowedAfter
  <2>. QED
    BY <2>3, <2>4
<1>5. ASSUME RecordAlone, NEW m \in Node PROVE Records(file[m], eng[m], cli[m])'
  <2>1. ASSUME NEW r, IsLink(r.parent), Marked(r) PROVE MarkedAfter(r)
    <3>. SUFFICES ASSUME r.parent.id \in Node PROVE r.parent.generation <= file'[r.parent.id].rec.address_epoch
      BY DEF MarkedAfter
    <3>1. PICK p \in Node : p = r.parent.id
      OBVIOUS
    <3>2. r.parent.generation \in Nat /\ r.parent.generation <= file[p].rec.address_epoch
      BY <2>1, <3>1 DEF Marked, IsLink
    <3>3. /\ file[p].rec.address_epoch <= file'[p].rec.address_epoch
          /\ file[p].rec.address_epoch \in Nat /\ file'[p].rec.address_epoch \in Nat
      BY <1>3, <1>3b, <1>5
    <3>4. r.parent.generation <= file'[p].rec.address_epoch
      BY <3>2, <3>3
    <3>. QED
      BY <3>1, <3>4
  <2>2. \A f, k : IsFile(f, k) => IsLink(f.rec.parent)
    BY RecordParts DEF IsFile
  <2>3. CASE m = n
    <3>1. Records(F, E, X)
      BY <1>5 DEF RecordKept
    <3>2. MarkedAfter(F.rec)
      BY <2>1, <2>2, <3>1 DEF Records
    <3>3. ASSUME X # Idle, X.cmd \in {"approve", "exit", "topo"} PROVE MarkedAfter(X.new.rec)
      BY <2>1, <2>2, <3>1, <3>3 DEF Records, IsCli
    <3>. QED
      BY <1>1, <2>3, <3>1, <3>2, <3>3 DEF Records, Marked, MarkedAfter
  <2>4. CASE m # n
    <3>1. Records(file[m], eng[m], cli[m]) /\ IsFile(file[m], m) /\ IsCli(cli[m], m)
      BY <1>0, <1>0a, <1>5 DEF Nodes
    <3>2. MarkedAfter(file[m].rec)
      BY <2>1, <2>2, <3>1 DEF Records
    <3>3. ASSUME cli[m] # Idle, cli[m].cmd \in {"approve", "exit", "topo"} PROVE MarkedAfter(cli[m].new.rec)
      BY <2>1, <2>2, <3>1, <3>3 DEF Records, IsCli
    <3>4. file'[m] = file[m] /\ eng'[m] = eng[m] /\ cli'[m] = cli[m]
      BY <1>1, <2>4
    <3>. QED
      BY <3>1, <3>2, <3>3, <3>4 DEF Records, Marked, MarkedAfter
  <2>. QED
    BY <2>3, <2>4
<1>6. ASSUME JoinsAlone, NEW m \in Node PROVE Joins(file[m], eng[m], cli[m])'
  <2>1. CASE m = n
    <3>1. Joins(F, E, X)
      BY <1>6 DEF JoinsKept
    <3>. QED
      BY <1>1, <2>1, <3>1 DEF Joins
  <2>2. CASE m # n
    <3>1. Joins(file[m], eng[m], cli[m])
      BY <1>0a, <1>6
    <3>2. file'[m] = file[m] /\ eng'[m] = eng[m] /\ cli'[m] = cli[m]
      BY <1>1, <2>2
    <3>. QED
      BY <3>1, <3>2 DEF Joins
  <2>. QED
    BY <2>1, <2>2
<1>7. Frames \subseteq Shaped
  BY <1>0, FramesShaped
<1>8. ASSUME NEW f \in Frames' PROVE f \in Frames \/ New(f, n, F.rec, F.peers)
  <2>1. CASE f \in net'
    BY <2>1
  <2>2. CASE \E m \in Node : f \in Elements(eng'[m].retry) \cup Elements(eng'[m].decisions)
    <3>1. PICK m \in Node : f \in Elements(eng'[m].retry) \cup Elements(eng'[m].decisions)
      BY <2>2
    <3>2. CASE m = n
      BY <1>1, <3>1, <3>2
    <3>3. CASE m # n
      <4>1. f \in Elements(eng[m].retry) \cup Elements(eng[m].decisions)
        BY <1>1, <3>1, <3>3
      <4>2. f \in Shaped \/ f \in net'
        BY <1>8 DEF Frames
      <4>. QED
        BY <2>1, <4>1, <4>2 DEF Frames
    <3>. QED
      BY <3>2, <3>3
  <2>3. f \in net' \/ \E m \in Node : f \in Elements(eng'[m].retry) \cup Elements(eng'[m].decisions)
    BY <1>8 DEF Frames, Elements
  <2>. QED
    BY <2>1, <2>2, <2>3
<1>9. ASSUME NEW f \in Frames' PROVE Backed(f)'
  <2>1. CASE f \in Frames
    <3>1. f.from \in Node /\ Backed(f) /\ (f.kind = "Rebase" => f.body.generation \in Nat)
      BY <1>0, <1>7, <2>1, ShapedFacts
    <3>2. PICK p \in Node : p = f.from
      BY <3>1
    <3>3. /\ RowsAlone => DOMAIN file[p].peers \subseteq DOMAIN file'[p].peers
          /\ RecordAlone => file[p].rec.address_epoch <= file'[p].rec.address_epoch
          /\ file[p].rec.address_epoch \in Nat /\ file'[p].rec.address_epoch \in Nat
      BY <1>3, <1>3a, <1>3b
    <3>. QED
      BY <3>1, <3>2, <3>3 DEF Backed
  <2>2. CASE New(f, n, F.rec, F.peers)
    <3>1. F.rec.address_epoch \in Nat
      BY <1>1, <1>3
    <3>. QED
      BY <1>1, <2>2, <3>1 DEF New, Backed
  <2>. QED
    BY <1>8, <2>1, <2>2
<1>10. ASSUME RecordAlone, NEW f \in Frames, NEW g, New(g, n, F.rec, F.peers) PROVE SameNotice(f, g) /\ SameNotice(g, f)
  <2>. SUFFICES ASSUME f.kind = "Rebase", g.kind = "Rebase", f.from = g.from, f.body.generation = g.body.generation
                PROVE  FALSE
    BY DEF SameNotice
  <2>1. f.body.generation <= file[n].rec.address_epoch
    BY <1>0, <1>10 DEF Backed, New
  <2>2. g.body.generation > file[n].rec.address_epoch
    BY <1>10 DEF New
  <2>3. f.body.generation \in Nat /\ file[n].rec.address_epoch \in Nat
    BY <1>3, <1>7, ShapedFacts
  <2>. QED
    BY <2>1, <2>2, <2>3
<1>11. ASSUME RecordAlone, NEW f \in Frames', NEW g \in Frames' PROVE SameNotice(f, g)
  <2>1. CASE f \in Frames /\ g \in Frames
    BY <1>0a, <1>11, <2>1
  <2>2. CASE f \in Frames /\ New(g, n, F.rec, F.peers)
    BY <1>10, <1>11, <2>2
  <2>3. CASE New(f, n, F.rec, F.peers) /\ g \in Frames
    BY <1>10, <1>11, <2>3
  <2>4. CASE New(f, n, F.rec, F.peers) /\ New(g, n, F.rec, F.peers)
    BY <2>4 DEF New, SameNotice
  <2>. QED
    BY <1>8, <2>1, <2>2, <2>3, <2>4
<1>12. JoinStep
  <2>. SUFFICES ASSUME JoinsAlone, NEW m \in Node, file'[m].rec.parent.id \in Node,
                       file'[m].rec.parent.id # file[m].rec.parent.id, ~(cli[m].cmd = "topo" /\ cli'[m] = Idle)
                PROVE  Approval(m, file'[m].rec.parent.id)
    BY DEF JoinStep, Approval
  <2>1. m = n
    BY <1>1
  <2>. QED
    BY <1>1, <2>1 DEF JoinsKept
<1>13. Nodes' /\ (net \subseteq Shaped)' /\ (\A f \in Frames : Backed(f))'
  BY <1>2, <1>9
<1>14. (RecordAlone => \A f, g \in Frames : SameNotice(f, g))'
  BY <1>11 DEF SameNotice
<1>. QED
  BY <1>1, <1>4, <1>5, <1>6, <1>12, <1>13, <1>14 DEF MemberInv
-----------------------------------------------------------------------------
(***************************************************************************)
(* The parts of a node, and the steps of a simple form.                    *)
(***************************************************************************)
LEMMA FileMade ==
  ASSUME NEW n, NEW r, NEW p, NEW q, NEW o \in Outbound, IsRecord(r, n), IsPending(q, n)
  PROVE  /\ IsFile(MkFile(r, p, q, o), n)
         /\ MkFile(r, p, q, o).rec = r /\ MkFile(r, p, q, o).peers = p
         /\ MkFile(r, p, q, o).pending = q /\ MkFile(r, p, q, o).outbound = o
BY DEF IsFile, MkFile

(* A file with a field set anew.                                           *)
LEMMA FileRec ==
  ASSUME NEW f, f = MkFile(f.rec, f.peers, f.pending, f.outbound), NEW r
  PROVE  [f EXCEPT !.rec = r] = MkFile(r, f.peers, f.pending, f.outbound)
BY DEF MkFile

LEMMA EngFields ==
  ASSUME NEW u, NEW r, NEW q, NEW o, NEW w, NEW d, NEW e, e = MkEng(u, r, q, o, w, d)
  PROVE  e.up = u /\ e.rec = r /\ e.pending = q /\ e.outbound = o /\ e.retry = w /\ e.decisions = d
BY DEF MkEng

LEMMA EngMade ==
  ASSUME NEW n, NEW u \in BOOLEAN, NEW r, NEW q, NEW o \in Outbound, NEW w \in Seq(Shaped), NEW d \in Seq(Shaped),
         IsRecord(r, n), IsPending(q, n), Len(w) <= MAX_PENDING_REBASE, Len(d) <= MAX_STORED_DECISIONS
  PROVE  IsEng(MkEng(u, r, q, o, w, d), n)
<1>. DEFINE e == MkEng(u, r, q, o, w, d)
<1>1. e.up = u /\ e.rec = r /\ e.pending = q /\ e.outbound = o /\ e.retry = w /\ e.decisions = d
  BY DEF MkEng
<1>2. e = MkEng(e.up, e.rec, e.pending, e.outbound, e.retry, e.decisions)
  BY <1>1
<1>. HIDE DEF e
<1>. QED
  BY <1>1, <1>2 DEF IsEng, e

(* The engine after it has queued a join, answered one, or decided one.    *)
LEMMA EngRemade ==
  ASSUME NEW n, NEW e, IsEng(e, n), NEW r, IsRecord(r, n), NEW q, IsPending(q, n), NEW o \in Outbound,
         NEW d \in Seq(Shaped), Len(d) <= MAX_STORED_DECISIONS, NEW E, E = MkEng(e.up, r, q, o, e.retry, d)
  PROVE  /\ IsEng(E, n) /\ E.up = e.up /\ E.rec = r /\ E.pending = q /\ E.outbound = o
         /\ E.retry = e.retry /\ E.decisions = d
<1>1. e.up \in BOOLEAN /\ e.retry \in Seq(Shaped) /\ Len(e.retry) <= MAX_PENDING_REBASE
  BY DEF IsEng
<1>2. IsEng(MkEng(e.up, r, q, o, e.retry, d), n)
  BY <1>1, EngMade, Zenon
<1>3. IsEng(E, n)
  BY <1>2, Zenon
<1>. QED
  BY <1>3, EngFields

LEMMA EngParts ==
  ASSUME NEW n, NEW e, IsEng(e, n)
  PROVE  /\ e = MkEng(e.up, e.rec, e.pending, e.outbound, e.retry, e.decisions)
         /\ IsRecord(e.rec, n) /\ IsPending(e.pending, n) /\ e.outbound \in Outbound
         /\ e.decisions \in Seq(Shaped) /\ Len(e.decisions) <= MAX_STORED_DECISIONS
BY DEF IsEng

LEMMA EngSaved ==
  ASSUME NEW n, NEW e, IsEng(e, n), NEW r, IsRecord(r, n), NEW E, E = [e EXCEPT !.rec = r]
  PROVE  /\ IsEng(E, n) /\ E.up = e.up /\ E.rec = r /\ E.pending = e.pending /\ E.outbound = e.outbound
         /\ E.retry = e.retry /\ E.decisions = e.decisions
         /\ E = MkEng(e.up, r, e.pending, e.outbound, e.retry, e.decisions)
<1>1. /\ e = MkEng(e.up, e.rec, e.pending, e.outbound, e.retry, e.decisions)
      /\ IsPending(e.pending, n) /\ e.outbound \in Outbound
      /\ e.decisions \in Seq(Shaped) /\ Len(e.decisions) <= MAX_STORED_DECISIONS
  BY EngParts
<1>2. E = MkEng(e.up, r, e.pending, e.outbound, e.retry, e.decisions)
  BY <1>1 DEF MkEng
<1>3. /\ IsEng(E, n) /\ E.up = e.up /\ E.rec = r /\ E.pending = e.pending /\ E.outbound = e.outbound
      /\ E.retry = e.retry /\ E.decisions = e.decisions
  BY <1>1, <1>2, EngRemade
<1>. QED
  BY <1>2, <1>3

LEMMA EngQueued ==
  ASSUME NEW n, NEW e, IsEng(e, n), NEW r, IsRecord(r, n), NEW q, IsPending(q, n),
         NEW m, m = [e EXCEPT !.rec = r], NEW E, E = [m EXCEPT !.pending = q]
  PROVE  /\ IsEng(E, n) /\ E.up = e.up /\ E.rec = r /\ E.pending = q /\ E.outbound = e.outbound
         /\ E.retry = e.retry /\ E.decisions = e.decisions
         /\ E = MkEng(e.up, r, q, e.outbound, e.retry, e.decisions)
<1>1. /\ e.outbound \in Outbound /\ e.decisions \in Seq(Shaped) /\ Len(e.decisions) <= MAX_STORED_DECISIONS
  BY EngParts
<1>3. m = MkEng(e.up, r, e.pending, e.outbound, e.retry, e.decisions)
  BY EngSaved
<1>4. E = MkEng(e.up, r, q, e.outbound, e.retry, e.decisions)
  BY <1>3 DEF MkEng
<1>5. /\ IsEng(E, n) /\ E.up = e.up /\ E.rec = r /\ E.pending = q /\ E.outbound = e.outbound
      /\ E.retry = e.retry /\ E.decisions = e.decisions
  BY <1>1, <1>4, EngRemade
<1>. QED
  BY <1>4, <1>5

LEMMA EngAnswered ==
  ASSUME NEW n, NEW e, IsEng(e, n), NEW r, IsRecord(r, n), NEW o \in Outbound,
         NEW m, m = [e EXCEPT !.rec = r], NEW E, E = [m EXCEPT !.outbound = o]
  PROVE  /\ IsEng(E, n) /\ E.up = e.up /\ E.rec = r /\ E.pending = e.pending /\ E.outbound = o
         /\ E.retry = e.retry /\ E.decisions = e.decisions
<1>1. /\ IsPending(e.pending, n) /\ e.decisions \in Seq(Shaped) /\ Len(e.decisions) <= MAX_STORED_DECISIONS
  BY EngParts
<1>3. m = MkEng(e.up, r, e.pending, e.outbound, e.retry, e.decisions)
  BY EngSaved
<1>4. E = MkEng(e.up, r, e.pending, o, e.retry, e.decisions)
  BY <1>3 DEF MkEng
<1>. QED
  BY <1>1, <1>4, EngRemade

LEMMA EngDecided ==
  ASSUME NEW n, NEW e, IsEng(e, n), NEW r, IsRecord(r, n), NEW d \in Seq(Shaped), Len(d) <= MAX_STORED_DECISIONS,
         NEW m, m = [e EXCEPT !.rec = r], NEW E, E = [m EXCEPT !.decisions = d]
  PROVE  /\ IsEng(E, n) /\ E.up = e.up /\ E.rec = r /\ E.pending = e.pending /\ E.outbound = e.outbound
         /\ E.retry = e.retry /\ E.decisions = d
<1>1. IsPending(e.pending, n) /\ e.outbound \in Outbound
  BY EngParts
<1>3. m = MkEng(e.up, r, e.pending, e.outbound, e.retry, e.decisions)
  BY EngSaved
<1>4. E = MkEng(e.up, r, e.pending, e.outbound, e.retry, d)
  BY <1>3 DEF MkEng
<1>. QED
  BY <1>1, <1>4, EngRemade

LEMMA NodeFacts ==
  ASSUME MemberInv, NEW n \in Node
  PROVE  /\ file[n] = MkFile(file[n].rec, file[n].peers, file[n].pending, file[n].outbound)
         /\ IsRecord(file[n].rec, n) /\ IsPending(file[n].pending, n) /\ file[n].outbound \in Outbound
         /\ eng[n] = MkEng(eng[n].up, eng[n].rec, eng[n].pending, eng[n].outbound, eng[n].retry, eng[n].decisions)
         /\ eng[n].up \in BOOLEAN /\ IsRecord(eng[n].rec, n)
         /\ IsPending(eng[n].pending, n) /\ eng[n].outbound \in Outbound
         /\ eng[n].retry \in Seq(Shaped) /\ Len(eng[n].retry) <= MAX_PENDING_REBASE
         /\ eng[n].decisions \in Seq(Shaped) /\ Len(eng[n].decisions) <= MAX_STORED_DECISIONS
         /\ IsFile(file[n], n) /\ IsEng(eng[n], n) /\ IsCli(cli[n], n) /\ Beside(eng[n], cli[n])
         /\ [file EXCEPT ![n] = file[n]] = file /\ [eng EXCEPT ![n] = eng[n]] = eng /\ [cli EXCEPT ![n] = cli[n]] = cli
<1>1. IsFile(file[n], n) /\ IsEng(eng[n], n) /\ IsCli(cli[n], n) /\ Beside(eng[n], cli[n])
  BY DEF MemberInv, Nodes
<1>2. file = [ m \in Node |-> file[m] ] /\ eng = [ m \in Node |-> eng[m] ] /\ cli = [ m \in Node |-> cli[m] ]
  BY DEF MemberInv
<1>3. [file EXCEPT ![n] = file[n]] = file
  BY <1>2
<1>4. [eng EXCEPT ![n] = eng[n]] = eng
  BY <1>2
<1>5. [cli EXCEPT ![n] = cli[n]] = cli
  BY <1>2
<1>. QED
  BY <1>1, <1>3, <1>4, <1>5 DEF IsFile, IsEng

(* What node n has queued is among the frames.                             *)
LEMMA QueuedFrames ==
  ASSUME MemberInv, NEW n \in Node
  PROVE  \A f \in Elements(eng[n].retry) \cup Elements(eng[n].decisions) : f \in Frames /\ f \in Shaped
<1>1. eng[n].retry \in Seq(Shaped) /\ eng[n].decisions \in Seq(Shaped)
  BY NodeFacts
<1>2. \A q \in Seq(Shaped) : \A f \in Elements(q) : f \in Shaped
  BY DEF Elements
<1>. QED
  BY <1>1, <1>2 DEF Frames

(* A record without a parent names none.                                   *)
LEMMA NoParentRowed ==
  ASSUME NEW n, NEW r, r.parent.id = "none"
  PROVE  Rowed(n, r) /\ RowedThen(n, r) /\ Marked(r)
BY NamesAssumption DEF Rowed, RowedThen, Marked

LEMMA FreshRecord ==
  ASSUME NEW n
  PROVE  IsRecord(NodeRecord(n), n) /\ NodeRecord(n).parent.id = "none"
<1>0. PICK k : k = << >>
  OBVIOUS
<1>1. DOMAIN k = {} /\ k = [ c \in DOMAIN k |-> k[c] ]
  BY <1>0
<1>2. IsKids(k) /\ KidsFit(n, k)
  BY <1>1 DEF IsKids, KidsFit
<1>3. LinkFits(n, None, NoLink) /\ None \in Seq(Slot)
  BY EmptySeq DEF LinkFits, None
<1>4. NodeRecord(n) = MkRecord(n, None, NoLink, k, 0)
  BY <1>0 DEF NodeRecord, MkRecord
<1>5. IsRecord(MkRecord(n, None, NoLink, k, 0), n) /\ MkRecord(n, None, NoLink, k, 0).parent = NoLink
  BY <1>2, <1>3, NoLinkIs, RecordMade, Fields
<1>. QED
  BY <1>4, <1>5, NoLinkIs

(***************************************************************************)
(* A step of the running node. Where the link in its record may come from: *)
(* it is the old one, perhaps with a newer mark, or gone, or from an       *)
(* approval; or it is the engine's, whose record may be older.             *)
(***************************************************************************)
LinkFrom(n, r) ==
  LET l == r.parent
      o == file[n].rec.parent
  IN  \/ l.id = o.id /\ l.generation = o.generation
      \/ l.id = "none"
      \/ l.id = o.id /\ l.id \in Node /\ (RecordAlone => l.generation <= file[l.id].rec.address_epoch)
      \/ /\ l.generation = 0
         /\ \E f \in net : f.kind = "Approved" /\ f.to = n /\ f.from = l.id
         /\ JoinsAlone => Approval(n, l.id)
      \/ ~RecordAlone /\ l.id = eng[n].rec.parent.id

(* The files of a node lose no row, and no epoch.                          *)
Grows(n, r, p) ==
  /\ DOMAIN file[n].peers \subseteq DOMAIN p
  /\ RecordAlone => file[n].rec.address_epoch <= r.address_epoch

(* The engine goes on with the record it has saved or read, or with its    *)
(* own, and with the outbound join it has or has answered.                 *)
Goes(n, F, E) ==
  /\ \/ E.rec = F.rec
     \/ E.rec = eng[n].rec /\ F.rec = file[n].rec
     \/ ~E.up /\ E.rec = NodeRecord(n)
  /\ \/ F.outbound = file[n].outbound /\ (E.up => E.outbound = eng[n].outbound)
     \/ F.outbound = E.outbound /\ E.outbound \in {eng[n].outbound, NoJoin}

LEMMA LinkRowed ==
  ASSUME MemberInv, RowsAlone, NEW n \in Node, NEW r, LinkFrom(n, r)
  PROVE  Rowed(n, r)
<1>1. Rows(n, file[n], eng[n], cli[n])
  BY DEF MemberInv
<1>2. Rowed(n, file[n].rec) /\ Rowed(n, eng[n].rec)
  BY <1>1 DEF Rows
<1>3. CASE r.parent.id = file[n].rec.parent.id \/ r.parent.id = eng[n].rec.parent.id
  BY <1>2, <1>3 DEF Rowed
<1>4. CASE r.parent.id = "none"
  BY <1>4, NoParentRowed
<1>5. CASE \E f \in net : f.kind = "Approved" /\ f.to = n /\ f.from = r.parent.id
  <2>1. PICK f \in net : f.kind = "Approved" /\ f.to = n /\ f.from = r.parent.id
    BY <1>5
  <2>2. Backed(f)
    BY DEF MemberInv, Frames
  <2>. QED
    BY <2>1, <2>2 DEF Backed, Rowed
<1>. QED
  BY <1>3, <1>4, <1>5 DEF LinkFrom

LEMMA LinkMarked ==
  ASSUME MemberInv, RecordAlone, NEW n \in Node, NEW r, LinkFrom(n, r)
  PROVE  Marked(r)
<1>1. Records(file[n], eng[n], cli[n])
  BY DEF MemberInv
<1>2. Marked(file[n].rec)
  BY <1>1 DEF Records
<1>3. CASE r.parent.id = file[n].rec.parent.id /\ r.parent.generation = file[n].rec.parent.generation
  BY <1>2, <1>3 DEF Marked
<1>4. CASE r.parent.id = "none"
  BY <1>4, NoParentRowed
<1>5. CASE r.parent.generation = 0
  <2>1. \A m \in Node : file[m].rec.address_epoch \in Nat
    BY DEF MemberInv, Nodes, IsFile, IsRecord
  <2>. QED
    BY <1>5, <2>1 DEF Marked
<1>6. CASE r.parent.id \in Node /\ r.parent.generation <= file[r.parent.id].rec.address_epoch
  BY <1>6 DEF Marked
<1>. QED
  BY <1>3, <1>4, <1>5, <1>6 DEF LinkFrom

LEMMA RunningLemma ==
  ASSUME MemberInv, NEW n \in Node, eng[n].up, NEW F, NEW E,
         file' = [file EXCEPT ![n] = F], eng' = [eng EXCEPT ![n] = E], cli' = cli, hand' = hand, joins' = joins,
         IsFile(F, n), IsEng(E, n), Goes(n, F, E), Grows(n, F.rec, F.peers), LinkFrom(n, F.rec),
         \A f \in net' \cup Elements(E.retry) \cup Elements(E.decisions) : f \in Frames \/ New(f, n, F.rec, F.peers)
  PROVE  MemberInv' /\ JoinStep
<1>0. PICK x : x = cli[n]
  OBVIOUS
<1>1. Changes(n, F, E, x)
  BY <1>0, NodeFacts DEF Changes
<1>2. IsCli(x, n) /\ Beside(eng[n], x)
  BY <1>0, NodeFacts
<1>3. Beside(E, x) /\ (x # Idle => x.cmd \in LiveCommand)
  BY <1>2 DEF Beside
<1>4. ASSUME RowsAlone PROVE RowsKept(n, F, E, x)
  <2>1. Rows(n, file[n], eng[n], x)
    BY <1>0, <1>4 DEF MemberInv
  <2>2. \A r : Rowed(n, r) => RowedThen(n, r)
    BY DEF Rowed, RowedThen
  <2>3. RowedThen(n, F.rec) /\ RowedThen(n, eng[n].rec)
    BY <1>4, <2>1, <2>2, LinkRowed DEF Rows
  <2>4. RowedThen(n, NodeRecord(n))
    BY FreshRecord, NoParentRowed
  <2>5. RowedThen(n, E.rec)
    BY <2>3, <2>4 DEF Goes
  <2>6. x # Idle => RowedThen(n, x.new.rec) /\ x.cmd # "approve"
    BY <1>3, <1>4, <2>1, <2>2 DEF Rows, RowsAlone
  <2>. QED
    BY <2>3, <2>5, <2>6 DEF RowsKept, Grows
<1>5. ASSUME RecordAlone PROVE RecordKept(n, F, E, x)
  <2>1. Records(file[n], eng[n], x)
    BY <1>0, <1>5 DEF MemberInv
  <2>2. Marked(F.rec)
    BY <1>5, LinkMarked
  <2>3. E.up => E.rec = F.rec
    BY <2>1 DEF Records, Goes
  <2>4. x # Idle => x.cmd \notin {"approve", "exit", "topo"}
    BY <1>3, <1>5 DEF RecordAlone
  <2>. QED
    BY <1>5, <2>2, <2>3, <2>4 DEF RecordKept, Records, Grows
<1>6. ASSUME JoinsAlone PROVE JoinsKept(n, F, E, x)
  <2>1. Joins(file[n], eng[n], x)
    BY <1>0, <1>6 DEF MemberInv
  <2>2. Joins(F, E, x)
    BY <2>1 DEF Joins, Goes
  <2>3. RecordAlone
    BY <1>6, AloneFacts
  <2>4. ASSUME F.rec.parent.id \in Node, F.rec.parent.id # file[n].rec.parent.id PROVE Approval(n, F.rec.parent.id)
    BY <1>6, <2>3, <2>4, NamesAssumption DEF LinkFrom
  <2>. QED
    BY <2>2, <2>4 DEF JoinsKept
<1>7. net \subseteq Shaped /\ joins' \in Nat
  BY DEF MemberInv
<1>8. net' \subseteq Shaped
  BY <1>7, FramesShaped DEF New
<1>. QED
  BY <1>1, <1>2, <1>3, <1>4, <1>5, <1>6, <1>7, <1>8, StepLemma

(* The files stay as they are, the engine becomes E.                       *)
LEMMA EngineStep ==
  ASSUME MemberInv, NEW n \in Node, eng[n].up, NEW E, file' = file, eng' = [eng EXCEPT ![n] = E],
         cli' = cli, hand' = hand, joins' = joins,
         IsEng(E, n), E.rec \in {eng[n].rec, file[n].rec} \/ (~E.up /\ E.rec = NodeRecord(n)),
         E.up => E.outbound = eng[n].outbound,
         \A f \in net' \cup Elements(E.retry) \cup Elements(E.decisions) :
           f \in Frames \/ New(f, n, file[n].rec, file[n].peers)
  PROVE  MemberInv' /\ JoinStep
<1>0. PICK F : F = file[n]
  OBVIOUS
<1>1. file' = [file EXCEPT ![n] = F] /\ IsFile(F, n)
  BY <1>0, NodeFacts
<1>2. F.rec.address_epoch \in Nat
  BY <1>1 DEF IsFile, IsRecord
<1>3. Grows(n, F.rec, F.peers)
  BY <1>0, <1>2 DEF Grows
<1>4. LinkFrom(n, F.rec)
  BY <1>0 DEF LinkFrom
<1>5. Goes(n, F, E)
  BY <1>0 DEF Goes
<1>6. \A f \in net' \cup Elements(E.retry) \cup Elements(E.decisions) : f \in Frames \/ New(f, n, F.rec, F.peers)
  BY <1>0
<1>. QED
  BY <1>1, <1>3, <1>4, <1>5, <1>6, RunningLemma

(* Nothing changes but what is under way.                                  *)
LEMMA NetStep ==
  ASSUME MemberInv, NEW n \in Node, file' = file, eng' = eng, cli' = cli, hand' = hand, joins' = joins,
         \A f \in net' : f \in net \/ New(f, n, file[n].rec, file[n].peers)
  PROVE  MemberInv' /\ JoinStep
<1>0. PICK F, E, X : F = file[n] /\ E = eng[n] /\ X = cli[n]
  OBVIOUS
<1>1. Changes(n, F, E, X) /\ IsFile(F, n) /\ IsEng(E, n) /\ IsCli(X, n) /\ Beside(E, X)
  BY <1>0, NodeFacts DEF Changes
<1>2. RowsAlone => RowsKept(n, F, E, X)
  BY <1>0 DEF MemberInv, Rows, Rowed, RowsKept, RowedThen
<1>3. F.rec.address_epoch \in Nat
  BY <1>1 DEF IsFile, IsRecord
<1>4. RecordAlone => RecordKept(n, F, E, X)
  BY <1>0, <1>3 DEF MemberInv, RecordKept
<1>5. JoinsAlone => JoinsKept(n, F, E, X)
  BY <1>0 DEF MemberInv, JoinsKept
<1>6. net \subseteq Shaped /\ joins' \in Nat
  BY DEF MemberInv
<1>7. net' \subseteq Shaped
  BY <1>6 DEF New
<1>8. \A f \in net' \cup Elements(E.retry) \cup Elements(E.decisions) : f \in Frames \/ New(f, n, F.rec, F.peers)
  BY <1>0, QueuedFrames DEF Frames
<1>. QED
  BY <1>1, <1>2, <1>4, <1>5, <1>6, <1>7, <1>8, StepLemma

(* A file with another record.                                             *)
LEMMA Saved ==
  ASSUME NEW n, NEW f, NEW r, IsFile(f, n), IsRecord(r, n), NEW F, F = [f EXCEPT !.rec = r]
  PROVE  IsFile(F, n) /\ F.rec = r /\ F.peers = f.peers /\ F.pending = f.pending /\ F.outbound = f.outbound
<1>1. /\ f = MkFile(f.rec, f.peers, f.pending, f.outbound) /\ IsPending(f.pending, n) /\ f.outbound \in Outbound
  BY DEF IsFile
<1>2. F = MkFile(r, f.peers, f.pending, f.outbound)
  BY <1>1, FileRec
<1>. QED
  BY <1>1, <1>2, FileMade

(* The record is saved, on file and in the engine.                         *)
LEMMA SaveStep ==
  ASSUME MemberInv, NEW n \in Node, NEW r, SaveRecord(n, r), cli' = cli, hand' = hand, joins' = joins, eng[n].up,
         IsRecord(r, n), RecordAlone => r.address_epoch >= file[n].rec.address_epoch, LinkFrom(n, r),
         \A f \in net' : f \in net \/ New(f, n, r, file[n].peers)
  PROVE  MemberInv' /\ JoinStep
<1>0. PICK F : F = [file[n] EXCEPT !.rec = r]
  OBVIOUS
<1>0a. PICK E : E = [eng[n] EXCEPT !.rec = r]
  OBVIOUS
<1>1. IsFile(file[n], n) /\ IsEng(eng[n], n)
  BY NodeFacts
<1>2. IsFile(F, n) /\ F.rec = r /\ F.peers = file[n].peers /\ F.outbound = file[n].outbound
  BY <1>0, <1>1, Saved
<1>3. /\ IsEng(E, n) /\ E.up = eng[n].up /\ E.rec = r /\ E.outbound = eng[n].outbound
      /\ E.retry = eng[n].retry /\ E.decisions = eng[n].decisions
  <2>1. PICK e : e = eng[n]
    OBVIOUS
  <2>2. IsEng(e, n) /\ E = [e EXCEPT !.rec = r]
    BY <1>0a, <1>1, <2>1
  <2>3. /\ IsEng(E, n) /\ E.up = e.up /\ E.rec = r /\ E.outbound = e.outbound
        /\ E.retry = e.retry /\ E.decisions = e.decisions
    BY <2>2, EngSaved
  <2>. QED
    BY <2>1, <2>3
<1>4. file' = [file EXCEPT ![n] = F] /\ eng' = [eng EXCEPT ![n] = E]
  <2>1. file' = [file EXCEPT ![n].rec = r] /\ eng' = [eng EXCEPT ![n].rec = r]
    BY DEF SaveRecord
  <2>. QED
    BY <1>0, <1>0a, <2>1, Zenon
<1>5. r.address_epoch \in Nat /\ file[n].rec.address_epoch \in Nat
  BY <1>1, RecordParts DEF IsFile
<1>6. RecordAlone => file[n].rec.address_epoch <= r.address_epoch
  BY <1>5
<1>7. Grows(n, F.rec, F.peers) /\ LinkFrom(n, F.rec)
  BY <1>2, <1>6, Zenon DEF Grows
<1>8. Goes(n, F, E)
  BY <1>2, <1>3 DEF Goes
<1>9. \A f \in net' \cup Elements(E.retry) \cup Elements(E.decisions) : f \in Frames \/ New(f, n, F.rec, F.peers)
  <2>1. \A f \in Elements(E.retry) \cup Elements(E.decisions) : f \in Frames
    BY <1>3, QueuedFrames
  <2>2. \A f \in net' : f \in Frames \/ New(f, n, F.rec, F.peers)
    BY <1>2, Zenon DEF Frames
  <2>. QED
    BY <2>1, <2>2, Zenon
<1>. QED
  BY <1>2, <1>3, <1>4, <1>7, <1>8, <1>9, RunningLemma

(* Notices to the children of a node that has just moved.                  *)
LEMMA PropagateFacts ==
  ASSUME NEW n \in Node, NEW r, IsRecord(r, n), NEW again \in BOOLEAN, NEW p,
         RecordAlone => r.address_epoch > file[n].rec.address_epoch
  PROVE  \A f \in propagate_rebase(r, again) : New(f, n, r, p) /\ f.kind = "Rebase"
<1>. SUFFICES ASSUME NEW c \in Kids(r)
              PROVE  LET f == queue_rebase_notice(r, c, r.children[c].slot, again)
                     IN  New(f, n, r, p) /\ f.kind = "Rebase"
  BY DEF propagate_rebase
<1>. DEFINE a == child(r.address, r.children[c].slot)
            b == [parent_address |-> r.address, address |-> a, generation |-> r.address_epoch]
            f == queue_rebase_notice(r, c, r.children[c].slot, again)
<1>1. /\ r.id = n /\ r.address \in Seq(Slot) /\ r.address_epoch \in Nat /\ IsKids(r.children)
  BY RecordParts, Fields
<1>2. c \in Peer /\ r.children[c].slot \in Slot
  BY <1>1 DEF IsKids, Kids, ChildLink
<1>3. a \in Seq(Slot) \ {None}
  BY <1>1, <1>2, AppendProperties, EmptySeq DEF child, None
<1>4. f = [kind |-> "Rebase", from |-> n, to |-> c, again |-> again, body |-> b]
  BY <1>1 DEF queue_rebase_notice, Frame
<1>. HIDE DEF a
<1>5. b \in [parent_address : Seq(Slot), address : Seq(Slot) \ {None}, generation : Nat] /\ b.generation = r.address_epoch /\ b.address = a
  BY <1>1, <1>3
<1>. HIDE DEF b, f
<1>6. f \in Shaped
  BY <1>2, <1>4, <1>5 DEF Shaped
<1>7. f.kind = "Rebase" /\ f.from = n /\ f.to = c /\ f.body = b
  BY <1>4
<1>. QED
  BY <1>5, <1>6, <1>7 DEF New, a, f

(* A frame without a body that matters.                                    *)
LEMMA PlainFrame ==
  ASSUME NEW n \in Node, NEW c \in Node, NEW kind \in {"Exit", "DetachNotice", "Pull"}, NEW again \in BOOLEAN, NEW r, NEW p
  PROVE  New(Frame(kind, n, c, again, << >>), n, r, p)
<1>. DEFINE f == Frame(kind, n, c, again, << >>)
<1>1. f \in [kind : {"Exit", "DetachNotice", "Pull"}, from : Node, to : Node, again : BOOLEAN, body : {<< >>}]
  BY DEF Frame
<1>2. f.kind = kind /\ f.from = n
  BY DEF Frame
<1>. HIDE DEF f
<1>3. f \in Shaped
  BY <1>1 DEF Shaped
<1>. QED
  BY <1>2, <1>3 DEF New, f

(* What a step needs of the node it happens at.                            *)
LEMMA AtNode ==
  ASSUME MemberInv, NEW n \in Node
  PROVE  /\ IsRecord(file[n].rec, n) /\ IsRecord(eng[n].rec, n) /\ file[n].rec.address_epoch \in Nat
         /\ RecordAlone /\ eng[n].up => eng[n].rec = file[n].rec
<1>1. IsRecord(file[n].rec, n) /\ IsRecord(eng[n].rec, n)
  BY NodeFacts
<1>2. file[n].rec.address_epoch \in Nat
  BY <1>1, RecordParts
<1>3. RecordAlone => Records(file[n], eng[n], cli[n])
  BY DEF MemberInv
<1>. QED
  BY <1>1, <1>2, <1>3 DEF Records

(* Frames under way have their shape.                                      *)
LEMMA UnderWay ==
  ASSUME MemberInv, NEW f \in net
  PROVE  f \in Shaped /\ Backed(f) /\ f \in Frames
BY DEF MemberInv, Frames
-----------------------------------------------------------------------------
(***************************************************************************)
(* The actions.                                                            *)
(***************************************************************************)
LEMMA EthStep ==
  ASSUME MemberInv, NEW n \in Node, NEW u, NEW k, handle_register_eth_address(n, u, k)
  PROVE  MemberInv' /\ JoinStep
<1>. DEFINE r == set_child_eth_address(file[n].rec, u, IF k = "new" THEN "first" ELSE "rotated")
<1>1. SaveRecord(n, r) /\ u \in Kids(file[n].rec) /\ eng[n].up /\ cli' = cli /\ hand' = hand /\ joins' = joins /\ net' = net
  BY DEF handle_register_eth_address, AdminRequest
<1>2. (IF k = "new" THEN "first" ELSE "rotated") \in {"first", "rotated"}
  OBVIOUS
<1>3. IsRecord(file[n].rec, n) /\ file[n].rec.address_epoch \in Nat
  BY <1>1, AtNode
<1>4. IsRecord(r, n) /\ r.parent = file[n].rec.parent /\ r.address_epoch = file[n].rec.address_epoch
  BY <1>1, <1>2, <1>3, EthFacts
<1>. HIDE DEF r
<1>5. r.address_epoch >= file[n].rec.address_epoch /\ LinkFrom(n, r)
  BY <1>3, <1>4 DEF LinkFrom
<1>. QED
  BY <1>1, <1>3, <1>4, <1>5, SaveStep

LEMMA DetachStep ==
  ASSUME MemberInv, NEW n \in Node, NEW c \in Node, apply_detach_child(n, c)
  PROVE  MemberInv' /\ JoinStep
<1>. DEFINE r == detach_child(file[n].rec, c)
<1>1. /\ SaveRecord(n, r) /\ eng[n].up /\ cli' = cli /\ hand' = hand /\ joins' = joins
      /\ net' = net \cup {Frame("DetachNotice", n, c, TRUE, << >>)}
  BY DEF apply_detach_child, AdminRequest
<1>2. IsRecord(file[n].rec, n) /\ file[n].rec.address_epoch \in Nat
  BY <1>1, AtNode
<1>3. IsRecord(r, n) /\ r.parent = file[n].rec.parent /\ r.address_epoch = file[n].rec.address_epoch
  BY <1>2, DetachFacts
<1>. HIDE DEF r
<1>4. r.address_epoch >= file[n].rec.address_epoch /\ LinkFrom(n, r)
  BY <1>2, <1>3 DEF LinkFrom
<1>5. New(Frame("DetachNotice", n, c, TRUE, << >>), n, r, file[n].peers)
  BY PlainFrame
<1>6. \A f \in net' : f \in net \/ New(f, n, r, file[n].peers)
  BY <1>1, <1>5
<1>. QED
  BY <1>1, <1>2, <1>3, <1>4, <1>6, SaveStep

LEMMA SetAddressStep ==
  ASSUME MemberInv, NEW n \in Node, NEW a \in AskAddress, handle_set_address(n, a)
  PROVE  MemberInv' /\ JoinStep
<1>. DEFINE r == set_address_value(file[n].rec, a)
<1>1. SaveRecord(n, r) /\ validate(r) /\ eng[n].up /\ cli' = cli /\ hand' = hand /\ joins' = joins /\ net' = net
  BY DEF handle_set_address, AdminRequest
<1>2. a \in Seq(Slot)
  <2>1. a \in OctAddr \/ a = None
    BY AskAssumption
  <2>2. None \in Seq(Slot)
    BY EmptySeq DEF None
  <2>. QED
    BY <2>1, <2>2 DEF OctAddr
<1>3. IsRecord(file[n].rec, n)
  BY <1>1, AtNode
<1>4. IsRecord(r, n) /\ r.parent = file[n].rec.parent /\ r.address_epoch >= file[n].rec.address_epoch
  BY <1>1, <1>2, <1>3, AssertFacts
<1>. HIDE DEF r
<1>5. LinkFrom(n, r)
  BY <1>4 DEF LinkFrom
<1>. QED
  BY <1>1, <1>3, <1>4, <1>5, SaveStep

LEMMA ExitHeard ==
  ASSUME MemberInv, NEW f \in net, handle_exit(f)
  PROVE  MemberInv' /\ JoinStep
<1>. DEFINE n == f.to
            r == IF f.from \in DOMAIN file[n].peers \cap Kids(file[n].rec)
                 THEN detach_child(file[n].rec, f.from) ELSE file[n].rec
<1>1. /\ SaveRecord(n, r) /\ n \in Node /\ eng[n].up /\ cli' = cli /\ hand' = hand /\ joins' = joins /\ net' = net \ {f}
  BY DEF handle_exit, Receives, counters
<1>2. IsRecord(file[n].rec, n) /\ file[n].rec.address_epoch \in Nat
  BY <1>1, AtNode
<1>3. IsRecord(r, n) /\ r.parent = file[n].rec.parent /\ r.address_epoch = file[n].rec.address_epoch
  BY <1>2, DetachFacts
<1>. HIDE DEF r, n
<1>4. r.address_epoch >= file[n].rec.address_epoch /\ LinkFrom(n, r)
  BY <1>2, <1>3 DEF LinkFrom
<1>. QED
  BY <1>1, <1>2, <1>3, <1>4, SaveStep

(* A request that reads the files again, and the frame it takes.           *)
LEMMA Refreshed ==
  ASSUME MemberInv, NEW n \in Node, eng[n].up, Refresh(n), file' = file, cli' = cli, hand' = hand, joins' = joins,
         \A g \in net' : g \in net \/ New(g, n, file[n].rec, file[n].peers)
  PROVE  MemberInv' /\ JoinStep
<1>0. PICK E : E = [eng[n] EXCEPT !.rec = file[n].rec]
  OBVIOUS
<1>1. eng' = [eng EXCEPT ![n] = E]
  BY <1>0 DEF Refresh
<1>2. IsEng(eng[n], n) /\ IsRecord(file[n].rec, n)
  BY NodeFacts
<1>3. /\ IsEng(E, n) /\ E.rec = file[n].rec /\ E.outbound = eng[n].outbound
      /\ E.retry = eng[n].retry /\ E.decisions = eng[n].decisions
  BY <1>0, <1>2, EngSaved
<1>4. \A f \in net' \cup Elements(E.retry) \cup Elements(E.decisions) :
        f \in Frames \/ New(f, n, file[n].rec, file[n].peers)
  BY <1>3, QueuedFrames DEF Frames
<1>. QED
  BY <1>1, <1>3, <1>4, EngineStep

(* A frame that is only taken note of.                                     *)
LEMMA RefreshStep ==
  ASSUME MemberInv, NEW f \in net, NEW n \in Node, eng[n].up, Refresh(n), file' = file, cli' = cli, hand' = hand,
         joins' = joins, net' = net \ {f}
  PROVE  MemberInv' /\ JoinStep
BY Refreshed

LEMMA DetachHeard ==
  ASSUME MemberInv, NEW f \in net, handle_detach_notice(f)
  PROVE  MemberInv' /\ JoinStep
<1>. DEFINE n == f.to
            r == rebase_to_root(file[n].rec)
<1>1. n \in Node /\ eng[n].up /\ cli' = cli /\ hand' = hand /\ joins' = joins
  BY DEF handle_detach_notice, Receives, counters
<1>2. CASE FromParent(f, n)
  <2>1. SaveRecord(n, r) /\ net' = (net \ {f}) \cup propagate_rebase(r, TRUE)
    BY <1>2 DEF handle_detach_notice
  <2>2. IsRecord(file[n].rec, n) /\ file[n].rec.address_epoch \in Nat
    BY <1>1, AtNode
  <2>3. HasParent(file[n].rec)
    <3>1. f.from \in Node
      BY UnderWay, ShapedFacts
    <3>. QED
      BY <1>2, <2>2, <3>1, ParentNamed DEF FromParent
  <2>4. PICK d \in Nat : /\ r = MkRecord(n, <<0>>, NoLink, file[n].rec.children, d) /\ IsRecord(r, n)
                         /\ d > file[n].rec.address_epoch
    BY <2>2, <2>3, RootFacts
  <2>. HIDE DEF r, n
  <2>5. r.parent = NoLink /\ r.address_epoch = d
    BY <2>4, Fields
  <2>6. r.address_epoch > file[n].rec.address_epoch /\ r.address_epoch >= file[n].rec.address_epoch
    BY <2>2, <2>4, <2>5
  <2>7. LinkFrom(n, r)
    BY <2>5, NoLinkIs DEF LinkFrom
  <2>8. \A g \in propagate_rebase(r, TRUE) : New(g, n, r, file[n].peers)
    BY <1>1, <2>4, <2>6, PropagateFacts
  <2>9. \A g \in net' : g \in net \/ New(g, n, r, file[n].peers)
    BY <2>1, <2>8
  <2>. QED
    BY <1>1, <2>1, <2>2, <2>4, <2>6, <2>7, <2>9, SaveStep
<1>3. CASE ~FromParent(f, n)
  <2>1. Refresh(n) /\ net' = net \ {f} /\ file' = file
    BY <1>3 DEF handle_detach_notice
  <2>. HIDE DEF n
  <2>. QED
    BY <1>1, <2>1, RefreshStep
<1>. QED
  BY <1>2, <1>3

LEMMA RebaseHeard ==
  ASSUME MemberInv, NEW f \in net, handle_rebase(f)
  PROVE  MemberInv' /\ JoinStep
<1>. DEFINE n == f.to
            r == file[n].rec
            b == f.body
            s == slot(b.address)
            u == apply_rebase(r, b.address, s, b.generation)
            taken == FromParent(f, n) /\ parent(b.address) = b.parent_address
                       /\ b.generation > r.parent.generation /\ validate(u)
<1>1. n \in Node /\ eng[n].up /\ cli' = cli /\ hand' = hand /\ joins' = joins /\ f.kind = "Rebase"
  BY DEF handle_rebase, Receives, counters
<1>2. CASE taken
  <2>1. /\ SaveRecord(n, u) /\ FromParent(f, n) /\ b.generation > r.parent.generation /\ validate(u)
        /\ net' = (net \ {f}) \cup IF r.address = b.address THEN {} ELSE propagate_rebase(u, TRUE)
    BY <1>2 DEF handle_rebase
  <2>2. IsRecord(r, n) /\ r.address_epoch \in Nat
    BY <1>1, AtNode
  <2>3. f.from \in Node /\ b \in [parent_address : Seq(Slot), address : Seq(Slot) \ {None}, generation : Nat]
    BY <1>1, UnderWay, ShapedFacts
  <2>4. r.parent.id = f.from /\ HasParent(r)
    BY <2>1, <2>2, <2>3, ParentNamed DEF FromParent
  <2>5. b.address \in Seq(Slot) /\ b.generation \in Nat /\ s \in Slot
    <3>1. b.address \in Seq(Slot) /\ b.address # << >> /\ b.generation \in Nat
      BY <2>3 DEF None
    <3>. QED
      BY <3>1 DEF slot
  <2>6. RecordAlone => b.generation <= file[f.from].rec.address_epoch
    BY <1>1, UnderWay DEF Backed
  <2>. HIDE DEF n, r, b, s, u
  <2>7. /\ u.address_epoch >= r.address_epoch /\ (r.address # b.address => u.address_epoch > r.address_epoch)
        /\ u.parent.id = r.parent.id
        /\ u.parent.generation = IF b.generation > r.parent.generation THEN b.generation ELSE r.parent.generation
    BY <2>2, <2>4, <2>5, RebaseFacts DEF u
  <2>8. IsRecord(u, n)
    BY <2>1, <2>2, <2>4, <2>5, RebaseFacts DEF u
  <2>9. u.parent.id = f.from /\ u.parent.generation = b.generation
    BY <2>1, <2>4, <2>7
  <2>10. LinkFrom(n, u)
    BY <2>3, <2>4, <2>6, <2>9 DEF LinkFrom, r
  <2>11. ASSUME NEW g \in net' PROVE g \in net \/ New(g, n, u, file[n].peers)
    <3>1. CASE r.address = b.address
      BY <2>1, <2>11, <3>1
    <3>2. CASE r.address # b.address
      <4>1. u.address_epoch > file[n].rec.address_epoch
        BY <2>7, <3>2 DEF r
      <4>2. \A x \in propagate_rebase(u, TRUE) : New(x, n, u, file[n].peers)
        BY <1>1, <2>8, <4>1, PropagateFacts
      <4>. QED
        BY <2>1, <2>11, <3>2, <4>2
    <3>. QED
      BY <3>1, <3>2
  <2>12. u.address_epoch >= file[n].rec.address_epoch
    BY <2>7 DEF r
  <2>. QED
    BY <1>1, <2>1, <2>2, <2>8, <2>10, <2>11, <2>12, SaveStep
<1>3. CASE ~taken
  <2>1. Refresh(n) /\ net' = net \ {f} /\ file' = file
    BY <1>3 DEF handle_rebase
  <2>. HIDE DEF n
  <2>. QED
    BY <1>1, <2>1, RefreshStep
<1>. QED
  BY <1>2, <1>3

LEMMA SnapshotStep ==
  ASSUME MemberInv, NEW f \in net, apply_pull_snapshot(f)
  PROVE  MemberInv' /\ JoinStep
<1>. DEFINE n == f.to
            r == eng[n].rec
            b == f.body
            a == child(b.address, b.slot)
            u == apply_rebase(r, a, b.slot, r.parent.generation)
            taken == HasParent(r) /\ r.parent.id = f.from /\ Adoptable(b, r) /\ r.address # a
<1>1. eng[n].up /\ cli' = cli /\ hand' = hand /\ joins' = joins /\ f.kind = "Snapshot"
  BY DEF apply_pull_snapshot, counters
<1>2. n \in Node /\ b \in [address : Seq(Slot), slot : Slot]
  BY <1>1, UnderWay, ShapedFacts
<1>3. CASE taken
  <2>1. /\ SaveRecord(n, u) /\ HasParent(r) /\ b.address # None /\ r.address # a
        /\ net' = (net \ {f}) \cup propagate_rebase(u, TRUE)
    BY <1>3 DEF apply_pull_snapshot, Adoptable
  <2>2. IsRecord(r, n) /\ r.address_epoch \in Nat /\ (RecordAlone => r = file[n].rec) /\ r = eng[n].rec
    BY <1>1, <1>2, AtNode, RecordParts
  <2>3. b.address \in Seq(Slot) /\ b.slot \in Slot
    BY <1>2
  <2>4. a \in Seq(Slot) /\ Len(a) >= 2 /\ a[Len(a)] = b.slot
    <3>1. Len(b.address) \in Nat /\ Len(b.address) # 0
      BY <2>1, <2>3, EmptySeq DEF None
    <3>2. a \in Seq(Slot) /\ Len(a) = Len(b.address) + 1 /\ a[Len(b.address) + 1] = b.slot
      BY <2>3, AppendProperties DEF child
    <3>. QED
      BY <3>1, <3>2
  <2>5. r.parent.generation \in Nat
    BY <2>2, RecordParts DEF IsLink
  <2>. HIDE DEF n, r, b, a, u
  <2>6. /\ u.address_epoch >= r.address_epoch /\ (r.address # a => u.address_epoch > r.address_epoch)
        /\ u.parent.id = r.parent.id
        /\ u.parent.generation = IF r.parent.generation > r.parent.generation THEN r.parent.generation
                                 ELSE r.parent.generation
    BY <2>1, <2>2, <2>3, <2>4, <2>5, RebaseFacts DEF u
  <2>7. IsRecord(u, n)
    BY <2>1, <2>2, <2>3, <2>4, <2>5, RebaseFacts DEF u
  <2>8. u.parent.id = r.parent.id /\ u.parent.generation = r.parent.generation
    BY <2>6
  <2>9. LinkFrom(n, u)
    BY <2>2, <2>8 DEF LinkFrom
  <2>10. RecordAlone => u.address_epoch >= file[n].rec.address_epoch /\ u.address_epoch > file[n].rec.address_epoch
    BY <2>1, <2>2, <2>6
  <2>11. \A x \in propagate_rebase(u, TRUE) : New(x, n, u, file[n].peers)
    BY <1>2, <2>7, <2>10, PropagateFacts
  <2>12. \A g \in net' : g \in net \/ New(g, n, u, file[n].peers)
    BY <2>1, <2>11
  <2>. QED
    BY <1>1, <1>2, <2>1, <2>2, <2>7, <2>9, <2>10, <2>12, SaveStep
<1>4. CASE ~taken
  <2>1. net' = net \ {f} /\ file' = file /\ eng' = eng
    BY <1>4 DEF apply_pull_snapshot
  <2>. HIDE DEF n
  <2>. QED
    BY <1>1, <1>2, <2>1, NetStep
<1>. QED
  BY <1>3, <1>4

LEMMA MoveStep ==
  ASSUME MemberInv, NEW n \in Node, NEW c \in Node, NEW s, apply_move_child(n, c, s)
  PROVE  MemberInv' /\ JoinStep
<1>. DEFINE r == file[n].rec
            at == IF s # AnySlot THEN s ELSE LowestOf(Slot \ TakenBy(r, Kids(r) \ {c}))
            u == move_child_slot(r, c, at)
            m == queue_rebase_notice(u, c, at, TRUE)
<1>1. /\ SaveRecord(n, u) /\ eng[n].up /\ cli' = cli /\ hand' = hand /\ joins' = joins /\ move_child_slot_ok(r, c, at)
      /\ net' = IF u = r \/ r.address = None THEN net ELSE net \cup {m}
  BY DEF apply_move_child, AdminRequest
<1>2. IsRecord(r, n) /\ r.address_epoch \in Nat
  BY <1>1, AtNode
<1>. HIDE DEF r, at
<1>3. /\ IsRecord(u, n) /\ u.parent = r.parent /\ u.address_epoch >= r.address_epoch
      /\ u # r => u.address_epoch > r.address_epoch
      /\ c \in Kids(u) /\ u.children[c].slot = at
  BY <1>1, <1>2, MoveFacts
<1>. HIDE DEF u
<1>4. LinkFrom(n, u)
  BY <1>3 DEF LinkFrom, r
<1>5. ASSUME u # r PROVE New(m, n, u, file[n].peers)
  <2>1. u.address_epoch > file[n].rec.address_epoch
    BY <1>3, <1>5 DEF r
  <2>2. m \in propagate_rebase(u, TRUE)
    BY <1>3 DEF propagate_rebase
  <2>. QED
    BY <1>3, <2>1, <2>2, PropagateFacts
<1>. HIDE DEF m
<1>6. \A g \in net' : g \in net \/ New(g, n, u, file[n].peers)
  BY <1>1, <1>5
<1>7. u.address_epoch >= file[n].rec.address_epoch
  BY <1>3 DEF r
<1>. QED
  BY <1>1, <1>2, <1>3, <1>4, <1>6, <1>7, SaveStep

LEMMA PullStep ==
  ASSUME MemberInv, NEW n \in Node, pull_rebase_from_parent(n)
  PROVE  MemberInv' /\ JoinStep
<1>. DEFINE p == eng[n].rec.parent.id
            m == Frame("Pull", n, p, FALSE, << >>)
<1>1. /\ eng[n].up /\ HasParent(eng[n].rec) /\ net' = net \cup {m}
      /\ file' = file /\ eng' = eng /\ cli' = cli /\ hand' = hand /\ joins' = joins
  BY DEF pull_rebase_from_parent, counters
<1>2. p \in Node
  BY <1>1, AtNode, ParentNamed
<1>. HIDE DEF p
<1>3. New(m, n, file[n].rec, file[n].peers)
  BY <1>2, PlainFrame
<1>. QED
  BY <1>1, <1>3, NetStep

LEMMA PullHeard ==
  ASSUME MemberInv, NEW f \in net, handle_rebase_pull(f)
  PROVE  MemberInv' /\ JoinStep
<1>. DEFINE n == f.to
            r == file[n].rec
            b == [address |-> r.address, slot |-> r.children[f.from].slot]
            m == Frame("Snapshot", n, f.from, FALSE, b)
<1>1. /\ n \in Node /\ eng[n].up /\ Refresh(n) /\ file' = file /\ cli' = cli /\ hand' = hand /\ joins' = joins
      /\ net' = (net \ {f}) \cup IF f.from \in Kids(r) \cap DOMAIN file[n].peers THEN {m} ELSE {}
  BY DEF handle_rebase_pull, Receives, counters
<1>3. ASSUME f.from \in Kids(r) PROVE New(m, n, file[n].rec, file[n].peers)
  <2>1. IsRecord(r, n)
    BY <1>1, AtNode
  <2>2. r.address \in Seq(Slot) /\ IsKids(r.children)
    BY <2>1, RecordParts
  <2>3. b \in [address : Seq(Slot), slot : Slot]
    BY <1>3, <2>2 DEF IsKids, Kids, ChildLink
  <2>4. f.from \in Node
    BY UnderWay, ShapedFacts
  <2>. HIDE DEF b, r, n
  <2>5. m \in [kind : {"Snapshot"}, from : Node, to : Node, again : BOOLEAN, body : [address : Seq(Slot), slot : Slot]]
        /\ m.kind = "Snapshot" /\ m.from = n
    BY <1>1, <2>3, <2>4 DEF Frame
  <2>. HIDE DEF m
  <2>6. m \in Shaped
    BY <2>5 DEF Shaped
  <2>. QED
    BY <2>5, <2>6 DEF New
<1>. HIDE DEF m, r, n
<1>4. \A g \in net' : g \in net \/ New(g, n, file[n].rec, file[n].peers)
  BY <1>1, <1>3
<1>. QED
  BY <1>1, <1>4, Refreshed

LEMMA UserStep ==
  ASSUME MemberInv, NEW f \in net, ToUser(f)
  PROVE  MemberInv' /\ JoinStep
<1>1. net' = net \ {f} /\ file' = file /\ eng' = eng /\ cli' = cli /\ hand' = hand /\ joins' = joins
  BY DEF ToUser, counters
<1>2. f.from \in Node
  BY UnderWay, ShapedFacts
<1>. QED
  BY <1>1, <1>2, NetStep

LEMMA NoJoinOut == NoJoin \in Outbound
BY DEF NoJoin, Outbound, AnySlot

LEMMA NothingPending ==
  ASSUME NEW n
  PROVE  IsPending(<< >>, n)
<1>1. << >> \in Seq(JoinBody) /\ Len(<< >>) = 0
  BY EmptySeq
<1>. QED
  BY <1>1, AskAssumption DEF IsPending

(* A stopped engine, and one that has just started.                        *)
LEMMA FreshEngine ==
  ASSUME NEW n, NEW f, IsFile(f, n)
  PROVE  /\ LET e == Stopped(n)
            IN  /\ IsEng(e, n) /\ e.up = FALSE /\ e.rec = NodeRecord(n) /\ e.retry = << >> /\ e.decisions = << >>
         /\ LET e == ControlNode_open(f)
            IN  /\ IsEng(e, n) /\ e.rec = f.rec /\ e.outbound = f.outbound /\ e.retry = << >> /\ e.decisions = << >>
<1>1. Len(<< >>) <= MAX_PENDING_REBASE /\ Len(<< >>) <= MAX_STORED_DECISIONS /\ << >> \in Seq(Shaped)
  <2>1. Len(<< >>) = 0 /\ << >> \in Seq(Shaped)
    BY EmptySeq
  <2>. QED
    BY <2>1, AskAssumption
<1>2. IsRecord(f.rec, n) /\ IsPending(f.pending, n) /\ f.outbound \in Outbound
  BY DEF IsFile
<1>3. ControlNode_open(f) = MkEng(TRUE, f.rec, f.pending, f.outbound, << >>, << >>)
  BY DEF ControlNode_open, MkEng
<1>4. IsEng(ControlNode_open(f), n)
  BY <1>1, <1>2, <1>3, EngMade, Zenon
<1>5. Stopped(n) = MkEng(FALSE, NodeRecord(n), << >>, NoJoin, << >>, << >>)
  BY DEF Stopped, MkEng
<1>6. IsEng(Stopped(n), n)
  BY <1>1, <1>5, FreshRecord, NothingPending, NoJoinOut, EngMade, Zenon
<1>7. LET e == ControlNode_open(f)
      IN  e.rec = f.rec /\ e.outbound = f.outbound /\ e.retry = << >> /\ e.decisions = << >>
  BY DEF ControlNode_open
<1>8. LET e == Stopped(n)
      IN  e.up = FALSE /\ e.rec = NodeRecord(n) /\ e.retry = << >> /\ e.decisions = << >>
  BY DEF Stopped
<1>. QED
  BY <1>4, <1>6, <1>7, <1>8

LEMMA NoElements == Elements(<< >>) = {}
<1>1. Len(<< >>) = 0
  BY EmptySeq
<1>. QED
  BY <1>1 DEF Elements

LEMMA StopStep ==
  ASSUME MemberInv, NEW n \in Node, Stop(n)
  PROVE  MemberInv' /\ JoinStep
<1>. DEFINE E == Stopped(n)
<1>1. /\ eng[n].up /\ eng' = [eng EXCEPT ![n] = E] /\ net' = Unanswered(net, n)
      /\ file' = file /\ cli' = cli /\ hand' = hand /\ joins' = joins
  BY DEF Stop
<1>2. IsFile(file[n], n)
  BY NodeFacts
<1>3. IsEng(E, n) /\ E.up = FALSE /\ E.rec = NodeRecord(n) /\ E.retry = << >> /\ E.decisions = << >>
  BY <1>2, FreshEngine
<1>. HIDE DEF E
<1>4. \A f \in net' \cup Elements(E.retry) \cup Elements(E.decisions) :
        f \in Frames \/ New(f, n, file[n].rec, file[n].peers)
  BY <1>1, <1>3, NoElements DEF Unanswered, Frames
<1>. QED
  BY <1>1, <1>3, <1>4, EngineStep

LEMMA StartStep ==
  ASSUME MemberInv, NEW n \in Node, Start(n)
  PROVE  MemberInv' /\ JoinStep
<1>0. PICK F, X : F = file[n] /\ X = cli[n]
  OBVIOUS
<1>0a. PICK E : E = ControlNode_open(F)
  OBVIOUS
<1>1. /\ ~eng[n].up /\ eng' = [eng EXCEPT ![n] = E] /\ net' = net /\ file' = file /\ cli' = cli /\ hand' = hand
      /\ joins' = joins /\ X.cmd \in LiveCommand \cup {"none"}
  BY <1>0, <1>0a DEF Start, counters
<1>2. Changes(n, F, E, X) /\ IsFile(F, n) /\ IsCli(X, n)
  BY <1>0, <1>1, NodeFacts DEF Changes
<1>3. IsEng(E, n) /\ E.rec = F.rec /\ E.outbound = F.outbound /\ E.retry = << >> /\ E.decisions = << >>
  BY <1>0a, <1>2, FreshEngine
<1>4. X # Idle => X.cmd \in LiveCommand
  BY <1>1, <1>2 DEF IsCli
<1>5. Beside(E, X)
  BY <1>4 DEF Beside
<1>6. RowsAlone => RowsKept(n, F, E, X)
  <2>1. RowsAlone => Rows(n, F, eng[n], X)
    BY <1>0 DEF MemberInv
  <2>. QED
    BY <1>0, <1>1, <1>3, <2>1 DEF Rows, Rowed, RowsKept, RowedThen
<1>7. RecordAlone => RecordKept(n, F, E, X)
  <2>1. RecordAlone => Records(F, eng[n], X)
    BY <1>0 DEF MemberInv
  <2>2. file[n].rec.address_epoch <= F.rec.address_epoch
    BY <1>0, <1>2 DEF IsFile, IsRecord
  <2>3. RecordAlone => Records(F, E, X)
    BY <1>3, <2>1 DEF Records
  <2>. QED
    BY <2>2, <2>3 DEF RecordKept
<1>8. JoinsAlone => JoinsKept(n, F, E, X)
  <2>1. JoinsAlone => Joins(F, eng[n], X)
    BY <1>0 DEF MemberInv
  <2>. QED
    BY <1>0, <1>3, <2>1 DEF Joins, JoinsKept
<1>9. net' \subseteq Shaped /\ joins' \in Nat /\ hand \subseteq hand'
  BY <1>1 DEF MemberInv
<1>10. \A f \in net' \cup Elements(E.retry) \cup Elements(E.decisions) : f \in Frames \/ New(f, n, F.rec, F.peers)
  BY <1>1, <1>3, NoElements DEF Frames
<1>. QED
  BY <1>2, <1>3, <1>5, <1>6, <1>7, <1>8, <1>9, <1>10, StepLemma

(* An engine with another queue of notices.                                *)
LEMMA RetrySet ==
  ASSUME NEW n, NEW e, IsEng(e, n), NEW w \in Seq(Shaped), Len(w) <= MAX_PENDING_REBASE, NEW E, E = [e EXCEPT !.retry = w]
  PROVE  IsEng(E, n) /\ E.rec = e.rec /\ E.outbound = e.outbound /\ E.retry = w /\ E.decisions = e.decisions
<1>1. e = MkEng(e.up, e.rec, e.pending, e.outbound, e.retry, e.decisions)
  BY DEF IsEng
<1>2. E = MkEng(e.up, e.rec, e.pending, e.outbound, w, e.decisions)
  BY <1>1 DEF MkEng
<1>3. /\ e.up \in BOOLEAN /\ IsRecord(e.rec, n) /\ IsPending(e.pending, n) /\ e.outbound \in Outbound
      /\ e.decisions \in Seq(Shaped) /\ Len(e.decisions) <= MAX_STORED_DECISIONS
  BY DEF IsEng
<1>4. IsEng(MkEng(e.up, e.rec, e.pending, e.outbound, w, e.decisions), n)
  BY <1>3, EngMade, Zenon
<1>5. IsEng(E, n)
  BY <1>2, <1>4, Zenon
<1>. QED
  BY <1>2, <1>5, EngFields

LEMMA RequeueFacts ==
  ASSUME NEW q \in Seq(Shaped), Len(q) <= MAX_PENDING_REBASE, NEW f \in Shaped, NEW r
  PROVE  LET w == requeue_pending_rebase(q, r, f)
         IN  /\ w \in Seq(Shaped) /\ Len(w) <= MAX_PENDING_REBASE
             /\ \A g \in Elements(w) : g \in Elements(q) \/ g = f
<1>. DEFINE T == { i \in DOMAIN q : q[i].to = f.to /\ q[i].kind = f.kind }
            all == Append(Without(q, T), f)
            w == IF Len(all) > MAX_PENDING_REBASE THEN Tail(all) ELSE all
<1>1. T \in SUBSET DOMAIN q /\ MAX_PENDING_REBASE \in Nat \ {0}
  BY AskAssumption
<1>2. requeue_pending_rebase(q, r, f) = IF f.to \notin Kids(r) THEN q ELSE w
  BY DEF requeue_pending_rebase
<1>. HIDE DEF T
<1>3. w \in Seq(Shaped) /\ Len(w) <= MAX_PENDING_REBASE /\ \A g \in Elements(w) : g \in Elements(q) \/ g = f
  BY <1>1, NewestFacts
<1>. HIDE DEF w
<1>. QED
  BY <1>2, <1>3

LEMMA LoseStep ==
  ASSUME MemberInv, NEW f \in net, Lose(f)
  PROVE  MemberInv' /\ JoinStep
<1>. DEFINE n == f.from
            w == requeue_pending_rebase(eng[n].retry, eng[n].rec, f)
            E == [eng[n] EXCEPT !.retry = w]
<1>1. net' = net \ {f} /\ file' = file /\ cli' = cli /\ hand' = hand /\ joins' = joins
  BY DEF Lose
<1>2. f \in Shaped /\ n \in Node /\ f \in Frames
  BY UnderWay, ShapedFacts
<1>3. CASE f.again /\ eng[n].up
  <2>1. eng' = [eng EXCEPT ![n] = E]
    BY <1>3 DEF Lose
  <2>. HIDE DEF n
  <2>2. IsEng(eng[n], n)
    BY <1>2, NodeFacts
  <2>3. eng[n].retry \in Seq(Shaped) /\ Len(eng[n].retry) <= MAX_PENDING_REBASE
    BY <2>2 DEF IsEng
  <2>4. w \in Seq(Shaped) /\ Len(w) <= MAX_PENDING_REBASE /\ \A g \in Elements(w) : g \in Elements(eng[n].retry) \/ g = f
    BY <1>2, <2>3, RequeueFacts
  <2>. HIDE DEF w
  <2>5. /\ IsEng(E, n) /\ E.rec = eng[n].rec /\ E.outbound = eng[n].outbound
        /\ E.retry = w /\ E.decisions = eng[n].decisions
    BY <2>2, <2>4, RetrySet
  <2>. HIDE DEF E
  <2>6. \A g \in net' \cup Elements(E.retry) \cup Elements(E.decisions) : g \in Frames
    <3>1. \A g \in Elements(eng[n].retry) \cup Elements(eng[n].decisions) : g \in Frames
      BY <1>2, QueuedFrames
    <3>. QED
      BY <1>1, <1>2, <2>4, <2>5, <3>1 DEF Frames
  <2>. QED
    BY <1>1, <1>2, <1>3, <2>1, <2>5, <2>6, EngineStep
<1>4. CASE ~(f.again /\ eng[n].up)
  <2>1. eng' = eng
    BY <1>4 DEF Lose
  <2>. HIDE DEF n
  <2>. QED
    BY <1>1, <1>2, <2>1, NetStep
<1>. QED
  BY <1>3, <1>4

LEMMA SweepStep ==
  ASSUME MemberInv, NEW n \in Node, sweep_pending_rebase(n)
  PROVE  MemberInv' /\ JoinStep
<1>0. PICK w : w = << >>
  OBVIOUS
<1>. DEFINE E == [eng[n] EXCEPT !.retry = w]
<1>1. /\ eng[n].up /\ eng' = [eng EXCEPT ![n] = E] /\ file' = file /\ cli' = cli /\ hand' = hand /\ joins' = joins
      /\ net' = net \cup { f \in ToSet(eng[n].retry) : f.to \in Kids(eng[n].rec) }
  BY <1>0 DEF sweep_pending_rebase, counters
<1>2. IsEng(eng[n], n)
  BY NodeFacts
<1>3. Len(w) <= MAX_PENDING_REBASE /\ w \in Seq(Shaped) /\ Elements(w) = {}
  <2>1. Len(w) = 0 /\ w \in Seq(Shaped)
    BY <1>0, EmptySeq
  <2>. QED
    BY <1>0, <2>1, AskAssumption, NoElements
<1>4. /\ IsEng(E, n) /\ E.rec = eng[n].rec /\ E.outbound = eng[n].outbound
      /\ E.retry = w /\ E.decisions = eng[n].decisions
  BY <1>2, <1>3, RetrySet
<1>. HIDE DEF E
<1>5. ToSet(eng[n].retry) = Elements(eng[n].retry)
  <2>1. eng[n].retry \in Seq(Shaped)
    BY <1>2 DEF IsEng
  <2>. QED
    BY <2>1, LenProperties DEF ToSet, Elements
<1>6. \A f \in Elements(eng[n].retry) \cup Elements(eng[n].decisions) : f \in Frames
  BY QueuedFrames
<1>7. \A f \in net' \cup Elements(E.retry) \cup Elements(E.decisions) : f \in Frames
  BY <1>1, <1>3, <1>4, <1>5, <1>6 DEF Frames
<1>. QED
  BY <1>1, <1>4, <1>7, EngineStep

LEMMA DecisionFacts ==
  ASSUME NEW q \in Seq(Shaped), Len(q) <= MAX_STORED_DECISIONS, NEW f \in Shaped
  PROVE  LET d == store_decision(q, f)
         IN  /\ d \in Seq(Shaped) /\ Len(d) <= MAX_STORED_DECISIONS
             /\ \A g \in Elements(d) : g \in Elements(q) \/ g = f
<1>. DEFINE T == { i \in DOMAIN q : q[i].to = f.to }
<1>1. T \in SUBSET DOMAIN q /\ MAX_STORED_DECISIONS \in Nat \ {0}
  BY AskAssumption
<1>2. store_decision(q, f) = LET all == Append(Without(q, T), f)
                             IN  IF Len(all) > MAX_STORED_DECISIONS THEN Tail(all) ELSE all
  BY DEF store_decision
<1>. HIDE DEF T
<1>. QED
  BY <1>1, <1>2, NewestFacts

LEMMA RedeliverStep ==
  ASSUME MemberInv, NEW n \in Node, NEW c, AdminRedeliver(n, c)
  PROVE  MemberInv' /\ JoinStep
<1>1. /\ eng[n].up /\ file' = file /\ cli' = cli /\ hand' = hand /\ joins' = joins
  BY DEF AdminRedeliver, AdminRequest
<1>2. PICK i \in DOMAIN eng[n].decisions :
        /\ net' = net \cup {eng[n].decisions[i]}
        /\ eng' = [eng EXCEPT ![n] = [eng[n] EXCEPT !.rec = file[n].rec,
                                              !.decisions = store_decision(eng[n].decisions, eng[n].decisions[i])]]
  BY DEF AdminRedeliver
<1>. DEFINE f == eng[n].decisions[i]
            d == store_decision(eng[n].decisions, f)
<1>3. /\ eng[n].decisions \in Seq(Shaped) /\ Len(eng[n].decisions) <= MAX_STORED_DECISIONS
      /\ IsRecord(file[n].rec, n)
  BY <1>1, NodeFacts
<1>4. f \in Elements(eng[n].decisions) /\ f \in Shaped
  BY <1>3, LenProperties DEF Elements
<1>5a. PICK m : m = [eng[n] EXCEPT !.rec = file[n].rec]
  OBVIOUS
<1>5b. PICK E : E = [m EXCEPT !.decisions = d]
  OBVIOUS
<1>5. eng' = [eng EXCEPT ![n] = E]
  BY <1>2, <1>5a, <1>5b
<1>. HIDE DEF f
<1>6. d \in Seq(Shaped) /\ Len(d) <= MAX_STORED_DECISIONS /\ \A g \in Elements(d) : g \in Elements(eng[n].decisions) \/ g = f
  BY <1>3, <1>4, DecisionFacts
<1>. HIDE DEF d
<1>7. IsEng(eng[n], n) /\ IsRecord(file[n].rec, n) /\ d \in Seq(Shaped) /\ Len(d) <= MAX_STORED_DECISIONS
  BY <1>3, <1>6 DEF MemberInv, Nodes
<1>8. /\ IsEng(E, n) /\ E.rec = file[n].rec /\ E.outbound = eng[n].outbound
      /\ E.retry = eng[n].retry /\ E.decisions = d
  <2>1. IsEng(E, n)
    BY <1>5a, <1>5b, <1>7, EngDecided
  <2>2. E.rec = file[n].rec /\ E.outbound = eng[n].outbound /\ E.retry = eng[n].retry
    BY <1>5a, <1>5b, <1>7 DEF IsEng, MkEng
  <2>3. E.decisions = d
    BY <1>5a, <1>5b, <1>7 DEF IsEng, MkEng
  <2>. QED
    BY <2>1, <2>2, <2>3
<1>10. \A g \in Elements(eng[n].retry) \cup Elements(eng[n].decisions) : g \in Frames
  BY QueuedFrames
<1>11. \A g \in net' \cup Elements(E.retry) \cup Elements(E.decisions) : g \in Frames
  BY <1>2, <1>4, <1>6, <1>8, <1>10 DEF Frames, f
<1>. QED
  BY <1>1, <1>5, <1>8, <1>11, EngineStep

-----------------------------------------------------------------------------
(***************************************************************************)
(* Files with some of their parts written.                                 *)
(***************************************************************************)
LEMMA SaveForm ==
  ASSUME NEW r, NEW p, NEW q, NEW o, NEW f, f = MkFile(r, p, q, o), NEW x, NEW y
  PROVE  ControlStore_save(f, x, y) = MkFile(r, p, x, y)
<1>1. PICK a : a = [f EXCEPT !.pending = x]
  OBVIOUS
<1>2. ControlStore_save(f, x, y) = [a EXCEPT !.outbound = y]
  BY <1>1 DEF ControlStore_save
<1>3. a = MkFile(r, p, x, o)
  BY <1>1 DEF MkFile
<1>. QED
  BY <1>2, <1>3 DEF MkFile

LEMMA ApproveForm ==
  ASSUME NEW r, NEW p, NEW q, NEW o, NEW f, f = MkFile(r, p, q, o), NEW w, NEW j, NEW s
  PROVE  approve_pending(f, w, j, s) =
           MkFile(IF j.node \in Kids(r) THEN r ELSE attach_child(r, j.node, j.kind, s),
                  reconcile_peer_row(p, j.node, j.ledger), remove_pending(w, j.node), o)
<1>1. f.rec = r /\ f.peers = p
  BY DEF MkFile
<1>. DEFINE u == IF j.node \in Kids(r) THEN r ELSE attach_child(r, j.node, j.kind, s)
            v == reconcile_peer_row(p, j.node, j.ledger)
            z == remove_pending(w, j.node)
<1>2. approve_pending(f, w, j, s) = [f EXCEPT !.rec = u, !.peers = v, !.pending = z]
  BY <1>1, Zenon DEF approve_pending
<1>. HIDE DEF u, v, z
<1>3. PICK a : a = [f EXCEPT !.rec = u]
  OBVIOUS
<1>4. PICK b : b = [a EXCEPT !.peers = v]
  OBVIOUS
<1>5. approve_pending(f, w, j, s) = [b EXCEPT !.pending = z]
  BY <1>2, <1>3, <1>4
<1>6. a = MkFile(u, p, q, o)
  BY <1>3 DEF MkFile
<1>7. b = MkFile(u, v, q, o)
  BY <1>4, <1>6 DEF MkFile
<1>8. approve_pending(f, w, j, s) = MkFile(u, v, z, o)
  BY <1>5, <1>7 DEF MkFile
<1>. QED
  BY <1>8 DEF u, v, z

LEMMA WrittenForm ==
  ASSUME NEW r, NEW p, NEW q, NEW o, NEW f, f = MkFile(r, p, q, o), NEW u, NEW v, NEW z, NEW y,
         NEW new, new = MkFile(u, v, z, y), NEW k
  PROVE  Written(f, new, k) = MkFile(u, IF k >= 2 THEN v ELSE p, IF k >= 3 THEN z ELSE q, o)
<1>1. /\ f.peers = p /\ f.pending = q /\ new.rec = u /\ new.peers = v /\ new.pending = z
  BY DEF MkFile
<1>. DEFINE x == IF k >= 2 THEN v ELSE p
            w == IF k >= 3 THEN z ELSE q
<1>2. Written(f, new, k) = [f EXCEPT !.rec = u, !.peers = x, !.pending = w]
  BY <1>1, Zenon DEF Written
<1>. HIDE DEF x, w
<1>3. PICK a : a = [f EXCEPT !.rec = u]
  OBVIOUS
<1>4. PICK b : b = [a EXCEPT !.peers = x]
  OBVIOUS
<1>5. Written(f, new, k) = [b EXCEPT !.pending = w]
  BY <1>2, <1>3, <1>4
<1>6. a = MkFile(u, p, q, o)
  BY <1>3 DEF MkFile
<1>7. b = MkFile(u, x, q, o)
  BY <1>4, <1>6 DEF MkFile
<1>8. Written(f, new, k) = MkFile(u, x, w, o)
  BY <1>5, <1>7 DEF MkFile
<1>. QED
  BY <1>8 DEF x, w

(* A row is added or its key replaced; no row is lost.                     *)
LEMMA RowFacts ==
  ASSUME NEW p, NEW c, NEW k
  PROVE  DOMAIN p \subseteq DOMAIN reconcile_peer_row(p, c, k) /\ c \in DOMAIN reconcile_peer_row(p, c, k)
<1>1. CASE c \in DOMAIN p
  <2>1. reconcile_peer_row(p, c, k) = [p EXCEPT ![c] = k]
    BY <1>1 DEF reconcile_peer_row
  <2>. QED
    BY <1>1, <2>1
<1>2. CASE c \notin DOMAIN p
  BY <1>2 DEF reconcile_peer_row, insert
<1>. QED
  BY <1>1, <1>2

(* The outbound join that a running node writes: none, as it was answered, *)
(* or the one it knows of.                                                 *)
Outgoing(n, o, E) ==
  \/ o = file[n].outbound /\ E.outbound = eng[n].outbound
  \/ o = E.outbound /\ o \in {eng[n].outbound, NoJoin}

(* A running node writes its files and goes on with what it has written.   *)
LEMMA RunningStep ==
  ASSUME MemberInv, NEW n \in Node, eng[n].up, NEW r, NEW p, NEW q, NEW o \in Outbound, NEW E,
         file' = [file EXCEPT ![n] = MkFile(r, p, q, o)], eng' = [eng EXCEPT ![n] = E],
         cli' = cli, hand' = hand, joins' = joins, IsRecord(r, n), IsPending(q, n),
         IsEng(E, n), E.rec = r, Outgoing(n, o, E), E.retry = eng[n].retry,
         DOMAIN file[n].peers \subseteq DOMAIN p, RecordAlone => file[n].rec.address_epoch <= r.address_epoch,
         LinkFrom(n, r),
         \A f \in net' \cup Elements(E.decisions) : f \in net \cup Elements(eng[n].decisions) \/ New(f, n, r, p)
  PROVE  MemberInv' /\ JoinStep
<1>0. PICK F : F = MkFile(r, p, q, o)
  OBVIOUS
<1>1. IsFile(F, n) /\ F.rec = r /\ F.peers = p /\ F.outbound = o
  BY <1>0, FileMade
<1>2. \A f \in Elements(eng[n].retry) \cup Elements(eng[n].decisions) : f \in Frames
  BY QueuedFrames
<1>3. \A f \in net' \cup Elements(E.retry) \cup Elements(E.decisions) : f \in Frames \/ New(f, n, F.rec, F.peers)
  BY <1>1, <1>2 DEF Frames
<1>4. Grows(n, F.rec, F.peers) /\ LinkFrom(n, F.rec)
  BY <1>1 DEF Grows
<1>5. Goes(n, F, E)
  BY <1>1 DEF Goes, Outgoing
<1>6. file' = [file EXCEPT ![n] = F]
  BY <1>0
<1>. QED
  BY <1>1, <1>3, <1>4, <1>5, <1>6, RunningLemma

(* The node stops as it writes: what is written is kept, nothing is sent.  *)
LEMMA CrashStep ==
  ASSUME MemberInv, NEW n \in Node, eng[n].up, NEW r, NEW p, NEW q, NEW o \in Outbound, o = file[n].outbound,
         file' = [file EXCEPT ![n] = MkFile(r, p, q, o)], eng' = [eng EXCEPT ![n] = Stopped(n)],
         cli' = cli, hand' = hand, joins' = joins, IsRecord(r, n), IsPending(q, n),
         DOMAIN file[n].peers \subseteq DOMAIN p, RecordAlone => file[n].rec.address_epoch <= r.address_epoch,
         LinkFrom(n, r), net' \subseteq net
  PROVE  MemberInv' /\ JoinStep
<1>0. PICK F : F = MkFile(r, p, q, o)
  OBVIOUS
<1>0a. PICK E : E = Stopped(n)
  OBVIOUS
<1>1. IsFile(F, n) /\ F.rec = r /\ F.peers = p /\ F.outbound = o
  BY <1>0, FileMade
<1>2. IsEng(E, n) /\ E.up = FALSE /\ E.rec = NodeRecord(n) /\ E.retry = << >> /\ E.decisions = << >>
  BY <1>0a, <1>1, FreshEngine
<1>3. \A f \in net' \cup Elements(E.retry) \cup Elements(E.decisions) : f \in Frames \/ New(f, n, F.rec, F.peers)
  BY <1>2, NoElements DEF Frames
<1>4. Grows(n, F.rec, F.peers) /\ LinkFrom(n, F.rec)
  BY <1>1 DEF Grows
<1>5. Goes(n, F, E)
  BY <1>1, <1>2 DEF Goes
<1>6. file' = [file EXCEPT ![n] = F] /\ eng' = [eng EXCEPT ![n] = E]
  BY <1>0, <1>0a
<1>. QED
  BY <1>1, <1>2, <1>3, <1>4, <1>5, <1>6, RunningLemma
-----------------------------------------------------------------------------
(***************************************************************************)
(* Asking for a place.                                                     *)
(***************************************************************************)
(* A queue with one more applicant.                                        *)
LEMMA QueuedFacts ==
  ASSUME NEW n, NEW q, IsPending(q, n), NEW j \in JoinBody, j.node # n, pending_for(q, j.node) = {},
         Len(q) < MAX_PENDING_JOINS
  PROVE  IsPending(Append(q, j), n)
<1>. DEFINE w == Append(q, j)
<1>1. q \in Seq(JoinBody) /\ Len(q) \in Nat /\ DOMAIN q = 1..Len(q) /\ MAX_PENDING_JOINS \in Nat
  BY AskAssumption, LenProperties DEF IsPending
<1>2. /\ w \in Seq(JoinBody) /\ Len(w) = Len(q) + 1 /\ \A i \in 1..Len(q) : w[i] = q[i]
      /\ w[Len(q) + 1] = j
  BY <1>1, AppendProperties
<1>. HIDE DEF w
<1>3. \A i \in 1..Len(q) : q[i].node # j.node
  BY <1>1 DEF pending_for
<1>4. \A i \in 1..Len(w) : i \in 1..Len(q) \/ i = Len(q) + 1
  BY <1>1, <1>2
<1>5. Len(w) <= MAX_PENDING_JOINS
  BY <1>1, <1>2
<1>6. \A i \in 1..Len(w) : w[i].node # n
  BY <1>2, <1>4 DEF IsPending
<1>7. \A i, k \in 1..Len(w) : i # k => w[i].node # w[k].node
  BY <1>2, <1>3, <1>4 DEF IsPending
<1>. QED
  BY <1>2, <1>5, <1>6, <1>7 DEF IsPending, w

LEMMA JoinHeard ==
  ASSUME MemberInv, NEW f \in net, handle_join(f)
  PROVE  MemberInv' /\ JoinStep
<1>. DEFINE n == f.to
            j == f.body
            r == file[n].rec
            p == file[n].peers
            o == eng[n].outbound
            q == Append(eng[n].pending, j)
            room == Len(eng[n].pending) < MAX_PENDING_JOINS
            wanted == \/ j.node \in Kids(r)
                      \/ IF j.slot = AnySlot THEN Free(r) # {} ELSE j.slot \in Free(r)
<1>1. n \in Node /\ eng[n].up /\ cli' = cli /\ hand' = hand /\ joins' = joins /\ net' = net \ {f} /\ f.kind = "Join"
  BY DEF handle_join, Receives, counters
<1>2. CASE pending_for(eng[n].pending, j.node) = {} /\ room /\ wanted
  <2>1. /\ eng' = [eng EXCEPT ![n] = [eng[n] EXCEPT !.rec = r, !.pending = q]]
        /\ file' = [file EXCEPT ![n] = ControlStore_save(file[n], q, o)]
    BY <1>2 DEF handle_join
  <2>2. j \in JoinBody /\ j.node # n
    BY <1>1, UnderWay, ShapedFacts DEF Backed
  <2>. HIDE DEF j, wanted, n
  <2>3. /\ file[n] = MkFile(r, p, file[n].pending, file[n].outbound) /\ IsRecord(r, n) /\ IsPending(eng[n].pending, n)
        /\ o \in Outbound
    BY <1>1, NodeFacts
  <2>4. IsPending(q, n)
    BY <1>2, <2>2, <2>3, QueuedFacts
  <2>. HIDE DEF q, o, r, p
  <2>5. ControlStore_save(file[n], q, o) = MkFile(r, p, q, o)
    BY <2>3, SaveForm
  <2>6. PICK m : m = [eng[n] EXCEPT !.rec = r]
    OBVIOUS
  <2>7. PICK E : E = [m EXCEPT !.pending = q]
    OBVIOUS
  <2>8. eng' = [eng EXCEPT ![n] = E]
    BY <2>1, <2>6, <2>7
  <2>9. IsEng(eng[n], n)
    BY <1>1 DEF MemberInv, Nodes
  <2>10. /\ IsEng(E, n) /\ E.rec = r /\ E.pending = q /\ E.outbound = o /\ E.retry = eng[n].retry
         /\ E.decisions = eng[n].decisions
    <3>1. IsEng(E, n)
      BY <2>3, <2>4, <2>6, <2>7, <2>9, EngQueued
    <3>2. E.rec = r /\ E.pending = q /\ E.outbound = eng[n].outbound /\ E.retry = eng[n].retry
      BY <2>6, <2>7, <2>9 DEF IsEng, MkEng
    <3>3. E.decisions = eng[n].decisions
      BY <2>6, <2>7, <2>9 DEF IsEng, MkEng
    <3>. QED
      BY <3>1, <3>2, <3>3 DEF o
  <2>10a. Outgoing(n, o, E)
    BY <2>10 DEF Outgoing, o
  <2>11. r.address_epoch \in Nat
    BY <1>1, AtNode DEF r
  <2>12. file[n].rec.address_epoch <= r.address_epoch /\ DOMAIN file[n].peers \subseteq DOMAIN p /\ LinkFrom(n, r)
    BY <2>11 DEF r, p, LinkFrom
  <2>13. \A g \in net' \cup Elements(E.decisions) : g \in net \cup Elements(eng[n].decisions)
    BY <1>1, <2>10
  <2>14. file' = [file EXCEPT ![n] = MkFile(r, p, q, o)]
    BY <2>1, <2>5
  <2>. QED
    BY <1>1, <2>3, <2>4, <2>8, <2>10, <2>10a, <2>12, <2>13, <2>14, RunningStep
<1>3. CASE ~(pending_for(eng[n].pending, j.node) = {} /\ room /\ wanted)
  <2>1. Refresh(n) /\ file' = file
    BY <1>3 DEF handle_join
  <2>. HIDE DEF n
  <2>. QED
    BY <1>1, <2>1, RefreshStep
<1>. QED
  BY <1>2, <1>3

(* A queued request is that of its applicant, another node.                *)
LEMMA PendingFor ==
  ASSUME NEW n, NEW q, IsPending(q, n), NEW c, NEW j \in pending_for(q, c)
  PROVE  j \in JoinBody /\ j.node = c /\ c # n /\ c \in Node /\ j.nonce \in Nat /\ j.kind = "node"
<1>1. q \in Seq(JoinBody) /\ DOMAIN q = 1..Len(q)
  BY LenProperties DEF IsPending
<1>2. PICK i \in 1..Len(q) : j = q[i] /\ q[i].node = c
  BY <1>1 DEF pending_for
<1>3. j \in JoinBody /\ j.node = c /\ c # n
  BY <1>1, <1>2 DEF IsPending
<1>. QED
  BY <1>3 DEF JoinBody

LEMMA RejectionFrame ==
  ASSUME NEW n \in Node, NEW c \in Node, NEW k \in Nat, NEW r, NEW p
  PROVE  New(JoinRejection(n, c, k), n, r, p)
<1>. DEFINE b == [nonce |-> k]
            f == JoinRejection(n, c, k)
<1>1. b \in [nonce : Nat]
  OBVIOUS
<1>2. f = [kind |-> "Rejected", from |-> n, to |-> c, again |-> FALSE, body |-> b]
  BY DEF JoinRejection, Frame
<1>. HIDE DEF b, f
<1>3. f \in [kind : {"Rejected"}, from : Node, to : Node, again : BOOLEAN, body : [nonce : Nat]]
  BY <1>1, <1>2
<1>4. f.kind = "Rejected" /\ f.from = n
  BY <1>2
<1>5. f \in Shaped
  BY <1>3 DEF Shaped
<1>. QED
  BY <1>4, <1>5 DEF New, f

LEMMA AdminRejectStep ==
  ASSUME MemberInv, NEW n \in Node, NEW c \in Node, AdminReject(n, c)
  PROVE  MemberInv' /\ JoinStep
<1>. DEFINE r == file[n].rec
            p == file[n].peers
            o == eng[n].outbound
            q == remove_pending(eng[n].pending, c)
<1>1. eng[n].up /\ cli' = cli /\ hand' = hand /\ joins' = joins
  BY DEF AdminReject, AdminRequest
<1>2. PICK j \in pending_for(eng[n].pending, c) :
        LET d == JoinRejection(n, c, j.nonce)
        IN  /\ eng' = [eng EXCEPT ![n] = [eng[n] EXCEPT !.rec = r, !.pending = q,
                                                        !.decisions = store_decision(eng[n].decisions, d)]]
            /\ file' = [file EXCEPT ![n] = ControlStore_save(file[n], q, o)]
            /\ net' = net \cup {d}
  BY DEF AdminReject
<1>. DEFINE d == JoinRejection(n, c, j.nonce)
            w == store_decision(eng[n].decisions, d)
<1>3. /\ file[n] = MkFile(r, p, file[n].pending, file[n].outbound) /\ IsRecord(r, n) /\ IsPending(eng[n].pending, n)
      /\ o \in Outbound /\ eng[n].decisions \in Seq(Shaped) /\ Len(eng[n].decisions) <= MAX_STORED_DECISIONS
  BY <1>1, NodeFacts
<1>4. IsPending(q, n)
  BY <1>3, RemovePendingFacts
<1>5. j.nonce \in Nat
  BY <1>3, PendingFor
<1>6. New(d, n, r, p)
  BY <1>5, RejectionFrame
<1>. HIDE DEF d, q
<1>7. w \in Seq(Shaped) /\ Len(w) <= MAX_STORED_DECISIONS /\ \A g \in Elements(w) : g \in Elements(eng[n].decisions) \/ g = d
  BY <1>3, <1>6, DecisionFacts DEF New
<1>. HIDE DEF w, o, r, p
<1>8. ControlStore_save(file[n], q, o) = MkFile(r, p, q, o)
  BY <1>3, SaveForm
<1>9. PICK m : m = [eng[n] EXCEPT !.rec = r]
  OBVIOUS
<1>10. PICK k : k = [m EXCEPT !.pending = q]
  OBVIOUS
<1>11. PICK E : E = [k EXCEPT !.decisions = w]
  OBVIOUS
<1>12. eng' = [eng EXCEPT ![n] = E] /\ net' = net \cup {d} /\ file' = [file EXCEPT ![n] = MkFile(r, p, q, o)]
  BY <1>2, <1>8, <1>9, <1>10, <1>11 DEF w, d
<1>13. IsEng(eng[n], n) /\ IsRecord(r, n) /\ w \in Seq(Shaped) /\ Len(w) <= MAX_STORED_DECISIONS
  BY <1>3, <1>7 DEF MemberInv, Nodes
<1>14. IsEng(E, n)
  <2>1. m = MkEng(eng[n].up, r, eng[n].pending, eng[n].outbound, eng[n].retry, eng[n].decisions)
    BY <1>9, <1>13 DEF IsEng, MkEng
  <2>2. k = MkEng(eng[n].up, r, q, eng[n].outbound, eng[n].retry, eng[n].decisions)
    BY <1>10, <2>1 DEF MkEng
  <2>3. E = MkEng(eng[n].up, r, q, eng[n].outbound, eng[n].retry, w)
    BY <1>11, <2>2 DEF MkEng
  <2>. QED
    BY <1>3, <1>4, <1>13, <2>3, EngRemade DEF o
<1>15. E.rec = r /\ E.pending = q /\ E.outbound = o /\ E.retry = eng[n].retry
  BY <1>9, <1>10, <1>11, <1>13 DEF IsEng, MkEng, o
<1>16. E.decisions = w
  BY <1>9, <1>10, <1>11, <1>13 DEF IsEng, MkEng
<1>16a. Outgoing(n, o, E)
  BY <1>15 DEF Outgoing, o
<1>17. r.address_epoch \in Nat
  BY AtNode DEF r
<1>18. file[n].rec.address_epoch <= r.address_epoch /\ DOMAIN file[n].peers \subseteq DOMAIN p /\ LinkFrom(n, r)
  BY <1>17 DEF r, p, LinkFrom
<1>19. \A g \in net' \cup Elements(E.decisions) : g \in net \cup Elements(eng[n].decisions) \/ New(g, n, r, p)
  BY <1>6, <1>7, <1>12, <1>16
<1>. QED
  BY <1>1, <1>3, <1>4, <1>12, <1>14, <1>15, <1>16a, <1>18, <1>19, RunningStep

LEMMA RejectHeard ==
  ASSUME MemberInv, NEW f \in net, handle_join_rejected(f)
  PROVE  MemberInv' /\ JoinStep
<1>. DEFINE n == f.to
            r == file[n].rec
            p == file[n].peers
            q == eng[n].pending
            o == eng[n].outbound
            heard == o # NoJoin /\ o.parent = f.from /\ f.body.nonce \in {0, o.nonce}
<1>1. n \in Node /\ eng[n].up /\ cli' = cli /\ hand' = hand /\ joins' = joins /\ net' = net \ {f}
  BY DEF handle_join_rejected, Receives, counters
<1>2. CASE heard
  <2>1. /\ eng' = [eng EXCEPT ![n] = [eng[n] EXCEPT !.rec = r, !.outbound = NoJoin]]
        /\ file' = [file EXCEPT ![n] = ControlStore_save(file[n], q, NoJoin)]
    BY <1>2 DEF handle_join_rejected
  <2>. HIDE DEF n, heard
  <2>2. /\ file[n] = MkFile(r, p, file[n].pending, file[n].outbound) /\ IsRecord(r, n) /\ IsPending(q, n)
    BY <1>1, NodeFacts
  <2>. HIDE DEF r, p, q
  <2>3. file' = [file EXCEPT ![n] = MkFile(r, p, q, NoJoin)]
    <3>1. ControlStore_save(file[n], q, NoJoin) = MkFile(r, p, q, NoJoin)
      BY <2>2, SaveForm
    <3>. QED
      BY <2>1, <3>1
  <2>4. PICK m : m = [eng[n] EXCEPT !.rec = r]
    OBVIOUS
  <2>5. PICK E : E = [m EXCEPT !.outbound = NoJoin]
    OBVIOUS
  <2>6. eng' = [eng EXCEPT ![n] = E]
    BY <2>1, <2>4, <2>5
  <2>7. IsEng(eng[n], n)
    BY <1>1 DEF MemberInv, Nodes
  <2>8. IsEng(E, n)
    BY <2>2, <2>4, <2>5, <2>7, NoJoinOut, EngAnswered
  <2>9. E.rec = r /\ E.pending = q /\ E.outbound = NoJoin /\ E.retry = eng[n].retry
    BY <2>4, <2>5, <2>7 DEF IsEng, MkEng, q
  <2>10. E.decisions = eng[n].decisions
    BY <2>4, <2>5, <2>7 DEF IsEng, MkEng
  <2>10a. Outgoing(n, NoJoin, E)
    BY <2>9 DEF Outgoing
  <2>11. r.address_epoch \in Nat
    BY <1>1, AtNode DEF r
  <2>12. file[n].rec.address_epoch <= r.address_epoch /\ DOMAIN file[n].peers \subseteq DOMAIN p /\ LinkFrom(n, r)
    BY <2>11 DEF r, p, LinkFrom
  <2>13. \A g \in net' \cup Elements(E.decisions) : g \in net \cup Elements(eng[n].decisions)
    BY <1>1, <2>10
  <2>. QED
    BY <1>1, <2>2, <2>3, <2>6, <2>8, <2>9, <2>10a, <2>12, <2>13, NoJoinOut, RunningStep
<1>3. CASE ~heard
  <2>1. Refresh(n) /\ file' = file
    BY <1>3 DEF handle_join_rejected
  <2>. HIDE DEF n
  <2>. QED
    BY <1>1, <2>1, RefreshStep
<1>. QED
  BY <1>2, <1>3

-----------------------------------------------------------------------------
(***************************************************************************)
(* Approvals.                                                              *)
(***************************************************************************)
LEMMA SlotFacts ==
  ASSUME NEW n, NEW r, IsRecord(r, n), NEW c, NEW s \in AskSlot, NEW at \in SlotFor(r, c, s)
  PROVE  at \in Slot /\ (c \notin Kids(r) => at \in Free(r))
<1>1. IsKids(r.children)
  BY RecordParts
<1>2. c \in Kids(r) => r.children[c].slot \in Slot
  BY <1>1 DEF IsKids, Kids, ChildLink
<1>3. Free(r) \subseteq Slot
  BY DEF Free
<1>. QED
  BY <1>2, <1>3 DEF SlotFor

LEMMA ApprovalFrame ==
  ASSUME NEW n \in Node, NEW f, f.rec.address \in Seq(Slot), NEW j, j.node \in Node, j.nonce \in Nat, NEW s \in Slot,
         NEW r, NEW p, j.node \in DOMAIN p
  PROVE  New(approval(n, f, j, s), n, r, p)
<1>. DEFINE a == child(f.rec.address, s)
            b == [slot |-> s, address |-> a, nonce |-> j.nonce]
            g == approval(n, f, j, s)
<1>1. a \in Seq(Slot) \ {None}
  BY AppendProperties, EmptySeq DEF child, None
<1>2. g = [kind |-> "Approved", from |-> n, to |-> j.node, again |-> FALSE, body |-> b]
  BY DEF approval, Frame
<1>. HIDE DEF a
<1>3. b \in [slot : Slot, address : Seq(Slot) \ {None}, nonce : Nat]
  BY <1>1
<1>. HIDE DEF b, g
<1>4. g \in [kind : {"Approved"}, from : Node, to : Node, again : BOOLEAN,
             body : [slot : Slot, address : Seq(Slot) \ {None}, nonce : Nat]]
  BY <1>2, <1>3
<1>5. g.kind = "Approved" /\ g.from = n /\ g.to = j.node
  BY <1>2
<1>6. g \in Shaped
  BY <1>4 DEF Shaped
<1>. QED
  BY <1>5, <1>6 DEF New, g

(* What an approval writes: record, registry and queue of the files, with  *)
(* the applicant's link, its row, and without its request.                 *)
LEMMA ApprovedFiles ==
  ASSUME NEW n, NEW f, IsFile(f, n), NEW w, IsPending(w, n), NEW c, NEW j \in pending_for(w, c),
         NEW s \in AskSlot, NEW at \in SlotFor(f.rec, c, s)
  PROVE  \E u, v, z : /\ approve_pending(f, w, j, at) = MkFile(u, v, z, f.outbound)
                      /\ IsRecord(u, n) /\ IsPending(z, n)
                      /\ u.parent = f.rec.parent /\ u.address_epoch = f.rec.address_epoch
                      /\ DOMAIN f.peers \subseteq DOMAIN v /\ c \in DOMAIN v
<1>. DEFINE r == f.rec
            u == IF j.node \in Kids(r) THEN r ELSE attach_child(r, j.node, j.kind, at)
            v == reconcile_peer_row(f.peers, j.node, j.ledger)
            z == remove_pending(w, j.node)
<1>1. f = MkFile(r, f.peers, f.pending, f.outbound) /\ IsRecord(r, n)
  BY DEF IsFile
<1>2. approve_pending(f, w, j, at) = MkFile(u, v, z, f.outbound)
  BY <1>1, ApproveForm
<1>3. j.node = c /\ c # n /\ c \in Node /\ j.kind = "node"
  BY PendingFor
<1>4. at \in Slot /\ (c \notin Kids(r) => at \in Free(r))
  BY <1>1, SlotFacts
<1>5. c \in Peer \ {n}
  BY <1>3 DEF Peer
<1>6. IsRecord(u, n) /\ u.parent = r.parent /\ u.address_epoch = r.address_epoch
  <2>1. CASE c \in Kids(r)
    BY <1>1, <1>3, <2>1
  <2>2. CASE c \notin Kids(r)
    <3>1. u = attach_child(r, c, "node", at)
      BY <1>3, <2>2
    <3>. HIDE DEF u, r
    <3>. QED
      BY <1>1, <1>4, <1>5, <2>2, <3>1, AttachFacts
  <2>. QED
    BY <2>1, <2>2
<1>7. IsPending(z, n)
  BY RemovePendingFacts
<1>8. DOMAIN f.peers \subseteq DOMAIN v /\ c \in DOMAIN v
  BY <1>3, RowFacts
<1>. HIDE DEF u, v, z
<1>. QED
  BY <1>2, <1>6, <1>7, <1>8

LEMMA AdminApproveStep ==
  ASSUME MemberInv, NEW n \in Node, NEW c \in Node, NEW s \in AskSlot, AdminApprove(n, c, s)
  PROVE  MemberInv' /\ JoinStep
<1>. DEFINE f == file[n]
            e == eng[n]
            o == eng[n].outbound
<1>1. eng[n].up /\ cli' = cli /\ hand' = hand /\ joins' = joins
  BY DEF AdminApprove, AdminRequest
<1>2. PICK j \in pending_for(e.pending, c), at \in SlotFor(f.rec, c, s) :
        LET new == approve_pending(f, e.pending, j, at)
            a   == approval(n, f, j, at)
        IN  /\ file' = [file EXCEPT ![n] = ControlStore_save(new, new.pending, o)]
            /\ eng' = [eng EXCEPT ![n] = [e EXCEPT !.rec = new.rec, !.pending = new.pending,
                                                   !.decisions = store_decision(e.decisions, a)]]
            /\ net' = net \cup {a}
  BY DEF AdminApprove
<1>. DEFINE new == approve_pending(f, e.pending, j, at)
            a == approval(n, f, j, at)
            w == store_decision(e.decisions, a)
<1>3. /\ IsFile(f, n) /\ IsPending(e.pending, n) /\ IsRecord(f.rec, n) /\ o \in Outbound
      /\ e.decisions \in Seq(Shaped) /\ Len(e.decisions) <= MAX_STORED_DECISIONS
  BY <1>1, NodeFacts DEF MemberInv, Nodes
<1>4. f.rec.address \in Seq(Slot) /\ f.rec.address_epoch \in Nat
  BY <1>3, RecordParts
<1>5. IsEng(e, n)
  BY DEF MemberInv, Nodes
<1>. HIDE DEF f, e, o
<1>6. PICK u, v, z : /\ new = MkFile(u, v, z, f.outbound)
                     /\ IsRecord(u, n) /\ IsPending(z, n)
                     /\ u.parent = f.rec.parent /\ u.address_epoch = f.rec.address_epoch
                     /\ DOMAIN f.peers \subseteq DOMAIN v /\ c \in DOMAIN v
  BY <1>3, ApprovedFiles
<1>7. j.node = c /\ j.nonce \in Nat
  BY <1>3, PendingFor
<1>8. at \in Slot
  BY <1>3, SlotFacts
<1>9. New(a, n, u, v)
  BY <1>4, <1>6, <1>7, <1>8, ApprovalFrame
<1>. HIDE DEF a, new
<1>10. w \in Seq(Shaped) /\ Len(w) <= MAX_STORED_DECISIONS /\ \A g \in Elements(w) : g \in Elements(e.decisions) \/ g = a
  BY <1>3, <1>9, DecisionFacts DEF New
<1>. HIDE DEF w
<1>11. new.rec = u /\ new.pending = z
  BY <1>6 DEF MkFile
<1>12. ControlStore_save(new, z, o) = MkFile(u, v, z, o)
  BY <1>6, SaveForm
<1>13. /\ file' = [file EXCEPT ![n] = MkFile(u, v, z, o)] /\ net' = net \cup {a}
       /\ eng' = [eng EXCEPT ![n] = [e EXCEPT !.rec = u, !.pending = z, !.decisions = w]]
  BY <1>2, <1>11, <1>12 DEF new, a, w
<1>14. PICK m : m = [e EXCEPT !.rec = u]
  OBVIOUS
<1>15. PICK k : k = [m EXCEPT !.pending = z]
  OBVIOUS
<1>16. PICK E : E = [k EXCEPT !.decisions = w]
  OBVIOUS
<1>17. eng' = [eng EXCEPT ![n] = E]
  BY <1>13, <1>14, <1>15, <1>16
<1>18. E = MkEng(e.up, u, z, o, e.retry, w)
  <2>1. m = MkEng(e.up, u, e.pending, e.outbound, e.retry, e.decisions)
    BY <1>5, <1>14 DEF IsEng, MkEng
  <2>2. k = MkEng(e.up, u, z, e.outbound, e.retry, e.decisions)
    BY <1>15, <2>1 DEF MkEng
  <2>. QED
    BY <1>16, <2>2 DEF MkEng, o, e
<1>19. IsEng(E, n)
  BY <1>3, <1>5, <1>6, <1>10, <1>18, EngRemade
<1>20. E.rec = u /\ E.pending = z /\ E.outbound = o /\ E.retry = e.retry /\ E.decisions = w
  BY <1>18 DEF MkEng
<1>20a. Outgoing(n, o, E)
  BY <1>20 DEF Outgoing, o
<1>21. LinkFrom(n, u)
  BY <1>6 DEF LinkFrom, f
<1>22. DOMAIN file[n].peers \subseteq DOMAIN v /\ file[n].rec.address_epoch <= u.address_epoch
  BY <1>4, <1>6 DEF f
<1>23. \A g \in net' \cup Elements(E.decisions) : g \in net \cup Elements(e.decisions) \/ New(g, n, u, v)
  BY <1>9, <1>10, <1>13, <1>20
<1>. QED
  BY <1>1, <1>3, <1>6, <1>13, <1>17, <1>19, <1>20, <1>20a, <1>21, <1>22, <1>23, RunningStep DEF e

LEMMA CrashApprovingStep ==
  ASSUME MemberInv, NEW n \in Node, NEW c \in Node, NEW s \in AskSlot, NEW k \in 1..3, CrashApproving(n, c, s, k)
  PROVE  MemberInv' /\ JoinStep
<1>. DEFINE f == file[n]
            e == eng[n]
<1>1. /\ eng[n].up /\ cli' = cli /\ hand' = hand /\ joins' = joins /\ eng' = [eng EXCEPT ![n] = Stopped(n)]
      /\ net' = Unanswered(net, n)
  BY DEF CrashApproving, AdminRequest
<1>2. PICK j \in pending_for(e.pending, c), at \in SlotFor(f.rec, c, s) :
        file' = [file EXCEPT ![n] = Written(f, approve_pending(f, e.pending, j, at), k)]
  BY DEF CrashApproving
<1>. DEFINE new == approve_pending(f, e.pending, j, at)
<1>3. /\ IsFile(f, n) /\ IsPending(e.pending, n) /\ IsRecord(f.rec, n) /\ f.outbound \in Outbound
      /\ f = MkFile(f.rec, f.peers, f.pending, f.outbound) /\ IsPending(f.pending, n)
  BY <1>1, NodeFacts DEF MemberInv, Nodes
<1>4. f.rec.address_epoch \in Nat
  BY <1>3, RecordParts
<1>. HIDE DEF f, e
<1>5. PICK u, v, z : /\ new = MkFile(u, v, z, f.outbound)
                     /\ IsRecord(u, n) /\ IsPending(z, n)
                     /\ u.parent = f.rec.parent /\ u.address_epoch = f.rec.address_epoch
                     /\ DOMAIN f.peers \subseteq DOMAIN v /\ c \in DOMAIN v
  BY <1>3, ApprovedFiles
<1>. HIDE DEF new
<1>. DEFINE p == IF k >= 2 THEN v ELSE f.peers
            q == IF k >= 3 THEN z ELSE f.pending
<1>6. Written(f, new, k) = MkFile(u, p, q, f.outbound)
  BY <1>3, <1>5, WrittenForm
<1>7. DOMAIN f.peers \subseteq DOMAIN p
  BY <1>5
<1>8. IsPending(q, n)
  BY <1>3, <1>5
<1>. HIDE DEF p, q
<1>9. file' = [file EXCEPT ![n] = MkFile(u, p, q, f.outbound)]
  BY <1>2, <1>6 DEF new
<1>10. LinkFrom(n, u)
  BY <1>5 DEF LinkFrom, f
<1>11. DOMAIN file[n].peers \subseteq DOMAIN p /\ file[n].rec.address_epoch <= u.address_epoch
  BY <1>4, <1>5, <1>7 DEF f
<1>11a. f.outbound = file[n].outbound
  BY DEF f
<1>12. net' \subseteq net
  BY <1>1 DEF Unanswered
<1>. QED
  BY <1>1, <1>3, <1>5, <1>8, <1>9, <1>10, <1>11, <1>11a, <1>12, CrashStep

(* The record of the applicant, when the approval answers the join it      *)
(* waits for.                                                              *)
LEMMA ApprovalTaken ==
  ASSUME MemberInv, NEW f \in net, f.kind = "Approved", NEW n, n = f.to, eng[n].up, Answers(f, eng[n].outbound),
         NEW r, r = AttachedRecord(file[n].rec, f), validate(r)
  PROVE  IsRecord(r, n) /\ r.address_epoch > file[n].rec.address_epoch /\ LinkFrom(n, r)
<1>1. f \in Shaped /\ n \in Node /\ f.from \in Node
  BY UnderWay, ShapedFacts
<1>2. f.body \in [slot : Slot, address : Seq(Slot) \ {None}, nonce : Nat]
  BY <1>1, ShapedFacts
<1>3. f.body.slot \in Slot /\ f.body.address \in Seq(Slot) \ {None}
  BY <1>2
<1>4. IsRecord(file[n].rec, n)
  BY <1>1, AtNode
<1>5. JoinsAlone => eng[n].outbound \in {NoJoin, file[n].outbound}
  <2>1. JoinsAlone => Joins(file[n], eng[n], cli[n])
    BY <1>1 DEF MemberInv
  <2>. QED
    BY <2>1 DEF Joins
<1>6. IsRecord(r, n) /\ r.parent.id = f.from /\ r.parent.generation = 0 /\ r.address_epoch > file[n].rec.address_epoch
  BY <1>1, <1>3, <1>4, AttachedFacts
<1>7. JoinsAlone => Approval(n, f.from)
  BY <1>5 DEF Answers, Approval
<1>. QED
  BY <1>6, <1>7 DEF LinkFrom

LEMMA ApprovalHeard ==
  ASSUME MemberInv, NEW f \in net, handle_join_approved(f)
  PROVE  MemberInv' /\ JoinStep
<1>. DEFINE n == f.to
            r == AttachedRecord(file[n].rec, f)
            p == reconcile_peer_row(file[n].peers, f.from, 0)
            q == eng[n].pending
<1>1. n \in Node /\ eng[n].up /\ cli' = cli /\ hand' = hand /\ joins' = joins /\ f.kind = "Approved"
  BY DEF handle_join_approved, Receives, counters
<1>2. CASE Answers(f, eng[n].outbound) /\ validate(r)
  <2>1. /\ file' = [file EXCEPT ![n] = [ControlStore_save(file[n], q, NoJoin) EXCEPT !.rec = r, !.peers = p]]
        /\ eng' = [eng EXCEPT ![n] = [eng[n] EXCEPT !.rec = r, !.outbound = NoJoin]]
        /\ net' = (net \ {f}) \cup propagate_rebase(r, TRUE)
    BY <1>2 DEF handle_join_approved
  <2>. HIDE DEF n
  <2>2. IsRecord(r, n) /\ r.address_epoch > file[n].rec.address_epoch /\ LinkFrom(n, r)
    BY <1>1, <1>2, ApprovalTaken DEF n
  <2>3. DOMAIN file[n].peers \subseteq DOMAIN p
    BY RowFacts
  <2>4. IsPending(q, n) /\ file[n] = MkFile(file[n].rec, file[n].peers, file[n].pending, file[n].outbound)
    BY <1>1, NodeFacts
  <2>. HIDE DEF r, p, q
  <2>5. PICK g : g = ControlStore_save(file[n], q, NoJoin)
    OBVIOUS
  <2>6. g = MkFile(file[n].rec, file[n].peers, q, NoJoin)
    BY <2>4, <2>5, SaveForm
  <2>7. [g EXCEPT !.rec = r, !.peers = p] = MkFile(r, p, q, NoJoin)
    <3>1. PICK h : h = [g EXCEPT !.rec = r]
      OBVIOUS
    <3>2. h = MkFile(r, file[n].peers, q, NoJoin)
      BY <2>6, <3>1 DEF MkFile
    <3>3. [g EXCEPT !.rec = r, !.peers = p] = [h EXCEPT !.peers = p]
      BY <3>1
    <3>. QED
      BY <3>2, <3>3 DEF MkFile
  <2>8. file' = [file EXCEPT ![n] = MkFile(r, p, q, NoJoin)]
    BY <2>1, <2>5, <2>7
  <2>9. PICK m : m = [eng[n] EXCEPT !.rec = r]
    OBVIOUS
  <2>10. PICK E : E = [m EXCEPT !.outbound = NoJoin]
    OBVIOUS
  <2>11. eng' = [eng EXCEPT ![n] = E]
    BY <2>1, <2>9, <2>10
  <2>12. IsEng(eng[n], n)
    BY <1>1 DEF MemberInv, Nodes
  <2>13. IsEng(E, n)
    BY <2>2, <2>9, <2>10, <2>12, NoJoinOut, EngAnswered
  <2>14. E.rec = r /\ E.pending = q /\ E.outbound = NoJoin /\ E.retry = eng[n].retry
    BY <2>9, <2>10, <2>12 DEF IsEng, MkEng, q
  <2>14a. Outgoing(n, NoJoin, E)
    BY <2>14 DEF Outgoing
  <2>15. E.decisions = eng[n].decisions
    BY <2>9, <2>10, <2>12 DEF IsEng, MkEng
  <2>16. \A h \in propagate_rebase(r, TRUE) : New(h, n, r, p)
    BY <1>1, <2>2, PropagateFacts
  <2>17. \A h \in net' \cup Elements(E.decisions) : h \in net \cup Elements(eng[n].decisions) \/ New(h, n, r, p)
    BY <2>1, <2>15, <2>16
  <2>18. file[n].rec.address_epoch \in Nat /\ r.address_epoch \in Nat
    BY <1>1, <2>2, AtNode, RecordParts
  <2>19. file[n].rec.address_epoch <= r.address_epoch
    BY <2>2, <2>18
  <2>. QED
    BY <1>1, <2>2, <2>3, <2>4, <2>8, <2>11, <2>13, <2>14, <2>14a, <2>17, <2>19, NoJoinOut, RunningStep
<1>3. CASE ~(Answers(f, eng[n].outbound) /\ validate(r))
  <2>1. Refresh(n) /\ net' = net \ {f} /\ file' = file
    BY <1>3 DEF handle_join_approved
  <2>. HIDE DEF n
  <2>. QED
    BY <1>1, <2>1, RefreshStep
<1>. QED
  BY <1>2, <1>3

LEMMA CrashJoiningStep ==
  ASSUME MemberInv, NEW f \in net, NEW k \in 1..2, CrashJoining(f, k)
  PROVE  MemberInv' /\ JoinStep
<1>. DEFINE n == f.to
            r == AttachedRecord(file[n].rec, f)
            p == IF k = 2 THEN reconcile_peer_row(file[n].peers, f.from, 0) ELSE file[n].peers
            q == file[n].pending
            o == file[n].outbound
<1>1. n \in Node /\ eng[n].up /\ cli' = cli /\ hand' = hand /\ joins' = joins /\ f.kind = "Approved"
  BY DEF CrashJoining, Receives
<1>2. /\ Answers(f, eng[n].outbound) /\ validate(r)
      /\ file' = [file EXCEPT ![n] = [file[n] EXCEPT !.rec = r, !.peers = p]]
      /\ eng' = [eng EXCEPT ![n] = Stopped(n)]
      /\ net' = Unanswered(net \ {f}, n)
  BY DEF CrashJoining
<1>. HIDE DEF n
<1>3. IsRecord(r, n) /\ r.address_epoch > file[n].rec.address_epoch /\ LinkFrom(n, r)
  BY <1>1, <1>2, ApprovalTaken DEF n
<1>4. DOMAIN file[n].peers \subseteq DOMAIN p
  BY RowFacts
<1>5. IsPending(q, n) /\ o \in Outbound /\ file[n] = MkFile(file[n].rec, file[n].peers, q, o)
  BY <1>1, NodeFacts
<1>. HIDE DEF r, p, q, o
<1>6. [file[n] EXCEPT !.rec = r, !.peers = p] = MkFile(r, p, q, o)
  <2>1. PICK h : h = [file[n] EXCEPT !.rec = r]
    OBVIOUS
  <2>2. h = MkFile(r, file[n].peers, q, o)
    BY <1>5, <2>1 DEF MkFile
  <2>3. [file[n] EXCEPT !.rec = r, !.peers = p] = [h EXCEPT !.peers = p]
    BY <2>1
  <2>. QED
    BY <2>2, <2>3 DEF MkFile
<1>7. file' = [file EXCEPT ![n] = MkFile(r, p, q, o)]
  BY <1>2, <1>6
<1>8. file[n].rec.address_epoch \in Nat /\ r.address_epoch \in Nat
  BY <1>1, <1>3, AtNode, RecordParts
<1>9. file[n].rec.address_epoch <= r.address_epoch
  BY <1>3, <1>8
<1>9a. o = file[n].outbound
  BY DEF o
<1>10. net' \subseteq net
  BY <1>2 DEF Unanswered
<1>. QED
  BY <1>1, <1>2, <1>3, <1>4, <1>5, <1>7, <1>9, <1>9a, <1>10, CrashStep

-----------------------------------------------------------------------------
(***************************************************************************)
(* User children.                                                          *)
(***************************************************************************)
LEMMA CreateStep ==
  ASSUME MemberInv, NEW n \in Node, NEW u \in User, NEW s \in AskSlot, handle_create_child(n, u, s)
  PROVE  MemberInv' /\ JoinStep
<1>. DEFINE e == file[n].rec
            p == reconcile_peer_row(file[n].peers, u, 0)
            q == file[n].pending
            o == file[n].outbound
            new == attach_child(e, u, "user", s)
<1>1. eng[n].up /\ cli' = cli /\ hand' = hand /\ joins' = joins /\ net' = net
  BY DEF handle_create_child, AdminRequest
<1>2. DOMAIN file[n].peers \subseteq DOMAIN p
  BY RowFacts
<1>3. /\ IsPending(q, n) /\ o \in Outbound /\ file[n] = MkFile(e, file[n].peers, q, o) /\ IsRecord(e, n)
  BY <1>1, NodeFacts
<1>4. IsEng(eng[n], n) /\ e.address_epoch \in Nat
  BY AtNode DEF MemberInv, Nodes
<1>5. CASE u \in Kids(e)
  <2>1. file' = [file EXCEPT ![n].peers = p] /\ Refresh(n)
    BY <1>5 DEF handle_create_child
  <2>1a. PICK E : E = [eng[n] EXCEPT !.rec = e]
    OBVIOUS
  <2>2. eng' = [eng EXCEPT ![n] = E]
    BY <2>1, <2>1a DEF Refresh
  <2>2a. /\ IsEng(E, n) /\ E.rec = e /\ E.outbound = eng[n].outbound
         /\ E.retry = eng[n].retry /\ E.decisions = eng[n].decisions
    BY <1>3, <1>4, <2>1a, EngSaved
  <2>2b. Outgoing(n, o, E)
    BY <2>2a DEF Outgoing
  <2>2c. \A f \in net' \cup Elements(E.decisions) : f \in net \cup Elements(eng[n].decisions)
    BY <1>1, <2>2a
  <2>. HIDE DEF p, q, o
  <2>3. [file[n] EXCEPT !.peers = p] = MkFile(e, p, q, o)
    BY <1>3 DEF MkFile
  <2>4. file' = [file EXCEPT ![n] = MkFile(e, p, q, o)]
    BY <2>1, <2>3
  <2>5. e.address_epoch <= e.address_epoch /\ LinkFrom(n, e)
    BY <1>4 DEF LinkFrom
  <2>. HIDE DEF e
  <2>6. file[n].rec.address_epoch <= e.address_epoch
    BY <2>5 DEF e
  <2>. QED
    BY <1>1, <1>2, <1>3, <1>4, <2>2, <2>2a, <2>2b, <2>2c, <2>4, <2>5, <2>6, RunningStep
<1>6. CASE u \notin Kids(e)
  <2>1. /\ attach_child_ok(e, u, s)
        /\ file' = [file EXCEPT ![n] = [file[n] EXCEPT !.rec = new, !.peers = p]]
        /\ eng' = [eng EXCEPT ![n].rec = new]
    BY <1>6 DEF handle_create_child
  <2>2. s \in Free(e) \/ (s = AnySlot /\ Free(e) # {})
    BY <2>1 DEF attach_child_ok
  <2>3. u \in Peer \ {n}
    <3>1. e.id = n
      BY <1>3, RecordParts, Fields
    <3>. QED
      BY <2>1, <3>1 DEF Peer, attach_child_ok
  <2>4. IsRecord(new, n) /\ new.parent = e.parent /\ new.address_epoch = e.address_epoch
    BY <1>3, <1>6, <2>2, <2>3, AttachFacts
  <2>. HIDE DEF p, q, o, new
  <2>5. [file[n] EXCEPT !.rec = new, !.peers = p] = MkFile(new, p, q, o)
    <3>1. PICK h : h = [file[n] EXCEPT !.rec = new]
      OBVIOUS
    <3>2. h = MkFile(new, file[n].peers, q, o)
      BY <1>3, <3>1 DEF MkFile
    <3>3. [file[n] EXCEPT !.rec = new, !.peers = p] = [h EXCEPT !.peers = p]
      BY <3>1
    <3>. QED
      BY <3>2, <3>3 DEF MkFile
  <2>6. file' = [file EXCEPT ![n] = MkFile(new, p, q, o)]
    BY <2>1, <2>5
  <2>7. PICK E : E = [eng[n] EXCEPT !.rec = new]
    OBVIOUS
  <2>8. eng' = [eng EXCEPT ![n] = E]
    BY <2>1, <2>7
  <2>11. /\ IsEng(E, n) /\ E.rec = new /\ E.outbound = eng[n].outbound
         /\ E.retry = eng[n].retry /\ E.decisions = eng[n].decisions
    BY <1>4, <2>4, <2>7, EngSaved
  <2>12. Outgoing(n, o, E)
    BY <2>11 DEF Outgoing, o
  <2>13. LinkFrom(n, new) /\ file[n].rec.address_epoch <= new.address_epoch
    BY <1>4, <2>4 DEF LinkFrom
  <2>14. \A f \in net' \cup Elements(E.decisions) : f \in net \cup Elements(eng[n].decisions)
    BY <1>1, <2>11
  <2>. QED
    BY <1>1, <1>2, <1>3, <2>4, <2>6, <2>8, <2>11, <2>12, <2>13, <2>14, RunningStep
<1>. QED
  BY <1>5, <1>6

-----------------------------------------------------------------------------
(***************************************************************************)
(* The commands. One opens: it has read the files, and nothing has changed *)
(* but what is under way at the node.                                      *)
(***************************************************************************)
Opened(n, x) ==
  /\ x.cmd \in {"join", "approve", "reject", "exit", "topo"}
  /\ IsFile(x.new, n) /\ \A f \in x.send : Sends(f, n, x)
  /\ DOMAIN file[n].peers \subseteq DOMAIN x.new.peers
  /\ RowedThen(n, file[n].rec) => RowedThen(n, x.new.rec)
  /\ x.cmd = "reject" => x.new.outbound = file[n].outbound

(* The record it will save comes after the one on file.                    *)
Follows(n, x) ==
  x.cmd \in {"approve", "exit", "topo"} =>
    /\ Marked(file[n].rec) => Marked(x.new.rec)
    /\ file[n].rec.address_epoch <= x.new.rec.address_epoch
    /\ x.cmd = "approve" => x.new.rec.parent = file[n].rec.parent
    /\ x.cmd = "exit" => x.new.rec.parent.id = "none" /\ file[n].rec.address_epoch < x.new.rec.address_epoch

LEMMA OpenStep ==
  ASSUME MemberInv, NEW n \in Node, NEW x, cli' = [cli EXCEPT ![n] = x], eng[n].up => x.cmd \in LiveCommand,
         file' = file, eng' = eng, joins' \in Nat, hand \subseteq hand', Opened(n, x), Follows(n, x),
         \A f \in net' : f \in net \/ New(f, n, file[n].rec, file[n].peers)
  PROVE  MemberInv' /\ JoinStep
<1>0. PICK F, E : F = file[n] /\ E = eng[n]
  OBVIOUS
<1>1. Changes(n, F, E, x) /\ IsFile(F, n) /\ IsEng(E, n)
  BY <1>0, NodeFacts DEF Changes
<1>1a. IsCli(x, n) /\ Beside(E, x)
  BY <1>0 DEF IsCli, Beside, Opened
<1>2. ASSUME RowsAlone PROVE RowsKept(n, F, E, x)
  <2>1. Rows(n, F, E, cli[n])
    BY <1>0, <1>2 DEF MemberInv
  <2>2. \A r : Rowed(n, r) => RowedThen(n, r)
    BY DEF Rowed, RowedThen
  <2>3. RowedThen(n, F.rec) /\ RowedThen(n, E.rec)
    BY <2>1, <2>2 DEF Rows
  <2>4. RowedThen(n, x.new.rec) /\ DOMAIN F.peers \subseteq DOMAIN x.new.peers
    BY <1>0, <2>3 DEF Opened
  <2>. QED
    BY <1>0, <2>3, <2>4 DEF RowsKept
<1>3. F.rec.address_epoch \in Nat
  BY <1>1 DEF IsFile, IsRecord
<1>4. ASSUME RecordAlone PROVE RecordKept(n, F, E, x)
  <2>1. Records(F, E, cli[n])
    BY <1>0, <1>4 DEF MemberInv
  <2>2. Marked(F.rec) /\ (E.up => E.rec = F.rec)
    BY <2>1 DEF Records
  <2>3. Records(F, E, x)
    BY <1>0, <2>2 DEF Records, Follows
  <2>. QED
    BY <1>0, <1>3, <2>3 DEF RecordKept
<1>5. ASSUME JoinsAlone PROVE JoinsKept(n, F, E, x)
  <2>1. Joins(F, E, cli[n])
    BY <1>0, <1>5 DEF MemberInv
  <2>2. Joins(F, E, x)
    BY <1>0, <2>1 DEF Joins, Opened
  <2>. QED
    BY <1>0, <2>2 DEF JoinsKept
<1>6. net \subseteq Shaped
  BY DEF MemberInv
<1>7. net' \subseteq Shaped
  BY <1>6 DEF New
<1>8. \A f \in net' \cup Elements(E.retry) \cup Elements(E.decisions) : f \in Frames \/ New(f, n, F.rec, F.peers)
  BY <1>0, QueuedFrames DEF Frames
<1>. QED
  BY <1>1, <1>1a, <1>2, <1>4, <1>5, <1>7, <1>8, StepLemma

(* What a command sends that says nothing of its files.                    *)
LEMMA SendsPlain ==
  ASSUME NEW f, NEW n, NEW r, NEW p, New(f, n, r, p), f.kind \notin {"Approved", "Rebase"}, NEW x
  PROVE  Sends(f, n, x)
BY DEF New, Sends

(* The command that opens.                                                 *)
LEMMA CommandFacts ==
  ASSUME NEW n, NEW cmd, NEW new, NEW send, Command(n, cmd, new, send)
  PROVE  \E x : /\ x = [cmd |-> cmd, new |-> new, send |-> send] /\ cli' = [cli EXCEPT ![n] = x]
                /\ (eng[n].up => x.cmd \in LiveCommand) /\ x.cmd = cmd /\ x.new = new /\ x.send = send
<1>1. PICK x : x = [cmd |-> cmd, new |-> new, send |-> send]
  OBVIOUS
<1>2. x.cmd = cmd /\ x.new = new /\ x.send = send
  BY <1>1
<1>3. cli' = [cli EXCEPT ![n] = x] /\ (eng[n].up => cmd \in LiveCommand)
  BY <1>1 DEF Command
<1>. QED
  BY <1>1, <1>2, <1>3

LEMMA JoinFrame ==
  ASSUME NEW n \in Node, NEW c \in Node, c # n, NEW s \in Slot \cup {AnySlot}, NEW k \in Nat, NEW r, NEW p
  PROVE  New(Frame("Join", n, c, FALSE, JoinRequest(n, s, k)), n, r, p)
<1>. DEFINE b == JoinRequest(n, s, k)
            f == Frame("Join", n, c, FALSE, b)
<1>1. b \in JoinBody /\ b.node = n
  BY DEF JoinRequest, JoinBody
<1>. HIDE DEF b
<1>2. f \in [kind : {"Join"}, from : Node, to : Node, again : BOOLEAN, body : JoinBody]
  BY <1>1 DEF Frame
<1>3. f.kind = "Join" /\ f.from = n /\ f.to = c /\ f.body = b
  BY DEF Frame
<1>. HIDE DEF f
<1>4. f \in Shaped
  BY <1>2 DEF Shaped
<1>. QED
  BY <1>1, <1>3, <1>4 DEF New, f, b

LEMMA CliJoinStep ==
  ASSUME MemberInv, NEW n \in Node, NEW c \in Node, n # c, NEW s \in AskSlot, CliJoin(n, c, s)
  PROVE  MemberInv' /\ JoinStep
<1>. DEFINE o == [nonce |-> joins + 1, parent |-> c, slot |-> s]
            new == [file[n] EXCEPT !.outbound = o]
            g == Frame("Join", n, c, FALSE, JoinRequest(n, s, joins + 1))
<1>1. /\ joins' = joins + 1 /\ file' = file /\ eng' = eng /\ net' = net /\ hand' = hand
      /\ Command(n, "join", new, {g})
  BY DEF CliJoin
<1>2. joins + 1 \in Nat /\ joins' \in Nat /\ s \in Slot \cup {AnySlot}
  BY <1>1, AskAssumption DEF MemberInv
<1>3. o \in Outbound
  BY <1>2 DEF Outbound
<1>4. New(g, n, file[n].rec, file[n].peers)
  BY <1>2, JoinFrame
<1>5. g.kind = "Join"
  BY DEF Frame
<1>. HIDE DEF o, g
<1>6. PICK f : f = file[n]
  OBVIOUS
<1>7. IsFile(f, n) /\ f = MkFile(f.rec, f.peers, f.pending, f.outbound) /\ IsRecord(f.rec, n) /\ IsPending(f.pending, n)
  BY <1>6, NodeFacts DEF IsFile
<1>8. new = MkFile(f.rec, f.peers, f.pending, o)
  BY <1>6, <1>7 DEF MkFile
<1>. HIDE DEF new
<1>9. IsFile(new, n) /\ new.rec = f.rec /\ new.peers = f.peers
  BY <1>3, <1>7, <1>8, FileMade
<1>10. PICK x : /\ cli' = [cli EXCEPT ![n] = x] /\ (eng[n].up => x.cmd \in LiveCommand)
                /\ x.cmd = "join" /\ x.new = new /\ x.send = {g}
  BY <1>1, CommandFacts
<1>11. Sends(g, n, x)
  BY <1>4, <1>5, SendsPlain
<1>12. Opened(n, x) /\ Follows(n, x)
  BY <1>6, <1>9, <1>10, <1>11 DEF Opened, Follows
<1>. QED
  BY <1>1, <1>2, <1>10, <1>12, OpenStep

LEMMA CliRejectStep ==
  ASSUME MemberInv, NEW n \in Node, NEW c \in Node, CliReject(n, c)
  PROVE  MemberInv' /\ JoinStep
<1>. DEFINE q == pending_for(file[n].pending, c)
            k == IF q = {} THEN 0 ELSE (CHOOSE y \in q : TRUE).nonce
            w == remove_pending(file[n].pending, c)
            new == [file[n] EXCEPT !.pending = w]
            g == JoinRejection(n, c, k)
<1>1. /\ joins' = joins /\ file' = file /\ eng' = eng /\ net' = net /\ hand' = hand
      /\ Command(n, "reject", new, {g})
  BY DEF CliReject
<1>2. /\ IsPending(file[n].pending, n) /\ IsPending(w, n)
  BY NodeFacts, RemovePendingFacts
<1>3. k \in Nat
  <2>1. CASE q = {}
    BY <2>1
  <2>2. CASE q # {}
    <3>1. PICK y : y = CHOOSE z \in q : TRUE
      OBVIOUS
    <3>2. y \in q
      BY <2>2, <3>1
    <3>3. y.nonce \in Nat
      BY <1>2, <3>2, PendingFor
    <3>. QED
      BY <2>2, <3>1, <3>3
  <2>. QED
    BY <2>1, <2>2
<1>. HIDE DEF k
<1>4. New(g, n, file[n].rec, file[n].peers) /\ g.kind = "Rejected"
  BY <1>3, RejectionFrame DEF JoinRejection, Frame
<1>. HIDE DEF w, g
<1>6. PICK f : f = file[n]
  OBVIOUS
<1>7. f = MkFile(f.rec, f.peers, f.pending, f.outbound) /\ IsRecord(f.rec, n) /\ f.outbound \in Outbound
  BY <1>6, NodeFacts
<1>8. new = MkFile(f.rec, f.peers, w, f.outbound)
  BY <1>6, <1>7 DEF MkFile
<1>. HIDE DEF new
<1>9. IsFile(new, n) /\ new.rec = f.rec /\ new.peers = f.peers /\ new.outbound = f.outbound
  BY <1>2, <1>7, <1>8, FileMade
<1>10. PICK x : /\ cli' = [cli EXCEPT ![n] = x] /\ (eng[n].up => x.cmd \in LiveCommand)
                /\ x.cmd = "reject" /\ x.new = new /\ x.send = {g}
  BY <1>1, CommandFacts
<1>11. Sends(g, n, x)
  BY <1>4, SendsPlain
<1>12. Opened(n, x) /\ Follows(n, x)
  BY <1>6, <1>9, <1>10, <1>11 DEF Opened, Follows
<1>13. joins' \in Nat
  BY <1>1 DEF MemberInv
<1>. QED
  BY <1>1, <1>10, <1>12, <1>13, OpenStep

LEMMA CliApproveStep ==
  ASSUME MemberInv, NEW n \in Node, NEW c \in Node, NEW s \in AskSlot, CliApprove(n, c, s)
  PROVE  MemberInv' /\ JoinStep
<1>1. PICK f : f = file[n]
  OBVIOUS
<1>2. joins' = joins /\ file' = file /\ eng' = eng /\ net' = net /\ hand' = hand
  BY DEF CliApprove
<1>3. PICK j \in pending_for(f.pending, c), at \in SlotFor(f.rec, c, s) :
        Command(n, "approve", approve_pending(f, f.pending, j, at), {approval(n, f, j, at)})
  BY <1>1 DEF CliApprove
<1>. DEFINE new == approve_pending(f, f.pending, j, at)
            a == approval(n, f, j, at)
<1>4. IsFile(f, n) /\ IsPending(f.pending, n) /\ IsRecord(f.rec, n) /\ f.outbound \in Outbound
  BY <1>1, NodeFacts
<1>5. f.rec.address \in Seq(Slot) /\ f.rec.address_epoch \in Nat
  BY <1>4, RecordParts
<1>6. PICK u, v, z : /\ new = MkFile(u, v, z, f.outbound)
                     /\ IsRecord(u, n) /\ IsPending(z, n)
                     /\ u.parent = f.rec.parent /\ u.address_epoch = f.rec.address_epoch
                     /\ DOMAIN f.peers \subseteq DOMAIN v /\ c \in DOMAIN v
  BY <1>4, ApprovedFiles
<1>7. j.node = c /\ j.nonce \in Nat
  BY <1>4, PendingFor
<1>8. at \in Slot
  BY <1>4, SlotFacts
<1>9. New(a, n, u, v) /\ a.kind = "Approved" /\ a.to = c
  BY <1>5, <1>6, <1>7, <1>8, ApprovalFrame DEF approval, Frame
<1>10. PICK x : /\ cli' = [cli EXCEPT ![n] = x] /\ (eng[n].up => x.cmd \in LiveCommand)
                /\ x.cmd = "approve" /\ x.new = new /\ x.send = {a}
  BY <1>3, CommandFacts
<1>. HIDE DEF new, a
<1>11. IsFile(new, n) /\ new.rec = u /\ new.peers = v /\ new.outbound = f.outbound
  BY <1>4, <1>6, FileMade
<1>12. Sends(a, n, x)
  BY <1>6, <1>9, <1>10, <1>11 DEF New, Sends
<1>13. RowedThen(n, f.rec) => RowedThen(n, u)
  BY <1>6 DEF RowedThen
<1>14. Opened(n, x)
  BY <1>1, <1>6, <1>10, <1>11, <1>12, <1>13 DEF Opened
<1>15. (Marked(f.rec) => Marked(u)) /\ f.rec.address_epoch <= u.address_epoch
  BY <1>5, <1>6 DEF Marked
<1>16. Follows(n, x)
  BY <1>1, <1>6, <1>10, <1>11, <1>15 DEF Follows
<1>17. joins' \in Nat
  BY <1>2 DEF MemberInv
<1>. QED
  BY <1>2, <1>10, <1>14, <1>16, <1>17, OpenStep

LEMMA CliExitStep ==
  ASSUME MemberInv, NEW n \in Node, CliExit(n)
  PROVE  MemberInv' /\ JoinStep
<1>1. PICK f : f = file[n]
  OBVIOUS
<1>2. PICK r : r = rebase_to_root(f.rec)
  OBVIOUS
<1>. DEFINE new == [f EXCEPT !.rec = r]
            g == Frame("Exit", n, f.rec.parent.id, FALSE, << >>)
            S == propagate_rebase(r, FALSE)
<1>3. /\ joins' = joins /\ file' = file /\ eng' = eng /\ net' = net \cup {g} /\ hand' = hand /\ HasParent(f.rec)
      /\ Command(n, "exit", new, S)
  BY <1>1, <1>2 DEF CliExit
<1>4. IsFile(f, n) /\ IsRecord(f.rec, n)
  BY <1>1, NodeFacts
<1>5. PICK d \in Nat : /\ r = MkRecord(n, <<0>>, NoLink, f.rec.children, d)
                       /\ IsRecord(r, n) /\ d > f.rec.address_epoch
  BY <1>2, <1>3, <1>4, RootFacts
<1>6. r.parent.id = "none" /\ r.address_epoch > f.rec.address_epoch
  BY <1>5, Fields, NoLinkIs
<1>7. f.rec.address_epoch \in Nat /\ r.address_epoch \in Nat /\ f.rec.parent.id \in Node
  BY <1>3, <1>4, <1>5, RecordParts, ParentNamed
<1>8. IsFile(new, n) /\ new.rec = r /\ new.peers = f.peers
  BY <1>4, <1>5, Saved
<1>9. \A h \in S : New(h, n, r, f.peers) /\ h.kind = "Rebase"
  BY <1>1, <1>5, <1>6, PropagateFacts
<1>10. New(g, n, f.rec, f.peers)
  BY <1>7, PlainFrame
<1>. HIDE DEF new, g, S
<1>11. PICK x : /\ cli' = [cli EXCEPT ![n] = x] /\ (eng[n].up => x.cmd \in LiveCommand)
                /\ x.cmd = "exit" /\ x.new = new /\ x.send = S
  BY <1>3, CommandFacts
<1>12. \A h \in S : Sends(h, n, x)
  BY <1>8, <1>9, <1>11 DEF New, Sends
<1>13. RowedThen(n, r) /\ Marked(r)
  BY <1>6, NoParentRowed
<1>14. Opened(n, x)
  BY <1>1, <1>8, <1>11, <1>12, <1>13 DEF Opened
<1>15. Follows(n, x)
  BY <1>1, <1>6, <1>7, <1>8, <1>11, <1>13 DEF Follows
<1>16. joins' \in Nat
  BY <1>3 DEF MemberInv
<1>. QED
  BY <1>1, <1>3, <1>10, <1>11, <1>14, <1>15, <1>16, OpenStep

(* A parent set by hand: validate decides, and the mark starts anew.       *)
LEMMA SetParentFacts ==
  ASSUME NEW n, NEW r, IsRecord(r, n), NEW c \in Node, NEW s \in Slot, validate(set_parent(r, c, s))
  PROVE  LET u == set_parent(r, c, s)
         IN  /\ IsRecord(u, n) /\ u.parent.id = c /\ u.parent.generation = 0
             /\ u.address_epoch = r.address_epoch
<1>. DEFINE a == r.address
            l == r.parent
            k == r.children
            e == r.address_epoch
            m == [id |-> c, slot |-> s, generation |-> 0]
<1>1. /\ r = MkRecord(n, a, l, k, e) /\ a \in Seq(Slot) /\ e \in Nat /\ IsKids(k)
  BY RecordParts
<1>2. m \in [id : Node \cup {"none"}, slot : Slot \cup {-1}, generation : Nat] /\ m.id = c
  OBVIOUS
<1>3. IsLink(m) /\ m.id = c /\ m.generation = 0
  BY <1>2, NamesAssumption DEF IsLink
<1>. HIDE DEF a, l, k, e
<1>4. set_parent(r, c, s) = MkRecord(n, a, m, k, e)
  BY <1>1 DEF set_parent, MkRecord
<1>. HIDE DEF m
<1>5. IsRecord(MkRecord(n, a, m, k, e), n)
  BY <1>1, <1>3, <1>4, Fields DEF IsRecord
<1>. QED
  BY <1>3, <1>4, <1>5, Fields DEF e

(* What topo makes of a record.                                            *)
Edited(n, r, e) ==
  /\ IsRecord(e, n) /\ e.address_epoch >= r.address_epoch
  /\ e.parent = r.parent \/ e.parent = NoLink \/ (e.parent.id \in Node /\ e.parent.generation = 0)

LEMMA EditFacts ==
  ASSUME NEW n \in Node, NEW r, IsRecord(r, n), NEW e \in TopoEdits(n, r)
  PROVE  Edited(n, r, e)
<1>0. validate(e) /\ r.address_epoch \in Nat /\ r.id = n
  BY RecordParts, Fields DEF TopoEdits
<1>0a. \A s \in AskSlot : s \in Slot \cup {AnySlot}
  BY AskAssumption
<1>1. CASE e = unset_parent(r)
  <2>1. IsRecord(e, n) /\ e.parent = NoLink /\ e.address_epoch >= r.address_epoch
    BY <1>1, UnsetFacts
  <2>. QED
    BY <2>1 DEF Edited
<1>2. CASE \E p \in Node, s \in AskSlot \ {AnySlot} : e = set_parent(r, p, s)
  <2>1. PICK p \in Node, s \in AskSlot \ {AnySlot} : e = set_parent(r, p, s)
    BY <1>2
  <2>2. s \in Slot
    BY <1>0a
  <2>3. IsRecord(e, n) /\ e.parent.id = p /\ e.parent.generation = 0 /\ e.address_epoch = r.address_epoch
    BY <1>0, <2>1, <2>2, SetParentFacts
  <2>. QED
    BY <1>0, <2>3 DEF Edited
<1>3. CASE \E a \in AskAddress : e = set_address_value(r, a)
  <2>1. PICK a \in AskAddress : e = set_address_value(r, a)
    BY <1>3
  <2>2. a \in Seq(Slot)
    <3>1. a \in OctAddr \/ a = None
      BY AskAssumption
    <3>2. None \in Seq(Slot)
      BY EmptySeq DEF None
    <3>. QED
      BY <3>1, <3>2 DEF OctAddr
  <2>3. IsRecord(e, n) /\ e.parent = r.parent /\ e.address_epoch >= r.address_epoch
    BY <1>0, <2>1, <2>2, AssertFacts
  <2>. QED
    BY <2>3 DEF Edited
<1>4. CASE \E c \in Kids(r) : e = detach_child(r, c)
  <2>1. PICK c \in Kids(r) : e = detach_child(r, c)
    BY <1>4
  <2>2. IsRecord(e, n) /\ e.parent = r.parent /\ e.address_epoch = r.address_epoch
    BY <2>1, DetachFacts
  <2>. QED
    BY <1>0, <2>2 DEF Edited
<1>5. CASE \E c \in Peer, kind \in {"node", "user"}, s \in AskSlot :
             e = attach_child(r, c, kind, s) /\ attach_child_ok(r, c, s)
  <2>1. PICK c \in Peer, kind \in {"node", "user"}, s \in AskSlot :
          e = attach_child(r, c, kind, s) /\ attach_child_ok(r, c, s)
    BY <1>5
  <2>2. c \in Peer \ {n} /\ c \notin Kids(r) /\ (s \in Free(r) \/ (s = AnySlot /\ Free(r) # {}))
    BY <1>0, <2>1 DEF attach_child_ok
  <2>3. IsRecord(e, n) /\ e.parent = r.parent /\ e.address_epoch = r.address_epoch
    BY <2>1, <2>2, AttachFacts
  <2>. QED
    BY <1>0, <2>3 DEF Edited
<1>6. \/ e = unset_parent(r)
      \/ \E p \in Node, s \in AskSlot \ {AnySlot} : e = set_parent(r, p, s)
      \/ \E a \in AskAddress : e = set_address_value(r, a)
      \/ \E c \in Kids(r) : e = detach_child(r, c)
      \/ \E y \in Node \X AskSlot : e = attach_child(r, y[1], "node", y[2]) /\ attach_child_ok(r, y[1], y[2])
      \/ \E y \in User \X AskSlot : e = attach_child(r, y[1], "user", y[2]) /\ attach_child_ok(r, y[1], y[2])
  <2>. DEFINE A == { set_parent(r, x[1], x[2]) :
                       x \in { y \in Node \X (AskSlot \ {AnySlot}) : <<n, y[1]>> \in JoinTarget } }
              B == { set_address_value(r, a) : a \in AskAddress }
              C == { detach_child(r, c) : c \in Kids(r) }
              D == { attach_child(r, x[1], "node", x[2]) :
                       x \in { y \in Node \X AskSlot : <<y[1], n>> \in JoinTarget /\ attach_child_ok(r, y[1], y[2]) } }
              G == { attach_child(r, x[1], "user", x[2]) :
                       x \in { y \in User \X AskSlot : attach_child_ok(r, y[1], y[2]) } }
  <2>1. e \in {unset_parent(r)} \cup A \cup B \cup C \cup D \cup G
    BY Zenon DEF TopoEdits
  <2>2. e \in A => \E p \in Node, s \in AskSlot \ {AnySlot} : e = set_parent(r, p, s)
    <3>1. e \in A => \E x \in Node \X (AskSlot \ {AnySlot}) : e = set_parent(r, x[1], x[2])
      BY Zenon
    <3>2. \A x \in Node \X (AskSlot \ {AnySlot}) : x[1] \in Node /\ x[2] \in AskSlot \ {AnySlot}
      OBVIOUS
    <3>. QED
      BY <3>1, <3>2, Zenon
  <2>3. e \in B => \E a \in AskAddress : e = set_address_value(r, a)
    OBVIOUS
  <2>4. e \in C => \E c \in Kids(r) : e = detach_child(r, c)
    OBVIOUS
  <2>5. e \in D => \E y \in Node \X AskSlot : e = attach_child(r, y[1], "node", y[2]) /\ attach_child_ok(r, y[1], y[2])
    BY Zenon
  <2>6. e \in G => \E y \in User \X AskSlot : e = attach_child(r, y[1], "user", y[2]) /\ attach_child_ok(r, y[1], y[2])
    BY Zenon
  <2>. HIDE DEF A, B, C, D, G
  <2>. QED
    BY <2>1, <2>2, <2>3, <2>4, <2>5, <2>6, Zenon
<1>7. ASSUME NEW y \in Node \X AskSlot, e = attach_child(r, y[1], "node", y[2]), attach_child_ok(r, y[1], y[2])
      PROVE  Edited(n, r, e)
  <2>1. y[1] \in Peer /\ y[2] \in AskSlot
    BY <1>7 DEF Peer
  <2>. QED
    BY <1>5, <1>7, <2>1
<1>8. ASSUME NEW y \in User \X AskSlot, e = attach_child(r, y[1], "user", y[2]), attach_child_ok(r, y[1], y[2])
      PROVE  Edited(n, r, e)
  <2>1. y[1] \in Peer /\ y[2] \in AskSlot
    BY <1>8 DEF Peer
  <2>. QED
    BY <1>5, <1>8, <2>1
<1>. QED
  BY <1>1, <1>2, <1>3, <1>4, <1>6, <1>7, <1>8

LEMMA TopoStep ==
  ASSUME MemberInv, NEW n \in Node, NEW r \in TopoEdits(n, file[n].rec), TopoEdit(n, r)
  PROVE  MemberInv' /\ JoinStep
<1>1. PICK f : f = file[n]
  OBVIOUS
<1>. DEFINE new == [f EXCEPT !.rec = r]
<1>2. /\ joins' = joins /\ file' = file /\ eng' = eng /\ net' = net
      /\ hand' = IF r.parent.id \in {"none", f.rec.parent.id} THEN hand ELSE hand \cup {<<n, r.parent.id>>}
      /\ Command(n, "topo", new, {})
  BY <1>1 DEF TopoEdit
<1>3. IsFile(f, n) /\ IsRecord(f.rec, n) /\ f.rec.address_epoch \in Nat
  BY <1>1, NodeFacts, AtNode
<1>4. Edited(n, f.rec, r)
  BY <1>1, <1>3, EditFacts
<1>5. IsRecord(r, n) /\ r.address_epoch \in Nat /\ r.address_epoch >= f.rec.address_epoch
  BY <1>4, RecordParts DEF Edited
<1>6. IsFile(new, n) /\ new.rec = r /\ new.peers = f.peers
  BY <1>3, <1>5, Saved
<1>. HIDE DEF new
<1>7. hand \subseteq hand'
  BY <1>2
<1>8. RowedThen(n, f.rec) => RowedThen(n, r)
  <2>1. CASE r.parent.id = "none"
    BY <2>1, NoParentRowed
  <2>2. CASE r.parent.id = f.rec.parent.id
    BY <2>2 DEF RowedThen
  <2>3. CASE r.parent.id \notin {"none", f.rec.parent.id}
    BY <1>2, <2>3 DEF RowedThen
  <2>. QED
    BY <2>1, <2>2, <2>3
<1>9. Marked(f.rec) => Marked(r)
  <2>1. CASE r.parent = f.rec.parent
    BY <2>1 DEF Marked
  <2>2. CASE r.parent = NoLink
    BY <2>2, NoLinkIs, NoParentRowed
  <2>3. CASE r.parent.id \in Node /\ r.parent.generation = 0
    <3>1. \A m \in Node : file[m].rec.address_epoch \in Nat
      BY DEF MemberInv, Nodes, IsFile, IsRecord
    <3>. QED
      BY <2>3, <3>1 DEF Marked
  <2>. QED
    BY <1>4, <2>1, <2>2, <2>3 DEF Edited
<1>10. PICK x : /\ cli' = [cli EXCEPT ![n] = x] /\ (eng[n].up => x.cmd \in LiveCommand)
                /\ x.cmd = "topo" /\ x.new = new /\ x.send = {}
  BY <1>2, CommandFacts
<1>11. Opened(n, x)
  BY <1>1, <1>6, <1>8, <1>10 DEF Opened
<1>12. f.rec.address_epoch <= r.address_epoch
  BY <1>3, <1>5
<1>13. Follows(n, x)
  BY <1>1, <1>6, <1>9, <1>10, <1>12 DEF Follows
<1>14. joins' \in Nat
  BY <1>2 DEF MemberInv
<1>. QED
  BY <1>2, <1>7, <1>10, <1>11, <1>13, <1>14, OpenStep

(* The files a command leaves.                                             *)
LEMMA SavesFacts ==
  ASSUME NEW n, NEW f, IsFile(f, n), NEW x, x # Idle, IsCli(x, n), NEW F, F = Saves(f, x)
  PROVE  /\ IsFile(F, n)
         /\ x.cmd = "approve" => F = x.new
         /\ x.cmd \in {"join", "reject"} => F.rec = f.rec /\ F.peers = f.peers /\ F.outbound = x.new.outbound
         /\ x.cmd \in {"exit", "topo"} => F.rec = x.new.rec /\ F.peers = f.peers /\ F.outbound = f.outbound
         /\ F.rec \in {f.rec, x.new.rec}
<1>1. x.cmd \in {"join", "approve", "reject", "exit", "topo"} /\ IsFile(x.new, n)
  BY DEF IsCli
<1>2. CASE x.cmd = "approve"
  BY <1>1, <1>2 DEF Saves
<1>3. CASE x.cmd \in {"join", "reject"}
  <2>1. F = ControlStore_save(f, x.new.pending, x.new.outbound)
    BY <1>3 DEF Saves
  <2>2. f = MkFile(f.rec, f.peers, f.pending, f.outbound) /\ IsRecord(f.rec, n)
    BY DEF IsFile
  <2>3. IsPending(x.new.pending, n) /\ x.new.outbound \in Outbound
    BY <1>1 DEF IsFile
  <2>4. F = MkFile(f.rec, f.peers, x.new.pending, x.new.outbound)
    BY <2>1, <2>2, SaveForm
  <2>5. IsFile(F, n) /\ F.rec = f.rec /\ F.peers = f.peers /\ F.outbound = x.new.outbound
    BY <2>2, <2>3, <2>4, FileMade
  <2>. QED
    BY <1>3, <2>5
<1>4. CASE x.cmd \in {"exit", "topo"}
  <2>1. F = [f EXCEPT !.rec = x.new.rec]
    BY <1>4 DEF Saves
  <2>2. IsRecord(x.new.rec, n)
    BY <1>1 DEF IsFile
  <2>3. IsFile(F, n) /\ F.rec = x.new.rec /\ F.peers = f.peers /\ F.outbound = f.outbound
    BY <2>1, <2>2, Saved
  <2>. QED
    BY <1>4, <2>3
<1>. QED
  BY <1>1, <1>2, <1>3, <1>4

LEMMA CliSaveStep ==
  ASSUME MemberInv, NEW n \in Node, CliSave(n)
  PROVE  MemberInv' /\ JoinStep
<1>1. PICK f : f = file[n]
  OBVIOUS
<1>2. PICK E : E = eng[n]
  OBVIOUS
<1>3. PICK x : x = cli[n]
  OBVIOUS
<1>4. PICK F : F = Saves(f, x)
  OBVIOUS
<1>5. /\ x # Idle /\ file' = [file EXCEPT ![n] = F] /\ net' = net \cup x.send /\ cli' = [cli EXCEPT ![n] = Idle]
      /\ eng' = eng /\ hand' = hand /\ joins' = joins
  BY <1>1, <1>3, <1>4 DEF CliSave, counters
<1>6. IsFile(f, n) /\ IsEng(E, n) /\ IsCli(x, n) /\ Beside(E, x) /\ eng' = [eng EXCEPT ![n] = E]
  BY <1>1, <1>2, <1>3, <1>5, NodeFacts
<1>7. Changes(n, F, E, Idle) /\ IsCli(Idle, n) /\ Beside(E, Idle)
  BY <1>5, <1>6 DEF Changes, IsCli, Beside
<1>8. /\ IsFile(F, n)
      /\ x.cmd = "approve" => F = x.new
      /\ x.cmd \in {"join", "reject"} => F.rec = f.rec /\ F.peers = f.peers /\ F.outbound = x.new.outbound
      /\ x.cmd \in {"exit", "topo"} => F.rec = x.new.rec /\ F.peers = f.peers /\ F.outbound = f.outbound
      /\ F.rec \in {f.rec, x.new.rec}
  BY <1>4, <1>5, <1>6, SavesFacts
<1>9. x.cmd \in {"join", "approve", "reject", "exit", "topo"} /\ \A g \in x.send : Sends(g, n, x)
  BY <1>5, <1>6 DEF IsCli
<1>9a. E.up => x.cmd \in LiveCommand
  BY <1>5, <1>6 DEF Beside
<1>10. ASSUME RowsAlone PROVE RowsKept(n, F, E, Idle)
  <2>1. Rows(n, f, E, x)
    BY <1>1, <1>2, <1>3, <1>10 DEF MemberInv
  <2>2. \A r : Rowed(n, r) => RowedThen(n, r)
    BY <1>5 DEF Rowed, RowedThen
  <2>3. RowedThen(n, f.rec) /\ RowedThen(n, E.rec) /\ RowedThen(n, x.new.rec)
    BY <1>5, <2>1, <2>2 DEF Rows
  <2>4. x.cmd = "approve" => DOMAIN f.peers \subseteq DOMAIN x.new.peers
    BY <1>5, <2>1 DEF Rows
  <2>5. DOMAIN f.peers \subseteq DOMAIN F.peers
    BY <1>8, <1>9, <2>4
  <2>6. RowedThen(n, F.rec)
    BY <1>8, <2>3
  <2>. QED
    BY <1>1, <2>3, <2>5, <2>6 DEF RowsKept
<1>11. f.rec.address_epoch \in Nat /\ F.rec.address_epoch \in Nat
  BY <1>6, <1>8 DEF IsFile, IsRecord
<1>12. ASSUME RecordAlone
       PROVE  /\ RecordKept(n, F, E, Idle)
              /\ x.cmd = "exit" => f.rec.address_epoch < F.rec.address_epoch
              /\ x.cmd # "topo" => F.rec.parent = f.rec.parent \/ F.rec.parent.id = "none"
  <2>1. Records(f, E, x)
    BY <1>1, <1>2, <1>3, <1>12 DEF MemberInv
  <2>2. CASE x.cmd \in {"join", "reject"}
    <3>1. F.rec = f.rec
      BY <1>8, <2>2
    <3>2. Records(F, E, Idle)
      BY <2>1, <3>1 DEF Records
    <3>. QED
      BY <1>1, <1>11, <2>2, <3>1, <3>2 DEF RecordKept
  <2>3. CASE x.cmd \in {"approve", "exit", "topo"}
    <3>1. ~E.up
      BY <1>9a, <1>12, <2>3 DEF RecordAlone
    <3>2. /\ Marked(x.new.rec) /\ f.rec.address_epoch <= x.new.rec.address_epoch
          /\ x.cmd = "approve" => x.new.rec.parent = f.rec.parent
          /\ x.cmd = "exit" => x.new.rec.parent.id = "none" /\ f.rec.address_epoch < x.new.rec.address_epoch
      BY <1>5, <2>1, <2>3 DEF Records
    <3>3. F.rec = x.new.rec
      BY <1>8, <2>3
    <3>4. Records(F, E, Idle)
      BY <3>1, <3>2, <3>3 DEF Records
    <3>. QED
      BY <1>1, <2>3, <3>2, <3>3, <3>4 DEF RecordKept
  <2>. QED
    BY <1>9, <2>2, <2>3
<1>13. ASSUME JoinsAlone PROVE JoinsKept(n, F, E, Idle)
  <2>1. Joins(f, E, x)
    BY <1>1, <1>2, <1>3, <1>13 DEF MemberInv
  <2>2. E.up => x.cmd = "reject"
    BY <1>9a, <1>13 DEF JoinsAlone
  <2>3. Joins(F, E, Idle)
    BY <1>5, <1>8, <2>1, <2>2 DEF Joins
  <2>4. x.cmd # "topo" => F.rec.parent = f.rec.parent \/ F.rec.parent.id = "none"
    BY <1>12, <1>13, AloneFacts
  <2>. QED
    BY <1>1, <1>3, <2>3, <2>4, NamesAssumption DEF JoinsKept
<1>14. net \subseteq Shaped /\ joins' \in Nat /\ hand \subseteq hand'
  BY <1>5 DEF MemberInv
<1>15. net' \subseteq Shaped
  BY <1>5, <1>9, <1>14 DEF Sends
<1>16. \A g \in x.send : New(g, n, F.rec, F.peers)
  <2>. SUFFICES ASSUME NEW g \in x.send PROVE New(g, n, F.rec, F.peers)
    OBVIOUS
  <2>1. Sends(g, n, x)
    BY <1>9
  <2>2. g.kind = "Approved" => g.to \in DOMAIN F.peers
    BY <1>8, <2>1 DEF Sends
  <2>3. g.kind = "Rebase" => x.cmd = "exit" /\ F.rec = x.new.rec
    BY <1>8, <2>1 DEF Sends
  <2>4. g.kind = "Rebase" /\ RecordAlone => F.rec.address_epoch > file[n].rec.address_epoch
    BY <1>1, <1>11, <1>12, <2>3
  <2>. QED
    BY <2>1, <2>2, <2>3, <2>4 DEF Sends, New
<1>17. \A g \in net' \cup Elements(E.retry) \cup Elements(E.decisions) : g \in Frames \/ New(g, n, F.rec, F.peers)
  BY <1>2, <1>5, <1>16, QueuedFrames DEF Frames
<1>. QED
  BY <1>6, <1>7, <1>8, <1>10, <1>12, <1>13, <1>14, <1>15, <1>17, StepLemma

-----------------------------------------------------------------------------
(***************************************************************************)
(* The trees to start from.                                                *)
(***************************************************************************)
LEMMA ParentFacts ==
  ASSUME NEW a \in Seq(Slot), a # None, ~is_root(a)
  PROVE  /\ Len(a) >= 2 /\ slot(a) \in Slot /\ parent(a) \in Seq(Slot) /\ Len(parent(a)) = Len(a) - 1
         /\ \A i \in 1..(Len(a) - 1) : parent(a)[i] = a[i]
<1>1. Len(a) \in Nat /\ Len(a) # 1 /\ Len(a) # 0
  BY LenProperties, EmptySeq DEF is_root, depth, None
<1>2. Len(a) >= 2 /\ Len(a) \in 1..Len(a)
  <2>1. \A m \in Nat : m # 0 /\ m # 1 => m >= 2 /\ m \in 1..m
    OBVIOUS
  <2>. QED
    BY <1>1, <2>1, Zenon
<1>3. slot(a) \in Slot
  BY <1>2, ElementOfSeq DEF slot
<1>4. parent(a) = SubSeq(a, 1, Len(a) - 1)
  BY DEF parent, Prefix
<1>. QED
  BY <1>2, <1>3, <1>4

(* Two places under one parent with one digit are the same place.          *)
LEMMA SamePlace ==
  ASSUME NEW a \in Seq(Slot), a # None, ~is_root(a), NEW b \in Seq(Slot), b # None, ~is_root(b),
         parent(a) = parent(b), slot(a) = slot(b)
  PROVE  a = b
<1>1. /\ Len(a) >= 2 /\ Len(parent(a)) = Len(a) - 1 /\ \A i \in 1..(Len(a) - 1) : parent(a)[i] = a[i]
  BY ParentFacts
<1>2. /\ Len(b) >= 2 /\ Len(parent(b)) = Len(b) - 1 /\ \A i \in 1..(Len(b) - 1) : parent(b)[i] = b[i]
  BY ParentFacts
<1>3. Len(a) \in Nat /\ Len(b) \in Nat
  BY LenProperties
<1>4. Len(a) = Len(b)
  BY <1>1, <1>2, <1>3
<1>5. a[Len(a)] = b[Len(b)]
  BY DEF slot
<1>6. ASSUME NEW i \in 1..Len(a) PROVE a[i] = b[i]
  <2>1. CASE i = Len(a)
    BY <1>4, <1>5, <2>1
  <2>2. CASE i # Len(a)
    <3>1. i \in 1..(Len(a) - 1)
      BY <1>3, <2>2
    <3>. QED
      BY <1>1, <1>2, <1>4, <3>1
  <2>. QED
    BY <2>1, <2>2
<1>. QED
  BY <1>4, <1>6, SeqEqual

Below(t, n) == { c \in Node : t[c] # None /\ ~is_root(t[c]) /\ parent(t[c]) = t[n] }

Above(t, n) == { p \in Node : t[n] # None /\ ~is_root(t[n]) /\ parent(t[n]) = t[p] }

PlacedLink(t, n) ==
  IF Above(t, n) = {} THEN NoLink ELSE [id |-> CHOOSE p \in Above(t, n) : TRUE, slot |-> slot(t[n]), generation |-> 0]

PlacedKids(t, n) == [ c \in Below(t, n) |-> [kind |-> "node", slot |-> slot(t[c]), eth_address |-> "none"] ]

LEMMA PlacedForm ==
  ASSUME NEW t, NEW n
  PROVE  PlacedAt(t, n) = MkFile(MkRecord(n, t[n], PlacedLink(t, n), PlacedKids(t, n), IF t[n] = None THEN 0 ELSE 1),
                                 [ m \in Below(t, n) \cup Above(t, n) |-> 0 ], << >>, NoJoin)
BY DEF PlacedAt, MkFile, MkRecord, PlacedLink, PlacedKids, Below, Above

LEMMA PlacedFacts ==
  ASSUME NEW t \in Trees, NEW n \in Node
  PROVE  /\ t[n] \in Seq(Slot) /\ IsLink(PlacedLink(t, n)) /\ LinkFits(n, t[n], PlacedLink(t, n))
         /\ IsKids(PlacedKids(t, n)) /\ KidsFit(n, PlacedKids(t, n))
         /\ PlacedLink(t, n).generation = 0
         /\ PlacedLink(t, n).id \in Node => n \in Below(t, PlacedLink(t, n).id)
<1>. DEFINE l == PlacedLink(t, n)
            k == PlacedKids(t, n)
<1>1. \A m \in Node : t[m] \in Seq(Slot)
  <2>1. t \in [Node -> OctAddr \cup {None}]
    BY TreesAssumption
  <2>2. OctAddr \cup {None} \subseteq Seq(Slot)
    BY EmptySeq DEF OctAddr, None
  <2>. QED
    BY <2>1, <2>2
<1>2. \A m \in Node : t[m] # None /\ ~is_root(t[m]) => parent(t[m]) # t[m]
  <2>. SUFFICES ASSUME NEW m \in Node, t[m] # None, ~is_root(t[m]), parent(t[m]) = t[m] PROVE FALSE
    OBVIOUS
  <2>1. Len(parent(t[m])) = Len(t[m]) - 1 /\ Len(t[m]) \in Nat
    BY <1>1, ParentFacts, LenProperties
  <2>. QED
    BY <2>1
<1>3. /\ IsLink(l) /\ LinkFits(n, t[n], l) /\ l.generation = 0
      /\ l.id \in Node => n \in Below(t, l.id)
  <2>1. CASE Above(t, n) = {}
    <3>1. l = NoLink
      BY <2>1 DEF PlacedLink
    <3>2. t[n] # None => is_root(t[n])
      BY <2>1, TreesAssumption DEF Above
    <3>3. LinkFits(n, t[n], NoLink)
      BY <3>2 DEF LinkFits, is_root, depth
    <3>. QED
      BY <3>1, <3>3, NoLinkIs DEF l
  <2>2. CASE Above(t, n) # {}
    <3>. DEFINE q == CHOOSE p \in Above(t, n) : TRUE
    <3>1. q \in Above(t, n)
      BY <2>2
    <3>2. l = [id |-> q, slot |-> slot(t[n]), generation |-> 0]
      BY <2>2 DEF PlacedLink
    <3>. HIDE DEF q, l
    <3>3. q \in Node /\ t[n] # None /\ ~is_root(t[n]) /\ parent(t[n]) = t[q]
      BY <3>1 DEF Above
    <3>4. q # n
      BY <1>2, <3>3
    <3>5. Len(t[n]) >= 2 /\ slot(t[n]) \in Slot
      BY <1>1, <3>3, ParentFacts
    <3>6. l.id = q /\ l.slot = slot(t[n]) /\ l.generation = 0
      BY <3>2
    <3>7. IsLink(l)
      <4>1. l \in [id : Node \cup {"none"}, slot : Slot \cup {-1}, generation : Nat]
        BY <3>2, <3>3, <3>5
      <4>. QED
        BY <3>3, <3>6, <4>1, NamesAssumption DEF IsLink
    <3>8. LinkFits(n, t[n], l)
      BY <3>3, <3>4, <3>5, <3>6, NoLinkIs DEF LinkFits, slot
    <3>9. n \in Below(t, q)
      BY <3>3 DEF Below
    <3>. QED
      BY <3>6, <3>7, <3>8, <3>9 DEF l
  <2>. QED
    BY <2>1, <2>2
<1>5. /\ DOMAIN k = Below(t, n) /\ k = [ c \in DOMAIN k |-> k[c] ]
      /\ \A c \in DOMAIN k : k[c] = [kind |-> "node", slot |-> slot(t[c]), eth_address |-> "none"]
  BY DEF PlacedKids
<1>. HIDE DEF k
<1>6. \A c \in Below(t, n) : c \in Node /\ t[c] \in Seq(Slot) /\ t[c] # None /\ ~is_root(t[c]) /\ parent(t[c]) = t[n]
  BY <1>1 DEF Below
<1>7. \A c \in DOMAIN k : slot(t[c]) \in Slot
  BY <1>5, <1>6, ParentFacts
<1>8. \A c \in DOMAIN k : k[c] \in ChildLink /\ k[c].slot = slot(t[c])
  BY <1>5, <1>7 DEF ChildLink
<1>9. IsKids(k)
  BY <1>5, <1>6, <1>8 DEF IsKids, Peer
<1>10. \A c \in DOMAIN k : c # n
  BY <1>2, <1>5, <1>6
<1>11. ASSUME NEW c \in DOMAIN k, NEW d \in DOMAIN k, c # d PROVE k[c].slot # k[d].slot
  <2>1. k[c].slot = slot(t[c]) /\ k[d].slot = slot(t[d])
    BY <1>8
  <2>2. /\ c \in Node /\ t[c] \in Seq(Slot) /\ t[c] # None /\ ~is_root(t[c]) /\ parent(t[c]) = t[n]
        /\ d \in Node /\ t[d] \in Seq(Slot) /\ t[d] # None /\ ~is_root(t[d]) /\ parent(t[d]) = t[n]
    BY <1>5, <1>6
  <2>3. t[c] # t[d]
    BY <1>11, <2>2, TreesAssumption
  <2>. QED
    BY <2>1, <2>2, <2>3, SamePlace
<1>12. KidsFit(n, k)
  BY <1>10, <1>11 DEF KidsFit
<1>. QED
  BY <1>1, <1>3, <1>9, <1>12 DEF k

LEMMA InitHolds ==
  ASSUME Init
  PROVE  MemberInv
<1>1. PICK t \in Trees :
        /\ file = [ n \in Node |-> PlacedAt(t, n) ]
        /\ eng = [ n \in Node |-> IF t[n] = None THEN Stopped(n) ELSE ControlNode_open(file[n]) ]
  BY DEF Init
<1>2. cli = [ n \in Node |-> Idle ] /\ net = {} /\ joins = 0
  BY DEF Init
<1>3. ASSUME NEW n \in Node
      PROVE  /\ IsFile(file[n], n) /\ file[n].rec.parent = PlacedLink(t, n) /\ file[n].rec.address_epoch \in Nat
             /\ DOMAIN file[n].peers = Below(t, n) \cup Above(t, n)
  <2>. DEFINE l == PlacedLink(t, n)
              k == PlacedKids(t, n)
              e == IF t[n] = None THEN 0 ELSE 1
              r == MkRecord(n, t[n], l, k, e)
              p == [ m \in Below(t, n) \cup Above(t, n) |-> 0 ]
  <2>1. file[n] = MkFile(r, p, << >>, NoJoin)
    BY <1>1, PlacedForm
  <2>2. t[n] \in Seq(Slot) /\ IsLink(l) /\ LinkFits(n, t[n], l) /\ IsKids(k) /\ KidsFit(n, k) /\ e \in Nat
    BY PlacedFacts
  <2>. HIDE DEF l, k, e
  <2>3. IsRecord(r, n) /\ r.parent = l /\ r.address_epoch = e
    BY <2>2, RecordMade, Fields
  <2>4. DOMAIN p = Below(t, n) \cup Above(t, n)
    OBVIOUS
  <2>. HIDE DEF r, p
  <2>5. IsFile(file[n], n) /\ file[n].rec = r /\ file[n].peers = p
    BY <2>1, <2>3, NothingPending, NoJoinOut, FileMade
  <2>. QED
    BY <2>2, <2>3, <2>4, <2>5 DEF l
<1>4. ASSUME NEW n \in Node
      PROVE  /\ IsEng(eng[n], n) /\ eng[n].retry = << >> /\ eng[n].decisions = << >>
             /\ eng[n].rec \in {file[n].rec, NodeRecord(n)}
             /\ eng[n].up => eng[n].rec = file[n].rec /\ eng[n].outbound = file[n].outbound
  <2>1. IsFile(file[n], n) /\ IsRecord(file[n].rec, n)
    BY <1>3 DEF IsFile
  <2>2. CASE t[n] = None
    <3>1. eng[n] = Stopped(n)
      BY <1>1, <2>2
    <3>. QED
      BY <2>1, <3>1, FreshEngine
  <2>3. CASE t[n] # None
    <3>1. eng[n] = ControlNode_open(file[n])
      BY <1>1, <2>3
    <3>. QED
      BY <2>1, <3>1, FreshEngine
  <2>. QED
    BY <2>2, <2>3
<1>5. ASSUME NEW c \in Node PROVE Rowed(c, file[c].rec) /\ Marked(file[c].rec)
  <2>. DEFINE l == PlacedLink(t, c)
  <2>1. file[c].rec.parent = l
    BY <1>3
  <2>2. l.generation = 0 /\ (l.id \in Node => c \in Below(t, l.id))
    BY <1>3, PlacedFacts
  <2>. HIDE DEF l
  <2>. QED
    BY <1>3, <2>1, <2>2 DEF Rowed, Marked
<1>6. Frames = {}
  BY <1>2, <1>4, NoElements DEF Frames
<1>7. ASSUME NEW n \in Node PROVE cli[n] = Idle /\ IsCli(cli[n], n) /\ Beside(eng[n], cli[n])
  BY <1>2 DEF IsCli, Beside
<1>8. Nodes
  BY <1>3, <1>4, <1>7 DEF Nodes
<1>9. ASSUME NEW n \in Node PROVE Rows(n, file[n], eng[n], cli[n]) /\ Records(file[n], eng[n], cli[n]) /\ Joins(file[n], eng[n], cli[n])
  <2>1. Rowed(n, NodeRecord(n))
    BY FreshRecord, NoParentRowed
  <2>2. Rowed(n, eng[n].rec)
    BY <1>4, <1>5, <2>1
  <2>. QED
    BY <1>4, <1>5, <1>7, <2>2 DEF Rows, Records, Joins
<1>10. file = [ n \in Node |-> file[n] ] /\ DOMAIN file = Node
  BY <1>1
<1>11. eng = [ n \in Node |-> eng[n] ] /\ DOMAIN eng = Node
  BY <1>1
<1>12. cli = [ n \in Node |-> cli[n] ] /\ DOMAIN cli = Node /\ joins \in Nat /\ net \subseteq Shaped
  BY <1>2
<1>. QED
  BY <1>6, <1>8, <1>9, <1>10, <1>11, <1>12 DEF MemberInv
-----------------------------------------------------------------------------
(***************************************************************************)
(* Every step.                                                             *)
(***************************************************************************)
LEMMA ReceiveStep ==
  ASSUME MemberInv, NEW f \in net, Receive(f)
  PROVE  MemberInv' /\ JoinStep
<1>1. CASE handle_join(f)
  BY <1>1, JoinHeard
<1>2. CASE handle_join_approved(f)
  BY <1>2, ApprovalHeard
<1>3. CASE handle_join_rejected(f)
  BY <1>3, RejectHeard
<1>4. CASE handle_exit(f)
  BY <1>4, ExitHeard
<1>5. CASE handle_detach_notice(f)
  BY <1>5, DetachHeard
<1>6. CASE handle_rebase(f)
  BY <1>6, RebaseHeard
<1>7. CASE handle_rebase_pull(f)
  BY <1>7, PullHeard
<1>8. CASE apply_pull_snapshot(f)
  BY <1>8, SnapshotStep
<1>9. CASE ToUser(f)
  BY <1>9, UserStep
<1>. QED
  BY <1>1, <1>2, <1>3, <1>4, <1>5, <1>6, <1>7, <1>8, <1>9 DEF Receive

LEMMA NextStep ==
  ASSUME MemberInv, Next
  PROVE  MemberInv' /\ JoinStep
<1>1. CASE \E f \in net : Receive(f) \/ Lose(f) \/ \E k \in 1..2 : CrashJoining(f, k)
  BY <1>1, ReceiveStep, LoseStep, CrashJoiningStep
<1>2. CASE \E n \in Node : \/ pull_rebase_from_parent(n) \/ sweep_pending_rebase(n)
                           \/ Stop(n) \/ Start(n) \/ CliExit(n) \/ CliSave(n)
                           \/ \E r \in TopoEdits(n, file[n].rec) : TopoEdit(n, r)
                           \/ \E a \in AskAddress : handle_set_address(n, a)
  <2>1. PICK n \in Node : \/ pull_rebase_from_parent(n) \/ sweep_pending_rebase(n)
                          \/ Stop(n) \/ Start(n) \/ CliExit(n) \/ CliSave(n)
                          \/ \E r \in TopoEdits(n, file[n].rec) : TopoEdit(n, r)
                          \/ \E a \in AskAddress : handle_set_address(n, a)
    BY <1>2
  <2>2. CASE pull_rebase_from_parent(n) \/ sweep_pending_rebase(n)
    BY <2>2, PullStep, SweepStep
  <2>3. CASE Stop(n) \/ Start(n)
    BY <2>3, StopStep, StartStep
  <2>4. CASE CliExit(n) \/ CliSave(n)
    BY <2>4, CliExitStep, CliSaveStep
  <2>5. CASE \E r \in TopoEdits(n, file[n].rec) : TopoEdit(n, r)
    BY <2>5, TopoStep
  <2>6. CASE \E a \in AskAddress : handle_set_address(n, a)
    BY <2>6, SetAddressStep
  <2>. QED
    BY <2>1, <2>2, <2>3, <2>4, <2>5, <2>6
<1>3. CASE \E j \in JoinTarget, s \in AskSlot : CliJoin(j[1], j[2], s)
  <2>1. PICK j \in JoinTarget, s \in AskSlot : CliJoin(j[1], j[2], s)
    BY <1>3
  <2>2. j[1] \in Node /\ j[2] \in Node /\ j[1] # j[2]
    BY NamesAssumption
  <2>. QED
    BY <2>1, <2>2, CliJoinStep
<1>4. CASE \E n, c \in Node :
             \/ AdminReject(n, c) \/ CliReject(n, c) \/ AdminRedeliver(n, c)
             \/ apply_detach_child(n, c)
             \/ \E s \in AskSlot : \/ AdminApprove(n, c, s) \/ CliApprove(n, c, s)
                                   \/ apply_move_child(n, c, s)
                                   \/ \E k \in 1..3 : CrashApproving(n, c, s, k)
  <2>1. PICK n \in Node, c \in Node :
             \/ AdminReject(n, c) \/ CliReject(n, c) \/ AdminRedeliver(n, c)
             \/ apply_detach_child(n, c)
             \/ \E s \in AskSlot : \/ AdminApprove(n, c, s) \/ CliApprove(n, c, s)
                                   \/ apply_move_child(n, c, s)
                                   \/ \E k \in 1..3 : CrashApproving(n, c, s, k)
    BY <1>4
  <2>2. CASE AdminReject(n, c) \/ CliReject(n, c)
    BY <2>2, AdminRejectStep, CliRejectStep
  <2>3. CASE AdminRedeliver(n, c) \/ apply_detach_child(n, c)
    BY <2>3, RedeliverStep, DetachStep
  <2>4. ASSUME NEW s \in AskSlot, AdminApprove(n, c, s) \/ CliApprove(n, c, s)
        PROVE  MemberInv' /\ JoinStep
    BY <2>4, AdminApproveStep, CliApproveStep
  <2>5. ASSUME NEW s \in AskSlot, apply_move_child(n, c, s)
        PROVE  MemberInv' /\ JoinStep
    BY <2>5, MoveStep
  <2>6. ASSUME NEW s \in AskSlot, NEW k \in 1..3, CrashApproving(n, c, s, k)
        PROVE  MemberInv' /\ JoinStep
    BY <2>6, CrashApprovingStep
  <2>. QED
    BY <2>1, <2>2, <2>3, <2>4, <2>5, <2>6
<1>5. CASE \E n \in Node, u \in User : \/ \E s \in AskSlot : handle_create_child(n, u, s)
                                       \/ \E k \in {"new", "incumbent"} : handle_register_eth_address(n, u, k)
  BY <1>5, CreateStep, EthStep
<1>. QED
  BY <1>1, <1>2, <1>3, <1>4, <1>5 DEF Next

LEMMA Unchanged ==
  ASSUME MemberInv, UNCHANGED vars
  PROVE  MemberInv'
<1>1. file' = file /\ eng' = eng /\ cli' = cli /\ net' = net /\ hand' = hand /\ joins' = joins
  BY DEF vars, counters
<1>2. Nodes'
  BY <1>1 DEF MemberInv, Nodes
<1>3. (RowsAlone => \A n \in Node : Rows(n, file[n], eng[n], cli[n]))'
  BY <1>1 DEF MemberInv, Rows, Rowed
<1>4. (RecordAlone => \A n \in Node : Records(file[n], eng[n], cli[n]))'
  BY <1>1 DEF MemberInv, Records, Marked
<1>5. (JoinsAlone => \A n \in Node : Joins(file[n], eng[n], cli[n]))'
  BY <1>1 DEF MemberInv, Joins
<1>6. Frames' = Frames
  BY <1>1 DEF Frames
<1>7. \A f \in Frames' : Backed(f)'
  BY <1>1, <1>6 DEF MemberInv, Backed
<1>8. (RecordAlone => \A f, g \in Frames : SameNotice(f, g))'
  BY <1>6 DEF MemberInv, SameNotice
<1>. QED
  BY <1>1, <1>2, <1>3, <1>4, <1>5, <1>7, <1>8 DEF MemberInv

(* The invariant of the control plane, which the theorems below rest on.   *)
THEOREM Membered == Spec => []MemberInv
<1>1. Init => MemberInv
  BY InitHolds
<1>2. MemberInv /\ [Next]_vars => MemberInv'
  BY NextStep, Unchanged
<1>. QED
  BY <1>1, <1>2, PTL DEF Spec

(* Every record on file and in an engine passes validate at every moment,  *)
(* whatever joins, exits, moves and re-bases were applied and wherever a   *)
(* crash cut them short; the queues keep to their bounds, and a node has   *)
(* one queued request for each applicant.                                  *)
THEOREM RecordsValid == Spec => []TypeOK
<1>1. MemberInv => TypeOK
  <2>. SUFFICES ASSUME MemberInv PROVE TypeOK
    OBVIOUS
  <2>1. ASSUME NEW n \in Node
        PROVE  /\ validate(file[n].rec) /\ validate(eng[n].rec)
               /\ Len(file[n].pending) <= MAX_PENDING_JOINS
               /\ Len(eng[n].retry) <= MAX_PENDING_REBASE
               /\ Len(eng[n].decisions) <= MAX_STORED_DECISIONS
               /\ \A i, j \in DOMAIN file[n].pending :
                    i # j => file[n].pending[i].node # file[n].pending[j].node
    <3>1. validate(file[n].rec) /\ validate(eng[n].rec)
      BY <2>1, AtNode DEF IsRecord
    <3>2. /\ IsPending(file[n].pending, n) /\ Len(eng[n].retry) <= MAX_PENDING_REBASE
          /\ Len(eng[n].decisions) <= MAX_STORED_DECISIONS
      BY <2>1, NodeFacts
    <3>3. DOMAIN file[n].pending = 1..Len(file[n].pending)
      BY <3>2, LenProperties DEF IsPending
    <3>. QED
      BY <3>1, <3>2, <3>3 DEF IsPending
  <2>2. \A f \in net : f.kind \in Request
    BY ShapedFacts DEF MemberInv
  <2>. QED
    BY <2>1, <2>2 DEF TypeOK
<1>. QED
  BY <1>1, Membered, PTL

(* As long as control approve is not given beside a running node: a node  *)
(* that an approval has given its parent has a row in that parent's        *)
(* registry, whatever else is. The row is written before the approval is   *)
(* sent, no step removes one, and a crash between the writes of an         *)
(* approval sends nothing. A link that topo set-parent has made is no      *)
(* approval's and is left out.                                             *)
THEOREM ChildrenKnown == ("approve" \notin LiveCommand) => (Spec => []KnownToParent)
<1>. SUFFICES ASSUME "approve" \notin LiveCommand
              PROVE  Spec => []KnownToParent
  OBVIOUS
<1>1. MemberInv => KnownToParent
  <2>. SUFFICES ASSUME MemberInv, NEW c \in Node, NEW p \in Node, file[c].rec.parent.id = p, <<c, p>> \notin hand
                PROVE  c \in DOMAIN file[p].peers
    BY DEF KnownToParent
  <2>1. Rows(c, file[c], eng[c], cli[c])
    BY DEF MemberInv, RowsAlone
  <2>. QED
    BY <2>1 DEF Rows, Rowed
<1>. QED
  BY <1>1, Membered, PTL

(* As long as only joins and rejections are given beside a running node:   *)
(* two notices of one node to one child under one generation name one      *)
(* address, and the mark of a child is at most its parent's epoch. Every   *)
(* batch of notices goes out under an epoch that is new, and epochs never  *)
(* go back, so that no notice is refused as contradicting an earlier one   *)
(* or ignored as stale for ever.                                           *)
THEOREM GenerationsAgree == (LiveCommand \subseteq {"join", "reject"}) => (Spec => []EpochsAgree)
<1>. SUFFICES ASSUME LiveCommand \subseteq {"join", "reject"}
              PROVE  Spec => []EpochsAgree
  OBVIOUS
<1>0. RecordAlone
  BY DEF RecordAlone
<1>1. MemberInv => EpochsAgree
  <2>. SUFFICES ASSUME MemberInv PROVE EpochsAgree
    OBVIOUS
  <2>1. ASSUME NEW c \in Node, NEW p \in Node, file[c].rec.parent.id = p
        PROVE  file[c].rec.parent.generation <= file[p].rec.address_epoch
    <3>1. Records(file[c], eng[c], cli[c])
      BY <1>0, <2>1 DEF MemberInv
    <3>. QED
      BY <2>1, <3>1 DEF Records, Marked
  <2>2. MarkWithinEpoch
    BY <2>1 DEF MarkWithinEpoch
  <2>3. ASSUME NEW n \in Node PROVE ToSet(eng[n].retry) \subseteq Frames
    <3>1. eng[n].retry \in Seq(Shaped)
      BY <2>3, NodeFacts
    <3>2. DOMAIN eng[n].retry = 1..Len(eng[n].retry)
      BY <3>1, LenProperties
    <3>3. ToSet(eng[n].retry) = Elements(eng[n].retry)
      BY <3>2 DEF ToSet, Elements
    <3>. QED
      BY <2>3, <3>3, QueuedFrames
  <2>4. net \cup UNION { ToSet(eng[n].retry) : n \in Node } \subseteq Frames
    BY <2>3 DEF Frames
  <2>5. \A f, g \in Frames : SameNotice(f, g)
    BY <1>0 DEF MemberInv
  <2>6. SameEpochSamePrefix
    BY <2>4, <2>5 DEF SameEpochSamePrefix, SameNotice
  <2>. QED
    BY <2>2, <2>6 DEF EpochsAgree
<1>. QED
  BY <1>1, Membered, PTL

(* As long as only rejections are given beside a running node: a step that *)
(* gives a node another parent is the save of a topo command, or takes an  *)
(* approval of that parent which answers the latest join on file. An       *)
(* approval of an earlier join, late or delivered twice, changes nothing.  *)
THEOREM LatestJoinOnly == (LiveCommand \subseteq {"reject"}) => (Spec => LatestJoinWins)
<1>. SUFFICES ASSUME LiveCommand \subseteq {"reject"}
              PROVE  Spec => LatestJoinWins
  OBVIOUS
<1>1. MemberInv /\ [Next]_vars =>
        [ \A n \in Node :
            LET p == file'[n].rec.parent.id
                byHand == cli[n].cmd = "topo" /\ cli'[n] = Idle
            IN  p \in Node /\ p # file[n].rec.parent.id /\ ~byHand =>
                  \E f \in net : /\ f.kind = "Approved" /\ f.to = n /\ f.from = p
                                 /\ f.body.nonce = file[n].outbound.nonce ]_vars
  BY NextStep DEF JoinStep, JoinsAlone
<1>. QED
  BY <1>1, Membered, PTL DEF Spec, LatestJoinWins
=============================================================================
