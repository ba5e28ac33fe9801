---------------------------- MODULE WalletProofs ----------------------------
(***************************************************************************)
(* Proofs about the browser wallet, for all nodes, identities and bounds:  *)
(* a wallet that has a parent is known to it or will hear of it, its       *)
(* address is current, the balance it shows is of its parent, what a call  *)
(* returns is true, and no pinned key is replaced silently.                *)
(***************************************************************************)
EXTENDS Wallet, SequenceTheorems, TLAPS

Peer == Node \cup {Nil}

Trust == {"Confirmed", "Unconfirmed"}

(* A list of rows with distinct ids, within its limit.                     *)
Distinct(s) == \A i, j \in 1..Len(s) : s[i].id = s[j].id => i = j

List(S, max) == { s \in Seq(S) : Len(s) <= max /\ Distinct(s) }

PendRow == [id : Nat]
PinRow == [id : Node, key : Keys, trust : Trust]
ChangeRow == [id : Node, pinned : Keys, presented : Keys]
SettleRow == [id : Nat, state : {"none", "rejected", "applied", "unverified"}]

Balance == [of : Peer, height : Nat]

LedgerDoc ==
  [pinned : Keys, trust : Trust, balance : Balance, pending : List(PendRow, MAX_PENDING_ORDERS),
   leaves : List(PinRow, MAX_PINNED_LEAF_KEYS), changes : List(ChangeRow, MAX_LEAF_KEY_CHANGES),
   settlements : List(SettleRow, MAX_SETTLEMENT_RECORDS), link : Int]

LocalDoc ==
  [outbound : [nonce : Nat, parent : Peer], parent : Peer, slot : Slot, address : Seq(Slot),
   rejected : BOOLEAN, link : Int, epoch : Nat]

Proof == [node : Peer, key : Keys]

FrameSet ==
  [kind : {"Approved", "Rejected", "Detach", "Rebase", "Receipt", "Result", "Routed"},
   from : Node \cup Target, id : Nat, address : Seq(Slot), key : Keys, n : Nat,
   status : {"none", "rejected", "applied"}, proof : Proof]

CallSet ==
  [kind : {"join", "leave", "register", "rotate", "routed", "payment"}, to : Node \cup Target, id : Nat,
   st : {"sent", "pending", "refused", "accepted", "waiting", "Accepted", "Rejected", "Replay"},
   address : Seq(Slot), old : Identity \cup {Nil}, new : Identity \cup {Nil}, tries : Nat,
   did : {"nothing", "Accepted", "Rejected"}]

NodeSet ==
  [listed : Nat, queued : Nat, epoch : Nat, keys : Nat, height : Nat, anchor : Identity \cup {Nil},
   marks : SUBSET Nat]

AuxSet ==
  [missed : SUBSET ((Node \cup Target) \X Nat), used : SUBSET (Node \X Nat), lapsed : SUBSET (Peer \X Int),
   heard : BOOLEAN, regressed : BOOLEAN,
   verdicts : SUBSET [kind : {"register", "rotate", "routed"}, said : {"accepted", "rejected", "answered"},
                      did : {"nothing", "Accepted", "Rejected", "none"}, tries : Nat, asked : Nat, answered : Nat]]
-----------------------------------------------------------------------------
AddressIn(p, e) == child(PrefixOf[p][e], SlotAt[p])

(* What a frame is, by its kind.                                           *)
FrameOK(f) ==
  /\ f \in FrameSet
  /\ f.kind # "Routed" => f.from \in Node
  /\ f.status = "applied" => f.proof.node \in Node
  /\ f.kind \in {"Approved", "Rebase"} => f.n \in 1..node[f.from].epoch /\ f.address = AddressIn(f.from, f.n)
  /\ f.kind \in {"Approved", "Detach"} => f.id <= joins

NodeOK(p) ==
  /\ node[p] \in NodeSet
  /\ node[p].epoch \in 1..Len(PrefixOf[p]) /\ node[p].keys \in 1..Len(KeyOf[p])
  /\ node[p].queued <= joins

CallOK(c) ==
  /\ c \in CallSet
  /\ c.kind # "routed" => c.to \in Node
  /\ c.kind \in {"join", "leave"} => c.id <= joins

Types ==
  /\ node \in [Node -> NodeSet] /\ \A p \in Node : NodeOK(p)
  /\ \A f \in net : FrameOK(f)
  /\ \A c \in calls : CallOK(c)
  /\ ident \in Identity
  /\ inbox \in Seq({ f \in FrameSet : f.from \in Node /\ (f.status = "applied" => f.proof.node \in Node) })
  /\ replies \in Seq(FrameSet)
  /\ Len(inbox) <= INBOX /\ Len(replies) <= INBOX
  /\ joins \in 0..MaxJoins /\ acts \in Nat
  /\ aux \in AuxSet
  /\ guard \in [parent : Peer, generation : Nat]

(* A document that says where the wallet is.                               *)
PlaceOK(s) ==
  /\ s \in LocalDoc
  /\ s.parent = Nil <=> s.address = None
  /\ s.parent = Nil <=> s.link <= 0
  /\ s.link <= joins /\ s.outbound.nonce <= joins
  /\ s.parent # Nil => /\ s.slot = SlotAt[s.parent]
                       /\ s.epoch \in 1..node[s.parent].epoch
                       /\ s.address = AddressIn(s.parent, s.epoch)

(* What a ledger document may hold beside the document of the place.       *)
Bound(s, l) ==
  /\ l.link = s.link => /\ l.balance # NoBalance => l.balance.of = s.parent
                        /\ l.pending # << >> => s.parent # Nil
  /\ l.link = Lost => l.balance = NoBalance /\ l.pending = << >> /\ s.parent = Nil

(* While the list of pins of l is not full, it has every pin of d.         *)
Covers(l, d) ==
  Len(l.leaves) < MAX_PINNED_LEAF_KEYS =>
    \A q \in Node : pinned_leaf_key(d, q) # Nil => pinned_leaf_key(l, q) = pinned_leaf_key(d, q)

(* Two documents of one link, with one key of the parent.                  *)
SameParent(l, d) == l.link = d.link /\ l.pinned = d.pinned

(* What is in memory and what is stored. Orders and pins that are made     *)
(* before a payment are in memory only.                                    *)
Docs ==
  /\ PlaceOK(local) /\ PlaceOK(disk.state)
  /\ led \in LedgerDoc /\ disk.ledger \in LedgerDoc
  /\ disk = [state |-> disk.state, ledger |-> disk.ledger]
  /\ events \subseteq {"parent", "other"}
  /\ Covers(led, disk.ledger)
  /\ "parent" \notin events => SameParent(led, disk.ledger) /\ disk.state.link = local.link
  /\ "parent" \in events => led.link = local.link /\ local.link # Lost
  /\ disk.state.link = local.link => disk.state.parent = local.parent
  /\ Bound(local, led) /\ Bound(disk.state, disk.ledger)

(* The documents of a new link are not stored before the page hears of it. *)
Ahead == "parent" \in events /\ local.link > 0 => disk.state.link # local.link

(* The number of a join is in one place at a time, and then becomes a link.*)
Unused(k) == k \in 1..joins /\ k # local.link /\ k # disk.state.link

Sent == { c \in calls : c.kind = "join" /\ c.st = "sent" }
Approvals == { f \in net : f.kind = "Approved" }

Fresh ==
  /\ \A c \in Sent : Unused(c.id) /\ \A p \in Node : node[p].queued # c.id
  /\ \A c, d \in Sent : c.id = d.id => c = d
  /\ \A c \in Sent, f \in Approvals : c.id # f.id
  /\ \A p \in Node : node[p].queued # 0 => Unused(node[p].queued)
  /\ \A p, q \in Node : node[p].queued # 0 /\ node[p].queued = node[q].queued => p = q
  /\ \A p \in Node, f \in Approvals : node[p].queued # f.id
  /\ \A f \in Approvals : Unused(f.id)
  /\ \A f, g \in Approvals : f.id = g.id => f = g

(* A node knows of a link with the number k, or the wallet will hear or    *)
(* could have heard that it does not.                                      *)
Known(p, k) ==
  \/ node[p].listed # 0
  \/ \E x \in aux.lapsed : x[1] = p /\ k <= x[2]
  \/ \E f \in net : f.kind = "Detach" /\ f.from = p /\ k <= f.id
  \/ \E c \in calls : c.kind = "leave" /\ c.to = p

Links ==
  /\ Attached(local) => Known(local.parent, local.link)
  /\ \A f \in Approvals : on_join_approved_ok(local, f) => Known(f.from, f.id)

(* The wallet is told of the present epoch of p, or could have been.       *)
Told(p) ==
  \/ \E f \in net : f.kind = "Rebase" /\ f.from = p /\ f.n = node[p].epoch
  \/ <<p, node[p].epoch>> \in aux.missed

(* The guard holds a notice that was applied.                              *)
GuardUsed ==
  guard.generation # 0 => /\ guard.parent \in Node /\ guard.generation <= node[guard.parent].epoch
                          /\ <<guard.parent, guard.generation>> \in aux.used

Heard ==
  Attached(local) => /\ aux.heard <=> Stored # 0
                     /\ aux.heard => Stored = local.epoch

(* An approval under way that is outdated will be followed by a notice, or *)
(* a newer address was applied before it.                                  *)
Outdated ==
  \A f \in Approvals :
    node[f.from].listed = f.id /\ node[f.from].epoch # f.n =>
      Told(f.from) \/ <<f.from, node[f.from].epoch>> \in aux.used

Current ==
  Attached(local) /\ node[local.parent].listed = local.link =>
    local.epoch = node[local.parent].epoch \/ Told(local.parent) \/ aux.regressed

Epochs == GuardUsed /\ Heard /\ Outdated /\ Current

Commits == { c \in calls : c.kind \in {"register", "rotate"} }

(* What an attempt knows of what the node did.                             *)
CommitOK(c) ==
  /\ c.id \in 1..acts /\ c.new \in Identity /\ c.tries > 0
  /\ c.did # "nothing" <=> c.id \in node[c.to].marks
  /\ c.st \in {"sent", "Accepted", "Rejected", "Replay"}
  /\ c.st \in {"sent", "Replay"} /\ c.did # "nothing" => c.kind = "rotate" /\ c.tries > 1
  /\ c.st # "sent" => c.did # "nothing"
  /\ c.st \in {"Accepted", "Rejected"} => c.did = c.st

Verdicts ==
  /\ \A c \in Commits : CommitOK(c)
  /\ \A c, d \in Commits : c.id = d.id => c = d
  /\ \A p \in Node : \A m \in node[p].marks : m <= acts
  /\ VerdictsTrue

WalletInv == Types /\ Docs /\ Ahead /\ Fresh /\ Links /\ Epochs /\ Verdicts
-----------------------------------------------------------------------------
(***************************************************************************)
(* Lists.                                                                  *)
(***************************************************************************)
(* The sequence without its k-th element.                                  *)
LEMMA RemoveAtFacts ==
  ASSUME NEW S, NEW s \in Seq(S), NEW k \in 1..Len(s)
  PROVE  /\ RemoveAt(s, k) \in Seq(S)
         /\ Len(RemoveAt(s, k)) = Len(s) - 1
         /\ \A i \in 1..(Len(s) - 1) : RemoveAt(s, k)[i] = IF i < k THEN s[i] ELSE s[i + 1]
<1>. DEFINE n == Len(s)
            a == SubSeq(s, 1, k - 1)
            b == SubSeq(s, k + 1, n)
<1>1. n \in Nat /\ k \in Nat /\ 1 <= k /\ k <= n
  OBVIOUS
<1>2. a \in Seq(S) /\ Len(a) = k - 1 /\ \A i \in 1..(k - 1) : a[i] = s[i]
  BY <1>1
<1>3. b \in Seq(S) /\ Len(b) = n - k /\ \A i \in 1..(n - k) : b[i] = s[i + k]
  BY <1>1
<1>. HIDE DEF a, b
<1>4. /\ a \o b \in Seq(S) /\ Len(a \o b) = Len(a) + Len(b)
      /\ \A i \in 1..(Len(a) + Len(b)) : (a \o b)[i] = IF i <= Len(a) THEN a[i] ELSE b[i - Len(a)]
  BY <1>2, <1>3, ConcatProperties
<1>5. RemoveAt(s, k) = a \o b
  BY DEF RemoveAt, a, b
<1>. HIDE DEF n
<1>6. ASSUME NEW i \in 1..(n - 1)
      PROVE  (a \o b)[i] = IF i < k THEN s[i] ELSE s[i + 1]
  <2>1. CASE i < k
    <3>1. i \in 1..(k - 1) /\ i \in 1..(Len(a) + Len(b)) /\ i <= Len(a)
      BY <1>1, <1>2, <1>3, <2>1
    <3>. QED
      BY <1>2, <1>4, <2>1, <3>1
  <2>2. CASE ~(i < k)
    <3>1. i - (k - 1) \in 1..(n - k) /\ i \in 1..(Len(a) + Len(b)) /\ ~(i <= Len(a)) /\ Len(a) = k - 1
      BY <1>1, <1>2, <1>3, <2>2
    <3>2. (a \o b)[i] = b[i - (k - 1)]
      BY <1>4, <3>1
    <3>3. i - (k - 1) + k = i + 1
      BY <1>1
    <3>4. b[i - (k - 1)] = s[i + 1]
      BY <1>3, <3>1, <3>3
    <3>. QED
      BY <2>2, <3>2, <3>4
  <2>. QED
    BY <2>1, <2>2
<1>7. Len(a \o b) = n - 1
  BY <1>1, <1>2, <1>3, <1>4
<1>. QED
  BY <1>4, <1>5, <1>6, <1>7 DEF n

LEMMA ListType ==
  ASSUME NEW S, NEW max, NEW s \in List(S, max)
  PROVE  /\ s \in Seq(S) /\ Len(s) \in Nat /\ Len(s) <= max /\ DOMAIN s = 1..Len(s)
         /\ \A i \in 1..Len(s) : s[i] \in S
         /\ \A i, j \in 1..Len(s) : s[i].id = s[j].id => i = j
<1>1. s \in Seq(S) /\ Len(s) <= max /\ Distinct(s)
  BY DEF List
<1>. QED
  BY <1>1, LenProperties, ElementOfSeq DEF Distinct

LEMMA ListMake ==
  ASSUME NEW S, NEW max, NEW s \in Seq(S), Len(s) <= max,
         \A i, j \in 1..Len(s) : s[i].id = s[j].id => i = j
  PROVE  s \in List(S, max)
BY DEF List, Distinct

LEMMA EmptyList ==
  ASSUME NEW S, NEW max \in Nat
  PROVE  << >> \in List(S, max)
BY DEF List, Distinct

(* The entry of an id is the only one with that id.                        *)
LEMMA EntryFacts ==
  ASSUME NEW S, NEW max, NEW s \in List(S, max)
  PROVE  /\ \A n : Listed(s, n) => /\ Place(s, n) \in 1..Len(s) /\ s[Place(s, n)].id = n
                                  /\ EntryOf(s, n) \in S /\ EntryOf(s, n).id = n
         /\ \A i \in 1..Len(s) : Listed(s, s[i].id) /\ EntryOf(s, s[i].id) = s[i]
<1>1. /\ s \in Seq(S) /\ DOMAIN s = 1..Len(s)
      /\ \A i \in 1..Len(s) : s[i] \in S
      /\ \A i, j \in 1..Len(s) : s[i].id = s[j].id => i = j
  BY ListType
<1>2. ASSUME NEW n, Listed(s, n)
      PROVE  /\ Place(s, n) \in 1..Len(s) /\ s[Place(s, n)].id = n
             /\ EntryOf(s, n) \in S /\ EntryOf(s, n).id = n
  <2>1. \E i \in DOMAIN s : s[i].id = n
    BY <1>2 DEF Listed
  <2>2. Place(s, n) \in DOMAIN s /\ s[Place(s, n)].id = n
    BY <2>1, Zenon DEF Place
  <2>. QED
    BY <1>1, <2>2 DEF EntryOf
<1>3. ASSUME NEW i \in 1..Len(s)
      PROVE  Listed(s, s[i].id) /\ EntryOf(s, s[i].id) = s[i]
  <2>1. Listed(s, s[i].id)
    BY <1>1 DEF Listed
  <2>2. Place(s, s[i].id) = i
    BY <1>1, <1>2, <2>1
  <2>. QED
    BY <2>1, <2>2 DEF EntryOf
<1>. QED
  BY <1>2, <1>3

(* Every row of r is a row of s.                                           *)
Rows(r, s) == \A i \in 1..Len(r) : \E j \in 1..Len(s) : r[i] = s[j]

LEMMA RowsKeep ==
  ASSUME NEW S, NEW max, NEW T, NEW lim, NEW r \in List(S, max), NEW s \in List(T, lim), Rows(r, s), NEW n,
         Listed(r, n)
  PROVE  Listed(s, n) /\ EntryOf(r, n) = EntryOf(s, n)
<1>1. Place(r, n) \in 1..Len(r) /\ r[Place(r, n)].id = n
  BY EntryFacts
<1>2. PICK j \in 1..Len(s) : r[Place(r, n)] = s[j]
  BY <1>1 DEF Rows
<1>3. Listed(s, s[j].id) /\ EntryOf(s, s[j].id) = s[j]
  BY EntryFacts
<1>. QED
  BY <1>1, <1>2, <1>3 DEF EntryOf

LEMMA WithoutFacts ==
  ASSUME NEW S, NEW max \in Nat, NEW s \in List(S, max), NEW n
  PROVE  /\ Without(s, n) \in List(S, max) /\ Rows(Without(s, n), s) /\ ~Listed(Without(s, n), n)
         /\ s = << >> => Without(s, n) = << >>
<1>1. /\ s \in Seq(S) /\ DOMAIN s = 1..Len(s) /\ Len(s) \in Nat /\ Len(s) <= max
      /\ \A i, j \in 1..Len(s) : s[i].id = s[j].id => i = j
  BY ListType
<1>2. CASE ~Listed(s, n)
  BY <1>2 DEF Without, Rows
<1>3. CASE Listed(s, n)
  <2>. DEFINE k == Place(s, n)
              r == RemoveAt(s, k)
  <2>1. k \in 1..Len(s) /\ s[k].id = n
    BY <1>3, EntryFacts
  <2>. HIDE DEF k
  <2>2. /\ r \in Seq(S) /\ Len(r) = Len(s) - 1
        /\ \A i \in 1..(Len(s) - 1) : r[i] = IF i < k THEN s[i] ELSE s[i + 1]
    BY <1>1, <2>1, RemoveAtFacts
  <2>. HIDE DEF r
  <2>3. Without(s, n) = r
    BY <1>3 DEF Without, r, k
  <2>4. \A i \in 1..Len(r) : \E j \in 1..Len(s) : r[i] = s[j] /\ j # k /\ j = IF i < k THEN i ELSE i + 1
    <3>1. TAKE i \in 1..Len(r)
    <3>2. CASE i < k
      BY <1>1, <2>1, <2>2, <3>2
    <3>3. CASE ~(i < k)
      <4>1. i + 1 \in 1..Len(s) /\ r[i] = s[i + 1] /\ i + 1 # k
        BY <1>1, <2>1, <2>2, <3>3
      <4>. QED
        BY <3>3, <4>1
    <3>. QED
      BY <3>2, <3>3
  <2>5. \A i, j \in 1..Len(r) : r[i].id = r[j].id => i = j
    <3>1. TAKE i, j \in 1..Len(r)
    <3>2. PICK a \in 1..Len(s) : r[i] = s[a] /\ a = IF i < k THEN i ELSE i + 1
      BY <2>4
    <3>3. PICK b \in 1..Len(s) : r[j] = s[b] /\ b = IF j < k THEN j ELSE j + 1
      BY <2>4
    <3>4. r[i].id = r[j].id => a = b
      BY <1>1, <3>2, <3>3
    <3>. QED
      BY <2>1, <3>2, <3>3, <3>4
  <2>6. r \in List(S, max)
    <3>1. Len(r) <= max
      BY <1>1, <2>2
    <3>. QED
      BY <2>2, <2>5, <3>1, ListMake
  <2>7. ~Listed(r, n)
    <3>1. SUFFICES ASSUME NEW i \in DOMAIN r, r[i].id = n PROVE FALSE
      BY DEF Listed
    <3>2. i \in 1..Len(r)
      BY <2>2
    <3>. QED
      BY <1>1, <2>1, <2>4, <3>1, <3>2
  <2>8. Rows(r, s)
    BY <2>4 DEF Rows
  <2>9. s # << >>
    BY <1>3 DEF Listed
  <2>. QED
    BY <2>3, <2>6, <2>7, <2>8, <2>9
<1>. QED
  BY <1>2, <1>3

(* An entry with a new id comes last, and may push out the first one.      *)
LEMMA LastNFacts ==
  ASSUME NEW S, NEW max \in Nat, NEW s \in List(S, max), NEW x \in S, ~Listed(s, x.id)
  PROVE  LET t == Append(s, x)
             r == LastN(t, max)
         IN  /\ r \in List(S, max)
             /\ \A i \in 1..Len(r) : r[i] = x \/ \E j \in 1..Len(s) : r[i] = s[j]
<1>. DEFINE t == Append(s, x)
            r == LastN(t, max)
<1>1. /\ s \in Seq(S) /\ DOMAIN s = 1..Len(s) /\ Len(s) \in Nat /\ Len(s) <= max
      /\ \A i, j \in 1..Len(s) : s[i].id = s[j].id => i = j
  BY ListType
<1>2. /\ t \in Seq(S) /\ Len(t) = Len(s) + 1 /\ t[Len(s) + 1] = x
      /\ \A i \in 1..Len(s) : t[i] = s[i]
  BY <1>1, AppendProperties
<1>. HIDE DEF t
<1>3. \A i \in 1..Len(s) : s[i].id # x.id
  BY <1>1 DEF Listed
<1>4. \A i, j \in 1..Len(t) : t[i].id = t[j].id => i = j
  <2>1. TAKE i, j \in 1..Len(t)
  <2>2. i \in 1..Len(s) \/ i = Len(s) + 1
    BY <1>1, <1>2
  <2>3. j \in 1..Len(s) \/ j = Len(s) + 1
    BY <1>1, <1>2
  <2>. QED
    BY <1>1, <1>2, <1>3, <2>2, <2>3
<1>5. \A i \in 1..Len(t) : t[i] = x \/ \E j \in 1..Len(s) : t[i] = s[j]
  <2>1. TAKE i \in 1..Len(t)
  <2>2. i \in 1..Len(s) \/ i = Len(s) + 1
    BY <1>1, <1>2
  <2>. QED
    BY <1>2, <2>2
<1>6. CASE ~(Len(t) > max)
  <2>1. Len(t) <= max
    BY <1>1, <1>2, <1>6
  <2>2. t \in List(S, max)
    BY <1>2, <1>4, <2>1, ListMake
  <2>. QED
    BY <1>5, <1>6, <2>2 DEF LastN, t
<1>7. CASE Len(t) > max
  <2>. DEFINE u == Tail(t)
  <2>1. t # << >>
    BY <1>1, <1>2
  <2>2. u \in Seq(S) /\ Len(u) = Len(t) - 1 /\ \A i \in 1..Len(u) : u[i] = t[i + 1]
    BY <1>2, <2>1, HeadTailProperties
  <2>. HIDE DEF u
  <2>3. r = u
    BY <1>7 DEF LastN, u
  <2>4. \A i \in 1..Len(u) : i + 1 \in 1..Len(t) /\ u[i] = t[i + 1]
    BY <1>1, <1>2, <2>2
  <2>5. \A i, j \in 1..Len(u) : u[i].id = u[j].id => i = j
    <3>1. TAKE i, j \in 1..Len(u)
    <3>2. i + 1 = j + 1 => i = j
      OBVIOUS
    <3>. QED
      BY <1>4, <2>4, <3>2
  <2>6. Len(u) <= max
    BY <1>1, <1>2, <2>2
  <2>7. u \in List(S, max)
    BY <2>2, <2>5, <2>6, ListMake
  <2>8. \A i \in 1..Len(u) : u[i] = x \/ \E j \in 1..Len(s) : u[i] = s[j]
    BY <1>5, <2>4
  <2>. QED
    BY <2>3, <2>7, <2>8 DEF t
<1>. QED
  BY <1>6, <1>7

LEMMA PutFacts ==
  ASSUME NEW S, NEW max \in Nat, NEW s \in List(S, max), NEW x \in S
  PROVE  /\ Put(s, x, max) \in List(S, max)
         /\ Listed(Put(s, x, max), x.id) => EntryOf(Put(s, x, max), x.id) = x
         /\ \A n : n # x.id /\ Listed(Put(s, x, max), n) =>
              Listed(s, n) /\ EntryOf(Put(s, x, max), n) = EntryOf(s, n)
<1>. DEFINE r == Put(s, x, max)
<1>1. /\ s \in Seq(S) /\ DOMAIN s = 1..Len(s) /\ Len(s) \in Nat /\ Len(s) <= max
      /\ \A i \in 1..Len(s) : s[i] \in S
      /\ \A i, j \in 1..Len(s) : s[i].id = s[j].id => i = j
  BY ListType
<1>2. r \in List(S, max) /\ \A i \in 1..Len(r) : r[i] = x \/ \E j \in 1..Len(s) : r[i] = s[j] /\ s[j].id # x.id
  <2>1. CASE ~Listed(s, x.id)
    <3>1. \A i \in 1..Len(s) : s[i].id # x.id
      BY <1>1, <2>1 DEF Listed
    <3>2. r = LastN(Append(s, x), max)
      BY <2>1 DEF Put
    <3>. QED
      BY <2>1, <3>1, <3>2, LastNFacts
  <2>2. CASE Listed(s, x.id)
    <3>. DEFINE u == [ i \in 1..Len(s) |-> IF s[i].id = x.id THEN x ELSE s[i] ]
    <3>1. r = u
      BY <1>1, <2>2 DEF Put
    <3>2. u \in Seq(S) /\ Len(u) = Len(s)
      BY <1>1
    <3>3. \A i \in 1..Len(s) : u[i] = (IF s[i].id = x.id THEN x ELSE s[i]) /\ u[i].id = s[i].id
      OBVIOUS
    <3>. HIDE DEF u
    <3>4. u \in List(S, max)
      <4>1. \A i, j \in 1..Len(u) : u[i].id = u[j].id => i = j
        BY <1>1, <3>2, <3>3
      <4>2. Len(u) <= max
        BY <1>1, <3>2
      <4>. QED
        BY <3>2, <4>1, <4>2, ListMake
    <3>5. \A i \in 1..Len(u) : u[i] = x \/ \E j \in 1..Len(s) : u[i] = s[j] /\ s[j].id # x.id
      BY <3>2, <3>3
    <3>. QED
      BY <3>1, <3>4, <3>5
  <2>. QED
    BY <2>1, <2>2
<1>. HIDE DEF r
<1>3. ASSUME Listed(r, x.id)
      PROVE  EntryOf(r, x.id) = x
  <2>1. Place(r, x.id) \in 1..Len(r) /\ r[Place(r, x.id)].id = x.id
    BY <1>2, <1>3, EntryFacts
  <2>. QED
    BY <1>2, <2>1 DEF EntryOf
<1>4. ASSUME NEW n, n # x.id, Listed(r, n)
      PROVE  Listed(s, n) /\ EntryOf(r, n) = EntryOf(s, n)
  <2>1. Place(r, n) \in 1..Len(r) /\ r[Place(r, n)].id = n
    BY <1>2, <1>4, EntryFacts
  <2>2. PICK j \in 1..Len(s) : r[Place(r, n)] = s[j]
    BY <1>2, <1>4, <2>1
  <2>3. Listed(s, s[j].id) /\ EntryOf(s, s[j].id) = s[j]
    BY EntryFacts
  <2>. QED
    BY <2>1, <2>2, <2>3 DEF EntryOf
<1>. QED
  BY <1>2, <1>3, <1>4 DEF r

LEMMA ConfirmedFacts ==
  ASSUME NEW s \in List(PinRow, MAX_PINNED_LEAF_KEYS), NEW n
  PROVE  LET r == Confirmed(s, n)
         IN  /\ r \in List(PinRow, MAX_PINNED_LEAF_KEYS)
             /\ \A m : Listed(r, m) => Listed(s, m) /\ EntryOf(r, m).key = EntryOf(s, m).key
<1>. DEFINE S == PinRow
            max == MAX_PINNED_LEAF_KEYS
            r == Confirmed(s, n)
<1>1. /\ s \in Seq(S) /\ DOMAIN s = 1..Len(s) /\ Len(s) \in Nat /\ Len(s) <= max
      /\ \A i \in 1..Len(s) : s[i] \in S
      /\ \A i, j \in 1..Len(s) : s[i].id = s[j].id => i = j
  BY ListType
<1>2. r = [ i \in 1..Len(s) |-> IF s[i].id = n THEN PinnedLeafKey(n, s[i].key, "Confirmed") ELSE s[i] ]
  BY <1>1 DEF Confirmed
<1>3. \A i \in 1..Len(s) : r[i] \in S /\ r[i].id = s[i].id /\ r[i].key = s[i].key
  BY <1>1, <1>2 DEF PinRow, PinnedLeafKey, Trust
<1>4. r \in Seq(S) /\ Len(r) = Len(s)
  BY <1>1, <1>2, <1>3
<1>. HIDE DEF r, S
<1>5. r \in List(S, max)
  BY <1>1, <1>3, <1>4, ListMake
<1>6. ASSUME NEW m, Listed(r, m)
      PROVE  Listed(s, m) /\ EntryOf(r, m).key = EntryOf(s, m).key
  <2>1. Place(r, m) \in 1..Len(r) /\ r[Place(r, m)].id = m
    BY <1>5, <1>6, EntryFacts
  <2>2. s \in List(S, max)
    BY DEF S
  <2>3. \A i \in 1..Len(s) : Listed(s, s[i].id) /\ EntryOf(s, s[i].id) = s[i]
    BY <2>2, EntryFacts
  <2>. QED
    BY <1>3, <1>4, <2>1, <2>3 DEF EntryOf
<1>. QED
  BY <1>5, <1>6 DEF r, S

-----------------------------------------------------------------------------
(***************************************************************************)
(* Ledger documents.                                                       *)
(***************************************************************************)

(* A document that is l as far as the parent is concerned.                 *)
Kept(l, r) ==
  /\ r \in LedgerDoc
  /\ r.link = l.link /\ r.pinned = l.pinned /\ r.balance = l.balance /\ r.pending = l.pending

(* No pinned key of l is another one in r.                                 *)
PinsKept(l, r) ==
  \A q \in Node : pinned_leaf_key(l, q) # Nil => pinned_leaf_key(r, q) \in {Nil, pinned_leaf_key(l, q)}

(* The same, but for a key that was presented.                             *)
PinsShown(l, r) ==
  \A q \in Node : pinned_leaf_key(l, q) # Nil /\ pinned_leaf_key(r, q) \notin {Nil, pinned_leaf_key(l, q)} =>
    pinned_leaf_key(r, q) = presented_key(l, q)

(* What the answers of the parent p do to a document.                      *)
Answered(l, r, p) ==
  /\ r \in LedgerDoc /\ r.link = l.link
  /\ l.pinned # Nil => r.pinned = l.pinned
  /\ r.balance = l.balance \/ r.balance.of = p
  /\ l.pending = << >> => r.pending = << >>
  /\ PinsKept(l, r)

(* What the user may decide about keys.                                    *)
Decided(l, r, p) ==
  /\ r \in LedgerDoc /\ r.link = l.link /\ r.balance = l.balance /\ r.pending = l.pending
  /\ r.pinned \in {l.pinned, presented_key(l, p)}
  /\ PinsShown(l, r)

LEMMA KeyNil == Nil \in Keys
BY DEF Keys

LEMMA DocType ==
  ASSUME NEW l \in LedgerDoc
  PROVE  /\ l.pinned \in Keys /\ l.trust \in Trust /\ l.balance \in Balance /\ l.link \in Int
         /\ l.pending \in List(PendRow, MAX_PENDING_ORDERS)
         /\ l.leaves \in List(PinRow, MAX_PINNED_LEAF_KEYS)
         /\ l.changes \in List(ChangeRow, MAX_LEAF_KEY_CHANGES)
         /\ l.settlements \in List(SettleRow, MAX_SETTLEMENT_RECORDS)
BY DEF LedgerDoc

LEMMA PinType ==
  ASSUME NEW l \in LedgerDoc, NEW q
  PROVE  pinned_leaf_key(l, q) \in Keys /\ presented_key(l, q) \in Keys
<1>1. Listed(l.leaves, q) => EntryOf(l.leaves, q) \in PinRow
  BY DocType, EntryFacts
<1>2. Listed(l.changes, q) => EntryOf(l.changes, q) \in ChangeRow
  BY DocType, EntryFacts
<1>. QED
  BY <1>1, <1>2, KeyNil DEF pinned_leaf_key, presented_key, PinRow, ChangeRow

LEMMA SameLeaves ==
  ASSUME NEW l, NEW r, r.leaves = l.leaves
  PROVE  PinsKept(l, r)
BY DEF PinsKept, pinned_leaf_key

LEMMA RecordChange ==
  ASSUME NEW l \in LedgerDoc, NEW n \in Node, NEW a \in Keys, NEW b \in Keys
  PROVE  LET r == record_leaf_key_change(l, n, a, b) IN Kept(l, r) /\ r.leaves = l.leaves
<1>. DEFINE c == Put(l.changes, LeafKeyChange(n, a, b), MAX_LEAF_KEY_CHANGES)
<1>1. c \in List(ChangeRow, MAX_LEAF_KEY_CHANGES)
  <2>1. LeafKeyChange(n, a, b) \in ChangeRow
    BY DEF LeafKeyChange, ChangeRow
  <2>2. MAX_LEAF_KEY_CHANGES \in Nat
    BY LimitAssumption
  <2>. QED
    BY <2>1, <2>2, DocType, PutFacts
<1>2. record_leaf_key_change(l, n, a, b) = [l EXCEPT !.changes = c]
  BY DEF record_leaf_key_change
<1>. HIDE DEF c
<1>. QED
  BY <1>1, <1>2 DEF Kept, LedgerDoc

LEMMA ClearChange ==
  ASSUME NEW l \in LedgerDoc, NEW n
  PROVE  LET r == clear_leaf_key_changes(l, n)
         IN  Kept(l, r) /\ r.leaves = l.leaves /\ presented_key(r, n) = Nil
<1>. DEFINE c == Without(l.changes, n)
<1>1. c \in List(ChangeRow, MAX_LEAF_KEY_CHANGES) /\ ~Listed(c, n)
  <2>1. MAX_LEAF_KEY_CHANGES \in Nat
    BY LimitAssumption
  <2>. QED
    BY <2>1, DocType, WithoutFacts
<1>2. clear_leaf_key_changes(l, n) = [l EXCEPT !.changes = c]
  BY DEF clear_leaf_key_changes
<1>. HIDE DEF c
<1>3. clear_leaf_key_changes(l, n).changes = c
  BY <1>2 DEF LedgerDoc
<1>4. presented_key(clear_leaf_key_changes(l, n), n) = Nil
  BY <1>1, <1>3 DEF presented_key
<1>. QED
  BY <1>1, <1>2, <1>4 DEF Kept, LedgerDoc

LEMMA RecordSettlement ==
  ASSUME NEW l \in LedgerDoc, NEW o \in Nat, NEW st \in {"none", "rejected", "applied", "unverified"}
  PROVE  LET r == record_settlement(l, o, st) IN Kept(l, r) /\ r.leaves = l.leaves
<1>. DEFINE c == Put(l.settlements, [id |-> o, state |-> st], MAX_SETTLEMENT_RECORDS)
<1>1. c \in List(SettleRow, MAX_SETTLEMENT_RECORDS)
  <2>1. [id |-> o, state |-> st] \in SettleRow
    BY DEF SettleRow
  <2>2. MAX_SETTLEMENT_RECORDS \in Nat
    BY LimitAssumption
  <2>. QED
    BY <2>1, <2>2, DocType, PutFacts
<1>2. record_settlement(l, o, st) = [l EXCEPT !.settlements = c]
  BY DEF record_settlement
<1>. HIDE DEF c
<1>. QED
  BY <1>1, <1>2 DEF Kept, LedgerDoc

LEMMA SetLeafKey ==
  ASSUME NEW l \in LedgerDoc, NEW n \in Node, NEW k \in Keys, NEW t \in Trust
  PROVE  LET r == set_leaf_key(l, n, k, t)
         IN  /\ Kept(l, r)
             /\ pinned_leaf_key(r, n) \in {Nil, k}
             /\ \A q : q # n => pinned_leaf_key(r, q) \in {Nil, pinned_leaf_key(l, q)}
<1>. DEFINE x == PinnedLeafKey(n, k, t)
            c == Put(l.leaves, x, MAX_PINNED_LEAF_KEYS)
            r == set_leaf_key(l, n, k, t)
<1>0. x \in PinRow /\ x.id = n /\ x.key = k
  BY DEF PinnedLeafKey, PinRow
<1>. HIDE DEF x
<1>1. /\ c \in List(PinRow, MAX_PINNED_LEAF_KEYS)
      /\ Listed(c, n) => EntryOf(c, n) = x
      /\ \A q : q # n /\ Listed(c, q) => Listed(l.leaves, q) /\ EntryOf(c, q) = EntryOf(l.leaves, q)
  <2>2. MAX_PINNED_LEAF_KEYS \in Nat
    BY LimitAssumption
  <2>. QED
    BY <1>0, <2>2, DocType, PutFacts
<1>2. r = [l EXCEPT !.leaves = c]
  BY DEF set_leaf_key, x
<1>. HIDE DEF c, r
<1>3. Kept(l, r) /\ r.leaves = c
  BY <1>1, <1>2 DEF Kept, LedgerDoc
<1>4. pinned_leaf_key(r, n) \in {Nil, k}
  BY <1>0, <1>1, <1>3 DEF pinned_leaf_key
<1>5. \A q : q # n => pinned_leaf_key(r, q) \in {Nil, pinned_leaf_key(l, q)}
  BY <1>1, <1>3 DEF pinned_leaf_key
<1>. QED
  BY <1>3, <1>4, <1>5 DEF r

LEMMA ConfirmLeafPin ==
  ASSUME NEW l \in LedgerDoc, NEW n \in Node
  PROVE  LET r == confirm_leaf_pin(l, n) IN Kept(l, r) /\ PinsKept(l, r)
<1>. DEFINE c == Confirmed(l.leaves, n)
            v == [l EXCEPT !.leaves = c]
            r == clear_leaf_key_changes(v, n)
<1>1. /\ c \in List(PinRow, MAX_PINNED_LEAF_KEYS)
      /\ \A m : Listed(c, m) => Listed(l.leaves, m) /\ EntryOf(c, m).key = EntryOf(l.leaves, m).key
  BY DocType, ConfirmedFacts
<1>. HIDE DEF c
<1>2. Kept(l, v) /\ v.leaves = c
  BY <1>1 DEF Kept, LedgerDoc
<1>3. confirm_leaf_pin(l, n) = r
  BY DEF confirm_leaf_pin, c
<1>. HIDE DEF v
<1>4. Kept(v, r) /\ r.leaves = c
  BY <1>2, ClearChange DEF Kept
<1>. HIDE DEF r
<1>5. PinsKept(l, r)
  BY <1>1, <1>4 DEF PinsKept, pinned_leaf_key
<1>. QED
  BY <1>2, <1>3, <1>4, <1>5 DEF Kept

LEMMA VerifyReceipt ==
  ASSUME NEW l \in LedgerDoc, NEW f \in FrameSet, NEW p \in Node
  PROVE  LET r == verify_receipt(l, f, p)
         IN  /\ r \in LedgerDoc /\ r.link = l.link /\ r.balance = l.balance /\ r.pending = l.pending
             /\ r.leaves = l.leaves
             /\ l.pinned # Nil => r.pinned = l.pinned
<1>1. f.key \in Keys /\ l.pinned \in Keys
  BY DEF FrameSet, LedgerDoc
<1>. DEFINE a == [l EXCEPT !.pinned = f.key, !.trust = "Unconfirmed"]
            b == record_leaf_key_change(l, p, l.pinned, f.key)
<1>2. /\ a \in LedgerDoc /\ a.link = l.link /\ a.balance = l.balance /\ a.pending = l.pending
      /\ a.leaves = l.leaves
  BY <1>1 DEF LedgerDoc, Trust
<1>3. Kept(l, b) /\ b.leaves = l.leaves
  BY <1>1, RecordChange
<1>4. verify_receipt(l, f, p) = IF f.from # p THEN l ELSE IF l.pinned = Nil THEN a
                                ELSE IF l.pinned = f.key THEN l ELSE b
  BY DEF verify_receipt
<1>. HIDE DEF a, b
<1>. QED
  BY <1>2, <1>3, <1>4 DEF Kept

(* The balance of a receipt that counts is one of the current parent.      *)
LEMMA NewBalance ==
  ASSUME NEW f \in FrameSet, NEW p \in Node, f.from = p
  PROVE  [of |-> f.from, height |-> f.n] \in Balance /\ [of |-> f.from, height |-> f.n].of = p
BY DEF FrameSet, Balance, Peer

LEMMA ReceiptAnswered ==
  ASSUME NEW l \in LedgerDoc, NEW f \in FrameSet, NEW p \in Node
  PROVE  LET r == apply_balance_receipt(l, f, p) IN Answered(l, r, p) /\ r.leaves = l.leaves
<1>. DEFINE v == verify_receipt(l, f, p)
            b == [of |-> f.from, height |-> f.n]
            r == apply_balance_receipt(l, f, p)
            u == [v EXCEPT !.balance = b]
<1>1. /\ v \in LedgerDoc /\ v.link = l.link /\ v.balance = l.balance /\ v.pending = l.pending
      /\ v.leaves = l.leaves
      /\ l.pinned # Nil => v.pinned = l.pinned
  BY VerifyReceipt
<1>2. r = IF ~verify_receipt_ok(l, f, p) THEN v ELSE u
  BY DEF apply_balance_receipt
<1>3. verify_receipt_ok(l, f, p) => b \in Balance /\ b.of = p
  BY NewBalance DEF verify_receipt_ok
<1>. HIDE DEF v, b, r
<1>4. CASE ~verify_receipt_ok(l, f, p)
  BY <1>1, <1>2, <1>4, SameLeaves DEF Answered, r
<1>5. CASE verify_receipt_ok(l, f, p)
  <2>1. /\ u \in LedgerDoc /\ u.link = v.link /\ u.pending = v.pending /\ u.leaves = v.leaves
        /\ u.pinned = v.pinned /\ u.balance = b
    BY <1>1, <1>3, <1>5 DEF LedgerDoc
  <2>. HIDE DEF u
  <2>2. PinsKept(l, r)
    BY <1>1, <1>2, <1>5, <2>1, SameLeaves
  <2>. QED
    BY <1>1, <1>2, <1>3, <1>5, <2>1, <2>2 DEF Answered, r
<1>. QED
  BY <1>4, <1>5

LEMMA TerminalKept ==
  ASSUME NEW l \in LedgerDoc, NEW o \in Nat, NEW proof \in Proof, proof.node \in Node
  PROVE  LET r == terminal_settlement_state(l, o, proof) IN Kept(l, r) /\ PinsKept(l, r)
<1>. DEFINE was == pinned_leaf_key(l, proof.node)
            a == record_leaf_key_change(l, proof.node, was, proof.key)
            b == set_leaf_key(l, proof.node, proof.key, "Unconfirmed")
            r == terminal_settlement_state(l, o, proof)
<1>1. was \in Keys /\ proof.key \in Keys
  BY PinType DEF Proof
<1>2. Kept(l, a) /\ PinsKept(l, a)
  BY <1>1, RecordChange, SameLeaves
<1>3. /\ Kept(l, b)
      /\ \A q : q # proof.node => pinned_leaf_key(b, q) \in {Nil, pinned_leaf_key(l, q)}
  BY <1>1, SetLeafKey DEF Trust
<1>4. \E v \in {l, a, b} : \E st \in {"applied", "unverified"} :
        r = record_settlement(v, o, st) /\ (v = b => was = Nil \/ b \in {l, a})
  BY DEF terminal_settlement_state
<1>. HIDE DEF a, b, r, was
<1>5. PICK v \in {l, a, b}, st \in {"applied", "unverified"} :
        r = record_settlement(v, o, st) /\ (v = b => was = Nil \/ b \in {l, a})
  BY <1>4
<1>6. Kept(l, l) /\ PinsKept(l, l)
  BY DEF Kept, PinsKept
<1>7. was = Nil => PinsKept(l, b)
  BY <1>3 DEF PinsKept, was
<1>8. Kept(l, v) /\ PinsKept(l, v)
  BY <1>2, <1>3, <1>5, <1>6, <1>7
<1>9. Kept(v, r) /\ r.leaves = v.leaves
  <2>1. v \in LedgerDoc /\ st \in {"none", "rejected", "applied", "unverified"}
    BY <1>5, <1>8 DEF Kept
  <2>. QED
    BY <1>5, <2>1, RecordSettlement
<1>10. PinsKept(l, r)
  BY <1>8, <1>9 DEF PinsKept, pinned_leaf_key
<1>. QED
  BY <1>8, <1>9, <1>10 DEF Kept, r

LEMMA ResultAnswered ==
  ASSUME NEW l \in LedgerDoc, NEW f \in FrameSet, NEW p \in Node, f.status = "applied" => f.proof.node \in Node
  PROVE  Answered(l, apply_settlement_result(l, f, p), p)
<1>. DEFINE carried == f.n # 0
            v == IF carried THEN verify_receipt(l, f, p) ELSE l
            r == IF f.status = "applied" THEN terminal_settlement_state(v, f.id, f.proof)
                 ELSE record_settlement(v, f.id, f.status)
            pend == Without(r.pending, f.id)
            bal == IF carried THEN [of |-> f.from, height |-> f.n] ELSE r.balance
            u == [r EXCEPT !.pending = pend, !.balance = bal]
            z == apply_settlement_result(l, f, p)
<1>1. z = IF ~Listed(l.pending, f.id) THEN l ELSE IF carried /\ ~verify_receipt_ok(l, f, p) THEN v ELSE u
  BY DEF apply_settlement_result
<1>2. f.id \in Nat /\ f.proof \in Proof /\ f.status \in {"none", "rejected", "applied"}
  BY DEF FrameSet
<1>3. /\ v \in LedgerDoc /\ v.link = l.link /\ v.balance = l.balance /\ v.pending = l.pending
      /\ v.leaves = l.leaves
      /\ l.pinned # Nil => v.pinned = l.pinned
  BY VerifyReceipt
<1>4. carried /\ verify_receipt_ok(l, f, p) =>
        [of |-> f.from, height |-> f.n] \in Balance /\ [of |-> f.from, height |-> f.n].of = p
  BY NewBalance DEF verify_receipt_ok
<1>. HIDE DEF v, carried, z
<1>5. Kept(v, r) /\ PinsKept(v, r)
  BY <1>2, <1>3, TerminalKept, RecordSettlement, SameLeaves
<1>. HIDE DEF r
<1>6. r \in LedgerDoc /\ r.pending = v.pending /\ r.balance = v.balance /\ r.link = v.link /\ r.pinned = v.pinned
  BY <1>5 DEF Kept
<1>7. pend \in List(PendRow, MAX_PENDING_ORDERS) /\ (r.pending = << >> => pend = << >>)
  <2>1. MAX_PENDING_ORDERS \in Nat
    BY LimitAssumption
  <2>. QED
    BY <1>6, <2>1, DocType, WithoutFacts
<1>. HIDE DEF pend
<1>8. r.balance \in Balance
  BY <1>6 DEF LedgerDoc
<1>9. ASSUME ~(carried /\ ~verify_receipt_ok(l, f, p))
      PROVE  Answered(l, u, p)
  <2>1. bal \in Balance /\ (bal = l.balance \/ bal.of = p)
    BY <1>3, <1>4, <1>6, <1>8, <1>9
  <2>. HIDE DEF bal
  <2>2. /\ u \in LedgerDoc /\ u.link = r.link /\ u.pending = pend /\ u.leaves = r.leaves
        /\ u.pinned = r.pinned /\ u.balance = bal
    BY <1>6, <1>7, <2>1 DEF LedgerDoc
  <2>. HIDE DEF u
  <2>3. PinsKept(l, u)
    BY <1>3, <1>5, <2>2 DEF PinsKept, pinned_leaf_key
  <2>. QED
    BY <1>3, <1>6, <1>7, <2>1, <2>2, <2>3 DEF Answered
<1>10. Answered(l, l, p)
  BY DEF Answered, PinsKept
<1>11. Answered(l, v, p)
  BY <1>3, SameLeaves DEF Answered
<1>. HIDE DEF u
<1>. QED
  BY <1>1, <1>9, <1>10, <1>11 DEF z

LEMMA KeptDecided ==
  ASSUME NEW l, NEW r, NEW p, Kept(l, r), PinsKept(l, r)
  PROVE  Decided(l, r, p)
BY DEF Kept, PinsKept, Decided, PinsShown

(* The key of a receive URI takes no key from a pin.                       *)
LEMMA PinNoted ==
  ASSUME NEW l \in LedgerDoc, NEW q \in Node, NEW k \in Keys
  PROVE  LET r == pin_leaf_key_from_receive(l, q, k) IN Kept(l, r) /\ PinsKept(l, r)
<1>. DEFINE was == pinned_leaf_key(l, q)
            a == set_leaf_key(l, q, k, "Confirmed")
            b == record_leaf_key_change(l, q, was, k)
<1>1. /\ Kept(l, a) /\ pinned_leaf_key(a, q) \in {Nil, k}
      /\ \A m : m # q => pinned_leaf_key(a, m) \in {Nil, pinned_leaf_key(l, m)}
  BY SetLeafKey DEF Trust
<1>2. was \in Keys
  BY PinType
<1>3. Kept(l, b) /\ b.leaves = l.leaves
  BY <1>2, RecordChange
<1>. HIDE DEF a, b
<1>4. was \in {Nil, k} => PinsKept(l, a)
  BY <1>1 DEF PinsKept
<1>5. PinsKept(l, b)
  BY <1>3, SameLeaves
<1>6. pin_leaf_key_from_receive(l, q, k) = IF was \in {Nil, k} THEN a ELSE b
  BY DEF pin_leaf_key_from_receive, a, b
<1>. HIDE DEF was
<1>. QED
  BY <1>1, <1>3, <1>4, <1>5, <1>6

(* While the list of pins does not fill up, no pin is pushed out of it.    *)
LEMMA PutGrows ==
  ASSUME NEW S, NEW max \in Nat, NEW s \in List(S, max), NEW x \in S, Len(Put(s, x, max)) < max
  PROVE  /\ Len(s) < max
         /\ \A n : Listed(s, n) => Listed(Put(s, x, max), n)
<1>. DEFINE r == Put(s, x, max)
<1>1. s \in Seq(S) /\ DOMAIN s = 1..Len(s) /\ Len(s) \in Nat /\ Len(s) <= max
  BY ListType
<1>2. CASE Listed(s, x.id)
  <2>. DEFINE u == [ i \in 1..Len(s) |-> IF s[i].id = x.id THEN x ELSE s[i] ]
  <2>1. r = u
    BY <1>1, <1>2 DEF Put
  <2>2. DOMAIN u = 1..Len(s) /\ Len(u) = Len(s) /\ \A i \in 1..Len(s) : u[i].id = s[i].id
    BY <1>1
  <2>. HIDE DEF u, r
  <2>. QED
    BY <1>1, <2>1, <2>2 DEF Listed, r
<1>3. CASE ~Listed(s, x.id)
  <2>. DEFINE t == Append(s, x)
  <2>1. r = LastN(t, max)
    BY <1>3 DEF Put
  <2>2. /\ t \in Seq(S) /\ Len(t) = Len(s) + 1 /\ DOMAIN t = 1..Len(s) + 1
        /\ \A i \in 1..Len(s) : t[i] = s[i]
    BY <1>1, AppendProperties, LenProperties
  <2>. HIDE DEF t
  <2>3. CASE Len(t) > max
    <3>1. Len(s) = max
      <4>1. \A a, b, m \in Nat : a <= m /\ b = a + 1 /\ b > m => a = m
        OBVIOUS
      <4>2. Len(t) \in Nat
        BY <1>1, <2>2
      <4>. QED
        BY <1>1, <2>2, <2>3, <4>1, <4>2
    <3>2. Len(Tail(t)) = Len(t) - 1
      <4>1. t # << >>
        BY <1>1, <2>2, EmptySeq
      <4>. QED
        BY <2>2, <4>1, HeadTailProperties
    <3>. QED
      BY <1>1, <2>1, <2>2, <2>3, <3>1, <3>2 DEF LastN
  <2>4. CASE ~(Len(t) > max)
    <3>1. r = t
      BY <2>1, <2>4 DEF LastN
    <3>. HIDE DEF r
    <3>. QED
      BY <1>1, <2>2, <2>4, <3>1 DEF Listed, r
  <2>. QED
    BY <2>3, <2>4
<1>. QED
  BY <1>2, <1>3

LEMMA SetCovers ==
  ASSUME NEW l \in LedgerDoc, NEW d, NEW q \in Node, NEW k \in Keys, Covers(l, d),
         pinned_leaf_key(l, q) \in {Nil, k}
  PROVE  Covers(set_leaf_key(l, q, k, "Confirmed"), d)
<1>. DEFINE x == PinnedLeafKey(q, k, "Confirmed")
            c == Put(l.leaves, x, MAX_PINNED_LEAF_KEYS)
            r == set_leaf_key(l, q, k, "Confirmed")
<1>0. x \in PinRow /\ x.id = q /\ x.key = k
  BY DEF PinnedLeafKey, PinRow, Trust
<1>. HIDE DEF x
<1>1. l.leaves \in List(PinRow, MAX_PINNED_LEAF_KEYS) /\ MAX_PINNED_LEAF_KEYS \in Nat
  BY DocType, LimitAssumption
<1>2. r.leaves = c
  BY DEF set_leaf_key, LedgerDoc, x
<1>3. /\ Listed(c, q) => EntryOf(c, q) = x
      /\ \A n : n # q /\ Listed(c, n) => EntryOf(c, n) = EntryOf(l.leaves, n)
  BY <1>0, <1>1, PutFacts
<1>4. SUFFICES ASSUME Len(c) < MAX_PINNED_LEAF_KEYS, NEW n \in Node, pinned_leaf_key(d, n) # Nil
               PROVE  pinned_leaf_key(r, n) = pinned_leaf_key(d, n)
  BY <1>2 DEF Covers
<1>5. Len(l.leaves) < MAX_PINNED_LEAF_KEYS /\ (Listed(l.leaves, n) => Listed(c, n))
  BY <1>0, <1>1, <1>4, PutGrows
<1>6. pinned_leaf_key(l, n) = pinned_leaf_key(d, n)
  BY <1>4, <1>5 DEF Covers
<1>7. Listed(l.leaves, n)
  BY <1>4, <1>6 DEF pinned_leaf_key
<1>. HIDE DEF c, r
<1>8. pinned_leaf_key(r, n) = EntryOf(c, n).key
  BY <1>2, <1>5, <1>7 DEF pinned_leaf_key
<1>9. CASE n = q
  BY <1>0, <1>3, <1>4, <1>5, <1>6, <1>7, <1>8, <1>9
<1>10. CASE n # q
  BY <1>3, <1>5, <1>6, <1>7, <1>8, <1>10 DEF pinned_leaf_key
<1>. QED
  BY <1>9, <1>10

LEMMA SameCovers ==
  ASSUME NEW l, NEW r, NEW d, r.leaves = l.leaves, Covers(l, d)
  PROVE  Covers(r, d)
BY DEF Covers, pinned_leaf_key

LEMMA PinCovers ==
  ASSUME NEW l \in LedgerDoc, NEW d, NEW q \in Node, NEW k \in Keys, Covers(l, d)
  PROVE  Covers(pin_leaf_key_from_receive(l, q, k), d)
<1>. DEFINE was == pinned_leaf_key(l, q)
            b == record_leaf_key_change(l, q, was, k)
<1>1. was \in Keys
  BY PinType
<1>2. b.leaves = l.leaves
  BY <1>1, RecordChange
<1>. HIDE DEF b
<1>3. Covers(b, d)
  BY <1>2, SameCovers
<1>4. was \in {Nil, k} => Covers(set_leaf_key(l, q, k, "Confirmed"), d)
  BY SetCovers
<1>. QED
  BY <1>3, <1>4 DEF pin_leaf_key_from_receive, b

LEMMA ConfirmDecided ==
  ASSUME NEW l \in LedgerDoc, NEW q \in Node, NEW p
  PROVE  Decided(l, confirm_leaf_pin(IF q = p THEN confirm_pinned_ledger(l, q) ELSE l, q), p)
<1>. DEFINE c == IF l.pinned = Nil THEN l ELSE [l EXCEPT !.trust = "Confirmed"]
            v == confirm_pinned_ledger(l, q)
            w == IF q = p THEN v ELSE l
            r == confirm_leaf_pin(w, q)
<1>1. Kept(l, c) /\ c.leaves = l.leaves
  BY DEF Kept, LedgerDoc, Trust
<1>2. v = clear_leaf_key_changes(c, q)
  BY DEF confirm_pinned_ledger
<1>. HIDE DEF c, v
<1>3. Kept(c, v) /\ v.leaves = c.leaves
  <2>1. c \in LedgerDoc
    BY <1>1 DEF Kept
  <2>. QED
    BY <1>2, <2>1, ClearChange
<1>4. Kept(l, w) /\ w.leaves = l.leaves
  BY <1>1, <1>3 DEF Kept
<1>. HIDE DEF w
<1>5. Kept(w, r) /\ PinsKept(w, r)
  <2>1. w \in LedgerDoc
    BY <1>4 DEF Kept
  <2>. QED
    BY <2>1, ConfirmLeafPin
<1>. HIDE DEF r
<1>6. Kept(l, r) /\ PinsKept(l, r)
  BY <1>4, <1>5 DEF Kept, PinsKept, pinned_leaf_key
<1>. QED
  BY <1>6, KeptDecided DEF r, w, v

LEMMA AcceptLeafKey ==
  ASSUME NEW l \in LedgerDoc, NEW q \in Node
  PROVE  LET r == accept_leaf_key_change(l, q)
         IN  /\ Kept(l, r) /\ PinsShown(l, r)
             /\ presented_key(l, q) = Nil => r = l
<1>. DEFINE k == presented_key(l, q)
            v == set_leaf_key(l, q, k, "Confirmed")
            w == clear_leaf_key_changes(v, q)
            r == accept_leaf_key_change(l, q)
<1>1. /\ Kept(l, v) /\ pinned_leaf_key(v, q) \in {Nil, k}
      /\ \A m : m # q => pinned_leaf_key(v, m) \in {Nil, pinned_leaf_key(l, m)}
  <2>1. k \in Keys
    BY PinType
  <2>. QED
    BY <2>1, SetLeafKey DEF Trust
<1>2. r = IF k = Nil THEN l ELSE w
  BY DEF accept_leaf_key_change
<1>. HIDE DEF v, k, r
<1>3. Kept(v, w) /\ w.leaves = v.leaves
  <2>1. v \in LedgerDoc
    BY <1>1 DEF Kept
  <2>. QED
    BY <2>1, ClearChange
<1>. HIDE DEF w
<1>4. \A m : pinned_leaf_key(w, m) = pinned_leaf_key(v, m)
  BY <1>3 DEF pinned_leaf_key
<1>5. PinsShown(l, w)
  BY <1>1, <1>4 DEF PinsShown, k
<1>6. PinsShown(l, l)
  BY DEF PinsShown
<1>. QED
  BY <1>1, <1>2, <1>3, <1>5, <1>6 DEF Kept, r, k

LEMMA AcceptDecided ==
  ASSUME NEW l \in LedgerDoc, NEW q \in Node, NEW p
  PROVE  Decided(l, accept_leaf_key_change(IF q = p THEN accept_pinned_ledger_change(l, q) ELSE l, q), p)
<1>1. CASE q # p
  BY <1>1, AcceptLeafKey DEF Decided, Kept
<1>2. CASE q = p
  <2>. DEFINE k == presented_key(l, p)
              v == [l EXCEPT !.pinned = k, !.trust = "Confirmed"]
              w == clear_leaf_key_changes(v, p)
              u == accept_pinned_ledger_change(l, p)
              r == accept_leaf_key_change(u, p)
  <2>1. u = IF k = Nil THEN l ELSE w
    BY DEF accept_pinned_ledger_change
  <2>2. k \in Keys
    BY PinType
  <2>. HIDE DEF k
  <2>3. /\ v \in LedgerDoc /\ v.link = l.link /\ v.balance = l.balance /\ v.pending = l.pending
        /\ v.pinned = k /\ v.leaves = l.leaves
    BY <2>2 DEF LedgerDoc, Trust
  <2>. HIDE DEF v
  <2>4. Kept(v, w) /\ w.leaves = v.leaves /\ presented_key(w, p) = Nil
    BY <2>3, ClearChange
  <2>. HIDE DEF w, u
  <2>5. u \in LedgerDoc /\ presented_key(u, p) = Nil
    BY <2>1, <2>4 DEF Kept, k
  <2>6. r = u
    BY <1>2, <2>5, AcceptLeafKey
  <2>7. PinsShown(l, u)
    BY <2>1, <2>3, <2>4 DEF PinsShown, pinned_leaf_key
  <2>8. Decided(l, u, p)
    BY <2>1, <2>3, <2>4, <2>7 DEF Decided, Kept, k
  <2>. QED
    BY <1>2, <2>6, <2>8 DEF u
<1>. QED
  BY <1>1, <1>2

LEMMA PushPending ==
  ASSUME NEW l \in LedgerDoc, NEW o \in Nat, ~Listed(l.pending, o)
  PROVE  LET r == push_pending(l, o)
         IN  /\ r \in LedgerDoc /\ r.link = l.link /\ r.pinned = l.pinned /\ r.balance = l.balance
             /\ r.leaves = l.leaves
<1>. DEFINE c == LastN(Append(l.pending, [id |-> o]), MAX_PENDING_ORDERS)
<1>1. c \in List(PendRow, MAX_PENDING_ORDERS)
  <2>1. [id |-> o] \in PendRow /\ [id |-> o].id = o
    BY DEF PendRow
  <2>2. MAX_PENDING_ORDERS \in Nat
    BY LimitAssumption
  <2>. QED
    BY <2>1, <2>2, DocType, LastNFacts
<1>2. push_pending(l, o) = [l EXCEPT !.pending = c]
  BY DEF push_pending
<1>. HIDE DEF c
<1>. QED
  BY <1>1, <1>2 DEF LedgerDoc

LEMMA EmptyLists ==
  /\ << >> \in List(PendRow, MAX_PENDING_ORDERS) /\ << >> \in List(PinRow, MAX_PINNED_LEAF_KEYS)
  /\ << >> \in List(ChangeRow, MAX_LEAF_KEY_CHANGES) /\ << >> \in List(SettleRow, MAX_SETTLEMENT_RECORDS)
BY EmptyList, LimitAssumption

LEMMA NoBalanceType == NoBalance \in Balance
BY DEF NoBalance, Balance, Peer

(* A document bound to a new parent, or to none.                           *)
LEMMA Rebound ==
  ASSUME NEW l \in LedgerDoc, NEW k \in Keys, NEW n \in Int
  PROVE  \A r \in {[rebind_parent(l, k) EXCEPT !.link = n], [clear_parent_binding(l) EXCEPT !.link = n]} :
           /\ r \in LedgerDoc /\ r.link = n /\ r.balance = NoBalance /\ r.pending = << >>
           /\ r.leaves = l.leaves
<1>. DEFINE a == [rebind_parent(l, k) EXCEPT !.link = n]
            b == [clear_parent_binding(l) EXCEPT !.link = n]
<1>1. a = [l EXCEPT !.pinned = k, !.trust = "Confirmed", !.balance = NoBalance, !.pending = << >>, !.link = n]
  BY DEF rebind_parent, LedgerDoc
<1>2. b = [l EXCEPT !.pinned = Nil, !.trust = "Unconfirmed", !.balance = NoBalance, !.pending = << >>, !.link = n]
  BY DEF clear_parent_binding, LedgerDoc
<1>. HIDE DEF a, b
<1>3. /\ a \in LedgerDoc /\ a.link = n /\ a.balance = NoBalance /\ a.pending = << >>
      /\ a.leaves = l.leaves
  BY <1>1, EmptyLists, NoBalanceType DEF LedgerDoc, Trust
<1>4. /\ b \in LedgerDoc /\ b.link = n /\ b.balance = NoBalance /\ b.pending = << >>
      /\ b.leaves = l.leaves
  BY <1>2, EmptyLists, NoBalanceType, KeyNil DEF LedgerDoc, Trust
<1>. QED
  BY <1>3, <1>4 DEF a, b

LEMMA FreshDoc ==
  ASSUME NEW n \in Int
  PROVE  LET r == [LedgerState EXCEPT !.link = n]
         IN  /\ LedgerState \in LedgerDoc /\ r \in LedgerDoc
             /\ r.link = n /\ r.balance = NoBalance /\ r.pending = << >> /\ r.leaves = << >> /\ r.pinned = Nil
<1>1. LedgerState \in LedgerDoc
  BY EmptyLists, NoBalanceType, KeyNil DEF LedgerDoc, LedgerState, Trust
<1>. QED
  BY <1>1 DEF LedgerDoc, LedgerState

-----------------------------------------------------------------------------
(***************************************************************************)
(* Addresses and keys.                                                     *)
(***************************************************************************)
LEMMA AddressFacts ==
  ASSUME NEW p \in Node, NEW e \in 1..Len(PrefixOf[p])
  PROVE  AddressIn(p, e) \in Seq(Slot) /\ AddressIn(p, e) # None /\ slot(AddressIn(p, e)) = SlotAt[p]
<1>1. SlotAt[p] \in Slot /\ PrefixOf[p] \in Seq(OctAddr)
  BY NodeAssumption
<1>2. PrefixOf[p][e] \in OctAddr
  BY <1>1, ElementOfSeq
<1>3. PrefixOf[p][e] \in Seq(Slot)
  BY <1>2 DEF OctAddr
<1>. DEFINE a == PrefixOf[p][e]
<1>. HIDE DEF a
<1>4. a \in Seq(Slot)
  BY <1>3 DEF a
<1>5. /\ Append(a, SlotAt[p]) \in Seq(Slot) /\ Len(Append(a, SlotAt[p])) = Len(a) + 1
      /\ Append(a, SlotAt[p])[Len(a) + 1] = SlotAt[p] /\ Len(a) \in Nat
  BY <1>1, <1>4, AppendProperties, LenProperties
<1>6. Append(a, SlotAt[p]) # << >>
  BY <1>4, <1>5
<1>. QED
  BY <1>5, <1>6 DEF AddressIn, child, slot, None, a

LEMMA KeyFacts ==
  ASSUME NEW p \in Node, NEW i \in 1..Len(KeyOf[p])
  PROVE  KeyOf[p][i] \in Keys
BY NodeAssumption DEF Keys

LEMMA NodeFacts ==
  ASSUME Types, NEW p \in Node
  PROVE  /\ key(p) \in Keys
         /\ AddressAt(p) = AddressIn(p, node[p].epoch)
         /\ AddressAt(p) \in Seq(Slot) /\ AddressAt(p) # None /\ slot(AddressAt(p)) = SlotAt[p]
<1>1. node[p].epoch \in 1..Len(PrefixOf[p]) /\ node[p].keys \in 1..Len(KeyOf[p])
  BY DEF Types, NodeOK
<1>2. AddressAt(p) = AddressIn(p, node[p].epoch)
  BY DEF AddressAt, AddressIn, prefix
<1>. QED
  BY <1>1, <1>2, AddressFacts, KeyFacts DEF key

-----------------------------------------------------------------------------
(***************************************************************************)
(* Types.                                                                  *)
(***************************************************************************)

(* The nodes and the counters after a step: nothing goes back.             *)
Grown ==
  /\ node' \in [Node -> NodeSet]
  /\ \A p \in Node : NodeOK(p)' /\ node[p].epoch <= node'[p].epoch
  /\ joins' \in 0..MaxJoins /\ joins <= joins' /\ acts' \in Nat /\ acts <= acts'

(* The actions that leave the nodes alone.                                 *)
Quiet ==
  \/ \E p \in Node : Join(p) \/ confirm_pin(p) \/ accept_pin_change(p) \/ pin_payee_leaf(p, key(p))
  \/ \E c \in calls : \/ join_returns(c) \/ leave_returns(c) \/ commit_returns(c) \/ routed_takes(c)
                      \/ payment_returns(c) \/ CallFails(c)
  \/ \E f \in net : \/ handle_join_approved(f) \/ handle_join_rejected(f) \/ handle_rebase(f)
                    \/ handle_detach_notice(f) \/ MsgHandler_handle(f) \/ Lose(f)
  \/ Leave \/ SendPayment \/ register_eth_address \/ try_recv_ledger_event \/ drainControlEvents
  \/ \E t \in Target : exchange_routed_control(t)
  \/ \E k \in Identity : set_user_identity(k) \/ rotate_eth_address(k)
  \/ \E s, l \in BOOLEAN : Reload(s, l)

LEMMA Counters ==
  ASSUME Next
  PROVE  joins' = joins \/ (joins < MaxJoins /\ joins' = joins + 1)
BY DEF Next, Join, approve_pending, reject_pending, apply_detach_child, propagate_rebase, NewLedgerKey,
  confirm_pin, accept_pin_change, pin_payee_leaf, Decide, handle_join, join_returns, handle_exit, leave_returns,
  handle_register_eth_address, commit_returns, routed_takes, CallFails, handle_join_approved,
  handle_join_rejected, handle_rebase, handle_detach_notice, MsgHandler_handle, Lose, Leave, RequestBalance,
  register_eth_address, rotate_eth_address, Commit, try_recv_ledger_event, drainControlEvents, SendPayment, payment_returns, handle_order,
  exchange_routed_control, set_user_identity, Reload, Act, Counted, counters

LEMMA Ticks ==
  ASSUME Next
  PROVE  acts' = acts \/ acts' = acts + 1
BY DEF Next, Join, approve_pending, reject_pending, apply_detach_child, propagate_rebase, NewLedgerKey,
  confirm_pin, accept_pin_change, pin_payee_leaf, Decide, handle_join, join_returns, handle_exit, leave_returns,
  handle_register_eth_address, commit_returns, routed_takes, CallFails, handle_join_approved,
  handle_join_rejected, handle_rebase, handle_detach_notice, MsgHandler_handle, Lose, Leave, RequestBalance,
  register_eth_address, rotate_eth_address, Commit, try_recv_ledger_event, drainControlEvents, SendPayment, payment_returns, handle_order,
  exchange_routed_control, set_user_identity, Reload, Act, Counted, counters

LEMMA QuietNodes ==
  ASSUME Quiet
  PROVE  node' = node
BY DEF Quiet, Join, confirm_pin, accept_pin_change, pin_payee_leaf, Decide, join_returns, leave_returns,
  commit_returns, routed_takes, CallFails, SendPayment, payment_returns, handle_join_approved, handle_join_rejected, handle_rebase,
  handle_detach_notice, MsgHandler_handle, Lose, Leave, register_eth_address, rotate_eth_address, Commit,
  try_recv_ledger_event, drainControlEvents, exchange_routed_control, set_user_identity, Reload

(* What a node may become.                                                 *)
Fits(p, x) ==
  /\ x \in NodeSet /\ node[p].epoch <= x.epoch /\ x.epoch <= Len(PrefixOf[p])
  /\ x.keys \in 1..Len(KeyOf[p]) /\ x.queued <= joins

LEMMA NodeUpdate ==
  ASSUME Types, NEW p \in Node, NEW x, Fits(p, x), node' = [node EXCEPT ![p] = x], joins' \in Nat, joins <= joins'
  PROVE  /\ node' \in [Node -> NodeSet]
         /\ \A q \in Node : NodeOK(q)' /\ node[q].epoch <= node'[q].epoch
<1>1. /\ node \in [Node -> NodeSet] /\ joins \in Nat
      /\ \A q \in Node : /\ node[q] \in NodeSet /\ node[q].epoch \in 1..Len(PrefixOf[q])
                         /\ node[q].keys \in 1..Len(KeyOf[q]) /\ node[q].queued <= joins
  BY DEF Types, NodeOK
<1>f. /\ x \in NodeSet /\ node[p].epoch <= x.epoch /\ x.epoch <= Len(PrefixOf[p])
      /\ x.keys \in 1..Len(KeyOf[p]) /\ x.queued <= joins
  BY DEF Fits
<1>2. \A q \in Node : node'[q] = IF q = p THEN x ELSE node[q]
  BY <1>1
<1>3. \A r \in NodeSet : r.epoch \in Nat /\ r.queued \in Nat
  BY DEF NodeSet
<1>4. node' \in [Node -> NodeSet]
  BY <1>1, <1>f
<1>5. \A q \in Node : Len(PrefixOf[q]) \in Nat
  BY NodeAssumption, LenProperties
<1>. QED
  BY <1>1, <1>f, <1>2, <1>3, <1>4, <1>5 DEF NodeOK

LEMMA NodeRow ==
  ASSUME Types, NEW p \in Node
  PROVE  LET r == node[p]
         IN  /\ node \in [Node -> NodeSet] /\ r \in NodeSet
             /\ r.listed \in Nat /\ r.queued \in Nat /\ r.epoch \in Nat /\ r.keys \in Nat /\ r.height \in Nat
             /\ r.anchor \in Identity \cup {Nil} /\ r.marks \in SUBSET Nat
             /\ r.epoch \in 1..Len(PrefixOf[p]) /\ r.keys \in 1..Len(KeyOf[p]) /\ r.queued <= joins
             /\ Len(PrefixOf[p]) \in Nat /\ Len(KeyOf[p]) \in Nat /\ joins \in Nat /\ acts \in Nat
<1>1. node \in [Node -> NodeSet] /\ NodeOK(p) /\ joins \in Nat /\ acts \in Nat
  BY DEF Types
<1>2. Len(PrefixOf[p]) \in Nat /\ Len(KeyOf[p]) \in Nat
  BY NodeAssumption, LenProperties
<1>. QED
  BY <1>1, <1>2 DEF NodeOK, NodeSet

LEMMA NodeStep ==
  ASSUME Types, PlaceOK(local), Next
  PROVE  Grown
<1>. DEFINE G == /\ node' \in [Node -> NodeSet]
                 /\ \A p \in Node : NodeOK(p)' /\ node[p].epoch <= node'[p].epoch
<1>0. joins \in 0..MaxJoins /\ MaxJoins \in Nat /\ acts \in Nat
  BY UserAssumption DEF Types
<1>1. joins' \in 0..MaxJoins /\ joins' \in Nat /\ joins <= joins'
  BY <1>0, Counters
<1>2. acts' \in Nat /\ acts <= acts'
  BY <1>0, Ticks
<1>3. ASSUME node' = node
      PROVE  G
  <2>1. /\ node \in [Node -> NodeSet] /\ joins \in Nat
        /\ \A q \in Node : NodeOK(q) /\ node[q].epoch \in Nat /\ node[q].queued \in Nat
    BY NodeRow DEF Types
  <2>. QED
    BY <1>1, <1>3, <2>1 DEF NodeOK
<1>4. ASSUME NEW p \in Node, approve_pending(p)
      PROVE  G
  <2>. DEFINE x == [node[p] EXCEPT !.listed = node[p].queued, !.queued = 0]
  <2>1. node' = [node EXCEPT ![p] = x]
    BY <1>4, NodeRow DEF approve_pending
  <2>2. x \in NodeSet /\ x.epoch = node[p].epoch /\ x.keys = node[p].keys /\ x.queued = 0
    BY NodeRow DEF NodeSet
  <2>. HIDE DEF x
  <2>3. Fits(p, x)
    BY <2>1, <2>2, NodeRow DEF Fits
  <2>. QED
    BY <1>1, <2>1, <2>3, NodeUpdate
<1>5. ASSUME NEW p \in Node, reject_pending(p)
      PROVE  G
  <2>. DEFINE x == [node[p] EXCEPT !.queued = 0]
  <2>1. node' = [node EXCEPT ![p] = x]
    BY <1>5, NodeRow DEF reject_pending
  <2>2. x \in NodeSet /\ x.epoch = node[p].epoch /\ x.keys = node[p].keys /\ x.queued = 0
    BY NodeRow DEF NodeSet
  <2>. HIDE DEF x
  <2>3. Fits(p, x)
    BY <2>1, <2>2, NodeRow DEF Fits
  <2>. QED
    BY <1>1, <2>1, <2>3, NodeUpdate
<1>6. ASSUME NEW p \in Node, node' = [node EXCEPT ![p].listed = 0, ![p].anchor = Nil]
      PROVE  G
  <2>. DEFINE x == [node[p] EXCEPT !.listed = 0, !.anchor = Nil]
  <2>1. node' = [node EXCEPT ![p] = x]
    BY <1>6, NodeRow
  <2>2. x \in NodeSet /\ x.epoch = node[p].epoch /\ x.keys = node[p].keys /\ x.queued = node[p].queued
    BY NodeRow DEF NodeSet
  <2>. HIDE DEF x
  <2>3. Fits(p, x)
    BY <2>1, <2>2, NodeRow DEF Fits
  <2>. QED
    BY <1>1, <2>1, <2>3, NodeUpdate
<1>7. ASSUME NEW p \in Node, propagate_rebase(p)
      PROVE  G
  <2>. DEFINE x == [node[p] EXCEPT !.epoch = node[p].epoch + 1]
  <2>1. node' = [node EXCEPT ![p] = x] /\ node[p].epoch + 1 <= Len(PrefixOf[p])
    <3>1. node \in [Node -> NodeSet]
      BY NodeRow
    <3>. QED
      BY <1>7, <3>1 DEF propagate_rebase, NodeSet
  <2>2. x \in NodeSet /\ x.epoch = node[p].epoch + 1 /\ x.keys = node[p].keys /\ x.queued = node[p].queued
    BY NodeRow DEF NodeSet
  <2>. HIDE DEF x
  <2>3. Fits(p, x)
    BY <2>1, <2>2, NodeRow DEF Fits
  <2>. QED
    BY <1>1, <2>1, <2>3, NodeUpdate
<1>8. ASSUME NEW p \in Node, NEW h \in Nat, node' = [node EXCEPT ![p].height = h]
      PROVE  G
  <2>. DEFINE x == [node[p] EXCEPT !.height = h]
  <2>1. node' = [node EXCEPT ![p] = x]
    BY <1>8, NodeRow
  <2>2. x \in NodeSet /\ x.epoch = node[p].epoch /\ x.keys = node[p].keys /\ x.queued = node[p].queued
    BY NodeRow DEF NodeSet
  <2>. HIDE DEF x
  <2>3. Fits(p, x)
    BY <2>1, <2>2, NodeRow DEF Fits
  <2>. QED
    BY <1>1, <2>1, <2>3, NodeUpdate
<1>9. ASSUME NEW p \in Node, NewLedgerKey(p)
      PROVE  G
  <2>. DEFINE x == [node[p] EXCEPT !.keys = node[p].keys + 1]
  <2>1. node' = [node EXCEPT ![p] = x] /\ node[p].keys < Len(KeyOf[p])
    BY <1>9, NodeRow DEF NewLedgerKey
  <2>2. x \in NodeSet /\ x.epoch = node[p].epoch /\ x.keys = node[p].keys + 1 /\ x.queued = node[p].queued
    <3>1. node[p] \in NodeSet /\ node[p].keys + 1 \in Nat
      BY NodeRow DEF NodeSet
    <3>. QED
      BY <3>1 DEF NodeSet
  <2>. HIDE DEF x
  <2>3. Fits(p, x)
    BY <2>1, <2>2, NodeRow DEF Fits
  <2>. QED
    BY <1>1, <2>1, <2>3, NodeUpdate
<1>10. ASSUME NEW c \in calls, handle_join(c)
       PROVE  G
  <2>. DEFINE p == c.to
              x == [node[p] EXCEPT !.queued = IF node[p].queued = 0 THEN c.id ELSE node[p].queued]
  <2>0. p \in Node /\ c.id \in Nat /\ c.id <= joins
    BY <1>10 DEF handle_join, Types, CallOK, CallSet
  <2>1. node' = node \/ node' = [node EXCEPT ![p] = x]
    BY <1>10, <2>0, NodeRow DEF handle_join
  <2>2. x \in NodeSet /\ x.epoch = node[p].epoch /\ x.keys = node[p].keys /\ x.queued <= joins
    BY <2>0, NodeRow DEF NodeSet
  <2>. HIDE DEF x, p
  <2>3. Fits(p, x)
    BY <2>0, <2>2, NodeRow DEF Fits
  <2>. QED
    BY <1>1, <1>3, <2>0, <2>1, <2>3, NodeUpdate
<1>11. ASSUME NEW c \in calls, handle_register_eth_address(c)
       PROVE  G
  <2>0. c.to \in Node /\ c.id \in Nat /\ c.new \in Identity \cup {Nil}
    BY <1>11 DEF handle_register_eth_address, Types, CallOK, CallSet
  <2>1. PICK a \in {c.new, node[c.to].anchor} :
          node' = [node EXCEPT ![c.to].marks = @ \cup {c.id}, ![c.to].anchor = a]
    BY <1>11 DEF handle_register_eth_address
  <2>. DEFINE p == c.to
              x == [node[p] EXCEPT !.marks = node[p].marks \cup {c.id}, !.anchor = a]
  <2>2. node' = [node EXCEPT ![p] = x]
    BY <2>0, <2>1, NodeRow
  <2>3. x \in NodeSet /\ x.epoch = node[p].epoch /\ x.keys = node[p].keys /\ x.queued = node[p].queued
    BY <2>0, NodeRow DEF NodeSet
  <2>. HIDE DEF x, p
  <2>4. p \in Node
    BY <2>0 DEF p
  <2>5. Fits(p, x)
    BY <2>3, <2>4, NodeRow DEF Fits
  <2>. QED
    BY <1>1, <2>2, <2>4, <2>5, NodeUpdate
<1>12. ASSUME NEW c \in calls, handle_exit(c)
       PROVE  c.to \in Node /\ node' = [node EXCEPT ![c.to].listed = 0, ![c.to].anchor = Nil]
  BY <1>12 DEF handle_exit, Types, CallOK
<1>13. ASSUME RequestBalance
       PROVE  G
  <2>0. local.parent \in Node /\ node[local.parent].height \in Nat
    <3>1. local.parent \in Node
      BY <1>13 DEF RequestBalance, joined_context, Attached, PlaceOK, LocalDoc, Peer
    <3>. QED
      BY <3>1, NodeRow
  <2>1. node' = node \/ \E h \in Nat : node' = [node EXCEPT ![local.parent].height = h]
    BY <1>13, <2>0 DEF RequestBalance, BalanceQuery
  <2>. QED
    BY <1>3, <1>8, <2>0, <2>1
<1>16. ASSUME NEW c \in calls, handle_order(c)
       PROVE  G
  <2>0. c.to \in Node /\ node[c.to].height \in Nat
    BY <1>16, NodeRow DEF handle_order, Types, CallOK
  <2>1. node' = node \/ \E h \in Nat : node' = [node EXCEPT ![c.to].height = h]
    BY <1>16, <2>0 DEF handle_order
  <2>. QED
    BY <1>3, <1>8, <2>0, <2>1
<1>14. ASSUME NEW p \in Node, apply_detach_child(p)
       PROVE  G
  BY <1>6, <1>14 DEF apply_detach_child
<1>15. G
  BY <1>3, <1>4, <1>5, <1>6, <1>7, <1>9, <1>10, <1>11, <1>12, <1>13, <1>14, <1>16, QuietNodes DEF Next, Quiet
<1>. QED
  BY <1>1, <1>2, <1>15 DEF Grown

LEMMA MakeFrame ==
  ASSUME NEW kind \in {"Approved", "Rejected", "Detach", "Rebase", "Receipt", "Result", "Routed"},
         NEW from \in Node \cup Target, NEW id \in Nat, NEW address \in Seq(Slot), NEW k \in Keys, NEW n \in Nat
  PROVE  LET f == Frame(kind, from, id, address, k, n)
         IN  /\ f \in FrameSet /\ f.kind = kind /\ f.from = from /\ f.id = id /\ f.address = address /\ f.key = k
             /\ f.n = n /\ f.status = "none" /\ f.proof = NoProof
<1>1. NoProof \in Proof
  BY KeyNil DEF NoProof, Proof, Peer
<1>. QED
  BY <1>1 DEF Frame, FrameSet

LEMMA FrameGrows ==
  ASSUME Types, Grown, NEW f, FrameOK(f)
  PROVE  FrameOK(f)'
<1>1. /\ f \in FrameSet /\ f.id \in Nat /\ f.n \in Nat /\ (f.kind # "Routed" => f.from \in Node)
  BY DEF FrameOK, FrameSet
<1>2. \A p \in Node : node[p].epoch \in Nat /\ node'[p].epoch \in Nat /\ node[p].epoch <= node'[p].epoch
  BY DEF Types, Grown, NodeSet
<1>3. joins \in Nat /\ joins' \in Nat /\ joins <= joins'
  BY UserAssumption DEF Types, Grown
<1>4. \A p, e : AddressIn(p, e)' = AddressIn(p, e)
  BY DEF AddressIn
<1>. QED
  BY <1>1, <1>2, <1>3, <1>4 DEF FrameOK

LEMMA NetStep ==
  ASSUME Types, PlaceOK(local), Next
  PROVE  \A f \in net' : FrameOK(f)'
<1>0. Grown
  BY NodeStep
<1>1. SUFFICES ASSUME NEW f \in net', f \notin net
               PROVE  FrameOK(f)'
  <2>1. \A f \in net : FrameOK(f)
    BY DEF Types
  <2>. QED
    BY <1>0, <1>1, <2>1, FrameGrows
<1>2. joins \in Nat /\ joins' \in Nat /\ joins <= joins' /\ acts' \in Nat
  BY <1>0, UserAssumption DEF Types, Grown
<1>3. None \in Seq(Slot)
  BY DEF None
<1>4. \A p \in Node : node'[p].epoch \in Nat
  BY <1>0 DEF Grown, NodeSet
<1>5. \A p, e : AddressIn(p, e)' = AddressIn(p, e)
  BY DEF AddressIn
<1>6. ASSUME NEW p \in Node, approve_pending(p)
      PROVE  FrameOK(f)'
  <2>1. f = Frame("Approved", p, node[p].queued, AddressAt(p), key(p), node[p].epoch)
    BY <1>1, <1>6 DEF approve_pending
  <2>2. node[p].queued \in Nat /\ node[p].queued <= joins /\ node[p].epoch \in Nat /\ node[p].epoch >= 1
    BY NodeRow
  <2>3. node[p].epoch <= node'[p].epoch
    BY <1>0 DEF Grown
  <2>4. AddressAt(p) \in Seq(Slot) /\ key(p) \in Keys /\ AddressAt(p) = AddressIn(p, node[p].epoch)
    BY NodeFacts
  <2>5. /\ f \in FrameSet /\ f.kind = "Approved" /\ f.from = p /\ f.id = node[p].queued
        /\ f.address = AddressAt(p) /\ f.n = node[p].epoch /\ f.status = "none"
    BY <2>1, <2>2, <2>4, MakeFrame
  <2>. QED
    BY <1>2, <1>4, <1>5, <2>2, <2>3, <2>4, <2>5 DEF FrameOK
<1>7. ASSUME NEW p \in Node, propagate_rebase(p)
      PROVE  FrameOK(f)'
  <2>. DEFINE e == node[p].epoch + 1
  <2>0. e \in Nat /\ e \in 1..Len(PrefixOf[p])
    BY <1>7, NodeRow DEF propagate_rebase
  <2>1. f = Frame("Rebase", p, 0, AddressIn(p, e), Nil, e)
    BY <1>1, <1>7 DEF propagate_rebase, AddressIn
  <2>2. node'[p].epoch = e
    BY <1>7, NodeRow DEF propagate_rebase, NodeSet
  <2>. HIDE DEF e
  <2>3. AddressIn(p, e) \in Seq(Slot)
    BY <2>0, AddressFacts
  <2>4. /\ f \in FrameSet /\ f.kind = "Rebase" /\ f.from = p /\ f.id = 0
        /\ f.address = AddressIn(p, e) /\ f.n = e /\ f.status = "none"
    BY <2>0, <2>1, <2>3, MakeFrame, KeyNil
  <2>. QED
    BY <1>2, <1>5, <2>0, <2>2, <2>4 DEF FrameOK
<1>8. ASSUME NEW p \in Node, reject_pending(p) \/ apply_detach_child(p)
      PROVE  FrameOK(f)'
  <2>1. \/ f = Frame("Rejected", p, node[p].queued, None, Nil, 0)
        \/ f = Frame("Detach", p, joins, None, Nil, 0)
    BY <1>1, <1>8 DEF reject_pending, apply_detach_child
  <2>2. node[p].queued \in Nat
    BY NodeRow
  <2>3. /\ f \in FrameSet /\ f.kind \in {"Rejected", "Detach"} /\ f.from = p
        /\ (f.kind = "Detach" => f.id = joins) /\ f.status = "none"
    <3>1. CASE f = Frame("Rejected", p, node[p].queued, None, Nil, 0)
      BY <1>3, <2>2, <3>1, MakeFrame, KeyNil
    <3>2. CASE f = Frame("Detach", p, joins, None, Nil, 0)
      BY <1>2, <1>3, <3>2, MakeFrame, KeyNil
    <3>. QED
      BY <2>1, <3>1, <3>2
  <2>. QED
    BY <1>2, <2>3 DEF FrameOK
<1>9. local.address \in Seq(Slot)
  BY DEF PlaceOK, LocalDoc
<1>10. ASSUME NEW t \in Target, exchange_routed_control(t)
       PROVE  FrameOK(f)'
  <2>1. f = Frame("Routed", t, acts', local.address, Nil, 0)
    BY <1>1, <1>10 DEF exchange_routed_control, send_control_reply
  <2>2. f \in FrameSet /\ f.kind = "Routed" /\ f.status = "none"
    BY <1>2, <1>9, <2>1, MakeFrame, KeyNil
  <2>. QED
    BY <2>2 DEF FrameOK
<1>11. ASSUME NEW p \in Node, NEW kind \in {"Receipt", "Result"}, NEW id \in Nat
       PROVE  LET g == Receipt(kind, p, id)
              IN  g \in FrameSet /\ g.kind = kind /\ g.from = p /\ g.status = "none"
  <2>1. node[p].height + 1 \in Nat /\ AddressAt(p) \in Seq(Slot) /\ key(p) \in Keys
    BY NodeRow, NodeFacts
  <2>2. kind \in {"Approved", "Rejected", "Detach", "Rebase", "Receipt", "Result", "Routed"}
        /\ p \in Node \cup Target
    OBVIOUS
  <2>3. Receipt(kind, p, id) = Frame(kind, p, id, AddressAt(p), key(p), node[p].height + 1)
    BY DEF Receipt
  <2>. DEFINE a == AddressAt(p)
              k == key(p)
              h == node[p].height + 1
  <2>. HIDE DEF a, k, h
  <2>4. a \in Seq(Slot) /\ k \in Keys /\ h \in Nat /\ Receipt(kind, p, id) = Frame(kind, p, id, a, k, h)
    BY <2>1, <2>3 DEF a, k, h
  <2>. QED
    BY <2>2, <2>4, MakeFrame
<1>12. ASSUME RequestBalance
       PROVE  local.parent \in Node
  BY <1>12 DEF RequestBalance, joined_context, Attached, PlaceOK, LocalDoc, Peer
<1>13. ASSUME RequestBalance
       PROVE  FrameOK(f)'
  <2>1. f = Receipt("Receipt", local.parent, 0)
    BY <1>1, <1>13 DEF RequestBalance, BalanceQuery
  <2>2. f \in FrameSet /\ f.kind = "Receipt" /\ f.from \in Node /\ f.status = "none"
    BY <1>11, <1>12, <1>13, <2>1
  <2>. QED
    BY <2>2 DEF FrameOK
<1>14. ASSUME NEW c \in calls, handle_order(c)
       PROVE  FrameOK(f)'
  <2>0. PICK q \in PayeeLeaf : f = Settled(c, q)
    BY <1>1, <1>14 DEF handle_order
  <2>. DEFINE p == c.to
              o == c.id
              a == Frame("Result", p, o, AddressAt(p), Nil, 0)
              b == Receipt("Result", p, o)
              x == [node |-> q, key |-> key(q)]
  <2>1. p \in Node /\ q \in Node /\ o \in Nat
    BY <1>14, UserAssumption DEF handle_order, Types, CallOK, CallSet
  <2>2. f = [a EXCEPT !.status = "rejected"] \/ f = [b EXCEPT !.status = "applied", !.proof = x]
    BY <2>0 DEF Settled
  <2>. HIDE DEF o
  <2>3. x \in Proof /\ x.node = q
    BY <2>1, NodeFacts DEF Proof, Peer
  <2>4. a \in FrameSet /\ a.kind = "Result" /\ a.from = p
    <3>. DEFINE d == AddressAt(p)
    <3>1. d \in Seq(Slot) /\ p \in Node \cup Target /\ Nil \in Keys /\ 0 \in Nat
      BY <2>1, NodeFacts, KeyNil
    <3>. HIDE DEF d, p
    <3>2. ASSUME NEW kind \in {"Result"}, NEW k \in Keys, NEW n \in Nat
          PROVE  LET g == Frame(kind, p, o, d, k, n) IN g \in FrameSet /\ g.kind = kind /\ g.from = p
      <4>1. kind \in {"Approved", "Rejected", "Detach", "Rebase", "Receipt", "Result", "Routed"}
        OBVIOUS
      <4>. QED
        BY <2>1, <3>1, <4>1, MakeFrame
    <3>3. LET g == Frame("Result", p, o, d, Nil, 0) IN g \in FrameSet /\ g.kind = "Result" /\ g.from = p
      BY <3>1, <3>2
    <3>. QED
      BY <3>3 DEF d
  <2>5. b \in FrameSet /\ b.kind = "Result" /\ b.from = p
    BY <1>11, <2>1
  <2>. HIDE DEF a, b, x, p
  <2>6. f \in FrameSet /\ f.kind = "Result" /\ f.from = p /\ (f.status = "applied" => f.proof = x)
    BY <2>2, <2>3, <2>4, <2>5 DEF FrameSet
  <2>. QED
    BY <2>1, <2>3, <2>6 DEF FrameOK
<1>15. \/ \E p \in Node : approve_pending(p) \/ propagate_rebase(p) \/ reject_pending(p) \/ apply_detach_child(p)
       \/ RequestBalance \/ (\E c \in calls : handle_order(c)) \/ \E t \in Target : exchange_routed_control(t)
  BY <1>1 DEF Next, Join, NewLedgerKey, confirm_pin, accept_pin_change, pin_payee_leaf, Decide, handle_join,
     join_returns, handle_exit, leave_returns, handle_register_eth_address, commit_returns, routed_takes,
     CallFails, handle_join_approved, handle_join_rejected, handle_rebase, handle_detach_notice,
     MsgHandler_handle, Lose, Leave, SendPayment, payment_returns, register_eth_address, rotate_eth_address, Commit,
     try_recv_ledger_event, drainControlEvents, set_user_identity, Reload
<1>. QED
  BY <1>6, <1>7, <1>8, <1>10, <1>13, <1>14, <1>15

LEMMA MakeCall ==
  ASSUME NEW kind \in {"join", "leave", "register", "rotate", "routed", "payment"}, NEW to \in Node \cup Target, NEW id \in Nat
  PROVE  LET c == Call(kind, to, id)
         IN  c \in CallSet /\ c.kind = kind /\ c.to = to /\ c.id = id /\ c.st = "sent" /\ c.did = "nothing" /\ c.tries = 1
<1>1. None \in Seq(Slot)
  BY DEF None
<1>. QED
  BY <1>1 DEF Call, CallSet

LEMMA CallGrows ==
  ASSUME Types, Grown, NEW c, CallOK(c)
  PROVE  CallOK(c)'
<1>1. c \in CallSet /\ c.id \in Nat
  BY DEF CallOK, CallSet
<1>2. joins \in Nat /\ joins' \in Nat /\ joins <= joins'
  BY UserAssumption DEF Types, Grown
<1>. QED
  BY <1>1, <1>2 DEF CallOK

(* A call that has been answered, or is made again, is the same call.      *)
LEMMA CallAgain ==
  ASSUME NEW c, CallOK(c), NEW d \in CallSet, d.kind = c.kind, d.to = c.to, d.id = c.id
  PROVE  CallOK(d)
BY DEF CallOK

LEMMA CallsStep ==
  ASSUME Types, PlaceOK(local), Next
  PROVE  \A c \in calls' : CallOK(c)'
<1>0. Grown
  BY NodeStep
<1>1. SUFFICES ASSUME NEW d \in calls', d \notin calls
               PROVE  CallOK(d)'
  <2>1. \A c \in calls : CallOK(c)
    BY DEF Types
  <2>. QED
    BY <1>0, <1>1, <2>1, CallGrows
<1>2. joins \in Nat /\ joins' \in Nat /\ joins <= joins' /\ acts' \in Nat
  BY <1>0, UserAssumption DEF Types, Grown
<1>3. ASSUME joined_context
      PROVE  local.parent \in Node /\ local.address \in Seq(Slot)
  BY <1>3 DEF joined_context, Attached, PlaceOK, LocalDoc, Peer
<1>4. ASSUME NEW p \in Node, Join(p)
      PROVE  CallOK(d)'
  <2>1. d = Call("join", p, joins')
    BY <1>1, <1>4 DEF Join
  <2>2. d \in CallSet /\ d.kind = "join" /\ d.to = p /\ d.id = joins'
    BY <1>2, <2>1, MakeCall
  <2>. QED
    BY <1>2, <2>2 DEF CallOK
<1>5. ASSUME Leave
      PROVE  CallOK(d)'
  <2>1. d = Call("leave", local.parent, joins) /\ local.parent \in Node
    BY <1>1, <1>3, <1>5 DEF Leave
  <2>2. d \in CallSet /\ d.kind = "leave" /\ d.to = local.parent /\ d.id = joins
    BY <1>2, <2>1, MakeCall
  <2>. QED
    BY <1>2, <2>1, <2>2 DEF CallOK
<1>6. ASSUME NEW kind \in {"register", "rotate"}, NEW k \in Identity, Commit(kind, k)
      PROVE  CallOK(d)'
  <2>. DEFINE b == Call(kind, local.parent, acts')
  <2>1. d = [b EXCEPT !.old = ident, !.new = k] /\ local.parent \in Node
    BY <1>1, <1>3, <1>6 DEF Commit
  <2>2. b \in CallSet /\ b.kind = kind /\ b.to = local.parent
    BY <1>2, <2>1, MakeCall
  <2>. HIDE DEF b
  <2>3. ident \in Identity
    BY DEF Types
  <2>4. d \in CallSet /\ d.kind = kind /\ d.to = local.parent
    BY <2>1, <2>2, <2>3 DEF CallSet
  <2>. QED
    BY <2>1, <2>4 DEF CallOK
<1>12. ASSUME SendPayment
       PROVE  CallOK(d)'
  <2>. DEFINE b == Call("payment", local.parent, acts')
  <2>1. d = [b EXCEPT !.old = ident] /\ local.parent \in Node
    BY <1>1, <1>3, <1>12 DEF SendPayment
  <2>2. b \in CallSet /\ b.kind = "payment" /\ b.to = local.parent
    BY <1>2, <2>1, MakeCall
  <2>. HIDE DEF b
  <2>3. ident \in Identity
    BY DEF Types
  <2>4. d \in CallSet /\ d.kind = "payment" /\ d.to = local.parent
    BY <2>1, <2>2, <2>3 DEF CallSet
  <2>. QED
    BY <2>1, <2>4 DEF CallOK
<1>7. ASSUME NEW t \in Target, exchange_routed_control(t)
      PROVE  CallOK(d)'
  <2>. DEFINE b == Call("routed", t, acts')
  <2>1. d = [b EXCEPT !.address = local.address, !.st = "waiting"] /\ local.address \in Seq(Slot)
    BY <1>1, <1>3, <1>7 DEF exchange_routed_control
  <2>2. b \in CallSet /\ b.kind = "routed"
    BY <1>2, MakeCall
  <2>. HIDE DEF b
  <2>3. d \in CallSet /\ d.kind = "routed"
    BY <2>1, <2>2 DEF CallSet
  <2>. QED
    BY <2>3 DEF CallOK
<1>8. ASSUME NEW c \in calls, d \in CallSet, d.kind = c.kind, d.to = c.to, d.id = c.id
      PROVE  CallOK(d)'
  <2>1. CallOK(c)
    BY DEF Types
  <2>2. CallOK(d)
    BY <1>8, <2>1, CallAgain
  <2>. QED
    BY <1>0, <2>2, CallGrows
<1>9. ASSUME NEW c \in calls,
             handle_join(c) \/ handle_exit(c) \/ handle_order(c) \/ handle_register_eth_address(c) \/ CallFails(c)
      PROVE  CallOK(d)'
  <2>0. c \in CallSet
    BY DEF Types, CallOK
  <2>1. CASE handle_join(c) \/ handle_exit(c) \/ handle_order(c)
    <3>1. \E st \in {"pending", "refused", "accepted"} : d = [c EXCEPT !.st = st]
      BY <1>1, <2>1 DEF handle_join, handle_exit, handle_order
    <3>. QED
      BY <1>8, <2>0, <3>1 DEF CallSet
  <2>2. CASE handle_register_eth_address(c)
    <3>. DEFINE r == node[c.to]
                fits == r.listed # 0 /\ IF c.kind = "register" THEN r.anchor = Nil ELSE r.anchor = c.old
                st == IF c.id \in r.marks THEN "Replay" ELSE IF fits THEN "Accepted" ELSE "Rejected"
                did == IF st = "Replay" \/ c.did = "Accepted" THEN c.did ELSE st
    <3>1. d = [c EXCEPT !.st = st, !.did = did]
      BY <1>1, <2>2 DEF handle_register_eth_address
    <3>2. st \in {"Replay", "Accepted", "Rejected"} /\ did \in {c.did, "Accepted", "Rejected"}
      OBVIOUS
    <3>. HIDE DEF st, did
    <3>. QED
      BY <1>8, <2>0, <3>1, <3>2 DEF CallSet
  <2>3. CASE CallFails(c)
    <3>1. d = [c EXCEPT !.st = "sent", !.tries = c.tries + 1]
      BY <1>1, <2>3 DEF CallFails, Resend
    <3>2. c.tries + 1 \in Nat
      BY <2>0 DEF CallSet
    <3>3. d \in CallSet /\ d.kind = c.kind /\ d.to = c.to /\ d.id = c.id
      BY <2>0, <3>1, <3>2 DEF CallSet
    <3>. QED
      BY <1>8, <3>3
  <2>. QED
    BY <1>9, <2>1, <2>2, <2>3
<1>10. \/ \E p \in Node : Join(p)
       \/ \E c \in calls : \/ handle_join(c) \/ handle_exit(c) \/ handle_order(c)
                           \/ handle_register_eth_address(c) \/ CallFails(c)
       \/ Leave \/ SendPayment \/ register_eth_address \/ (\E k \in Identity : rotate_eth_address(k))
       \/ \E t \in Target : exchange_routed_control(t)
  BY <1>1 DEF Next, approve_pending, reject_pending, apply_detach_child, propagate_rebase, NewLedgerKey,
     confirm_pin, accept_pin_change, pin_payee_leaf, Decide, join_returns, leave_returns, commit_returns,
     routed_takes, handle_join_approved, handle_join_rejected, handle_rebase, handle_detach_notice,
     MsgHandler_handle, Lose, RequestBalance, payment_returns, try_recv_ledger_event, drainControlEvents,
     set_user_identity, Reload
<1>11. ident \in Identity
  BY DEF Types
<1>. QED
  BY <1>4, <1>5, <1>6, <1>7, <1>9, <1>10, <1>11, <1>12 DEF register_eth_address, rotate_eth_address

LEMMA IdentStep ==
  ASSUME Types, Verdicts, Next
  PROVE  ident' \in Identity
<1>0. ident \in Identity
  BY DEF Types
<1>1. ASSUME NEW c \in calls, commit_returns(c)
      PROVE  ident' \in Identity
  <2>1. c \in Commits
    BY <1>1 DEF commit_returns, Commits
  <2>2. c.new \in Identity
    BY <2>1 DEF Verdicts, CommitOK
  <2>. QED
    BY <1>0, <1>1, <2>2 DEF commit_returns
<1>2. ASSUME NEW k \in Identity, set_user_identity(k)
      PROVE  ident' \in Identity
  BY <1>2 DEF set_user_identity
<1>3. \/ ident' = ident \/ (\E c \in calls : commit_returns(c)) \/ (\E k \in Identity : set_user_identity(k))
  BY DEF Next, Join, approve_pending, reject_pending, apply_detach_child, propagate_rebase, NewLedgerKey,
     confirm_pin, accept_pin_change, pin_payee_leaf, Decide, handle_join, join_returns, handle_exit, leave_returns,
     handle_register_eth_address, routed_takes, CallFails, handle_join_approved,
     handle_join_rejected, handle_rebase, handle_detach_notice, MsgHandler_handle, Lose, Leave, RequestBalance,
     register_eth_address, rotate_eth_address, Commit, try_recv_ledger_event, drainControlEvents, SendPayment, payment_returns, handle_order,
     exchange_routed_control, Reload
<1>. QED
  BY <1>0, <1>1, <1>2, <1>3

LedgerFrames == { f \in FrameSet : f.from \in Node /\ (f.status = "applied" => f.proof.node \in Node) }

LEMMA QueueStep ==
  ASSUME Types, Next
  PROVE  /\ inbox' \in Seq(LedgerFrames) /\ Len(inbox') <= INBOX
         /\ replies' \in Seq(FrameSet) /\ Len(replies') <= INBOX
<1>. DEFINE G == /\ inbox' \in Seq(LedgerFrames) /\ Len(inbox') <= INBOX
                 /\ replies' \in Seq(FrameSet) /\ Len(replies') <= INBOX
<1>0. /\ inbox \in Seq(LedgerFrames) /\ Len(inbox) <= INBOX /\ INBOX \in Nat
      /\ replies \in Seq(FrameSet) /\ Len(replies) <= INBOX /\ Len(inbox) \in Nat /\ Len(replies) \in Nat
  BY UserAssumption, LenProperties DEF Types, LedgerFrames
<1>1. ASSUME NEW f \in net, MsgHandler_handle(f)
      PROVE  G
  <2>1. FrameOK(f) /\ f.kind \in {"Receipt", "Result", "Routed"}
    BY <1>1 DEF Types, MsgHandler_handle
  <2>2. f \in FrameSet /\ (f.kind # "Routed" => f \in LedgerFrames)
    BY <2>1 DEF FrameOK, LedgerFrames
  <2>3. /\ inbox' = inbox \/ (f.kind # "Routed" /\ Len(inbox) < INBOX /\ inbox' = Append(inbox, f))
        /\ replies' = replies \/ (Len(replies) < INBOX /\ replies' = Append(replies, f))
    BY <1>1 DEF MsgHandler_handle
  <2>4. inbox' \in Seq(LedgerFrames) /\ Len(inbox') <= INBOX
    <3>1. CASE inbox' = inbox
      BY <1>0, <3>1
    <3>2. CASE f \in LedgerFrames /\ Len(inbox) < INBOX /\ inbox' = Append(inbox, f)
      BY <1>0, <3>2, AppendProperties
    <3>. QED
      BY <2>2, <2>3, <3>1, <3>2
  <2>5. replies' \in Seq(FrameSet) /\ Len(replies') <= INBOX
    <3>1. CASE replies' = replies
      BY <1>0, <3>1
    <3>2. CASE Len(replies) < INBOX /\ replies' = Append(replies, f)
      BY <1>0, <2>2, <3>2, AppendProperties
    <3>. QED
      BY <2>3, <3>1, <3>2
  <2>. QED
    BY <2>4, <2>5
<1>2. CASE try_recv_ledger_event
  <2>1. inbox # << >> /\ inbox' = Tail(inbox) /\ replies' = replies
    BY <1>2 DEF try_recv_ledger_event
  <2>2. inbox' \in Seq(LedgerFrames) /\ Len(inbox') = Len(inbox) - 1
    BY <1>0, <2>1, HeadTailProperties
  <2>. QED
    BY <1>0, <2>1, <2>2
<1>3. ASSUME NEW c \in calls, routed_takes(c)
      PROVE  G
  <2>1. replies # << >> /\ replies' = Tail(replies) /\ inbox' = inbox
    BY <1>3 DEF routed_takes
  <2>2. replies' \in Seq(FrameSet) /\ Len(replies') = Len(replies) - 1
    BY <1>0, <2>1, HeadTailProperties
  <2>. QED
    BY <1>0, <2>1, <2>2
<1>4. ASSUME NEW s \in BOOLEAN, NEW l \in BOOLEAN, Reload(s, l)
      PROVE  G
  <2>1. inbox' = << >> /\ replies' = << >>
    BY <1>4 DEF Reload
  <2>. QED
    BY <1>0, <2>1
<1>5. \/ inbox' = inbox /\ replies' = replies
      \/ (\E f \in net : MsgHandler_handle(f)) \/ try_recv_ledger_event \/ (\E c \in calls : routed_takes(c))
      \/ \E s, l \in BOOLEAN : Reload(s, l)
  BY DEF Next, Join, approve_pending, reject_pending, apply_detach_child, propagate_rebase, NewLedgerKey,
     confirm_pin, accept_pin_change, pin_payee_leaf, Decide, handle_join, join_returns, handle_exit, leave_returns,
     handle_register_eth_address, commit_returns, CallFails, handle_join_approved,
     handle_join_rejected, handle_rebase, handle_detach_notice, Lose, Leave, RequestBalance,
     register_eth_address, rotate_eth_address, Commit, drainControlEvents, SendPayment, payment_returns, handle_order,
     exchange_routed_control, set_user_identity
<1>. QED
  BY <1>0, <1>1, <1>2, <1>3, <1>4, <1>5

Guards == [parent : Peer, generation : Nat]

LEMMA GuardStep ==
  ASSUME Types, Next
  PROVE  guard' \in Guards
<1>0. guard \in Guards /\ NoGuard \in Guards
  BY DEF Types, Guards, NoGuard, Peer
<1>1. ASSUME NEW f \in net, handle_rebase(f)
      PROVE  guard' \in Guards
  <2>1. f.from \in Node /\ f.n \in Nat
    BY <1>1 DEF handle_rebase, Types, FrameOK, FrameSet
  <2>2. Stored \in Nat
    BY <1>0 DEF Stored, Guards
  <2>3. guard' \in {guard, Advance(f), [parent |-> f.from, generation |-> Stored]}
    BY <1>1 DEF handle_rebase
  <2>. QED
    BY <1>0, <2>1, <2>2, <2>3 DEF Guards, Advance, Peer
<1>2. ASSUME NEW f \in net, handle_join_approved(f) \/ handle_detach_notice(f)
      PROVE  guard' \in Guards
  BY <1>0, <1>2 DEF handle_join_approved, handle_detach_notice, memory
<1>3. \/ guard' = guard \/ guard' = NoGuard
      \/ \E f \in net : handle_rebase(f) \/ handle_join_approved(f) \/ handle_detach_notice(f)
  BY DEF Next, Join, approve_pending, reject_pending, apply_detach_child, propagate_rebase, NewLedgerKey,
     confirm_pin, accept_pin_change, pin_payee_leaf, Decide, handle_join, join_returns, handle_exit, leave_returns,
     handle_register_eth_address, commit_returns, CallFails, routed_takes,
     handle_join_rejected, MsgHandler_handle, Lose, Leave, RequestBalance,
     register_eth_address, rotate_eth_address, Commit, drainControlEvents, SendPayment, payment_returns, handle_order,
     exchange_routed_control, set_user_identity, try_recv_ledger_event, Reload, memory
<1>. QED
  BY <1>0, <1>1, <1>2, <1>3

LEMMA AuxFields ==
  ASSUME aux \in AuxSet
  PROVE  /\ aux.missed \in SUBSET ((Node \cup Target) \X Nat) /\ aux.used \in SUBSET (Node \X Nat)
         /\ aux.lapsed \in SUBSET (Peer \X Int) /\ aux.heard \in BOOLEAN /\ aux.regressed \in BOOLEAN
BY DEF AuxSet

LEMMA AuxStep ==
  ASSUME Types, PlaceOK(local), PlaceOK(disk.state), Next
  PROVE  aux' \in AuxSet
<1>0. aux \in AuxSet /\ joins \in Int
  BY DEF Types
<1>1. local \in LocalDoc /\ local.parent \in Peer /\ disk.state \in LocalDoc
  BY DEF PlaceOK, LocalDoc
<1>2. ASSUME NEW l \in SUBSET (Peer \X Int), aux' = [aux EXCEPT !.lapsed = l]
      PROVE  aux' \in AuxSet
  BY <1>0, <1>2 DEF AuxSet
<1>3. ASSUME NEW m \in SUBSET ((Node \cup Target) \X Nat), aux' = [aux EXCEPT !.missed = m]
      PROVE  aux' \in AuxSet
  BY <1>0, <1>3 DEF AuxSet
<1>4. ASSUME NEW c \in calls, leave_returns(c)
      PROVE  aux' \in AuxSet
  <2>1. <<c.to, joins>> \in Peer \X Int
    BY <1>0, <1>4 DEF leave_returns, Types, CallOK, Peer
  <2>2. aux.lapsed \cup {<<c.to, joins>>} \in SUBSET (Peer \X Int)
    BY <1>0, <2>1, AuxFields
  <2>3. aux' = aux \/ aux' = [aux EXCEPT !.lapsed = aux.lapsed \cup {<<c.to, joins>>}]
    BY <1>4 DEF leave_returns
  <2>. QED
    BY <1>0, <1>2, <2>2, <2>3
<1>5. ASSUME NEW f \in net, f.kind = "Detach"
      PROVE  aux.lapsed \cup {<<f.from, f.id>>} \in SUBSET (Peer \X Int)
  <2>1. <<f.from, f.id>> \in Peer \X Int
    BY <1>5 DEF Types, FrameOK, FrameSet, Peer
  <2>. QED
    BY <1>0, <2>1, AuxFields
<1>6. ASSUME NEW f \in net, handle_detach_notice(f)
      PROVE  aux' \in AuxSet
  <2>1. aux' = aux \/ aux' = [aux EXCEPT !.lapsed = aux.lapsed \cup {<<f.from, f.id>>}]
    BY <1>6 DEF handle_detach_notice
  <2>. QED
    BY <1>0, <1>2, <1>5, <1>6, <2>1 DEF handle_detach_notice
<1>7. ASSUME NEW f \in net
      PROVE  <<f.from, f.n>> \in (Node \cup Target) \X Nat
  BY DEF Types, FrameOK, FrameSet
<1>8. ASSUME NEW f \in net, Lose(f)
      PROVE  aux' \in AuxSet
  <2>. DEFINE m == IF f.kind = "Rebase" THEN aux.missed \cup {<<f.from, f.n>>} ELSE aux.missed
              l == IF f.kind = "Detach" THEN aux.lapsed \cup {<<f.from, f.id>>} ELSE aux.lapsed
  <2>1. m \in SUBSET ((Node \cup Target) \X Nat)
    BY <1>0, <1>7, AuxFields
  <2>2. l \in SUBSET (Peer \X Int)
    BY <1>0, <1>5, AuxFields
  <2>3. aux' = [aux EXCEPT !.missed = m, !.lapsed = l]
    BY <1>8 DEF Lose
  <2>. HIDE DEF m, l
  <2>. QED
    BY <1>0, <2>1, <2>2, <2>3 DEF AuxSet
<1>9. ASSUME NEW f \in net, handle_join_approved(f)
      PROVE  aux' \in AuxSet
  <2>. DEFINE b == \E x \in aux.used : x[1] = f.from /\ x[2] > f.n
  <2>1. aux' = aux \/ aux' = [aux EXCEPT !.heard = FALSE, !.regressed = b]
    BY <1>9 DEF handle_join_approved
  <2>2. b \in BOOLEAN
    OBVIOUS
  <2>. HIDE DEF b
  <2>. QED
    BY <1>0, <2>1, <2>2 DEF AuxSet
<1>10. ASSUME NEW f \in net, handle_rebase(f)
       PROVE  aux' \in AuxSet
  <2>. DEFINE u == aux.used \cup {<<f.from, f.n>>}
              b == f.n < node[f.from].epoch /\ (aux.regressed \/ (~aux.heard /\ f.n < local.epoch))
              m == aux.missed \cup {<<f.from, f.n>>}
  <2>1. aux' = aux \/ aux' = [aux EXCEPT !.heard = TRUE, !.used = u, !.regressed = b] \/ aux' = [aux EXCEPT !.missed = m]
    BY <1>10 DEF handle_rebase
  <2>2. u \in SUBSET (Node \X Nat)
    <3>1. <<f.from, f.n>> \in Node \X Nat
      BY <1>10 DEF handle_rebase, Types, FrameOK, FrameSet
    <3>. QED
      BY <1>0, <3>1, AuxFields
  <2>3. b \in BOOLEAN
    OBVIOUS
  <2>4. m \in SUBSET ((Node \cup Target) \X Nat)
    BY <1>0, <1>7, AuxFields
  <2>. HIDE DEF u, b, m
  <2>5. [aux EXCEPT !.heard = TRUE, !.used = u, !.regressed = b] \in AuxSet
    BY <1>0, <2>2, <2>3 DEF AuxSet
  <2>. QED
    BY <1>0, <1>3, <2>1, <2>4, <2>5
<1>. DEFINE V == [kind : {"register", "rotate", "routed"}, said : {"accepted", "rejected", "answered"},
                  did : {"nothing", "Accepted", "Rejected", "none"}, tries : Nat, asked : Nat, answered : Nat]
<1>11. ASSUME NEW v \in V, aux' = [aux EXCEPT !.verdicts = aux.verdicts \cup {v}]
       PROVE  aux' \in AuxSet
  <2>1. aux.verdicts \in SUBSET V
    BY <1>0 DEF AuxSet
  <2>. DEFINE w == aux.verdicts \cup {v}
  <2>2. w \in SUBSET V
    BY <2>1
  <2>. HIDE DEF w
  <2>. QED
    BY <1>0, <1>11, <2>2 DEF AuxSet, w
<1>12. ASSUME NEW c \in calls, commit_returns(c)
       PROVE  aux' \in AuxSet
  <2>. DEFINE said == IF c.st = "Accepted" \/ (c.st = "Replay" /\ c.kind = "rotate") THEN "accepted" ELSE "rejected"
              v == [kind |-> c.kind, said |-> said, did |-> c.did, tries |-> c.tries, asked |-> 0, answered |-> 0]
  <2>1. aux' = [aux EXCEPT !.verdicts = aux.verdicts \cup {v}]
    BY <1>12 DEF commit_returns
  <2>2. c.kind \in {"register", "rotate"} /\ c.did \in {"nothing", "Accepted", "Rejected"} /\ c.tries \in Nat
    BY <1>12 DEF commit_returns, Types, CallOK, CallSet
  <2>3. v \in V
    BY <2>2
  <2>. QED
    BY <1>11, <2>1, <2>3
<1>13. ASSUME NEW c \in calls, routed_takes(c)
       PROVE  aux' \in AuxSet
  <2>. DEFINE f == Head(replies)
              v == [kind |-> "routed", said |-> "answered", did |-> "none", tries |-> 1, asked |-> c.id, answered |-> f.id]
  <2>1. aux' = aux \/ aux' = [aux EXCEPT !.verdicts = aux.verdicts \cup {v}]
    BY <1>13 DEF routed_takes
  <2>2. f \in FrameSet
    BY <1>13, HeadTailProperties DEF routed_takes, Types
  <2>3. f.id \in Nat /\ c.id \in Nat
    BY <2>2 DEF Types, CallOK, CallSet, FrameSet
  <2>. HIDE DEF f
  <2>4. v \in V
    BY <2>3
  <2>. QED
    BY <1>0, <1>11, <2>1, <2>4
<1>14. ASSUME NEW sr \in BOOLEAN, NEW lr \in BOOLEAN, Reload(sr, lr)
       PROVE  aux' \in AuxSet
  <2>. DEFINE s == LocalState_from_bytes(disk, sr)
              b == (s.link = local.link /\ aux.regressed) \/ s.epoch < local.epoch \/ s.link # local.link
              gone == { <<c.to, joins>> : c \in { x \in calls : x.kind = "leave" } }
              old == IF s.link = local.link THEN {} ELSE {<<s.parent, s.link>>}
              asked == IF s.outbound = local.outbound THEN {} ELSE {<<s.outbound.parent, s.outbound.nonce>>}
              l == aux.lapsed \cup gone \cup old \cup asked
  <2>1. aux' = [aux EXCEPT !.heard = FALSE, !.regressed = b, !.lapsed = l]
    BY <1>14 DEF Reload
  <2>2. s.parent \in Peer /\ s.link \in Int /\ s.outbound.parent \in Peer /\ s.outbound.nonce \in Int
    BY <1>1 DEF LocalState_from_bytes, LocalState, NoOutbound, Lost, LocalDoc, Peer
  <2>3. b \in BOOLEAN
    OBVIOUS
  <2>4. gone \in SUBSET (Peer \X Int)
    BY <1>0 DEF Types, CallOK, Peer
  <2>. HIDE DEF s, b, gone
  <2>5. old \in SUBSET (Peer \X Int) /\ asked \in SUBSET (Peer \X Int)
    BY <2>2
  <2>. HIDE DEF old, asked
  <2>6. l \in SUBSET (Peer \X Int)
    BY <1>0, <2>4, <2>5, AuxFields
  <2>. HIDE DEF l
  <2>. QED
    BY <1>0, <2>1, <2>3, <2>6 DEF AuxSet
<1>15. \/ aux' = aux
       \/ \E c \in calls : leave_returns(c) \/ commit_returns(c) \/ routed_takes(c)
       \/ \E f \in net : handle_detach_notice(f) \/ Lose(f) \/ handle_join_approved(f) \/ handle_rebase(f)
       \/ \E s, l \in BOOLEAN : Reload(s, l)
  BY DEF Next, Join, approve_pending, reject_pending, apply_detach_child, propagate_rebase, NewLedgerKey,
     confirm_pin, accept_pin_change, pin_payee_leaf, Decide, handle_join, join_returns, handle_exit,
     handle_register_eth_address, CallFails, handle_join_rejected, MsgHandler_handle, Leave, RequestBalance,
     register_eth_address, rotate_eth_address, Commit, drainControlEvents, SendPayment, payment_returns, handle_order,
     exchange_routed_control, set_user_identity, try_recv_ledger_event
<1>. QED
  BY <1>0, <1>4, <1>6, <1>8, <1>9, <1>10, <1>12, <1>13, <1>14, <1>15

LEMMA TypesStep ==
  ASSUME Types, PlaceOK(local), PlaceOK(disk.state), Verdicts, Next
  PROVE  Types'
<1>1. Grown
  BY NodeStep
<1>. QED
  BY <1>1, NetStep, CallsStep, IdentStep, QueueStep, GuardStep, AuxStep DEF Types, Grown, LedgerFrames, Guards

-----------------------------------------------------------------------------
(***************************************************************************)
(* The documents in memory and on disk.                                    *)
(***************************************************************************)
LEMMA PlaceGrows ==
  ASSUME Types, Grown, NEW s, PlaceOK(s)
  PROVE  PlaceOK(s)'
<1>1. /\ s \in LocalDoc /\ s.link \in Int /\ s.outbound.nonce \in Nat /\ s.parent \in Peer
  BY DEF PlaceOK, LocalDoc
<1>2. \A p \in Node : node[p].epoch \in Nat /\ node'[p].epoch \in Nat /\ node[p].epoch <= node'[p].epoch
  BY DEF Types, Grown, NodeSet
<1>3. joins \in Nat /\ joins' \in Nat /\ joins <= joins'
  BY UserAssumption DEF Types, Grown
<1>4. \A p, e : AddressIn(p, e)' = AddressIn(p, e)
  BY DEF AddressIn
<1>5. s.parent # Nil => s.parent \in Node
  BY <1>1 DEF Peer
<1>. QED
  BY <1>1, <1>2, <1>3, <1>4, <1>5 DEF PlaceOK

LEMMA PlaceFacts ==
  ASSUME NEW s, PlaceOK(s)
  PROVE  /\ s \in LocalDoc /\ s.link \in Int /\ s.link <= joins /\ (s.parent = Nil <=> s.link <= 0)
         /\ s.parent \in Peer /\ (s.parent = Nil <=> s.address = None) /\ s.outbound.nonce \in Nat
         /\ s.outbound.nonce <= joins /\ s.outbound.parent \in Peer
BY DEF PlaceOK, LocalDoc

LEMMA PlaceJoin ==
  ASSUME Types, PlaceOK(local), Grown, NEW p \in Node, local' = set_outbound(local, joins', p)
  PROVE  PlaceOK(local)' /\ local'.link = local.link /\ local'.parent = local.parent /\ local'.epoch = local.epoch
<1>. DEFINE o == [nonce |-> joins', parent |-> p]
<1>1. o \in [nonce : Nat, parent : Peer] /\ o.nonce <= joins'
  BY UserAssumption DEF Peer, Grown
<1>2. local' = [local EXCEPT !.outbound = o, !.rejected = FALSE]
  BY DEF set_outbound
<1>. HIDE DEF o
<1>3. PICK s : s = local /\ PlaceOK(s) /\ s \in LocalDoc
  BY PlaceFacts
<1>4. PlaceOK(s)'
  BY <1>3, PlaceGrows
<1>5. /\ local' \in LocalDoc /\ local'.parent = s.parent /\ local'.address = s.address /\ local'.link = s.link
      /\ local'.slot = s.slot /\ local'.epoch = s.epoch /\ local'.outbound = o
  BY <1>1, <1>2, <1>3 DEF LocalDoc
<1>. QED
  BY <1>1, <1>3, <1>4, <1>5 DEF PlaceOK

LEMMA PlaceReject ==
  ASSUME Types, PlaceOK(local)
  PROVE  LET s == reject_outbound(local)
         IN  PlaceOK(s) /\ s.link = local.link /\ s.parent = local.parent /\ s.outbound = NoOutbound
             /\ s.epoch = local.epoch
<1>. DEFINE s == [local EXCEPT !.outbound = NoOutbound, !.rejected = TRUE]
<1>1. NoOutbound \in [nonce : Nat, parent : Peer] /\ NoOutbound.nonce = 0 /\ joins \in Nat
  BY DEF NoOutbound, Peer, Types
<1>2. reject_outbound(local) = s
  BY DEF reject_outbound
<1>3. local \in LocalDoc
  BY PlaceFacts
<1>4. /\ s \in LocalDoc /\ s.parent = local.parent /\ s.address = local.address /\ s.link = local.link
      /\ s.slot = local.slot /\ s.epoch = local.epoch /\ s.outbound = NoOutbound
  BY <1>1, <1>3 DEF LocalDoc
<1>. HIDE DEF s
<1>. QED
  BY <1>1, <1>2, <1>4 DEF PlaceOK

LEMMA PlaceApproved ==
  ASSUME Types, NEW f \in Approvals, f.id \in 1..joins
  PROVE  LET s == on_join_approved(local, f)
         IN  PlaceOK(s) /\ s.link = f.id /\ s.parent = f.from /\ s.outbound = NoOutbound /\ s.epoch = f.n
<1>. DEFINE s == on_join_approved(local, f)
<1>1. /\ f \in FrameSet /\ f.from \in Node /\ f.n \in 1..node[f.from].epoch /\ f.address = AddressIn(f.from, f.n)
      /\ f.n \in Nat /\ f.id \in Nat
  BY DEF Types, FrameOK, FrameSet, Approvals
<1>2. node[f.from].epoch \in 1..Len(PrefixOf[f.from]) /\ Len(PrefixOf[f.from]) \in Nat /\ node[f.from].epoch \in Nat
  BY <1>1, NodeRow
<1>3. f.n \in 1..Len(PrefixOf[f.from])
  BY <1>1, <1>2
<1>4. f.address \in Seq(Slot) /\ f.address # None /\ slot(f.address) = SlotAt[f.from] /\ SlotAt[f.from] \in Slot
  BY <1>1, <1>3, AddressFacts, NodeAssumption
<1>5. s = [outbound |-> NoOutbound, parent |-> f.from, slot |-> SlotAt[f.from], address |-> f.address,
           rejected |-> FALSE, link |-> f.id, epoch |-> f.n]
  BY <1>4 DEF on_join_approved
<1>6. NoOutbound \in [nonce : Nat, parent : Peer] /\ NoOutbound.nonce = 0 /\ joins \in Nat
  BY DEF NoOutbound, Peer, Types
<1>7. f.from # Nil
  BY <1>1, NodeAssumption
<1>. HIDE DEF s
<1>8. s \in LocalDoc
  BY <1>1, <1>4, <1>5, <1>6 DEF LocalDoc, Peer
<1>9. /\ s.parent = f.from /\ s.address = f.address /\ s.link = f.id /\ s.outbound = NoOutbound
      /\ s.slot = SlotAt[f.from] /\ s.epoch = f.n
  BY <1>5
<1>10. f.id <= joins /\ ~(f.id <= 0)
  BY <1>1, <1>6
<1>11. PlaceOK(s)
  BY <1>1, <1>4, <1>6, <1>7, <1>8, <1>9, <1>10 DEF PlaceOK
<1>. QED
  BY <1>9, <1>11 DEF s

LEMMA PlaceDetach ==
  ASSUME Types, PlaceOK(local)
  PROVE  LET s == apply_detach(local)
         IN  /\ PlaceOK(s)
             /\ local.parent = Nil => s = local
             /\ local.parent # Nil => s # local /\ s.link = 0 /\ s.parent = Nil /\ s.outbound = NoOutbound
<1>. DEFINE u == [local EXCEPT !.parent = Nil, !.slot = 0, !.address = None, !.outbound = NoOutbound,
                               !.link = 0, !.epoch = 0]
            s == apply_detach(local)
<1>1. NoOutbound \in [nonce : Nat, parent : Peer] /\ NoOutbound.nonce = 0 /\ joins \in Nat /\ Nil \in Peer
  BY DEF NoOutbound, Peer, Types
<1>2. local \in LocalDoc /\ (local.parent = Nil <=> local.address = None)
  BY PlaceFacts
<1>3. s = IF local.parent = Nil THEN local ELSE u
  BY <1>2 DEF apply_detach
<1>4. None \in Seq(Slot) /\ 0 \in Slot
  BY DEF None, Slot, MAX_SLOT
<1>5. /\ u \in LocalDoc /\ u.parent = Nil /\ u.address = None /\ u.link = 0
      /\ u.slot = 0 /\ u.epoch = 0 /\ u.outbound = NoOutbound
  <2>. DEFINE v == [local EXCEPT !.parent = Nil, !.slot = 0, !.address = None]
  <2>0. v \in LocalDoc
    BY <1>1, <1>2, <1>4 DEF LocalDoc
  <2>. HIDE DEF v
  <2>1. u \in LocalDoc
    <3>. DEFINE w == [v EXCEPT !.outbound = NoOutbound]
                x == [w EXCEPT !.link = 0]
    <3>0. w \in LocalDoc
      BY <1>1, <2>0 DEF LocalDoc
    <3>. HIDE DEF w
    <3>1. x \in LocalDoc
      BY <3>0 DEF LocalDoc
    <3>. HIDE DEF x
    <3>2. [x EXCEPT !.epoch = 0] \in LocalDoc
      BY <3>1 DEF LocalDoc
    <3>3. u = [x EXCEPT !.epoch = 0]
      BY <1>2 DEF LocalDoc, v, w, x
    <3>. QED
      BY <3>2, <3>3
  <2>2. u.parent = Nil /\ u.address = None /\ u.link = 0
    BY <1>2 DEF LocalDoc
  <2>3. u.slot = 0 /\ u.epoch = 0 /\ u.outbound = NoOutbound
    BY <1>2 DEF LocalDoc
  <2>. QED
    BY <2>1, <2>2, <2>3
<1>. HIDE DEF u, s
<1>6. PlaceOK(u)
  BY <1>1, <1>5 DEF PlaceOK
<1>. QED
  BY <1>3, <1>5, <1>6 DEF s

LEMMA PlaceRebase ==
  ASSUME Types, PlaceOK(local), NEW f \in net, f.kind = "Rebase", Attached(local), f.from = local.parent
  PROVE  LET s == apply_rebase(local, f)
         IN  PlaceOK(s) /\ s.link = local.link /\ s.parent = local.parent /\ s.outbound = local.outbound /\ s.epoch = f.n
<1>. DEFINE s == apply_rebase(local, f)
<1>1. /\ f \in FrameSet /\ f.from \in Node /\ f.n \in 1..node[f.from].epoch /\ f.address = AddressIn(f.from, f.n)
      /\ f.n \in Nat /\ f.address \in Seq(Slot)
  BY DEF Types, FrameOK, FrameSet
<1>2. node[f.from].epoch \in 1..Len(PrefixOf[f.from]) /\ Len(PrefixOf[f.from]) \in Nat /\ node[f.from].epoch \in Nat
  BY <1>1, NodeRow
<1>3. f.n \in 1..Len(PrefixOf[f.from])
  BY <1>1, <1>2
<1>4. f.address # None
  BY <1>1, <1>3, AddressFacts
<1>5. local \in LocalDoc
  BY PlaceFacts
<1>6. /\ s \in LocalDoc /\ s.parent = local.parent /\ s.address = f.address /\ s.link = local.link
      /\ s.slot = local.slot /\ s.epoch = f.n /\ s.outbound = local.outbound
  BY <1>1, <1>5 DEF apply_rebase, LocalDoc
<1>. HIDE DEF s
<1>7. PlaceOK(s)
  BY <1>1, <1>4, <1>6 DEF PlaceOK, Attached
<1>. QED
  BY <1>6, <1>7 DEF s

LEMMA PlaceRead ==
  ASSUME Types, PlaceOK(disk.state), NEW reads \in BOOLEAN
  PROVE  LET s == LocalState_from_bytes(disk, reads)
         IN  PlaceOK(s) /\ (s = disk.state \/ (s.link = Lost /\ s.parent = Nil /\ s.outbound = NoOutbound /\ s.epoch = 0))
<1>. DEFINE u == [LocalState EXCEPT !.link = Lost]
<1>l. Lost \in Int /\ Lost <= 0
  BY DEF Lost
<1>2. NoOutbound \in [nonce : Nat, parent : Peer] /\ NoOutbound.nonce = 0 /\ joins \in Nat /\ Nil \in Peer
  BY DEF NoOutbound, Peer, Types
<1>3. None \in Seq(Slot) /\ 0 \in Slot
  BY DEF None, Slot, MAX_SLOT
<1>4. LocalState_from_bytes(disk, reads) = disk.state \/ LocalState_from_bytes(disk, reads) = u
  BY DEF LocalState_from_bytes
<1>. HIDE DEF u
<1>5. u \in LocalDoc
  <2>1. LocalState \in LocalDoc
    BY <1>2, <1>3 DEF LocalState, LocalDoc
  <2>. QED
    BY <1>l, <2>1 DEF LocalDoc, u
<1>6. /\ u.parent = Nil /\ u.address = None /\ u.link = Lost /\ u.outbound = NoOutbound /\ u.epoch = 0
  BY DEF LocalState, u
<1>7. PlaceOK(u)
  BY <1>2, <1>5, <1>6, <1>l DEF PlaceOK
<1>. QED
  BY <1>4, <1>6, <1>7

LEMMA PlaceNext ==
  ASSUME Types, Grown, NEW s, PlaceOK(s)
  PROVE  /\ local' = s => PlaceOK(local)'
         /\ disk'.state = s => PlaceOK(disk.state)'
<1>1. PlaceOK(s)'
  BY PlaceGrows
<1>. QED
  BY <1>1 DEF PlaceOK

(* The two documents that are stored, apart.                               *)
LEMMA DiskFacts ==
  ASSUME Docs
  PROVE  /\ \A s : persistState(disk, s) = [state |-> s, ledger |-> disk.ledger]
         /\ \A l : persistLedgerState(disk, l) = [state |-> disk.state, ledger |-> l]
<1>1. disk = [state |-> disk.state, ledger |-> disk.ledger]
  BY DEF Docs
<1>. DEFINE a == disk.state
            b == disk.ledger
<1>. HIDE DEF a, b
<1>2. disk = [state |-> a, ledger |-> b]
  BY <1>1 DEF a, b
<1>3. /\ \A s : persistState(disk, s) = [state |-> s, ledger |-> b]
      /\ \A l : persistLedgerState(disk, l) = [state |-> a, ledger |-> l]
  BY <1>2 DEF persistState, persistLedgerState
<1>. QED
  BY <1>3 DEF a, b

(* Only the place changes, and the wallet stays where it is.               *)
LEMMA SamePlace ==
  ASSUME Types, Docs, Grown, PlaceOK(local)', local'.link = local.link, local'.parent = local.parent,
         led' = led, disk' = disk, events' \in {events, events \cup {"other"}}
  PROVE  Docs'
<1>1. PlaceOK(local)' /\ PlaceOK(disk.state)'
  <2>1. PlaceOK(disk.state)
    BY DEF Docs
  <2>2. disk'.state = disk.state
    OBVIOUS
  <2>. QED
    BY <2>1, <2>2, PlaceNext
<1>2. /\ led' \in LedgerDoc /\ disk'.ledger \in LedgerDoc /\ disk' = [state |-> disk'.state, ledger |-> disk'.ledger]
      /\ Covers(led', disk'.ledger)
  BY DEF Docs
<1>3. events' \subseteq {"parent", "other"} /\ ("parent" \in events' <=> "parent" \in events)
  BY DEF Docs
<1>4. /\ "parent" \notin events' => SameParent(led', disk'.ledger) /\ disk'.state.link = local'.link
      /\ "parent" \in events' => led'.link = local'.link /\ local'.link # Lost
      /\ disk'.state.link = local'.link => disk'.state.parent = local'.parent
  BY <1>3 DEF Docs
<1>5. Bound(local, led)' /\ Bound(disk.state, disk.ledger)'
  BY DEF Docs, Bound
<1>6. Lost' = Lost
  BY DEF Lost
<1>. QED
  BY <1>1, <1>2, <1>3, <1>4, <1>5, <1>6 DEF Docs

(* A document that is stored covers itself.                                *)
LEMMA CoversItself ==
  ASSUME NEW l
  PROVE  Covers(l, l) /\ SameParent(l, l)
BY DEF Covers, SameParent

(* Only the ledger document in memory changes.                             *)
LEMMA LedgerKept ==
  ASSUME Types, Docs, Grown, led' \in LedgerDoc, SameParent(led', led), Bound(local, led'),
         Covers(led', disk.ledger), UNCHANGED <<local, disk, events>>
  PROVE  Docs'
<1>1. PlaceOK(local)' /\ PlaceOK(disk.state)'
  <2>1. PlaceOK(disk.state) /\ PlaceOK(local)
    BY DEF Docs
  <2>. QED
    BY <2>1, PlaceNext
<1>2. /\ disk'.ledger \in LedgerDoc /\ disk' = [state |-> disk'.state, ledger |-> disk'.ledger]
      /\ Covers(led', disk'.ledger) /\ events' \subseteq {"parent", "other"}
  BY DEF Docs
<1>3. /\ "parent" \notin events' => SameParent(led', disk'.ledger) /\ disk'.state.link = local'.link
      /\ "parent" \in events' => led'.link = local'.link /\ local'.link # Lost
      /\ disk'.state.link = local'.link => disk'.state.parent = local'.parent
  BY DEF Docs, SameParent
<1>4. Bound(local, led)' /\ Bound(disk.state, disk.ledger)'
  BY DEF Docs, Bound
<1>5. Lost' = Lost
  BY DEF Lost
<1>. QED
  BY <1>1, <1>2, <1>3, <1>4, <1>5 DEF Docs

(* Only the document of the place is stored, and no change of the parent   *)
(* waits to be.                                                            *)
LEMMA StateStored ==
  ASSUME Types, Docs, Grown, NEW s, PlaceOK(s), s.link = local.link, s.parent = local.parent,
         "parent" \notin events, local' = s, led' = led, events' = {},
         disk' = [state |-> s, ledger |-> disk.ledger]
  PROVE  Docs'
<1>1. disk'.state = s /\ disk'.ledger = disk.ledger
  OBVIOUS
<1>2. PlaceOK(local)' /\ PlaceOK(disk.state)'
  BY <1>1, PlaceNext
<1>3. /\ disk'.ledger \in LedgerDoc /\ led' \in LedgerDoc
      /\ Covers(led', disk'.ledger) /\ SameParent(led', disk'.ledger)
  BY <1>1 DEF Docs
<1>4. Bound(local, led)' /\ Bound(disk.state, disk.ledger)'
  BY <1>1 DEF Docs, Bound
<1>5. Lost' = Lost
  BY DEF Lost
<1>. QED
  BY <1>1, <1>2, <1>3, <1>4, <1>5 DEF Docs

(* Only the ledger document changes, for the same link, and is stored.     *)
LEMMA LedgerStored ==
  ASSUME Types, Docs, Grown, NEW l, l \in LedgerDoc, l.link = led.link, Bound(local, l),
         led' = l, disk' = persistLedgerState(disk, l), local' = local, events' = events
  PROVE  Docs'
<1>0. disk' = [state |-> disk.state, ledger |-> l]
  BY DiskFacts
<1>1. disk'.state = disk.state /\ disk'.ledger = l
  BY <1>0
<1>2. PlaceOK(local)' /\ PlaceOK(disk.state)'
  <2>1. PlaceOK(disk.state) /\ PlaceOK(local)
    BY DEF Docs
  <2>. QED
    BY <1>1, <2>1, PlaceNext
<1>3. disk' = [state |-> disk'.state, ledger |-> disk'.ledger]
  BY <1>0, <1>1
<1>4. /\ "parent" \notin events' => SameParent(led', disk'.ledger) /\ disk'.state.link = local'.link
      /\ "parent" \in events' => led'.link = local'.link /\ local'.link # Lost
      /\ disk'.state.link = local'.link => disk'.state.parent = local'.parent
      /\ events' \subseteq {"parent", "other"} /\ Covers(led', disk'.ledger)
  BY <1>1, CoversItself DEF Docs
<1>5. Bound(local, led)' /\ Bound(disk.state, disk.ledger)'
  <2>1. "parent" \notin events => disk.state.link = local.link /\ disk.state.parent = local.parent
    BY DEF Docs
  <2>2. "parent" \in events => led.link = local.link /\ local.link # Lost
    BY DEF Docs
  <2>3. disk.state.link = local.link => disk.state.parent = local.parent
    BY DEF Docs
  <2>. QED
    BY <1>1, <2>1, <2>2, <2>3 DEF Bound
<1>6. Lost' = Lost
  BY DEF Lost
<1>. QED
  BY <1>1, <1>2, <1>3, <1>4, <1>5, <1>6 DEF Docs

(* Both documents are stored as they are now.                              *)
LEMMA BothStored ==
  ASSUME Types, Grown, NEW s, NEW l, PlaceOK(s), l \in LedgerDoc, Bound(s, l), local' = s, led' = l,
         disk' = [state |-> s, ledger |-> l], events' \subseteq {"parent", "other"},
         "parent" \in events' => l.link = s.link /\ s.link # Lost
  PROVE  Docs'
<1>1. disk'.state = s /\ disk'.ledger = l
  OBVIOUS
<1>2. PlaceOK(local)' /\ PlaceOK(disk.state)'
  BY <1>1, PlaceNext
<1>3. Bound(local, led)' /\ Bound(disk.state, disk.ledger)'
  BY <1>1 DEF Bound
<1>4. Lost' = Lost
  BY DEF Lost
<1>. QED
  BY <1>1, <1>2, <1>3, <1>4, CoversItself DEF Docs

(* The wallet gets or loses a parent, and that is not stored yet.          *)
LEMMA Moved ==
  ASSUME Types, Docs, Grown, NEW s, NEW l, PlaceOK(s), l \in LedgerDoc, local' = s, led' = l, disk' = disk,
         events' = events \cup {"parent"}, l.link = s.link, s.link # Lost, l.leaves = led.leaves,
         l.balance = NoBalance, l.pending = << >>, disk.state.link = s.link => disk.state.parent = s.parent
  PROVE  Docs'
<1>1. PlaceOK(local)' /\ PlaceOK(disk.state)'
  <2>1. PlaceOK(disk.state)
    BY DEF Docs
  <2>2. disk'.state = disk.state
    OBVIOUS
  <2>. QED
    BY <2>1, <2>2, PlaceNext
<1>2. Bound(local, led)' /\ Bound(disk.state, disk.ledger)'
  BY DEF Bound, Docs
<1>3. Lost' = Lost
  BY DEF Lost
<1>4. "parent" \in events' /\ events' \subseteq {"parent", "other"}
  BY DEF Docs
<1>5. Covers(l, disk.ledger)
  BY SameCovers DEF Docs
<1>. QED
  BY <1>1, <1>2, <1>3, <1>4, <1>5 DEF Docs

(* What the user or an answer does to the ledger document of the wallet.   *)
LEMMA AnswerBound ==
  ASSUME Docs, NEW l, Answered(led, l, local.parent), Attached(local)
  PROVE  l \in LedgerDoc /\ l.link = led.link /\ Bound(local, l)
BY DEF Answered, Docs, Bound, Attached

LEMMA DecideBound ==
  ASSUME Docs, NEW l, Decided(led, l, local.parent)
  PROVE  l \in LedgerDoc /\ l.link = led.link /\ Bound(local, l)
BY DEF Decided, Docs, Bound

(* What a frame that waits in the queue says to an attached wallet.        *)
LEMMA TakenAnswer ==
  ASSUME Types, Docs, try_recv_ledger_event
  PROVE  led' = led \/ (Attached(local) /\ Answered(led, led', local.parent))
<1>1. SUFFICES ASSUME Attached(local) PROVE Answered(led, led', local.parent)
  BY DEF try_recv_ledger_event
<1>. DEFINE f == Head(inbox)
            p == local.parent
<1>2. inbox \in Seq(LedgerFrames) /\ inbox # << >>
  BY DEF Types, LedgerFrames, try_recv_ledger_event
<1>3. f \in LedgerFrames
  BY <1>2, HeadTailProperties
<1>4. f \in FrameSet /\ (f.status = "applied" => f.proof.node \in Node)
  BY <1>3 DEF LedgerFrames
<1>5. led \in LedgerDoc /\ p \in Node
  BY <1>1, PlaceFacts DEF Docs, Attached, Peer
<1>6. led' \in {apply_balance_receipt(led, f, p), apply_settlement_result(led, f, p)}
  BY <1>1 DEF try_recv_ledger_event
<1>. HIDE DEF f, p
<1>7. Answered(led, apply_balance_receipt(led, f, p), p)
  BY <1>4, <1>5, ReceiptAnswered
<1>8. Answered(led, apply_settlement_result(led, f, p), p)
  BY <1>4, <1>5, ResultAnswered
<1>. QED
  BY <1>6, <1>7, <1>8 DEF p

(* The decisions of the user.                                              *)
Deciding == \E p \in Node : confirm_pin(p) \/ accept_pin_change(p)

LEMMA DecidingFacts ==
  ASSUME Types, Docs, Deciding
  PROVE  /\ Decided(led, led', local.parent) /\ disk' = persistLedgerState(disk, led')
         /\ UNCHANGED <<local, guard, events, ident, inbox, replies, calls, node, net, aux, joins>>
<1>0. led \in LedgerDoc
  BY DEF Docs
<1>1. ASSUME NEW l, Decide(l)
      PROVE  /\ led' = l /\ disk' = persistLedgerState(disk, led')
             /\ UNCHANGED <<local, guard, events, ident, inbox, replies, calls, node, net, aux, joins>>
  BY <1>1 DEF Decide, Act
<1>2. ASSUME NEW p \in Node, confirm_pin(p)
      PROVE  \E l : Decide(l) /\ Decided(led, l, local.parent)
  BY <1>0, <1>2, ConfirmDecided DEF confirm_pin
<1>3. ASSUME NEW p \in Node, accept_pin_change(p)
      PROVE  \E l : Decide(l) /\ Decided(led, l, local.parent)
  BY <1>0, <1>3, AcceptDecided DEF accept_pin_change
<1>4. PICK l : Decide(l) /\ Decided(led, l, local.parent)
  BY <1>2, <1>3 DEF Deciding
<1>. QED
  BY <1>1, <1>4

(* What is entered in the document in memory only: an order that is sent,  *)
(* the key of a receive URI.                                               *)
Noted == SendPayment \/ \E p \in Node : pin_payee_leaf(p, key(p))

LEMMA NotedFacts ==
  ASSUME Types, Docs, Noted
  PROVE  /\ led' \in LedgerDoc /\ SameParent(led', led) /\ led'.balance = led.balance
         /\ PinsKept(led, led') /\ Covers(led', disk.ledger)
         /\ led'.pending = led.pending \/ Attached(local)
         /\ UNCHANGED <<local, disk, events>>
<1>0. led \in LedgerDoc /\ Covers(led, disk.ledger)
  BY DEF Docs
<1>1. CASE SendPayment
  <2>. DEFINE l == push_pending(led, acts')
  <2>1. led' = l /\ ~Listed(led.pending, acts') /\ acts' \in Nat /\ Attached(local) /\ UNCHANGED <<local, disk, events>>
    BY <1>1 DEF SendPayment, Act, Counted, Types, joined_context
  <2>2. /\ l \in LedgerDoc /\ l.link = led.link /\ l.pinned = led.pinned /\ l.balance = led.balance
        /\ l.leaves = led.leaves
    BY <1>0, <2>1, PushPending
  <2>. HIDE DEF l
  <2>3. PinsKept(led, l) /\ Covers(l, disk.ledger)
    BY <1>0, <2>2, SameLeaves, SameCovers
  <2>. QED
    BY <2>1, <2>2, <2>3 DEF SameParent
<1>2. ASSUME NEW p \in Node, pin_payee_leaf(p, key(p))
      PROVE  /\ led' \in LedgerDoc /\ SameParent(led', led) /\ led'.balance = led.balance
             /\ PinsKept(led, led') /\ Covers(led', disk.ledger)
             /\ led'.pending = led.pending
             /\ UNCHANGED <<local, disk, events>>
  <2>. DEFINE l == pin_leaf_key_from_receive(led, p, key(p))
  <2>1. led' = l /\ UNCHANGED <<local, disk, events>>
    BY <1>2 DEF pin_payee_leaf
  <2>2. key(p) \in Keys
    BY NodeFacts
  <2>3. Kept(led, l) /\ PinsKept(led, l) /\ Covers(l, disk.ledger)
    BY <1>0, <2>2, PinNoted, PinCovers
  <2>. HIDE DEF l
  <2>. QED
    BY <2>1, <2>3 DEF Kept, SameParent
<1>. QED
  BY <1>1, <1>2 DEF Noted

(* An approval that is taken: a new link.                                  *)
LEMMA ApprovalTaken ==
  ASSUME Types, Docs, Fresh, NEW f \in net, handle_join_approved(f), on_join_approved_ok(local, f)
  PROVE  /\ f \in Approvals /\ f.from \in Node /\ Unused(f.id) /\ f.id \in 1..joins
         /\ local' = on_join_approved(local, f) /\ PlaceOK(on_join_approved(local, f))
         /\ local'.link = f.id /\ local'.parent = f.from /\ local'.outbound = NoOutbound /\ local'.epoch = f.n
         /\ led' \in LedgerDoc /\ led'.link = f.id /\ led'.balance = NoBalance /\ led'.pending = << >>
         /\ led'.leaves = led.leaves /\ events' = events \cup {"parent"}
<1>1. f \in Approvals
  BY DEF handle_join_approved, Approvals
<1>2. Unused(f.id) /\ f.id \in 1..joins
  BY <1>1 DEF Fresh, Unused
<1>3. f.from \in Node /\ f.key \in Keys /\ f.id \in Int
  BY <1>1 DEF Approvals, Types, FrameOK, FrameSet
<1>4. /\ local' = on_join_approved(local, f) /\ led' = [rebind_parent(led, f.key) EXCEPT !.link = f.id]
      /\ events' = events \cup {"parent"}
  BY DEF handle_join_approved
<1>5. LET s == on_join_approved(local, f)
      IN  PlaceOK(s) /\ s.link = f.id /\ s.parent = f.from /\ s.outbound = NoOutbound /\ s.epoch = f.n
  BY <1>1, <1>2, PlaceApproved
<1>6. led \in LedgerDoc
  BY DEF Docs
<1>. DEFINE r == [rebind_parent(led, f.key) EXCEPT !.link = f.id]
<1>7. r \in LedgerDoc /\ r.link = f.id /\ r.balance = NoBalance /\ r.pending = << >> /\ r.leaves = led.leaves
  BY <1>3, <1>6, Rebound
<1>. QED
  BY <1>1, <1>2, <1>3, <1>4, <1>5, <1>7

(* A detach that is done: no link.                                         *)
LEMMA DetachDone ==
  ASSUME Types, Docs, Detached
  PROVE  /\ local' = apply_detach(local) /\ PlaceOK(apply_detach(local))
         /\ local.parent = Nil => local' = local /\ led' = led /\ events' = events
         /\ local.parent # Nil => /\ local' # local /\ local'.link = 0 /\ local'.parent = Nil
                                  /\ local'.outbound = NoOutbound
                                  /\ led' \in LedgerDoc /\ led'.link = 0 /\ led'.balance = NoBalance
                                  /\ led'.pending = << >> /\ led'.leaves = led.leaves
                                  /\ events' = events \cup {"parent"}
<1>1. LET s == apply_detach(local)
      IN  /\ PlaceOK(s)
          /\ local.parent = Nil => s = local
          /\ local.parent # Nil => s # local /\ s.link = 0 /\ s.parent = Nil /\ s.outbound = NoOutbound
  BY PlaceDetach DEF Docs
<1>2. led \in LedgerDoc /\ Nil \in Keys /\ 0 \in Int
  BY KeyNil DEF Docs
<1>. DEFINE r == [clear_parent_binding(led) EXCEPT !.link = 0]
<1>3. r \in LedgerDoc /\ r.link = 0 /\ r.balance = NoBalance /\ r.pending = << >> /\ r.leaves = led.leaves
  BY <1>2, Rebound
<1>. HIDE DEF r
<1>4. /\ local' = apply_detach(local)
      /\ local' = local => led' = led /\ events' = events
      /\ local' # local => led' = r /\ events' = events \cup {"parent"}
  BY DEF Detached, r
<1>. QED
  BY <1>1, <1>3, <1>4

LEMMA LostFacts == Lost \in Int /\ Lost < 0 /\ Lost # 0
BY DEF Lost

LEMMA ReloadDocs ==
  ASSUME Types, Docs, NEW sr \in BOOLEAN, NEW lr \in BOOLEAN, Reload(sr, lr)
  PROVE  LET s == LocalState_from_bytes(disk, sr)
             l == LedgerState_from_bytes(disk, lr, s)
         IN  /\ PlaceOK(s) /\ l \in LedgerDoc /\ Bound(s, l)
             /\ local' = s /\ led' = l /\ disk' = [state |-> s, ledger |-> l] /\ events' = {}
             /\ s = disk.state \/ (s.link = Lost /\ s.parent = Nil /\ s.outbound = NoOutbound /\ s.epoch = 0)
             /\ l = disk.ledger \/ (l.leaves = << >> /\ l.pinned = Nil)
<1>. DEFINE s == LocalState_from_bytes(disk, sr)
            l == LedgerState_from_bytes(disk, lr, s)
            n == [LedgerState EXCEPT !.link = s.link]
<1>1. PlaceOK(s) /\ (s = disk.state \/ (s.link = Lost /\ s.parent = Nil /\ s.outbound = NoOutbound /\ s.epoch = 0))
  BY PlaceRead DEF Docs
<1>2. l = disk.ledger \/ l = n
  BY DEF LedgerState_from_bytes
<1>3. local' = s /\ led' = l /\ disk' = [state |-> s, ledger |-> l] /\ events' = {}
  BY DEF Reload
<1>. HIDE DEF s
<1>4. s.link \in Int /\ (s.parent = Nil <=> s.link <= 0)
  BY <1>1, PlaceFacts
<1>5. /\ n \in LedgerDoc /\ n.link = s.link /\ n.balance = NoBalance /\ n.pending = << >>
      /\ n.leaves = << >> /\ n.pinned = Nil
  BY <1>4, FreshDoc
<1>. HIDE DEF n, l
<1>6. Bound(s, n)
  BY <1>4, <1>5, LostFacts DEF Bound
<1>7. Bound(s, disk.ledger)
  BY <1>1 DEF Docs, Bound
<1>8. disk.ledger \in LedgerDoc
  BY DEF Docs
<1>. QED
  BY <1>1, <1>2, <1>3, <1>5, <1>6, <1>7, <1>8 DEF s, l

LEMMA DocsStep ==
  ASSUME Types, Docs, Fresh, Next
  PROVE  Docs'
<1>0. PlaceOK(local) /\ PlaceOK(disk.state) /\ led \in LedgerDoc /\ disk.ledger \in LedgerDoc
  BY DEF Docs
<1>1. Grown
  BY <1>0, NodeStep
<1>2. CASE UNCHANGED <<local, led, disk, events>>
  <2>1. PlaceOK(local)'
    BY <1>0, <1>1, <1>2, PlaceNext
  <2>. QED
    BY <1>1, <1>2, <2>1, SamePlace
<1>3. ASSUME NEW p \in Node, Join(p)
      PROVE  Docs'
  <2>1. local' = set_outbound(local, joins', p) /\ led' = led /\ disk' = disk /\ events' = events
    BY <1>3 DEF Join
  <2>2. PlaceOK(local)' /\ local'.link = local.link /\ local'.parent = local.parent
    BY <1>0, <1>1, <2>1, PlaceJoin
  <2>. QED
    BY <1>1, <2>1, <2>2, SamePlace
<1>4. CASE drainControlEvents
  <2>1. /\ local' = local /\ led' = led /\ events' = {}
        /\ disk' = IF "parent" \in events THEN persistState(persistLedgerState(disk, led), local)
                   ELSE persistState(disk, local)
    BY <1>4 DEF drainControlEvents, DrainInto
  <2>2. CASE "parent" \in events
    <3>1. persistLedgerState(disk, led) = [state |-> disk.state, ledger |-> led]
      BY DiskFacts
    <3>2. disk' = [state |-> local, ledger |-> led]
      BY <2>1, <2>2, <3>1 DEF persistState
    <3>3. Bound(local, led)
      BY DEF Docs
    <3>. QED
      BY <1>0, <1>1, <2>1, <3>2, <3>3, BothStored
  <2>3. CASE "parent" \notin events
    <3>1. disk' = [state |-> local, ledger |-> disk.ledger]
      BY <2>1, <2>3, DiskFacts
    <3>. QED
      BY <1>0, <1>1, <2>1, <2>3, <3>1, StateStored
  <2>. QED
    BY <2>2, <2>3
<1>5. ASSUME NEW c \in calls, join_returns(c)
      PROVE  Docs'
  <2>. DEFINE ev == IF c.st = "refused" THEN events \cup {"other"} ELSE events
  <2>1. /\ local' \in {local, reject_outbound(local)} /\ led' = led /\ events' = {}
        /\ disk' = DrainInto(persistState(disk, local'), local', led, ev)
    BY <1>5 DEF join_returns
  <2>2. PICK s \in {local, reject_outbound(local)} : local' = s
    BY <2>1
  <2>3. PlaceOK(s) /\ s.link = local.link /\ s.parent = local.parent
    BY <1>0, PlaceReject
  <2>5. "parent" \in ev <=> "parent" \in events
    OBVIOUS
  <2>. HIDE DEF ev
  <2>6. persistState(disk, s) = [state |-> s, ledger |-> disk.ledger]
    BY DiskFacts
  <2>7. /\ "parent" \in ev => disk' = [state |-> s, ledger |-> led]
        /\ "parent" \notin ev => disk' = [state |-> s, ledger |-> disk.ledger]
    <3>. DEFINE a == disk.ledger
    <3>. HIDE DEF a
    <3>1. disk' = DrainInto([state |-> s, ledger |-> a], s, led, ev)
      BY <2>1, <2>2, <2>6 DEF a
    <3>2. CASE ev = {}
      BY <3>1, <3>2 DEF DrainInto, a
    <3>3. CASE "parent" \in ev
      BY <3>1, <3>3 DEF DrainInto, persistState, persistLedgerState
    <3>4. CASE ev # {} /\ "parent" \notin ev
      <4>1. disk' = [state |-> s, ledger |-> a]
        BY <3>1, <3>4 DEF DrainInto, persistState, persistLedgerState
      <4>. QED
        BY <3>4, <4>1 DEF a
    <3>. QED
      BY <3>2, <3>3, <3>4
  <2>8. Bound(s, led)
    BY <2>3 DEF Docs, Bound
  <2>9. CASE "parent" \in events
    BY <1>0, <1>1, <2>1, <2>2, <2>3, <2>5, <2>7, <2>8, <2>9, BothStored
  <2>10. CASE "parent" \notin events
    BY <1>1, <2>1, <2>2, <2>3, <2>5, <2>7, <2>10, StateStored
  <2>. QED
    BY <2>9, <2>10
<1>6. ASSUME NEW f \in net, handle_join_approved(f)
      PROVE  Docs'
  <2>1. CASE on_join_approved_ok(local, f)
    <3>. DEFINE s == on_join_approved(local, f)
    <3>1. /\ Unused(f.id) /\ f.id \in 1..joins /\ local' = s /\ PlaceOK(s) /\ s.link = f.id
          /\ led' \in LedgerDoc /\ led'.link = f.id /\ led'.balance = NoBalance /\ led'.pending = << >>
          /\ led'.leaves = led.leaves /\ events' = events \cup {"parent"}
      BY <1>6, <2>1, ApprovalTaken
    <3>. HIDE DEF s
    <3>2. disk' = disk
      BY <1>6 DEF handle_join_approved
    <3>3. s.link # Lost /\ disk.state.link # s.link
      BY <3>1, LostFacts DEF Unused
    <3>. QED
      BY <1>1, <3>1, <3>2, <3>3, Moved
  <2>2. CASE ~on_join_approved_ok(local, f)
    BY <1>2, <1>6, <2>2 DEF handle_join_approved, memory
  <2>. QED
    BY <2>1, <2>2
<1>7. ASSUME NEW f \in net, handle_join_rejected(f)
      PROVE  Docs'
  <2>1. PICK s \in {local, reject_outbound(local)} : local' = s
    BY <1>7 DEF handle_join_rejected
  <2>2. PlaceOK(s) /\ s.link = local.link /\ s.parent = local.parent
    BY <1>0, PlaceReject
  <2>3. led' = led /\ disk' = disk /\ events' \in {events, events \cup {"other"}}
    BY <1>7 DEF handle_join_rejected
  <2>. QED
    BY <1>1, <2>1, <2>2, <2>3, PlaceNext, SamePlace
<1>8. ASSUME NEW c \in calls, leave_returns(c)
      PROVE  Docs'
  <2>. DEFINE s == apply_detach(local)
  <2>1. Detached /\ disk' = persistState(persistLedgerState(disk, led'), local')
    BY <1>8 DEF leave_returns
  <2>2. disk' = [state |-> local', ledger |-> led']
    <3>1. persistLedgerState(disk, led') = [state |-> disk.state, ledger |-> led']
      BY DiskFacts
    <3>. QED
      BY <2>1, <3>1 DEF persistState
  <2>3. PlaceOK(s) /\ local' = s
    BY <2>1, DetachDone
  <2>4. CASE local.parent = Nil
    <3>1. local' = local /\ led' = led /\ events' = events
      BY <2>1, <2>4, DetachDone
    <3>2. /\ Bound(local, led) /\ events \subseteq {"parent", "other"}
          /\ "parent" \in events => led.link = local.link /\ local.link # Lost
      BY DEF Docs
    <3>. QED
      BY <1>0, <1>1, <2>2, <3>1, <3>2, BothStored
  <2>5. CASE local.parent # Nil
    <3>1. /\ local'.link = 0 /\ led' \in LedgerDoc /\ led'.link = 0 /\ led'.balance = NoBalance
          /\ led'.pending = << >> /\ events' = events \cup {"parent"}
      BY <2>1, <2>5, DetachDone
    <3>2. events' \subseteq {"parent", "other"}
      BY <3>1 DEF Docs
    <3>3. Bound(s, led')
      BY <2>3, <3>1, LostFacts DEF Bound
    <3>. HIDE DEF s
    <3>. QED
      BY <1>1, <2>2, <2>3, <3>1, <3>2, <3>3, LostFacts, BothStored
  <2>. QED
    BY <2>4, <2>5
<1>9. ASSUME NEW f \in net, handle_detach_notice(f)
      PROVE  Docs'
  <2>0. f.from \in Node /\ f.from # Nil
    BY <1>9, NodeAssumption DEF handle_detach_notice, Types, FrameOK
  <2>1. CASE local.parent = f.from
    <3>. DEFINE s == apply_detach(local)
    <3>1. Detached /\ disk' = disk
      BY <1>9, <2>1 DEF handle_detach_notice
    <3>2. /\ PlaceOK(s) /\ local' = s /\ s.link = 0 /\ s.parent = Nil
          /\ led' \in LedgerDoc /\ led'.link = 0 /\ led'.balance = NoBalance
          /\ led'.pending = << >> /\ led'.leaves = led.leaves /\ events' = events \cup {"parent"}
      BY <2>0, <2>1, <3>1, DetachDone
    <3>. HIDE DEF s
    <3>3. disk.state.link = 0 => disk.state.parent = Nil
      BY <1>0, PlaceFacts
    <3>. QED
      BY <1>1, <3>1, <3>2, <3>3, LostFacts, Moved
  <2>2. CASE local.parent # f.from
    BY <1>2, <1>9, <2>2 DEF handle_detach_notice, memory
  <2>. QED
    BY <2>1, <2>2
<1>10. ASSUME NEW f \in net, handle_rebase(f)
       PROVE  Docs'
  <2>1. /\ led' = led /\ disk' = disk /\ events' = events
        /\ local' = local \/ (Attached(local) /\ f.from = local.parent /\ local' = apply_rebase(local, f))
        /\ f.kind = "Rebase"
    BY <1>10 DEF handle_rebase
  <2>2. CASE local' = local
    BY <1>2, <2>1, <2>2
  <2>3. CASE Attached(local) /\ f.from = local.parent /\ local' = apply_rebase(local, f)
    <3>. DEFINE s == apply_rebase(local, f)
    <3>1. PlaceOK(s) /\ s.link = local.link /\ s.parent = local.parent /\ local' = s
      BY <1>0, <2>1, <2>3, PlaceRebase
    <3>. HIDE DEF s
    <3>. QED
      BY <1>1, <2>1, <3>1, PlaceNext, SamePlace
  <2>. QED
    BY <2>1, <2>2, <2>3
<1>11. CASE Noted
  <2>1. /\ led' \in LedgerDoc /\ SameParent(led', led) /\ led'.balance = led.balance
        /\ Covers(led', disk.ledger) /\ (led'.pending = led.pending \/ Attached(local))
        /\ UNCHANGED <<local, disk, events>>
    BY <1>11, NotedFacts
  <2>2. Bound(local, led')
    <3>1. Bound(local, led) /\ PlaceOK(local)
      BY DEF Docs
    <3>2. local.parent # Nil => local.link # Lost
      BY <3>1, PlaceFacts, LostFacts
    <3>3. led'.link = local.link \/ led'.link # Lost \/ ~Attached(local)
      BY <2>1, <3>1, <3>2 DEF SameParent, Bound, Attached
    <3>. QED
      BY <2>1, <3>1, <3>2, <3>3 DEF SameParent, Bound, Attached
  <2>. QED
    BY <1>1, <2>1, <2>2, LedgerKept
<1>12. CASE try_recv_ledger_event
  <2>1. /\ disk' = persistLedgerState(disk, led') /\ local' = local /\ events' = events
    BY <1>12 DEF try_recv_ledger_event
  <2>2. led' \in LedgerDoc /\ led'.link = led.link /\ Bound(local, led')
    <3>1. Bound(local, led)
      BY DEF Docs
    <3>. QED
      BY <1>0, <1>12, <3>1, TakenAnswer, AnswerBound
  <2>. QED
    BY <1>1, <2>1, <2>2, LedgerStored
<1>13. CASE Deciding
  <2>1. /\ disk' = persistLedgerState(disk, led') /\ local' = local /\ events' = events
        /\ Decided(led, led', local.parent)
    BY <1>13, DecidingFacts
  <2>2. led' \in LedgerDoc /\ led'.link = led.link /\ Bound(local, led')
    BY <2>1, DecideBound
  <2>. QED
    BY <1>1, <2>1, <2>2, LedgerStored
<1>14. ASSUME NEW sr \in BOOLEAN, NEW lr \in BOOLEAN, Reload(sr, lr)
       PROVE  Docs'
  BY <1>1, <1>14, ReloadDocs, BothStored
<1>16. ASSUME NEW c \in calls, payment_returns(c)
       PROVE  Docs'
  <2>1. disk' = persistLedgerState(disk, led) /\ local' = local /\ led' = led /\ events' = events
    BY <1>16 DEF payment_returns, memory
  <2>2. Bound(local, led)
    BY DEF Docs
  <2>. QED
    BY <1>0, <1>1, <2>1, <2>2, LedgerStored
<1>15. \/ UNCHANGED <<local, led, disk, events>>
       \/ (\E p \in Node : Join(p)) \/ drainControlEvents \/ try_recv_ledger_event \/ Deciding
       \/ (\E c \in calls : join_returns(c) \/ leave_returns(c) \/ payment_returns(c))
       \/ (\E f \in net : handle_join_approved(f) \/ handle_join_rejected(f) \/ handle_detach_notice(f) \/ handle_rebase(f))
       \/ Noted
       \/ \E s, l \in BOOLEAN : Reload(s, l)
  BY DEF Next, Deciding, Noted, approve_pending, reject_pending, apply_detach_child, propagate_rebase, NewLedgerKey,
     handle_join, handle_exit, handle_order, handle_register_eth_address, commit_returns, routed_takes, CallFails,
     MsgHandler_handle, Lose, Leave, RequestBalance, register_eth_address, rotate_eth_address, Commit,
     exchange_routed_control, set_user_identity, memory
<1>. QED
  BY <1>2, <1>3, <1>4, <1>5, <1>6, <1>7, <1>8, <1>9, <1>10, <1>11, <1>12, <1>13, <1>14, <1>15, <1>16

-----------------------------------------------------------------------------
(***************************************************************************)
(* The numbers of the joins.                                               *)
(***************************************************************************)

(* Where a call comes from that was not there before the step.             *)
LEMMA NewCall ==
  ASSUME Types, PlaceOK(local), Next, NEW d \in calls', d \notin calls
  PROVE  \/ \E p \in Node : Join(p) /\ d = Call("join", p, joins')
         \/ \E c \in calls : handle_join(c) /\ d.kind = "join" /\ d.st # "sent"
         \/ \E c \in calls : handle_exit(c) /\ d = [c EXCEPT !.st = "accepted"] /\ d.kind = "leave" /\ d.to = c.to
         \/ \E c \in Commits : handle_register_eth_address(c) /\ d.kind \in {"register", "rotate"}
         \/ \E c \in Commits : CallFails(c) /\ d = Resend(c) /\ d.kind = "rotate"
         \/ Leave /\ d = Call("leave", local.parent, joins) /\ d.kind = "leave" /\ d.to = local.parent
         \/ register_eth_address /\ d.kind = "register"
         \/ \E k \in Identity : rotate_eth_address(k) /\ d.kind = "rotate"
         \/ \E t \in Target : exchange_routed_control(t) /\ d.kind = "routed"
         \/ d.kind = "payment"
<1>0. Grown
  BY NodeStep
<1>1. joins \in Nat /\ joins' \in Nat /\ acts' \in Nat
  BY <1>0, UserAssumption DEF Types, Grown
<1>2. \A c \in calls : c \in CallSet
  BY DEF Types, CallOK
<1>3. ASSUME joined_context
      PROVE  local.parent \in Node
  BY <1>3 DEF joined_context, Attached, PlaceOK, LocalDoc, Peer
<1>4. ASSUME NEW p \in Node, Join(p)
      PROVE  d = Call("join", p, joins')
  BY <1>4 DEF Join
<1>5. ASSUME NEW c \in calls, handle_join(c)
      PROVE  d.kind = "join" /\ d.st # "sent"
  <2>1. \E st \in {"pending", "refused"} : d = [c EXCEPT !.st = st]
    BY <1>5 DEF handle_join
  <2>2. c.kind = "join" /\ c \in CallSet
    BY <1>2, <1>5 DEF handle_join
  <2>. QED
    BY <2>1, <2>2 DEF CallSet
<1>6. ASSUME NEW c \in calls, handle_exit(c)
      PROVE  d = [c EXCEPT !.st = "accepted"] /\ d.kind = "leave" /\ d.to = c.to
  <2>1. d = [c EXCEPT !.st = "accepted"] /\ c.kind = "leave" /\ c \in CallSet
    BY <1>2, <1>6 DEF handle_exit
  <2>. QED
    BY <2>1 DEF CallSet
<1>7. ASSUME NEW c \in calls, handle_register_eth_address(c)
      PROVE  c \in Commits /\ d.kind \in {"register", "rotate"}
  <2>1. c.kind \in {"register", "rotate"} /\ c \in CallSet /\ \E st, did : d = [c EXCEPT !.st = st, !.did = did]
    BY <1>2, <1>7 DEF handle_register_eth_address
  <2>. QED
    BY <2>1 DEF CallSet, Commits
<1>8. ASSUME NEW c \in calls, CallFails(c)
      PROVE  c \in Commits /\ d = Resend(c) /\ d.kind = "rotate"
  <2>1. d = Resend(c) /\ c.kind = "rotate" /\ c \in CallSet
    BY <1>2, <1>8 DEF CallFails
  <2>. QED
    BY <2>1 DEF CallSet, Commits, Resend
<1>9. ASSUME Leave
      PROVE  d = Call("leave", local.parent, joins) /\ d.kind = "leave" /\ d.to = local.parent
  BY <1>9 DEF Leave, Call
<1>10. ASSUME NEW kind, NEW k, Commit(kind, k)
       PROVE  d.kind = kind
  BY <1>10 DEF Commit, Call
<1>11. ASSUME NEW t \in Target, exchange_routed_control(t)
       PROVE  d.kind = "routed"
  BY <1>11 DEF exchange_routed_control, Call
<1>13. ASSUME SendPayment
       PROVE  d.kind = "payment"
  BY <1>13 DEF SendPayment, Call
<1>14. ASSUME NEW c \in calls, handle_order(c)
       PROVE  d.kind = "payment"
  <2>1. d = [c EXCEPT !.st = "accepted"] /\ c.kind = "payment" /\ c \in CallSet
    BY <1>2, <1>14 DEF handle_order
  <2>. QED
    BY <2>1 DEF CallSet
<1>12. \/ \E p \in Node : Join(p)
       \/ \E c \in calls : \/ handle_join(c) \/ handle_exit(c) \/ handle_order(c)
                           \/ handle_register_eth_address(c) \/ CallFails(c)
       \/ Leave \/ SendPayment \/ register_eth_address \/ (\E k \in Identity : rotate_eth_address(k))
       \/ \E t \in Target : exchange_routed_control(t)
  BY DEF Next, approve_pending, reject_pending, apply_detach_child, propagate_rebase, NewLedgerKey,
     confirm_pin, accept_pin_change, pin_payee_leaf, Decide, join_returns, leave_returns, commit_returns,
     routed_takes, handle_join_approved, handle_join_rejected, handle_rebase, handle_detach_notice,
     MsgHandler_handle, Lose, RequestBalance, payment_returns, try_recv_ledger_event, drainControlEvents,
     set_user_identity, Reload
<1>. QED
  BY <1>4, <1>5, <1>6, <1>7, <1>8, <1>9, <1>10, <1>11, <1>12, <1>13, <1>14
     DEF register_eth_address, rotate_eth_address

(* An approval comes from its operator only.                               *)
LEMMA NewApproval ==
  ASSUME Types, PlaceOK(local), Next, NEW f \in Approvals', f \notin Approvals
  PROVE  \E p \in Node : /\ approve_pending(p)
                         /\ f = Frame("Approved", p, node[p].queued, AddressAt(p), key(p), node[p].epoch)
<1>1. f \in net' /\ f \notin net /\ f.kind = "Approved"
  BY DEF Approvals
<1>2. \A kind, p, id, a, k, n : Frame(kind, p, id, a, k, n).kind = kind
  BY DEF Frame
<1>3. ASSUME NEW p \in Node, reject_pending(p) \/ apply_detach_child(p) \/ propagate_rebase(p)
      PROVE  FALSE
  BY <1>1, <1>2, <1>3 DEF reject_pending, apply_detach_child, propagate_rebase
<1>4. ASSUME RequestBalance
      PROVE  FALSE
  BY <1>1, <1>2, <1>4 DEF RequestBalance, BalanceQuery, Receipt
<1>5. ASSUME NEW c \in calls, handle_order(c)
      PROVE  FALSE
  <2>0. PICK q \in PayeeLeaf : f = Settled(c, q)
    BY <1>1, <1>5 DEF handle_order
  <2>. DEFINE p == c.to
              o == c.id
              a == Frame("Result", p, o, AddressAt(p), Nil, 0)
              b == Receipt("Result", p, o)
              x == [node |-> q, key |-> key(q)]
  <2>1. f = [a EXCEPT !.status = "rejected"] \/ f = [b EXCEPT !.status = "applied", !.proof = x]
    BY <2>0 DEF Settled
  <2>2. [a EXCEPT !.status = "rejected"].kind = "Result"
    BY DEF Frame
  <2>3. [b EXCEPT !.status = "applied", !.proof = x].kind = "Result"
    BY DEF Frame, Receipt
  <2>. HIDE DEF a, b, x
  <2>. QED
    BY <1>1, <2>1, <2>2, <2>3
<1>6. ASSUME NEW t \in Target, exchange_routed_control(t)
      PROVE  FALSE
  BY <1>1, <1>2, <1>6 DEF exchange_routed_control, send_control_reply
<1>7. \/ \E p \in Node : approve_pending(p) \/ propagate_rebase(p) \/ reject_pending(p) \/ apply_detach_child(p)
      \/ RequestBalance \/ (\E c \in calls : handle_order(c)) \/ \E t \in Target : exchange_routed_control(t)
  BY <1>1 DEF Next, Join, NewLedgerKey, confirm_pin, accept_pin_change, pin_payee_leaf, Decide, handle_join,
     join_returns, handle_exit, leave_returns, handle_register_eth_address, commit_returns, routed_takes,
     CallFails, handle_join_approved, handle_join_rejected, handle_rebase, handle_detach_notice,
     MsgHandler_handle, Lose, Leave, SendPayment, payment_returns, register_eth_address, rotate_eth_address, Commit,
     try_recv_ledger_event, drainControlEvents, set_user_identity, Reload
<1>8. PICK p \in Node : approve_pending(p)
  BY <1>3, <1>4, <1>5, <1>6, <1>7
<1>9. f = Frame("Approved", p, node[p].queued, AddressAt(p), key(p), node[p].epoch)
  BY <1>1, <1>8 DEF approve_pending
<1>. QED
  BY <1>8, <1>9

(* A link that is new comes from an approval.                              *)
OldLinks == {0, Lost, local.link, disk.state.link}

Taken(f) == handle_join_approved(f) /\ on_join_approved_ok(local, f)

LEMMA LinkStep ==
  ASSUME Types, Docs, Fresh, Next
  PROVE  /\ disk'.state.link \in OldLinks
         /\ local'.link \in OldLinks \/ \E f \in net : Taken(f)
<1>. DEFINE G == /\ disk'.state.link \in OldLinks
                 /\ local'.link \in OldLinks \/ \E f \in net : Taken(f)
<1>0. PlaceOK(local)
  BY DEF Docs
<1>1. ASSUME disk'.state = disk.state, local'.link = local.link
      PROVE  G
  BY <1>1 DEF OldLinks
<1>2. ASSUME NEW p \in Node, Join(p)
      PROVE  G
  <2>1. Grown
    BY <1>0, NodeStep
  <2>. QED
    BY <1>0, <1>1, <1>2, <2>1, PlaceJoin DEF Join
<1>3. CASE drainControlEvents
  <2>1. local' = local /\ disk'.state = local
    BY <1>3, DiskFacts DEF drainControlEvents, DrainInto, persistState, persistLedgerState
  <2>. QED
    BY <2>1 DEF OldLinks
<1>4. ASSUME NEW c \in calls, join_returns(c)
      PROVE  G
  <2>. DEFINE ev == IF c.st = "refused" THEN events \cup {"other"} ELSE events
  <2>1. /\ local' \in {local, reject_outbound(local)}
        /\ disk' = DrainInto(persistState(disk, local'), local', led, ev)
    BY <1>4 DEF join_returns
  <2>2. local'.link = local.link
    BY <1>0, <2>1, PlaceReject
  <2>3. persistState(disk, local') = [state |-> local', ledger |-> disk.ledger]
    BY DiskFacts
  <2>. HIDE DEF ev
  <2>4. disk'.state = local'
    BY <2>1, <2>3 DEF DrainInto, persistState, persistLedgerState
  <2>. QED
    BY <2>2, <2>4 DEF OldLinks
<1>5. ASSUME NEW f \in net, handle_join_approved(f)
      PROVE  G
  BY <1>5 DEF handle_join_approved, Taken, OldLinks, memory
<1>6. ASSUME NEW f \in net, handle_join_rejected(f)
      PROVE  G
  BY <1>0, <1>6, PlaceReject DEF handle_join_rejected, OldLinks
<1>7. ASSUME Detached
      PROVE  local'.link \in OldLinks
  BY <1>7, DetachDone DEF OldLinks
<1>8. ASSUME NEW c \in calls, leave_returns(c)
      PROVE  G
  <2>1. Detached /\ disk' = persistState(persistLedgerState(disk, led'), local')
    BY <1>8 DEF leave_returns
  <2>2. persistLedgerState(disk, led') = [state |-> disk.state, ledger |-> led']
    BY DiskFacts
  <2>3. disk'.state = local'
    BY <2>1, <2>2 DEF persistState
  <2>. QED
    BY <1>7, <2>1, <2>3
<1>9. ASSUME NEW f \in net, handle_detach_notice(f)
      PROVE  G
  BY <1>7, <1>9 DEF handle_detach_notice, OldLinks, memory
<1>10. ASSUME NEW f \in net, handle_rebase(f)
       PROVE  G
  <2>1. /\ disk' = disk /\ f.kind = "Rebase"
        /\ local' = local \/ (Attached(local) /\ f.from = local.parent /\ local' = apply_rebase(local, f))
    BY <1>10 DEF handle_rebase
  <2>2. local'.link = local.link
    BY <1>0, <2>1, PlaceRebase
  <2>. QED
    BY <1>1, <2>1, <2>2
<1>11. ASSUME local' = local, disk' = persistLedgerState(disk, led')
       PROVE  G
  <2>1. disk' = [state |-> disk.state, ledger |-> led']
    BY <1>11, DiskFacts
  <2>2. disk'.state = disk.state
    BY <2>1
  <2>. QED
    BY <1>1, <1>11, <2>2
<1>12. CASE try_recv_ledger_event \/ Deciding \/ \E c \in calls : payment_returns(c)
  BY <1>11, <1>12, DecidingFacts DEF try_recv_ledger_event, payment_returns, memory
<1>13. ASSUME NEW sr \in BOOLEAN, NEW lr \in BOOLEAN, Reload(sr, lr)
       PROVE  G
  <2>. DEFINE s == LocalState_from_bytes(disk, sr)
              l == LedgerState_from_bytes(disk, lr, s)
  <2>1. /\ local' = s /\ disk' = [state |-> s, ledger |-> l]
        /\ s = disk.state \/ s.link = Lost
    BY <1>13, ReloadDocs
  <2>. HIDE DEF s, l
  <2>. QED
    BY <2>1 DEF OldLinks
<1>15. CASE Noted
  BY <1>1, <1>15, NotedFacts
<1>14. \/ local' = local /\ disk' = disk
       \/ (\E p \in Node : Join(p)) \/ drainControlEvents \/ try_recv_ledger_event \/ Deciding
       \/ (\E c \in calls : join_returns(c) \/ leave_returns(c) \/ payment_returns(c))
       \/ (\E f \in net : handle_join_approved(f) \/ handle_join_rejected(f) \/ handle_detach_notice(f) \/ handle_rebase(f))
       \/ Noted
       \/ \E s, l \in BOOLEAN : Reload(s, l)
  BY DEF Next, Deciding, Noted, approve_pending, reject_pending, apply_detach_child, propagate_rebase, NewLedgerKey,
     handle_join, handle_exit, handle_order, handle_register_eth_address, commit_returns, routed_takes, CallFails,
     MsgHandler_handle, Lose, Leave, RequestBalance, register_eth_address, rotate_eth_address, Commit,
     exchange_routed_control, set_user_identity, memory
<1>. QED
  BY <1>1, <1>2, <1>3, <1>4, <1>5, <1>6, <1>8, <1>9, <1>10, <1>12, <1>13, <1>14, <1>15

(* Nothing new, and nothing that is in use.                                *)
LEMMA FreshLess ==
  ASSUME Types, Fresh, Grown, Sent' \subseteq Sent, Approvals' \subseteq Approvals,
         \A p \in Node : node'[p].queued \in {0, node[p].queued},
         local'.link \in OldLinks, disk'.state.link \in OldLinks
  PROVE  Fresh'
<1>1. \A k : Unused(k) => Unused(k)'
  <2>1. joins \in Nat /\ joins' \in Nat /\ joins <= joins'
    BY UserAssumption DEF Types, Grown
  <2>. QED
    BY <2>1, LostFacts DEF Unused, OldLinks
<1>2. \A c \in Sent : c.id # 0
  BY DEF Fresh, Unused
<1>3. \A f \in Approvals : f.id # 0
  BY DEF Fresh, Unused
<1>. QED
  BY <1>1, <1>2, <1>3 DEF Fresh

(* What a step changes of a node.                                          *)
SameNode(q) ==
  /\ node'[q].listed = node[q].listed /\ node'[q].queued = node[q].queued
  /\ node'[q].epoch = node[q].epoch /\ node'[q].marks = node[q].marks

NodeChange(q) ==
  \/ SameNode(q)
  \/ /\ approve_pending(q) /\ node[q].queued # 0
     /\ node'[q].listed = node[q].queued /\ node'[q].queued = 0
     /\ node'[q].epoch = node[q].epoch /\ node'[q].marks = node[q].marks
  \/ /\ reject_pending(q)
     /\ node'[q].listed = node[q].listed /\ node'[q].queued = 0
     /\ node'[q].epoch = node[q].epoch /\ node'[q].marks = node[q].marks
  \/ /\ apply_detach_child(q) \/ \E c \in calls : handle_exit(c) /\ c.to = q
     /\ node'[q].listed = 0 /\ node'[q].queued = node[q].queued
     /\ node'[q].epoch = node[q].epoch /\ node'[q].marks = node[q].marks
  \/ /\ propagate_rebase(q)
     /\ node'[q].listed = node[q].listed /\ node'[q].queued = node[q].queued
     /\ node'[q].epoch = node[q].epoch + 1 /\ node'[q].marks = node[q].marks
  \/ \E c \in calls : /\ handle_join(c) /\ c.to = q /\ node[q].queued = 0 /\ node'[q].queued = c.id
                      /\ node'[q].listed = node[q].listed
                      /\ node'[q].epoch = node[q].epoch /\ node'[q].marks = node[q].marks
  \/ \E c \in calls : /\ handle_register_eth_address(c) /\ c.to = q /\ node'[q].marks = node[q].marks \cup {c.id}
                      /\ node'[q].listed = node[q].listed /\ node'[q].queued = node[q].queued
                      /\ node'[q].epoch = node[q].epoch

LEMMA NodeChanges ==
  ASSUME Types, PlaceOK(local), Next
  PROVE  \A q \in Node : NodeChange(q)
<1>0. node \in [Node -> NodeSet]
  BY DEF Types
<1>1. ASSUME node' = node
      PROVE  \A q \in Node : NodeChange(q)
  BY <1>1 DEF NodeChange, SameNode
<1>2. ASSUME NEW p \in Node, approve_pending(p)
      PROVE  \A q \in Node : NodeChange(q)
  <2>1. node[p].queued # 0 /\ node' = [node EXCEPT ![p].listed = node[p].queued, ![p].queued = 0]
    BY <1>2 DEF approve_pending
  <2>2. \A q \in Node : q # p => SameNode(q)
    BY <1>0, <2>1 DEF SameNode
  <2>3. /\ node'[p].listed = node[p].queued /\ node'[p].queued = 0
        /\ node'[p].epoch = node[p].epoch /\ node'[p].marks = node[p].marks
    BY <1>0, <2>1 DEF NodeSet
  <2>. QED
    BY <1>2, <2>1, <2>2, <2>3 DEF NodeChange
<1>3. ASSUME NEW p \in Node, reject_pending(p)
      PROVE  \A q \in Node : NodeChange(q)
  <2>1. node' = [node EXCEPT ![p].queued = 0]
    BY <1>3 DEF reject_pending
  <2>2. \A q \in Node : q # p => SameNode(q)
    BY <1>0, <2>1 DEF SameNode
  <2>3. /\ node'[p].listed = node[p].listed /\ node'[p].queued = 0
        /\ node'[p].epoch = node[p].epoch /\ node'[p].marks = node[p].marks
    BY <1>0, <2>1 DEF NodeSet
  <2>. QED
    BY <1>3, <2>2, <2>3 DEF NodeChange
<1>4. ASSUME NEW p \in Node, apply_detach_child(p) \/ \E c \in calls : handle_exit(c) /\ c.to = p
      PROVE  \A q \in Node : NodeChange(q)
  <2>1. node' = [node EXCEPT ![p].listed = 0, ![p].anchor = Nil]
    BY <1>4 DEF apply_detach_child, handle_exit
  <2>2. \A q \in Node : q # p => SameNode(q)
    BY <1>0, <2>1 DEF SameNode
  <2>3. /\ node'[p].listed = 0 /\ node'[p].queued = node[p].queued
        /\ node'[p].epoch = node[p].epoch /\ node'[p].marks = node[p].marks
    BY <1>0, <2>1 DEF NodeSet
  <2>. QED
    BY <1>4, <2>2, <2>3 DEF NodeChange
<1>5. ASSUME NEW p \in Node, propagate_rebase(p)
      PROVE  \A q \in Node : NodeChange(q)
  <2>1. node' = [node EXCEPT ![p].epoch = node[p].epoch + 1]
    BY <1>5 DEF propagate_rebase
  <2>2. \A q \in Node : q # p => SameNode(q)
    BY <1>0, <2>1 DEF SameNode
  <2>3. /\ node'[p].listed = node[p].listed /\ node'[p].queued = node[p].queued
        /\ node'[p].epoch = node[p].epoch + 1 /\ node'[p].marks = node[p].marks
    BY <1>0, <2>1 DEF NodeSet
  <2>. QED
    BY <1>5, <2>2, <2>3 DEF NodeChange
<1>6. ASSUME NEW c \in calls, handle_join(c)
      PROVE  \A q \in Node : NodeChange(q)
  <2>0. c.to \in Node
    BY <1>6 DEF handle_join, Types, CallOK
  <2>. DEFINE p == c.to
              x == IF node[p].queued = 0 THEN c.id ELSE node[p].queued
  <2>1. node' = node \/ node' = [node EXCEPT ![p].queued = x]
    BY <1>6 DEF handle_join
  <2>. HIDE DEF p, x
  <2>2. CASE node' = [node EXCEPT ![p].queued = x]
    <3>0. p \in Node
      BY <2>0 DEF p
    <3>1. \A q \in Node : q # p => SameNode(q)
      BY <1>0, <2>2 DEF SameNode
    <3>2. /\ node'[p].listed = node[p].listed /\ node'[p].queued = x
          /\ node'[p].epoch = node[p].epoch /\ node'[p].marks = node[p].marks
      BY <1>0, <2>2, <3>0 DEF NodeSet
    <3>3. CASE node[p].queued = 0
      BY <1>6, <3>1, <3>2, <3>3 DEF NodeChange, p, x
    <3>4. CASE node[p].queued # 0
      BY <3>1, <3>2, <3>4 DEF NodeChange, SameNode, x
    <3>. QED
      BY <3>3, <3>4
  <2>. QED
    BY <1>1, <2>1, <2>2
<1>7. ASSUME NEW c \in calls, handle_register_eth_address(c)
      PROVE  \A q \in Node : NodeChange(q)
  <2>0. c.to \in Node
    BY <1>7 DEF handle_register_eth_address, Types, CallOK
  <2>1. PICK a : node' = [node EXCEPT ![c.to].marks = @ \cup {c.id}, ![c.to].anchor = a]
    BY <1>7 DEF handle_register_eth_address
  <2>2. \A q \in Node : q # c.to => SameNode(q)
    BY <1>0, <2>1 DEF SameNode
  <2>3. /\ node'[c.to].listed = node[c.to].listed /\ node'[c.to].queued = node[c.to].queued
        /\ node'[c.to].epoch = node[c.to].epoch /\ node'[c.to].marks = node[c.to].marks \cup {c.id}
    BY <1>0, <2>0, <2>1 DEF NodeSet
  <2>. QED
    BY <1>7, <2>2, <2>3 DEF NodeChange
<1>8. ASSUME NEW p \in Node, NEW k, node' = [node EXCEPT ![p].keys = k] \/ node' = [node EXCEPT ![p].height = k]
      PROVE  \A q \in Node : NodeChange(q)
  <2>1. \A q \in Node : q # p => SameNode(q)
    BY <1>0, <1>8 DEF SameNode
  <2>2. SameNode(p)
    BY <1>0, <1>8 DEF SameNode, NodeSet
  <2>. QED
    BY <2>1, <2>2 DEF NodeChange
<1>9. ASSUME NEW p \in Node, NewLedgerKey(p)
      PROVE  \A q \in Node : NodeChange(q)
  BY <1>8, <1>9 DEF NewLedgerKey
<1>10. ASSUME RequestBalance
       PROVE  \A q \in Node : NodeChange(q)
  <2>1. local.parent \in Node
    BY <1>10 DEF RequestBalance, joined_context, Attached, PlaceOK, LocalDoc, Peer
  <2>2. node' = node \/ \E h : node' = [node EXCEPT ![local.parent].height = h]
    BY <1>10 DEF RequestBalance, BalanceQuery
  <2>. QED
    BY <1>1, <1>8, <2>1, <2>2
<1>12. ASSUME NEW c \in calls, handle_order(c)
       PROVE  \A q \in Node : NodeChange(q)
  <2>1. c.to \in Node
    BY <1>12 DEF handle_order, Types, CallOK
  <2>2. node' = node \/ \E h : node' = [node EXCEPT ![c.to].height = h]
    BY <1>12 DEF handle_order
  <2>. QED
    BY <1>1, <1>8, <2>1, <2>2
<1>11. ASSUME NEW c \in calls, handle_exit(c)
       PROVE  \A q \in Node : NodeChange(q)
  <2>1. c.to \in Node
    BY <1>11 DEF handle_exit, Types, CallOK
  <2>. QED
    BY <1>4, <1>11, <2>1
<1>. QED
  BY <1>1, <1>2, <1>3, <1>4, <1>5, <1>6, <1>7, <1>9, <1>10, <1>11, <1>12, QuietNodes DEF Next, Quiet

LEMMA FreshStep ==
  ASSUME Types, Docs, Fresh, Next
  PROVE  Fresh'
<1>0. PlaceOK(local)
  BY DEF Docs
<1>1. Grown
  BY <1>0, NodeStep
<1>2. joins \in Nat /\ joins' \in Nat /\ joins <= joins'
  BY <1>1, UserAssumption DEF Types, Grown
<1>3. disk'.state.link \in OldLinks /\ (local'.link \in OldLinks \/ \E f \in net : Taken(f))
  BY LinkStep
<1>4. \A k : Unused(k) => k \in Nat /\ k # 0 /\ k # Lost /\ k \notin OldLinks
  BY <1>2, LostFacts DEF Unused, OldLinks
<1>5. \A k : Unused(k) /\ local'.link # k => Unused(k)'
  BY <1>2, <1>3, <1>4 DEF Unused
<1>6. \A q \in Node : NodeChange(q)
  BY <1>0, NodeChanges
<1>7. ASSUME NEW p \in Node, Join(p)
      PROVE  Fresh'
  <2>0. PICK n : n = joins'
    OBVIOUS
  <2>1. /\ n = joins + 1 /\ node' = node /\ net' = net /\ disk' = disk
        /\ calls' = calls \cup {Call("join", p, n)}
    BY <1>7, <2>0 DEF Join
  <2>2. local'.link = local.link
    BY <1>0, <1>1, <1>7, PlaceJoin DEF Join
  <2>3. \A k : Unused(k) => Unused(k)' /\ k # n
    BY <1>2, <2>0, <2>1, <2>2 DEF Unused
  <2>4. Unused(n)'
    <3>1. local.link \in Int /\ local.link <= joins /\ disk.state.link \in Int /\ disk.state.link <= joins
      BY PlaceFacts DEF Docs
    <3>. QED
      BY <1>2, <2>0, <2>1, <2>2, <3>1 DEF Unused
  <2>. DEFINE d == Call("join", p, n)
  <2>5. d.id = n /\ Sent' \subseteq Sent \cup {d} /\ Approvals' = Approvals
    BY <2>1 DEF Sent, Approvals, Call
  <2>. HIDE DEF d
  <2>6. \A q \in Node : node[q].queued <= joins /\ node[q].queued \in Nat /\ node'[q].queued = node[q].queued
    BY <2>1, NodeRow
  <2>7. \A q \in Node : node'[q].queued # n
    BY <1>2, <2>0, <2>1, <2>6
  <2>. QED
    BY <2>3, <2>4, <2>5, <2>6, <2>7 DEF Fresh
<1>8. ASSUME ~\E p \in Node : Join(p)
      PROVE  Sent' \subseteq Sent
  <2>1. SUFFICES ASSUME NEW d \in calls', d.kind = "join", d.st = "sent", d \notin calls
                 PROVE  FALSE
    BY DEF Sent
  <2>. QED
    BY <1>0, <1>8, <2>1, NewCall
<1>9. ASSUME ~\E p \in Node : approve_pending(p)
      PROVE  Approvals' \subseteq Approvals
  BY <1>0, <1>9, NewApproval
<1>10. ASSUME NEW c \in calls, handle_join(c)
       PROVE  Fresh'
  <2>1. net' = net /\ local' = local /\ disk' = disk /\ joins' = joins /\ c \in Sent
    BY <1>10 DEF handle_join, memory, counters, Sent
  <2>2. c.to \in Node /\ Approvals' = Approvals
    BY <1>10, <2>1 DEF handle_join, Types, CallOK, Approvals
  <2>3. Sent' \subseteq Sent \ {c}
    <3>1. c \in CallSet /\ \E st \in {"pending", "refused"} : calls' = (calls \ {c}) \cup {[c EXCEPT !.st = st]}
      BY <1>10 DEF handle_join, Types, CallOK
    <3>2. PICK st \in {"pending", "refused"} : calls' = (calls \ {c}) \cup {[c EXCEPT !.st = st]}
      BY <3>1
    <3>3. [c EXCEPT !.st = st].st # "sent"
      BY <3>1, <3>2 DEF CallSet
    <3>. QED
      BY <3>2, <3>3 DEF Sent
  <2>4. \A q \in Node : \/ node'[q].queued = node[q].queued
                        \/ q = c.to /\ node[q].queued = 0 /\ node'[q].queued = c.id
    <3>1. node' = node \/ node' = [node EXCEPT ![c.to].queued = IF @ = 0 THEN c.id ELSE @]
      BY <1>10 DEF handle_join
    <3>2. node \in [Node -> NodeSet]
      BY DEF Types
    <3>. QED
      BY <2>2, <3>1, <3>2 DEF NodeSet
  <2>5. \A k : Unused(k)' <=> Unused(k)
    BY <2>1 DEF Unused
  <2>6. Unused(c.id) /\ \A q \in Node : node[q].queued # c.id
    BY <2>1 DEF Fresh
  <2>. QED
    BY <2>1, <2>2, <2>3, <2>4, <2>5, <2>6 DEF Fresh
<1>11. ASSUME NEW p \in Node, approve_pending(p)
       PROVE  Fresh'
  <2>. DEFINE g == Frame("Approved", p, node[p].queued, AddressAt(p), key(p), node[p].epoch)
  <2>1. /\ local' = local /\ disk' = disk /\ joins' = joins /\ calls' = calls /\ net' = net \cup {g}
        /\ node[p].queued # 0
    BY <1>11 DEF approve_pending, memory, counters
  <2>2. g.id = node[p].queued /\ g.kind = "Approved"
    BY DEF Frame
  <2>3. Sent' = Sent /\ Approvals' = Approvals \cup {g}
    BY <2>1, <2>2 DEF Sent, Approvals
  <2>. HIDE DEF g
  <2>4. \A q \in Node : node'[q].queued = IF q = p THEN 0 ELSE node[q].queued
    <3>1. node' = [node EXCEPT ![p].listed = node[p].queued, ![p].queued = 0]
      BY <1>11 DEF approve_pending
    <3>2. node \in [Node -> NodeSet]
      BY DEF Types
    <3>. QED
      BY <3>1, <3>2 DEF NodeSet
  <2>5. \A k : Unused(k)' <=> Unused(k)
    BY <2>1 DEF Unused
  <2>6. \A f \in Approvals : f.id # 0 /\ f.id # g.id
    BY <1>4, <2>2 DEF Fresh
  <2>7. \A c \in Sent : c.id # 0 /\ c.id # g.id
    BY <1>4, <2>2 DEF Fresh
  <2>8. Unused(g.id) /\ \A q \in Node : q # p /\ node[q].queued # 0 => node[q].queued # g.id
    BY <2>1, <2>2 DEF Fresh
  <2>. QED
    BY <1>4, <2>3, <2>4, <2>5, <2>6, <2>7, <2>8 DEF Fresh
<1>12. ASSUME NEW f \in net, Taken(f)
       PROVE  Fresh'
  <2>1. /\ net' = net \ {f} /\ calls' = calls /\ disk' = disk /\ node' = node /\ joins' = joins
        /\ f \in Approvals /\ local'.link = f.id
    BY <1>12, ApprovalTaken DEF handle_join_approved, Taken, counters
  <2>2. Sent' = Sent /\ Approvals' = Approvals \ {f}
    BY <2>1 DEF Sent, Approvals
  <2>3. \A k : Unused(k) /\ k # f.id => Unused(k)'
    BY <2>1 DEF Unused
  <2>. QED
    BY <2>1, <2>2, <2>3 DEF Fresh
<1>13. CASE /\ ~\E p \in Node : Join(p) \/ approve_pending(p)
            /\ ~\E c \in calls : handle_join(c)
            /\ ~\E f \in net : Taken(f)
  <2>1. \A p \in Node : node'[p].queued \in {0, node[p].queued}
    BY <1>6, <1>13 DEF NodeChange, SameNode
  <2>2. Sent' \subseteq Sent /\ Approvals' \subseteq Approvals
    BY <1>8, <1>9, <1>13
  <2>. QED
    BY <1>1, <1>3, <1>13, <2>1, <2>2, FreshLess
<1>. QED
  BY <1>7, <1>10, <1>11, <1>12, <1>13

-----------------------------------------------------------------------------
(***************************************************************************)
(* A node knows of the link.                                               *)
(***************************************************************************)

(* What a step does to the place of the wallet.                            *)
Stays ==
  /\ local'.parent = local.parent /\ local'.link = local.link
  /\ local'.outbound \in {local.outbound, NoOutbound}
  /\ local'.epoch = local.epoch \/ \E f \in net : handle_rebase(f)

Leaves == local'.parent = Nil /\ local'.outbound = NoOutbound

Reloads == \E s, l \in BOOLEAN : Reload(s, l)

LEMMA PlaceStep ==
  ASSUME Types, Docs, Next
  PROVE  Stays \/ Leaves \/ (\E p \in Node : Join(p)) \/ (\E f \in net : Taken(f)) \/ Reloads
<1>0. PlaceOK(local)
  BY DEF Docs
<1>1. ASSUME local' = local
      PROVE  Stays
  BY <1>1 DEF Stays
<1>2. ASSUME local' = reject_outbound(local)
      PROVE  Stays
  BY <1>0, <1>2, PlaceReject DEF Stays
<1>3. ASSUME Detached
      PROVE  Stays \/ Leaves
  BY <1>1, <1>3, DetachDone DEF Leaves
<1>4. ASSUME NEW f \in net, handle_rebase(f)
      PROVE  Stays
  <2>1. /\ f.kind = "Rebase"
        /\ local' = local \/ (Attached(local) /\ f.from = local.parent /\ local' = apply_rebase(local, f))
    BY <1>4 DEF handle_rebase
  <2>. QED
    BY <1>0, <1>4, <2>1, PlaceRebase DEF Stays
<1>5. ASSUME NEW c \in calls, join_returns(c)
      PROVE  Stays
  BY <1>1, <1>2, <1>5 DEF join_returns
<1>6. ASSUME NEW f \in net, handle_join_rejected(f)
      PROVE  Stays
  BY <1>1, <1>2, <1>6 DEF handle_join_rejected
<1>7. ASSUME NEW f \in net, handle_join_approved(f)
      PROVE  Stays \/ Taken(f)
  BY <1>1, <1>7 DEF handle_join_approved, Taken, memory
<1>8. ASSUME NEW f \in net, handle_detach_notice(f)
      PROVE  Stays \/ Leaves
  BY <1>1, <1>3, <1>8 DEF handle_detach_notice, memory
<1>9. ASSUME NEW c \in calls, leave_returns(c)
      PROVE  Stays \/ Leaves
  BY <1>3, <1>9 DEF leave_returns
<1>10. \/ local' = local
       \/ (\E p \in Node : Join(p))
       \/ (\E c \in calls : join_returns(c) \/ leave_returns(c))
       \/ (\E f \in net : handle_join_approved(f) \/ handle_join_rejected(f) \/ handle_detach_notice(f) \/ handle_rebase(f))
       \/ Reloads
  BY DEF Next, Reloads, approve_pending, reject_pending, apply_detach_child, propagate_rebase, NewLedgerKey,
     handle_join, handle_exit, handle_register_eth_address, commit_returns, routed_takes, CallFails,
     MsgHandler_handle, Lose, Leave, RequestBalance, register_eth_address, rotate_eth_address, Commit,
     exchange_routed_control, set_user_identity, memory, confirm_pin, accept_pin_change, pin_payee_leaf, Decide,
     try_recv_ledger_event, SendPayment, payment_returns, handle_order, drainControlEvents
<1>. QED
  BY <1>1, <1>4, <1>5, <1>6, <1>7, <1>8, <1>9, <1>10

(* What happened is not forgotten.                                         *)
LEMMA AuxGrows ==
  ASSUME Types, Next
  PROVE  aux.lapsed \subseteq aux'.lapsed /\ aux.missed \subseteq aux'.missed /\ aux.used \subseteq aux'.used
<1>0. aux \in AuxSet
  BY DEF Types
<1>. DEFINE G == aux.lapsed \subseteq aux'.lapsed /\ aux.missed \subseteq aux'.missed /\ aux.used \subseteq aux'.used
<1>1. ASSUME NEW c \in calls, leave_returns(c) \/ commit_returns(c) \/ routed_takes(c)
      PROVE  G
  <2>1. \E l, v : aux' = aux \/ aux' = [aux EXCEPT !.lapsed = aux.lapsed \cup l] \/ aux' = [aux EXCEPT !.verdicts = v]
    <3>1. CASE leave_returns(c)
      BY <3>1 DEF leave_returns
    <3>2. CASE commit_returns(c)
      BY <3>2 DEF commit_returns
    <3>3. CASE routed_takes(c)
      BY <3>3 DEF routed_takes
    <3>. QED
      BY <1>1, <3>1, <3>2, <3>3
  <2>. QED
    BY <1>0, <2>1 DEF AuxSet
<1>2. ASSUME NEW f \in net, handle_detach_notice(f)
      PROVE  G
  BY <1>0, <1>2 DEF handle_detach_notice, AuxSet
<1>3. ASSUME NEW f \in net, Lose(f)
      PROVE  G
  BY <1>0, <1>3 DEF Lose, AuxSet
<1>4. ASSUME NEW f \in net, handle_join_approved(f)
      PROVE  G
  <2>1. \E b : aux' = aux \/ aux' = [aux EXCEPT !.heard = FALSE, !.regressed = b]
    BY <1>4, Zenon DEF handle_join_approved
  <2>. QED
    BY <1>0, <2>1 DEF AuxSet
<1>5. ASSUME NEW f \in net, handle_rebase(f)
      PROVE  G
  <2>. DEFINE u == aux.used \cup {<<f.from, f.n>>}
              b == f.n < node[f.from].epoch /\ (aux.regressed \/ (~aux.heard /\ f.n < local.epoch))
              m == aux.missed \cup {<<f.from, f.n>>}
  <2>1. aux' = aux \/ aux' = [aux EXCEPT !.heard = TRUE, !.used = u, !.regressed = b] \/ aux' = [aux EXCEPT !.missed = m]
    BY <1>5 DEF handle_rebase
  <2>2. aux.used \subseteq u /\ aux.missed \subseteq m
    OBVIOUS
  <2>. HIDE DEF u, b, m
  <2>. QED
    BY <1>0, <2>1, <2>2 DEF AuxSet
<1>6. ASSUME NEW sr \in BOOLEAN, NEW lr \in BOOLEAN, Reload(sr, lr)
      PROVE  G
  <2>. DEFINE s == LocalState_from_bytes(disk, sr)
              b == (s.link = local.link /\ aux.regressed) \/ s.epoch < local.epoch \/ s.link # local.link
              gone == { <<c.to, joins>> : c \in { x \in calls : x.kind = "leave" } }
              old == IF s.link = local.link THEN {} ELSE {<<s.parent, s.link>>}
              asked == IF s.outbound = local.outbound THEN {} ELSE {<<s.outbound.parent, s.outbound.nonce>>}
              l == aux.lapsed \cup gone \cup old \cup asked
  <2>1. aux' = [aux EXCEPT !.heard = FALSE, !.regressed = b, !.lapsed = l]
    BY <1>6 DEF Reload
  <2>. HIDE DEF b, gone, old, asked
  <2>2. aux.lapsed \subseteq l
    OBVIOUS
  <2>. HIDE DEF l
  <2>. QED
    BY <1>0, <2>1, <2>2 DEF AuxSet
<1>7. \/ aux' = aux
      \/ \E c \in calls : leave_returns(c) \/ commit_returns(c) \/ routed_takes(c)
      \/ \E f \in net : handle_detach_notice(f) \/ Lose(f) \/ handle_join_approved(f) \/ handle_rebase(f)
      \/ \E s, l \in BOOLEAN : Reload(s, l)
  BY DEF Next, Join, approve_pending, reject_pending, apply_detach_child, propagate_rebase, NewLedgerKey,
     confirm_pin, accept_pin_change, pin_payee_leaf, Decide, handle_join, join_returns, handle_exit,
     handle_register_eth_address, CallFails, handle_join_rejected, MsgHandler_handle, Leave, RequestBalance,
     register_eth_address, rotate_eth_address, Commit, drainControlEvents, SendPayment, payment_returns, handle_order,
     exchange_routed_control, set_user_identity, try_recv_ledger_event
<1>. QED
  BY <1>1, <1>2, <1>3, <1>4, <1>5, <1>6, <1>7

LEMMA FrameGone ==
  ASSUME Next, NEW f \in net, f \notin net'
  PROVE  \/ handle_join_approved(f) \/ handle_join_rejected(f) \/ handle_rebase(f)
         \/ handle_detach_notice(f) \/ MsgHandler_handle(f) \/ Lose(f)
<1>1. ASSUME NEW g \in net,
             \/ handle_join_approved(g) \/ handle_join_rejected(g) \/ handle_rebase(g)
             \/ handle_detach_notice(g) \/ MsgHandler_handle(g) \/ Lose(g)
      PROVE  g = f
  BY <1>1 DEF handle_join_approved, handle_join_rejected, handle_rebase, handle_detach_notice,
     MsgHandler_handle, Lose
<1>2. \E g \in net : \/ handle_join_approved(g) \/ handle_join_rejected(g) \/ handle_rebase(g)
                     \/ handle_detach_notice(g) \/ MsgHandler_handle(g) \/ Lose(g)
  BY DEF Next, Join, approve_pending, reject_pending, apply_detach_child, propagate_rebase, NewLedgerKey,
     confirm_pin, accept_pin_change, pin_payee_leaf, Decide, handle_join, join_returns, handle_exit, leave_returns,
     handle_register_eth_address, commit_returns, routed_takes, CallFails, Leave, RequestBalance, BalanceQuery,
     register_eth_address, rotate_eth_address, Commit, try_recv_ledger_event, drainControlEvents, SendPayment, payment_returns, handle_order,
     exchange_routed_control, set_user_identity, Reload
<1>. QED
  BY <1>1, <1>2

LEMMA CallGone ==
  ASSUME Next, NEW c \in calls, c \notin calls'
  PROVE  \/ handle_join(c) \/ join_returns(c) \/ handle_exit(c) \/ leave_returns(c)
         \/ handle_register_eth_address(c) \/ commit_returns(c) \/ routed_takes(c) \/ CallFails(c)
         \/ handle_order(c) \/ payment_returns(c) \/ Reloads
<1>1. ASSUME NEW d \in calls,
             \/ handle_join(d) \/ join_returns(d) \/ handle_exit(d) \/ leave_returns(d)
             \/ handle_register_eth_address(d) \/ commit_returns(d) \/ routed_takes(d) \/ CallFails(d)
             \/ handle_order(d) \/ payment_returns(d)
      PROVE  d = c
  BY <1>1 DEF handle_join, join_returns, handle_exit, leave_returns, handle_register_eth_address,
     commit_returns, routed_takes, CallFails, handle_order, payment_returns
<1>2. \/ \E d \in calls : \/ handle_join(d) \/ join_returns(d) \/ handle_exit(d) \/ leave_returns(d)
                          \/ handle_register_eth_address(d) \/ commit_returns(d) \/ routed_takes(d) \/ CallFails(d)
                          \/ handle_order(d) \/ payment_returns(d)
      \/ Reloads
  BY DEF Next, Reloads, Join, approve_pending, reject_pending, apply_detach_child, propagate_rebase, NewLedgerKey,
     confirm_pin, accept_pin_change, pin_payee_leaf, Decide, handle_join_approved, handle_join_rejected,
     handle_rebase, handle_detach_notice, MsgHandler_handle, Lose, Leave, RequestBalance,
     register_eth_address, rotate_eth_address, Commit, try_recv_ledger_event, drainControlEvents, SendPayment,
     exchange_routed_control, set_user_identity
<1>. QED
  BY <1>1, <1>2

LEMMA KnownStep ==
  ASSUME Types, Docs, Next, NEW p \in Node, NEW k \in Int, k <= joins, Known(p, k)
  PROVE  Known(p, k)' \/ Leaves
<1>0. PlaceOK(local) /\ joins \in Nat /\ aux \in AuxSet /\ p # Nil
  BY NodeAssumption DEF Docs, Types
<1>1. aux.lapsed \subseteq aux'.lapsed
  BY AuxGrows
<1>2. ASSUME NEW x, x \in aux'.lapsed, x[1] = p, k <= x[2]
      PROVE  Known(p, k)'
  BY <1>2 DEF Known
<1>3. ASSUME NEW n \in Int, <<p, n>> \in aux'.lapsed, k <= n
      PROVE  Known(p, k)'
  <2>1. <<p, n>>[1] = p /\ <<p, n>>[2] = n
    OBVIOUS
  <2>. QED
    BY <1>2, <1>3, <2>1
<1>4. CASE node[p].listed # 0
  <2>1. NodeChange(p)
    BY <1>0, NodeChanges
  <2>2. CASE node'[p].listed # 0
    BY <2>2 DEF Known
  <2>3. CASE apply_detach_child(p)
    <3>. DEFINE g == Frame("Detach", p, joins, None, Nil, 0)
    <3>1. g \in net'
      BY <2>3 DEF apply_detach_child
    <3>2. g.kind = "Detach" /\ g.from = p /\ g.id = joins
      BY DEF Frame
    <3>. HIDE DEF g
    <3>. QED
      BY <3>1, <3>2 DEF Known
  <2>4. ASSUME NEW c \in calls, handle_exit(c), c.to = p
        PROVE  Known(p, k)'
    <3>. DEFINE d == [c EXCEPT !.st = "accepted"]
    <3>1. d \in calls' /\ c.kind = "leave"
      BY <2>4 DEF handle_exit
    <3>2. c \in CallSet
      BY DEF Types, CallOK
    <3>3. d.kind = "leave" /\ d.to = p
      BY <2>4, <3>1, <3>2 DEF CallSet
    <3>. HIDE DEF d
    <3>. QED
      BY <3>1, <3>3 DEF Known
  <2>. QED
    BY <1>4, <2>1, <2>2, <2>3, <2>4 DEF NodeChange, SameNode
<1>5. ASSUME NEW x \in aux.lapsed, x[1] = p, k <= x[2]
      PROVE  Known(p, k)'
  BY <1>1, <1>2, <1>5
<1>6. ASSUME NEW f \in net, f.kind = "Detach", f.from = p, k <= f.id
      PROVE  Known(p, k)' \/ Leaves
  <2>0. f.id \in Int
    BY DEF Types, FrameOK, FrameSet
  <2>1. CASE f \in net'
    BY <1>6, <2>1 DEF Known
  <2>2. CASE Lose(f)
    <3>1. <<p, f.id>> \in aux'.lapsed
      BY <1>0, <1>6, <2>2 DEF Lose, AuxSet
    <3>. QED
      BY <1>3, <1>6, <2>0, <3>1
  <2>3. CASE handle_detach_notice(f)
    <3>1. CASE local.parent = p
      <4>1. Detached
        BY <1>6, <2>3, <3>1 DEF handle_detach_notice
      <4>. QED
        BY <1>0, <3>1, <4>1, DetachDone DEF Leaves
    <3>2. CASE local.parent # p
      <4>1. <<p, f.id>> \in aux'.lapsed
        BY <1>0, <1>6, <2>3, <3>2 DEF handle_detach_notice, AuxSet
      <4>. QED
        BY <1>3, <1>6, <2>0, <4>1
    <3>. QED
      BY <3>1, <3>2
  <2>4. f \notin net' => Lose(f) \/ handle_detach_notice(f)
    BY <1>6, FrameGone DEF handle_join_approved, handle_join_rejected, handle_rebase, MsgHandler_handle
  <2>. QED
    BY <2>1, <2>2, <2>3, <2>4
<1>7. ASSUME NEW c \in calls, c.kind = "leave", c.to = p
      PROVE  Known(p, k)' \/ Leaves
  <2>1. CASE c \in calls'
    BY <1>7, <2>1 DEF Known
  <2>2. CASE handle_exit(c)
    <3>. DEFINE d == [c EXCEPT !.st = "accepted"]
    <3>1. d \in calls'
      BY <2>2 DEF handle_exit
    <3>2. c \in CallSet
      BY DEF Types, CallOK
    <3>3. d.kind = "leave" /\ d.to = p
      BY <1>7, <3>2 DEF CallSet
    <3>. HIDE DEF d
    <3>. QED
      BY <3>1, <3>3 DEF Known
  <2>3. CASE leave_returns(c)
    <3>1. Detached
      BY <2>3 DEF leave_returns
    <3>2. CASE local' # local
      BY <3>1, <3>2, DetachDone DEF Leaves
    <3>3. CASE local' = local
      <4>1. <<p, joins>> \in aux'.lapsed
        BY <1>0, <1>7, <2>3, <3>3 DEF leave_returns, AuxSet
      <4>. QED
        BY <1>0, <1>3, <4>1
    <3>. QED
      BY <3>2, <3>3
  <2>4. CASE Reloads
    <3>1. <<p, joins>> \in { <<d.to, joins>> : d \in { x \in calls : x.kind = "leave" } }
      BY <1>7
    <3>2. <<p, joins>> \in aux'.lapsed
      BY <1>0, <2>4, <3>1 DEF Reloads, Reload, AuxSet
    <3>. QED
      BY <1>0, <1>3, <3>2
  <2>5. c \notin calls' => handle_exit(c) \/ leave_returns(c) \/ Reloads
    BY <1>7, CallGone DEF handle_join, join_returns, handle_register_eth_address, commit_returns, routed_takes, CallFails,
       handle_order, payment_returns
  <2>. QED
    BY <2>1, <2>2, <2>3, <2>4, <2>5
<1>. QED
  BY <1>4, <1>5, <1>6, <1>7 DEF Known

(* A reload that goes back to another link or request remembers that.      *)
LEMMA ReloadLapsed ==
  ASSUME Types, Docs, Reloads
  PROVE  /\ local'.link # local.link => <<local'.parent, local'.link>> \in aux'.lapsed
         /\ local'.outbound # local.outbound => <<local'.outbound.parent, local'.outbound.nonce>> \in aux'.lapsed
         /\ local'.parent # Nil => local' = disk.state
<1>0. aux \in AuxSet
  BY DEF Types
<1>1. PICK sr \in BOOLEAN, lr \in BOOLEAN : Reload(sr, lr)
  BY DEF Reloads
<1>. DEFINE s == LocalState_from_bytes(disk, sr)
            gone == { <<c.to, joins>> : c \in { x \in calls : x.kind = "leave" } }
            old == IF s.link = local.link THEN {} ELSE {<<s.parent, s.link>>}
            asked == IF s.outbound = local.outbound THEN {} ELSE {<<s.outbound.parent, s.outbound.nonce>>}
            b == (s.link = local.link /\ aux.regressed) \/ s.epoch < local.epoch \/ s.link # local.link
            l == aux.lapsed \cup gone \cup old \cup asked
<1>2. aux' = [aux EXCEPT !.heard = FALSE, !.regressed = b, !.lapsed = l] /\ local' = s
  BY <1>1 DEF Reload
<1>3. s = disk.state \/ s.parent = Nil
  BY <1>1, ReloadDocs
<1>. HIDE DEF s, gone, b
<1>4. old \subseteq l /\ asked \subseteq l
  OBVIOUS
<1>5. s.link # local.link => <<s.parent, s.link>> \in l
  BY <1>4
<1>6. s.outbound # local.outbound => <<s.outbound.parent, s.outbound.nonce>> \in l
  BY <1>4
<1>. HIDE DEF l
<1>7. aux'.lapsed = l
  BY <1>0, <1>2 DEF AuxSet
<1>. QED
  BY <1>2, <1>3, <1>5, <1>6, <1>7

LEMMA LinksStep ==
  ASSUME Types, Docs, Fresh, Links, Next
  PROVE  Links'
<1>0. PlaceOK(local) /\ PlaceOK(disk.state) /\ joins \in Nat
  BY DEF Docs, Types
<1>1. Stays \/ Leaves \/ (\E p \in Node : Join(p)) \/ (\E f \in net : Taken(f)) \/ Reloads
  BY PlaceStep
<1>2. PICK s : s = local'
  OBVIOUS
<1>3. ASSUME NEW p \in Node, NEW k \in Int, <<p, k>> \in aux'.lapsed
      PROVE  Known(p, k)'
  <2>1. <<p, k>>[1] = p /\ k <= <<p, k>>[2]
    OBVIOUS
  <2>. QED
    BY <1>3, <2>1 DEF Known
<1>4. ASSUME NEW p \in Node, Join(p)
      PROVE  /\ s.link = local.link /\ s.parent = local.parent
             /\ s.outbound.nonce = joins + 1
  <2>1. Grown
    BY <1>0, NodeStep
  <2>2. local' = set_outbound(local, joins', p) /\ joins' = joins + 1
    BY <1>4 DEF Join
  <2>3. s.outbound = [nonce |-> joins', parent |-> p]
    BY <1>0, <1>2, <2>2 DEF set_outbound, PlaceOK, LocalDoc
  <2>. QED
    BY <1>0, <1>2, <2>1, <2>2, <2>3, PlaceJoin
<1>5. ASSUME s.parent # Nil
      PROVE  Known(s.parent, s.link)'
  <2>0. ~Leaves
    BY <1>2, <1>5 DEF Leaves
  <2>1. CASE s.parent = local.parent /\ s.link = local.link
    <3>1. s.parent \in Node /\ s.link \in Int /\ s.link <= joins /\ Known(s.parent, s.link)
      BY <1>0, <1>5, <2>1, PlaceFacts DEF Links, Attached, Peer
    <3>. QED
      BY <2>0, <3>1, KnownStep
  <2>2. ASSUME NEW f \in net, Taken(f)
        PROVE  Known(s.parent, s.link)'
    <3>1. f \in Approvals /\ f.from \in Node /\ f.id \in 1..joins /\ s.parent = f.from /\ s.link = f.id
      BY <1>2, <2>2, ApprovalTaken DEF Taken
    <3>2. Known(s.parent, s.link) /\ s.link \in Int /\ s.link <= joins
      BY <1>0, <2>2, <3>1 DEF Links, Taken
    <3>. QED
      BY <2>0, <3>1, <3>2, KnownStep
  <2>3. CASE Reloads
    <3>1. s = disk.state /\ s.parent \in Node /\ s.link \in Int
      BY <1>0, <1>2, <1>5, <2>3, ReloadLapsed, PlaceFacts DEF Peer
    <3>2. CASE s.link = local.link
      BY <2>1, <3>1, <3>2 DEF Docs
    <3>3. CASE s.link # local.link
      BY <1>2, <1>3, <2>3, <3>1, <3>3, ReloadLapsed
    <3>. QED
      BY <3>2, <3>3
  <2>. QED
    BY <1>1, <1>2, <1>4, <2>0, <2>1, <2>2, <2>3 DEF Stays
<1>6. ASSUME NEW f, f \in Approvals', on_join_approved_ok(s, f)
      PROVE  Known(f.from, f.id)'
  <2>0. s.outbound # NoOutbound /\ s.outbound.parent = f.from /\ s.outbound.nonce = f.id
    BY <1>6 DEF on_join_approved_ok
  <2>1. ~Leaves
    BY <1>2, <2>0 DEF Leaves
  <2>2. CASE f \notin Approvals
    <3>1. PICK p \in Node : /\ approve_pending(p)
                            /\ f = Frame("Approved", p, node[p].queued, AddressAt(p), key(p), node[p].epoch)
      BY <1>0, <1>6, <2>2, NewApproval
    <3>2. f.from = p
      BY <3>1 DEF Frame
    <3>3. node[p].queued # 0 /\ node' = [node EXCEPT ![p].listed = node[p].queued, ![p].queued = 0]
      BY <3>1 DEF approve_pending
    <3>4. node \in [Node -> NodeSet]
      BY DEF Types
    <3>5. node'[p].listed # 0
      BY <3>3, <3>4 DEF NodeSet
    <3>. QED
      BY <3>2, <3>5 DEF Known
  <2>3. CASE f \in Approvals
    <3>1. f.from \in Node /\ f.id \in Int /\ f.id <= joins
      BY <2>3 DEF Types, FrameOK, FrameSet, Approvals
    <3>2. CASE local.outbound = s.outbound
      <4>1. Known(f.from, f.id)
        BY <2>0, <2>3, <3>2 DEF Links, on_join_approved_ok
      <4>. QED
        BY <2>1, <3>1, <4>1, KnownStep
    <3>3. CASE local.outbound # s.outbound
      <4>1. ~Stays
        BY <1>2, <2>0, <3>3 DEF Stays
      <4>2. ~\E p \in Node : Join(p)
        BY <1>0, <1>4, <2>0, <3>1
      <4>3. ~\E g \in net : Taken(g)
        BY <1>2, <2>0, ApprovalTaken DEF Taken
      <4>4. Reloads
        BY <1>1, <2>1, <4>1, <4>2, <4>3
      <4>5. <<f.from, f.id>> \in aux'.lapsed
        BY <1>2, <2>0, <3>3, <4>4, ReloadLapsed
      <4>. QED
        BY <1>3, <3>1, <4>5
    <3>. QED
      BY <3>2, <3>3
  <2>. QED
    BY <2>2, <2>3
<1>7. (Attached(local) => Known(local.parent, local.link))'
  BY <1>2, <1>5 DEF Known, Attached
<1>8. \A f \in Approvals' : on_join_approved_ok(s, f) => Known(f.from, f.id)'
  BY <1>6
<1>9. (\A f \in Approvals : on_join_approved_ok(local, f) => Known(f.from, f.id))'
  BY <1>2, <1>8 DEF on_join_approved_ok
<1>. QED
  BY <1>7, <1>9 DEF Links

-----------------------------------------------------------------------------
(***************************************************************************)
(* The address is current.                                                 *)
(***************************************************************************)

(* A notice of the parent is applied; or it is not newer than the last one;*)
(* or it is refused, and that is remembered.                               *)
Applies(f) ==
  /\ Attached(local) /\ f.from = local.parent /\ f.n > Stored
  /\ local'.epoch = f.n /\ guard' = [parent |-> f.from, generation |-> f.n]
  /\ aux'.heard /\ <<f.from, f.n>> \in aux'.used
  /\ aux'.regressed <=> f.n < node[f.from].epoch /\ (aux.regressed \/ (~aux.heard /\ f.n < local.epoch))

Holds(f) ==
  /\ Attached(local) /\ f.from = local.parent /\ ~(f.n > Stored)
  /\ local' = local /\ guard' = [parent |-> f.from, generation |-> Stored] /\ aux' = aux

Refuses(f) ==
  /\ local' = local
  /\ \/ guard' = guard
     \/ Attached(local) /\ f.from = local.parent /\ guard' = [parent |-> f.from, generation |-> Stored]
  /\ (aux'.heard <=> aux.heard) /\ (aux'.regressed <=> aux.regressed) /\ <<f.from, f.n>> \in aux'.missed

LEMMA RebaseFacts ==
  ASSUME Types, Docs, NEW f \in net, handle_rebase(f)
  PROVE  /\ f.from \in Node /\ f.n \in Nat /\ 1 <= f.n /\ f.n <= node[f.from].epoch /\ node' = node
         /\ f.kind = "Rebase" /\ net' = net \ {f}
         /\ Applies(f) \/ Holds(f) \/ Refuses(f)
<1>0. f.kind = "Rebase" /\ aux \in AuxSet /\ PlaceOK(local) /\ node' = node /\ net' = net \ {f}
  BY DEF handle_rebase, Types, Docs
<1>1. f.from \in Node /\ f.n \in Nat /\ f.n \in 1..node[f.from].epoch
  BY <1>0 DEF Types, FrameOK, FrameSet
<1>2. node[f.from].epoch \in Nat
  BY <1>1, NodeRow
<1>. DEFINE mine == Attached(local) /\ f.from = local.parent /\ slot(f.address) = local.slot
            b == f.n < node[f.from].epoch /\ (aux.regressed \/ (~aux.heard /\ f.n < local.epoch))
            u == aux.used \cup {<<f.from, f.n>>}
            m == aux.missed \cup {<<f.from, f.n>>}
<1>3. \/ /\ mine /\ f.n > Stored /\ local' = apply_rebase(local, f)
         /\ guard' = [parent |-> f.from, generation |-> f.n]
         /\ aux' = [aux EXCEPT !.heard = TRUE, !.used = u, !.regressed = b]
      \/ /\ ~(mine /\ f.n > Stored) /\ local' = local
         /\ guard' = IF mine THEN [parent |-> f.from, generation |-> Stored] ELSE guard
         /\ (aux' = aux /\ mine) \/ aux' = [aux EXCEPT !.missed = m]
  BY DEF handle_rebase, Advance
<1>4. CASE /\ mine /\ f.n > Stored /\ local' = apply_rebase(local, f)
           /\ guard' = [parent |-> f.from, generation |-> f.n]
           /\ aux' = [aux EXCEPT !.heard = TRUE, !.used = u, !.regressed = b]
  <2>1. local'.epoch = f.n
    BY <1>0, <1>4, PlaceRebase
  <2>2. b \in BOOLEAN /\ <<f.from, f.n>> \in u
    OBVIOUS
  <2>. HIDE DEF b, u
  <2>3. aux'.heard = TRUE /\ aux'.used = u /\ aux'.regressed = b
    BY <1>0, <1>4 DEF AuxSet
  <2>4. Applies(f)
    BY <1>4, <2>1, <2>2, <2>3 DEF Applies, b
  <2>. QED
    BY <1>0, <1>1, <1>2, <2>4
<1>5. CASE /\ ~(mine /\ f.n > Stored) /\ local' = local
           /\ guard' = IF mine THEN [parent |-> f.from, generation |-> Stored] ELSE guard
           /\ (aux' = aux /\ mine) \/ aux' = [aux EXCEPT !.missed = m]
  <2>1. CASE aux' = aux /\ mine
    <3>1. Holds(f)
      BY <1>5, <2>1 DEF Holds
    <3>. QED
      BY <1>0, <1>1, <1>2, <3>1
  <2>2. CASE aux' = [aux EXCEPT !.missed = m]
    <3>1. <<f.from, f.n>> \in m
      OBVIOUS
    <3>. HIDE DEF m
    <3>2. aux'.missed = m /\ aux'.heard = aux.heard /\ aux'.regressed = aux.regressed
      BY <1>0, <2>2 DEF AuxSet
    <3>3. Refuses(f)
      BY <1>5, <3>1, <3>2 DEF Refuses
    <3>. QED
      BY <1>0, <1>1, <1>2, <3>3
  <2>. QED
    BY <1>5, <2>1, <2>2
<1>. QED
  BY <1>3, <1>4, <1>5

(* What else touches the guard and the two marks.                          *)
LEMMA MarksStep ==
  ASSUME Types, Docs, Next
  PROVE  \/ guard' = guard /\ (aux'.heard <=> aux.heard) /\ (aux'.regressed <=> aux.regressed)
         \/ Leaves /\ guard' = NoGuard
         \/ (\E f \in net : Taken(f)) \/ (\E f \in net : handle_rebase(f)) \/ Reloads
<1>0. aux \in AuxSet
  BY DEF Types
<1>1. ASSUME NEW c \in calls, leave_returns(c) \/ commit_returns(c) \/ routed_takes(c)
      PROVE  guard' = guard /\ (aux'.heard <=> aux.heard) /\ (aux'.regressed <=> aux.regressed)
  <2>1. \E l, v : aux' = aux \/ aux' = [aux EXCEPT !.lapsed = aux.lapsed \cup l] \/ aux' = [aux EXCEPT !.verdicts = v]
    <3>1. CASE leave_returns(c)
      BY <3>1 DEF leave_returns
    <3>2. CASE commit_returns(c)
      BY <3>2 DEF commit_returns
    <3>3. CASE routed_takes(c)
      BY <3>3 DEF routed_takes
    <3>. QED
      BY <1>1, <3>1, <3>2, <3>3
  <2>2. guard' = guard
    BY <1>1 DEF leave_returns, commit_returns, routed_takes, memory
  <2>. QED
    BY <1>0, <2>1, <2>2 DEF AuxSet
<1>2. ASSUME NEW f \in net, handle_detach_notice(f)
      PROVE  \/ guard' = guard /\ (aux'.heard <=> aux.heard) /\ (aux'.regressed <=> aux.regressed)
             \/ Leaves /\ guard' = NoGuard
  <2>0. f.from # Nil
    BY <1>2, NodeAssumption DEF handle_detach_notice, Types, FrameOK
  <2>1. CASE local.parent = f.from
    <3>1. Detached /\ guard' = NoGuard
      BY <1>2, <2>1 DEF handle_detach_notice
    <3>. QED
      BY <2>0, <2>1, <3>1, DetachDone DEF Leaves
  <2>2. CASE local.parent # f.from
    BY <1>0, <1>2, <2>2 DEF handle_detach_notice, AuxSet, memory
  <2>. QED
    BY <2>1, <2>2
<1>3. ASSUME NEW f \in net, Lose(f)
      PROVE  guard' = guard /\ (aux'.heard <=> aux.heard) /\ (aux'.regressed <=> aux.regressed)
  BY <1>0, <1>3 DEF Lose, AuxSet, memory
<1>4. ASSUME NEW f \in net, handle_join_approved(f), ~Taken(f)
      PROVE  guard' = guard /\ aux' = aux
  BY <1>4 DEF handle_join_approved, Taken, memory
<1>5. \/ guard' = guard /\ aux' = aux
      \/ \E c \in calls : leave_returns(c) \/ commit_returns(c) \/ routed_takes(c)
      \/ \E f \in net : handle_detach_notice(f) \/ Lose(f) \/ handle_join_approved(f) \/ handle_rebase(f)
      \/ Reloads
  BY DEF Next, Join, approve_pending, reject_pending, apply_detach_child, propagate_rebase, NewLedgerKey,
     confirm_pin, accept_pin_change, pin_payee_leaf, Decide, handle_join, join_returns, handle_exit,
     handle_register_eth_address, CallFails, handle_join_rejected, MsgHandler_handle, Leave, RequestBalance,
     register_eth_address, rotate_eth_address, Commit, drainControlEvents, SendPayment, payment_returns, handle_order,
     exchange_routed_control, set_user_identity, try_recv_ledger_event, Reloads, memory
<1>. QED
  BY <1>1, <1>2, <1>3, <1>4, <1>5

LEMMA TakenMarks ==
  ASSUME Types, NEW f \in net, Taken(f)
  PROVE  /\ guard' = NoGuard /\ ~aux'.heard /\ node' = node
         /\ aux'.regressed <=> \E x \in aux.used : x[1] = f.from /\ x[2] > f.n
<1>0. aux \in AuxSet
  BY DEF Types
<1>. DEFINE b == \E x \in aux.used : x[1] = f.from /\ x[2] > f.n
<1>1. guard' = NoGuard /\ node' = node /\ aux' = [aux EXCEPT !.heard = FALSE, !.regressed = b]
  BY DEF Taken, handle_join_approved
<1>2. b \in BOOLEAN
  OBVIOUS
<1>. HIDE DEF b
<1>3. aux'.heard = FALSE /\ aux'.regressed = b
  BY <1>0, <1>1 DEF AuxSet
<1>. QED
  BY <1>1, <1>2, <1>3 DEF b

LEMMA ReloadMarks ==
  ASSUME Types, Reloads
  PROVE  /\ guard' = NoGuard /\ ~aux'.heard /\ node' = node /\ net' = net
         /\ aux'.regressed <=> \/ local'.link = local.link /\ aux.regressed
                               \/ local'.epoch < local.epoch \/ local'.link # local.link
<1>0. aux \in AuxSet
  BY DEF Types
<1>1. PICK sr \in BOOLEAN, lr \in BOOLEAN : Reload(sr, lr)
  BY DEF Reloads
<1>. DEFINE s == LocalState_from_bytes(disk, sr)
            gone == { <<c.to, joins>> : c \in { x \in calls : x.kind = "leave" } }
            old == IF s.link = local.link THEN {} ELSE {<<s.parent, s.link>>}
            asked == IF s.outbound = local.outbound THEN {} ELSE {<<s.outbound.parent, s.outbound.nonce>>}
            b == (s.link = local.link /\ aux.regressed) \/ s.epoch < local.epoch \/ s.link # local.link
            l == aux.lapsed \cup gone \cup old \cup asked
<1>2. /\ aux' = [aux EXCEPT !.heard = FALSE, !.regressed = b, !.lapsed = l] /\ local' = s
      /\ guard' = NoGuard /\ node' = node /\ net' = net
  BY <1>1 DEF Reload
<1>3. b \in BOOLEAN
  OBVIOUS
<1>. HIDE DEF b, l, s
<1>4. aux'.heard = FALSE /\ aux'.regressed = b
  BY <1>0, <1>2 DEF AuxSet
<1>. QED
  BY <1>2, <1>3, <1>4 DEF b

LEMMA GuardUsedStep ==
  ASSUME Types, Docs, Fresh, GuardUsed, Next
  PROVE  GuardUsed'
<1>0. PlaceOK(local) /\ guard \in [parent : Peer, generation : Nat]
  BY DEF Docs, Types
<1>1. Grown
  BY <1>0, NodeStep
<1>2. \A p \in Node : node[p].epoch \in Nat /\ node'[p].epoch \in Nat /\ node[p].epoch <= node'[p].epoch
  BY <1>1 DEF Types, Grown, NodeSet
<1>3. aux.used \subseteq aux'.used
  BY AuxGrows
<1>4. CASE guard' = guard
  BY <1>0, <1>2, <1>3, <1>4 DEF GuardUsed
<1>5. CASE guard' = NoGuard
  BY <1>5 DEF GuardUsed, NoGuard
<1>6. ASSUME NEW f \in net, handle_rebase(f)
      PROVE  GuardUsed'
  <2>1. /\ f.from \in Node /\ f.n \in Nat /\ f.n <= node[f.from].epoch /\ node' = node
        /\ Applies(f) \/ Holds(f) \/ Refuses(f)
    BY <1>6, RebaseFacts
  <2>2. CASE Applies(f)
    BY <2>1, <2>2 DEF Applies, GuardUsed
  <2>3. CASE f.from = local.parent /\ guard' = [parent |-> f.from, generation |-> Stored]
    BY <1>0, <1>3, <2>1, <2>3 DEF Stored, GuardUsed
  <2>. QED
    BY <1>4, <2>1, <2>2, <2>3 DEF Holds, Refuses
<1>. QED
  BY <1>4, <1>5, <1>6, MarksStep, TakenMarks, ReloadMarks

LEMMA HeardStep ==
  ASSUME Types, Docs, Fresh, Heard, Next
  PROVE  Heard'
<1>0. PlaceOK(local) /\ guard \in [parent : Peer, generation : Nat]
  BY DEF Docs, Types
<1>1. CASE guard' = NoGuard /\ ~aux'.heard
  BY <1>1 DEF Heard, NoGuard, Stored, Attached
<1>2. CASE Leaves
  BY <1>2 DEF Leaves, Heard, Attached
<1>3. ASSUME local'.parent = local.parent, local'.epoch = local.epoch, guard' = guard, aux'.heard <=> aux.heard
      PROVE  Heard'
  BY <1>3 DEF Heard, Stored, Attached
<1>4. ASSUME NEW f \in net, handle_rebase(f)
      PROVE  Heard'
  <2>1. /\ f.from \in Node /\ f.n \in Nat /\ 1 <= f.n
        /\ Applies(f) \/ Holds(f) \/ Refuses(f)
    BY <1>4, RebaseFacts
  <2>2. CASE Applies(f)
    <3>1. local'.parent = local.parent
      <4>1. local' = local \/ (Attached(local) /\ f.from = local.parent /\ local' = apply_rebase(local, f) /\ f.kind = "Rebase")
        BY <1>4 DEF handle_rebase
      <4>. QED
        BY <1>0, <4>1, PlaceRebase
    <3>2. Stored' = f.n
      BY <2>2, <3>1 DEF Applies, Stored
    <3>3. f.n # 0
      BY <2>1
    <3>. QED
      BY <2>2, <3>2, <3>3 DEF Applies, Heard
  <2>3. CASE /\ local' = local /\ f.from = local.parent /\ guard' = [parent |-> f.from, generation |-> Stored]
             /\ aux'.heard <=> aux.heard
    <3>1. Stored' = Stored
      BY <2>3 DEF Stored
    <3>. QED
      BY <2>3, <3>1 DEF Heard, Attached
  <2>. QED
    BY <1>3, <2>1, <2>2, <2>3 DEF Holds, Refuses
<1>5. ASSUME NEW p \in Node, Join(p)
      PROVE  local'.parent = local.parent /\ local'.epoch = local.epoch
  <2>1. Grown
    BY <1>0, NodeStep
  <2>. QED
    BY <1>0, <1>5, <2>1, PlaceJoin DEF Join
<1>. QED
  BY <1>1, <1>2, <1>3, <1>4, <1>5, MarksStep, PlaceStep, TakenMarks, ReloadMarks DEF Stays

(* A notice of the present epoch is under way until it is missed or the    *)
(* wallet has the epoch.                                                   *)
LEMMA ToldStep ==
  ASSUME Types, Docs, GuardUsed, Heard, Next, NEW p \in Node, Told(p), node'[p].epoch = node[p].epoch
  PROVE  \/ Told(p)'
         \/ /\ <<p, node[p].epoch>> \in aux'.used
            /\ local'.parent = p /\ local'.link = local.link /\ local'.epoch = node[p].epoch
<1>0. PlaceOK(local) /\ guard \in [parent : Peer, generation : Nat] /\ p # Nil /\ node[p].epoch \in Nat
  BY NodeAssumption, NodeRow DEF Docs, Types
<1>1. aux.missed \subseteq aux'.missed /\ aux.used \subseteq aux'.used
  BY AuxGrows
<1>2. CASE <<p, node[p].epoch>> \in aux'.missed
  BY <1>2 DEF Told
<1>3. ASSUME NEW f \in net, f.kind = "Rebase", f.from = p, f.n = node[p].epoch
      PROVE  \/ Told(p)'
             \/ /\ <<p, node[p].epoch>> \in aux'.used
                /\ local'.parent = p /\ local'.link = local.link /\ local'.epoch = node[p].epoch
  <2>1. CASE f \in net'
    BY <1>3, <2>1 DEF Told
  <2>2. CASE Lose(f)
    <3>1. aux \in AuxSet
      BY DEF Types
    <3>2. <<p, node[p].epoch>> \in aux'.missed
      BY <1>3, <2>2, <3>1 DEF Lose, AuxSet
    <3>. QED
      BY <1>2, <3>2
  <2>3. CASE handle_rebase(f)
    <3>1. /\ f.n \in Nat /\ 1 <= f.n /\ node' = node
          /\ Applies(f) \/ Holds(f) \/ Refuses(f)
      BY <2>3, RebaseFacts
    <3>2. CASE Applies(f)
      <4>1. /\ local' = local \/ (Attached(local) /\ f.from = local.parent /\ local' = apply_rebase(local, f))
            /\ local.parent = p
        BY <1>3, <2>3, <3>2 DEF handle_rebase, Applies
      <4>2. local'.parent = local.parent /\ local'.link = local.link
        BY <1>0, <1>3, <4>1, PlaceRebase
      <4>. QED
        BY <1>3, <3>2, <4>1, <4>2 DEF Applies
    <3>3. CASE Holds(f)
      <4>1. /\ local.parent = p /\ Attached(local) /\ local' = local /\ aux' = aux
            /\ Stored \in Nat /\ f.n <= Stored
        BY <1>0, <1>3, <3>1, <3>3 DEF Holds, Stored
      <4>2. Stored # 0 /\ guard.parent = p /\ guard.generation = Stored
        BY <1>0, <3>1, <4>1 DEF Stored
      <4>3. Stored <= node[p].epoch /\ <<p, Stored>> \in aux.used
        BY <4>2 DEF GuardUsed
      <4>4. Stored = node[p].epoch
        BY <1>0, <1>3, <4>1, <4>3
      <4>5. local.epoch = Stored
        BY <4>1, <4>2 DEF Heard
      <4>. QED
        BY <4>1, <4>3, <4>4, <4>5
    <3>4. CASE Refuses(f)
      BY <1>2, <1>3, <3>4 DEF Refuses
    <3>. QED
      BY <3>1, <3>2, <3>3, <3>4
  <2>4. f \notin net' => Lose(f) \/ handle_rebase(f)
    BY <1>3, FrameGone DEF handle_join_approved, handle_join_rejected, handle_detach_notice, MsgHandler_handle
  <2>. QED
    BY <2>1, <2>2, <2>3, <2>4
<1>. QED
  BY <1>1, <1>2, <1>3 DEF Told

(* A new address is announced to a wallet that is listed.                  *)
LEMMA Announced ==
  ASSUME NEW p \in Node, propagate_rebase(p), node[p].listed # 0, node'[p].epoch = node[p].epoch + 1
  PROVE  Told(p)'
<1>. DEFINE e == node[p].epoch + 1
            g == Frame("Rebase", p, 0, child(PrefixOf[p][e], SlotAt[p]), Nil, e)
<1>1. g \in net'
  BY DEF propagate_rebase
<1>2. g.kind = "Rebase" /\ g.from = p /\ g.n = e
  BY DEF Frame
<1>. HIDE DEF g
<1>. QED
  BY <1>1, <1>2 DEF Told

LEMMA OutdatedStep ==
  ASSUME Types, Docs, Fresh, GuardUsed, Heard, Outdated, Next
  PROVE  Outdated'
<1>0. PlaceOK(local) /\ node \in [Node -> NodeSet]
  BY DEF Docs, Types
<1>1. aux.used \subseteq aux'.used
  BY AuxGrows
<1>2. ASSUME NEW f, f \in Approvals', node'[f.from].listed = f.id, node'[f.from].epoch # f.n
      PROVE  Told(f.from)' \/ <<f.from, node'[f.from].epoch>> \in aux'.used
  <2>1. CASE f \notin Approvals
    <3>1. PICK p \in Node : /\ approve_pending(p)
                            /\ f = Frame("Approved", p, node[p].queued, AddressAt(p), key(p), node[p].epoch)
      BY <1>0, <1>2, <2>1, NewApproval
    <3>2. f.from = p /\ f.n = node[p].epoch
      BY <3>1 DEF Frame
    <3>3. node' = [node EXCEPT ![p].listed = node[p].queued, ![p].queued = 0]
      BY <3>1 DEF approve_pending
    <3>4. node'[p].epoch = node[p].epoch
      BY <1>0, <3>3 DEF NodeSet
    <3>. QED
      BY <1>2, <3>2, <3>4
  <2>2. CASE f \in Approvals
    <3>1. f.from \in Node
      BY <2>2 DEF Types, FrameOK, Approvals
    <3>2. PICK p \in Node : p = f.from
      BY <3>1
    <3>3. f.id # 0 /\ node[p].queued # f.id
      BY <2>2 DEF Fresh, Unused
    <3>4. NodeChange(p)
      BY <1>0, NodeChanges
    <3>5. CASE propagate_rebase(p)
      <4>1. node'[p].listed = node[p].listed /\ node'[p].epoch = node[p].epoch + 1
        BY <1>0, <3>5 DEF propagate_rebase, NodeSet
      <4>. QED
        BY <1>2, <3>2, <3>3, <3>5, <4>1, Announced
    <3>6. CASE ~propagate_rebase(p)
      <4>1. node'[p].listed = node[p].listed /\ node'[p].epoch = node[p].epoch
        BY <1>2, <3>2, <3>3, <3>4, <3>6 DEF NodeChange, SameNode
      <4>2. Told(p) \/ <<p, node[p].epoch>> \in aux.used
        BY <1>2, <2>2, <3>2, <4>1 DEF Outdated
      <4>3. Told(p)' \/ <<p, node'[p].epoch>> \in aux'.used
        BY <1>1, <4>1, <4>2, ToldStep
      <4>. QED
        BY <3>2, <4>3
    <3>. QED
      BY <3>5, <3>6
  <2>. QED
    BY <2>1, <2>2
<1>. QED
  BY <1>2 DEF Outdated

LEMMA CurrentStep ==
  ASSUME Types, Docs, Fresh, Epochs, Next
  PROVE  Current'
<1>0. /\ PlaceOK(local) /\ PlaceOK(disk.state) /\ node \in [Node -> NodeSet]
      /\ GuardUsed /\ Heard /\ Outdated /\ Current
  BY DEF Docs, Types, Epochs
<1>1. PICK s : s = local'
  OBVIOUS
<1>2. ASSUME NEW p \in Node, s.parent = p, node'[p].listed = s.link
      PROVE  s.epoch = node'[p].epoch \/ Told(p)' \/ aux'.regressed
  <2>0. p # Nil /\ node[p].epoch \in Nat
    BY NodeAssumption, NodeRow
  <2>1. CASE (\E f \in net : Taken(f))
    <3>1. PICK f \in net : Taken(f)
      BY <2>1
    <3>2. /\ f \in Approvals /\ Unused(f.id) /\ f.from = p /\ s.link = f.id /\ s.epoch = f.n
      BY <1>1, <1>2, <3>1, ApprovalTaken DEF Taken
    <3>3. /\ node' = node
          /\ aux'.regressed <=> \E x \in aux.used : x[1] = f.from /\ x[2] > f.n
      BY <3>1, TakenMarks
    <3>4. f.n \in Nat /\ f.n <= node[p].epoch
      BY <3>2 DEF Types, FrameOK, FrameSet, Approvals
    <3>5. CASE f.n = node[p].epoch
      BY <3>2, <3>3, <3>5
    <3>6. CASE f.n # node[p].epoch
      <4>1. Told(p) \/ <<p, node[p].epoch>> \in aux.used
        BY <1>0, <1>2, <3>2, <3>3, <3>6 DEF Outdated
      <4>2. CASE Told(p)
        <5>1. s.link # local.link
          BY <3>2 DEF Unused
        <5>. QED
          BY <1>0, <1>1, <3>3, <4>2, <5>1, ToldStep
      <4>3. CASE <<p, node[p].epoch>> \in aux.used
        <5>1. <<p, node[p].epoch>>[1] = f.from /\ <<p, node[p].epoch>>[2] > f.n
          BY <2>0, <3>2, <3>4, <3>6
        <5>. QED
          BY <3>3, <4>3, <5>1
      <4>. QED
        BY <4>1, <4>2, <4>3
    <3>. QED
      BY <3>5, <3>6
  <2>2. CASE Reloads
    <3>1. /\ node' = node
          /\ aux'.regressed <=> \/ s.link = local.link /\ aux.regressed
                                \/ s.epoch < local.epoch \/ s.link # local.link
      BY <1>1, <2>2, ReloadMarks
    <3>2. s = disk.state
      BY <1>1, <1>2, <2>0, <2>2, ReloadLapsed
    <3>3. CASE s.link # local.link \/ s.epoch < local.epoch
      BY <3>1, <3>3
    <3>4. CASE s.link = local.link /\ ~(s.epoch < local.epoch)
      <4>1. local.parent = p
        BY <1>2, <3>2, <3>4 DEF Docs
      <4>2. s.epoch \in Nat /\ s.epoch <= node[p].epoch /\ local.epoch \in Nat
        BY <1>0, <1>2, <2>0, <3>2 DEF PlaceOK, LocalDoc
      <4>3. local.epoch = node[p].epoch \/ Told(p) \/ aux.regressed
        BY <1>0, <1>2, <2>0, <3>1, <3>4, <4>1 DEF Current, Attached
      <4>4. CASE local.epoch = node[p].epoch
        BY <3>1, <3>4, <4>2, <4>4
      <4>5. CASE Told(p)
        BY <1>0, <1>1, <3>1, <4>5, ToldStep
      <4>. QED
        BY <3>1, <3>4, <4>3, <4>4, <4>5
    <3>. QED
      BY <3>3, <3>4
  <2>3. CASE s.parent = local.parent /\ s.link = local.link /\ ~Reloads /\ ~\E f \in net : Taken(f)
    <3>1. local.parent = p /\ Attached(local) /\ local.link \in Int /\ local.link > 0
      BY <1>0, <1>2, <2>0, <2>3, PlaceFacts DEF Attached
    <3>2. NodeChange(p)
      BY <1>0, NodeChanges
    <3>3. node[p].queued # 0 => node[p].queued # local.link
      BY DEF Fresh, Unused
    <3>4. CASE propagate_rebase(p)
      <4>1. node'[p].listed = node[p].listed /\ node'[p].epoch = node[p].epoch + 1
        BY <1>0, <3>4 DEF propagate_rebase, NodeSet
      <4>. QED
        BY <1>2, <2>3, <3>1, <3>4, <4>1, Announced
    <3>5. CASE ~propagate_rebase(p)
      <4>1. node'[p].listed = node[p].listed /\ node'[p].epoch = node[p].epoch
        BY <1>2, <2>3, <3>1, <3>2, <3>3, <3>5 DEF NodeChange, SameNode
      <4>2. local.epoch = node[p].epoch \/ Told(p) \/ aux.regressed
        BY <1>0, <1>2, <2>3, <3>1, <4>1 DEF Current
      <4>3. CASE Told(p)
        BY <1>0, <1>1, <4>1, <4>3, ToldStep
      <4>4. ASSUME NEW f \in net, handle_rebase(f), local.epoch = node[p].epoch \/ aux.regressed
            PROVE  s.epoch = node'[p].epoch \/ aux'.regressed
        <5>1. /\ f.n \in Nat /\ f.n <= node[f.from].epoch
              /\ Applies(f) \/ Holds(f) \/ Refuses(f)
          BY <4>4, RebaseFacts
        <5>2. CASE Applies(f)
          <6>1. f.from = p /\ s.epoch = f.n /\ f.n > Stored
            BY <1>1, <3>1, <5>2 DEF Applies
          <6>2. aux.heard => Stored = local.epoch
            BY <1>0, <3>1 DEF Heard
          <6>3. CASE f.n = node[p].epoch
            BY <4>1, <6>1, <6>3
          <6>4. CASE f.n # node[p].epoch
            <7>1. f.n < node[p].epoch
              BY <2>0, <5>1, <6>1, <6>4
            <7>2. aux.regressed \/ (~aux.heard /\ f.n < local.epoch)
              BY <2>0, <4>4, <5>1, <6>1, <6>2, <7>1
            <7>. QED
              BY <5>2, <6>1, <7>1, <7>2 DEF Applies
          <6>. QED
            BY <6>3, <6>4
        <5>3. CASE local' = local /\ (aux'.regressed <=> aux.regressed)
          BY <1>1, <4>1, <4>4, <5>3
        <5>. QED
          BY <5>1, <5>2, <5>3 DEF Holds, Refuses
      <4>5. CASE ~\E f \in net : handle_rebase(f)
        <5>1. Stays \/ \E q \in Node : Join(q)
          BY <1>1, <1>2, <2>0, <2>3, PlaceStep DEF Leaves
        <5>2. s.epoch = local.epoch
          <6>1. ASSUME NEW q \in Node, Join(q)
                PROVE  local'.epoch = local.epoch
            <7>1. Grown
              BY <1>0, NodeStep
            <7>. QED
              BY <1>0, <6>1, <7>1, PlaceJoin DEF Join
          <6>. QED
            BY <1>1, <4>5, <5>1, <6>1 DEF Stays
        <5>3. aux'.regressed <=> aux.regressed
          BY <1>1, <1>2, <2>0, <2>3, <4>5, MarksStep DEF Leaves
        <5>. QED
          BY <4>1, <4>2, <4>3, <5>2, <5>3
      <4>. QED
        BY <4>2, <4>3, <4>4, <4>5
    <3>. QED
      BY <3>4, <3>5
  <2>4. ASSUME NEW q \in Node, Join(q)
        PROVE  s.parent = local.parent /\ s.link = local.link
    <3>1. Grown
      BY <1>0, NodeStep
    <3>. QED
      BY <1>0, <1>1, <2>4, <3>1, PlaceJoin DEF Join
  <2>. QED
    BY <1>1, <1>2, <2>0, <2>1, <2>2, <2>3, <2>4, PlaceStep DEF Stays, Leaves
<1>3. s.parent # Nil => s.parent \in Node
  <2>1. PlaceOK(local)'
    BY DocsStep DEF Docs
  <2>. QED
    BY <1>1, <2>1 DEF PlaceOK, LocalDoc, Peer
<1>. QED
  BY <1>1, <1>2, <1>3 DEF Current, Attached, Told

LEMMA EpochsStep ==
  ASSUME Types, Docs, Fresh, Epochs, Next
  PROVE  Epochs'
BY GuardUsedStep, HeardStep, OutdatedStep, CurrentStep DEF Epochs

-----------------------------------------------------------------------------
(***************************************************************************)
(* What the calls return.                                                  *)
(***************************************************************************)

(* A commit d is the first attempt of a new one, or follows c: its answer, *)
(* or the next attempt.                                                    *)
First(d) ==
  /\ d.id = acts' /\ acts' = acts + 1 /\ d.st = "sent" /\ d.did = "nothing" /\ d.tries = 1
  /\ d.new \in Identity /\ d.to \in Node /\ calls' = calls \cup {d} /\ node' = node

Same(c, d) ==
  /\ d.id = c.id /\ d.to = c.to /\ d.kind = c.kind /\ d.new = c.new
  /\ calls' = (calls \ {c}) \cup {d}

Answer(c, d) ==
  /\ handle_register_eth_address(c) /\ Same(c, d) /\ c.st = "sent" /\ d.tries = c.tries
  /\ IF c.id \in node[c.to].marks THEN d.st = "Replay" /\ d.did = c.did
     ELSE d.st \in {"Accepted", "Rejected"} /\ (c.did # "Accepted" => d.did = d.st)

Again(c, d) ==
  /\ Same(c, d) /\ d.st = "sent" /\ d.kind = "rotate" /\ d.tries = c.tries + 1 /\ d.did = c.did
  /\ node' = node

LEMMA NewCommit ==
  ASSUME Types, PlaceOK(local), Next, NEW d \in Commits', d \notin calls
  PROVE  First(d) \/ \E c \in Commits : Answer(c, d) \/ Again(c, d)
<1>0. d \in calls' /\ d.kind \in {"register", "rotate"}
  BY DEF Commits
<1>1. \A c \in calls : c \in CallSet
  BY DEF Types, CallOK
<1>2. Grown /\ acts \in Nat /\ ident \in Identity
  BY NodeStep DEF Types
<1>3. ASSUME NEW kind \in {"register", "rotate"}, NEW k \in Identity, Commit(kind, k)
      PROVE  First(d)
  <2>1. PICK n : n = acts'
    OBVIOUS
  <2>. DEFINE b == Call(kind, local.parent, n)
              e == [b EXCEPT !.old = ident, !.new = k]
  <2>2. n = acts + 1 /\ calls' = calls \cup {e} /\ node' = node /\ local.parent \in Node /\ n \in Nat
    BY <1>2, <1>3, <2>1 DEF Commit, Act, Counted, joined_context, Attached, PlaceOK, LocalDoc, Peer
  <2>3. b \in CallSet /\ b.to = local.parent /\ b.id = n /\ b.st = "sent" /\ b.did = "nothing" /\ b.tries = 1
    BY <2>2, MakeCall
  <2>. HIDE DEF b
  <2>4. e.to = local.parent /\ e.id = n /\ e.st = "sent" /\ e.did = "nothing" /\ e.tries = 1 /\ e.new = k
    BY <2>3 DEF CallSet
  <2>. HIDE DEF e
  <2>5. d = e
    BY <1>0, <2>2
  <2>. QED
    BY <2>1, <2>2, <2>4, <2>5 DEF First
<1>4. ASSUME NEW c \in Commits, handle_register_eth_address(c)
      PROVE  Answer(c, d)
  <2>. DEFINE r == node[c.to]
              fits == r.listed # 0 /\ IF c.kind = "register" THEN r.anchor = Nil ELSE r.anchor = c.old
              st == IF c.id \in r.marks THEN "Replay" ELSE IF fits THEN "Accepted" ELSE "Rejected"
              did == IF st = "Replay" \/ c.did = "Accepted" THEN c.did ELSE st
  <2>0. c \in calls /\ c \in CallSet
    BY <1>1 DEF Commits
  <2>1. c.st = "sent" /\ calls' = (calls \ {c}) \cup {[c EXCEPT !.st = st, !.did = IF st = "Replay" \/ @ = "Accepted" THEN @ ELSE st]}
    BY <1>4 DEF handle_register_eth_address
  <2>2. [c EXCEPT !.st = st, !.did = IF st = "Replay" \/ @ = "Accepted" THEN @ ELSE st] = [c EXCEPT !.st = st, !.did = did]
    BY <2>0 DEF CallSet
  <2>3. /\ c.id \in r.marks => st = "Replay" /\ did = c.did
        /\ c.id \notin r.marks => st \in {"Accepted", "Rejected"} /\ (c.did # "Accepted" => did = st)
    OBVIOUS
  <2>. HIDE DEF st, did
  <2>4. d = [c EXCEPT !.st = st, !.did = did]
    BY <1>0, <2>1, <2>2
  <2>5. d.id = c.id /\ d.to = c.to /\ d.kind = c.kind /\ d.new = c.new /\ d.tries = c.tries /\ d.st = st /\ d.did = did
    BY <2>0, <2>4 DEF CallSet
  <2>. QED
    BY <1>4, <2>1, <2>2, <2>3, <2>4, <2>5 DEF Answer, Same
<1>5. ASSUME NEW c \in Commits, CallFails(c), d = Resend(c)
      PROVE  Again(c, d)
  <2>0. c \in calls /\ c \in CallSet
    BY <1>1 DEF Commits
  <2>1. c.kind = "rotate" /\ calls' = (calls \ {c}) \cup {d} /\ node' = node
    BY <1>0, <1>5 DEF CallFails
  <2>2. d.id = c.id /\ d.to = c.to /\ d.kind = c.kind /\ d.new = c.new /\ d.tries = c.tries + 1 /\ d.st = "sent"
        /\ d.did = c.did
    BY <1>5, <2>0 DEF CallSet, Resend
  <2>. QED
    BY <2>1, <2>2 DEF Again, Same
<1>. QED
  BY <1>0, <1>2, <1>3, <1>4, <1>5, NewCall DEF register_eth_address, rotate_eth_address, Call

LEMMA CommitStep ==
  ASSUME Types, Docs, Verdicts, Next
  PROVE  /\ \A c \in Commits' : CommitOK(c)'
         /\ \A c, d \in Commits' : c.id = d.id => c = d
<1>0. PlaceOK(local) /\ acts \in Nat /\ acts' \in Nat /\ acts <= acts'
  <2>1. PlaceOK(local)
    BY DEF Docs
  <2>2. Grown
    BY <2>1, NodeStep
  <2>. QED
    BY <2>1, <2>2 DEF Types, Grown
<1>1. \A c \in Commits : c \in calls /\ CommitOK(c) /\ c \in CallSet /\ c.to \in Node /\ c.id \in Nat /\ c.tries \in Nat
  BY DEF Types, CallOK, CallSet, Commits, Verdicts
<1>2. \A c, d \in Commits : c.id = d.id => c = d
  BY DEF Verdicts
<1>3. ASSUME NEW c \in calls, handle_register_eth_address(c)
      PROVE  c \in Commits /\ c \notin calls'
  <2>. DEFINE r == node[c.to]
              fits == r.listed # 0 /\ IF c.kind = "register" THEN r.anchor = Nil ELSE r.anchor = c.old
              st == IF c.id \in r.marks THEN "Replay" ELSE IF fits THEN "Accepted" ELSE "Rejected"
              did == IF st = "Replay" \/ c.did = "Accepted" THEN c.did ELSE st
  <2>1. /\ c.st = "sent" /\ c \in Commits
        /\ calls' = (calls \ {c}) \cup {[c EXCEPT !.st = st, !.did = IF st = "Replay" \/ @ = "Accepted" THEN @ ELSE st]}
    BY <1>3 DEF handle_register_eth_address, Commits
  <2>2. c \in CallSet
    BY <1>1, <2>1
  <2>3. st # "sent"
    OBVIOUS
  <2>. HIDE DEF st
  <2>4. [c EXCEPT !.st = st, !.did = IF st = "Replay" \/ @ = "Accepted" THEN @ ELSE st].st = st
    BY <2>2 DEF CallSet
  <2>. QED
    BY <2>1, <2>3, <2>4
<1>4. ASSUME NEW d \in Commits', d \in calls
      PROVE  CommitOK(d)'
  <2>0. d \in Commits /\ d \in calls'
    BY <1>4 DEF Commits
  <2>1. CommitOK(d) /\ d.to \in Node
    BY <1>1, <2>0
  <2>2. d.id \in node'[d.to].marks <=> d.id \in node[d.to].marks
    <3>1. CASE node'[d.to].marks = node[d.to].marks
      BY <3>1
    <3>2. ASSUME NEW c \in calls, handle_register_eth_address(c), node'[d.to].marks = node[d.to].marks \cup {c.id}
          PROVE  d.id \in node'[d.to].marks <=> d.id \in node[d.to].marks
      BY <1>2, <1>3, <2>0, <3>2
    <3>3. NodeChange(d.to)
      BY <1>0, <2>1, NodeChanges
    <3>. QED
      BY <3>1, <3>2, <3>3 DEF NodeChange, SameNode
  <2>. QED
    BY <1>0, <2>1, <2>2 DEF CommitOK
<1>5. ASSUME NEW d \in Commits', First(d)
      PROVE  CommitOK(d)'
  <2>1. d.id \notin node[d.to].marks
    <3>1. \A m \in node[d.to].marks : m <= acts
      BY <1>5 DEF Verdicts, First
    <3>. QED
      BY <1>0, <1>5, <3>1 DEF First
  <2>. QED
    BY <1>0, <1>5, <2>1 DEF First, CommitOK
<1>6. ASSUME NEW c \in Commits, NEW d \in Commits', Answer(c, d)
      PROVE  CommitOK(d)'
  <2>1. CommitOK(c) /\ c.to \in Node /\ c.id \in Nat /\ c \in CallSet
    BY <1>1
  <2>2. d.id = c.id /\ d.to = c.to /\ d.kind = c.kind /\ d.new = c.new /\ d.tries = c.tries /\ c.st = "sent"
    BY <1>6 DEF Answer, Same
  <2>3. c.id \in node'[c.to].marks
    <3>1. node' = [node EXCEPT ![c.to].marks = @ \cup {c.id}, ![c.to].anchor = node'[c.to].anchor]
      <4>1. PICK a : node' = [node EXCEPT ![c.to].marks = @ \cup {c.id}, ![c.to].anchor = a]
        BY <1>6 DEF Answer, handle_register_eth_address
      <4>2. node \in [Node -> NodeSet]
        BY DEF Types
      <4>3. node'[c.to].anchor = a
        BY <2>1, <4>1, <4>2 DEF NodeSet
      <4>. QED
        BY <4>1, <4>3
    <3>2. node \in [Node -> NodeSet]
      BY DEF Types
    <3>. QED
      BY <2>1, <3>1, <3>2 DEF NodeSet
  <2>4. CASE c.id \in node[c.to].marks
    <3>1. d.st = "Replay" /\ d.did = c.did /\ c.did # "nothing"
      BY <1>6, <2>1, <2>4 DEF Answer, CommitOK
    <3>. QED
      BY <1>0, <2>1, <2>2, <2>3, <3>1 DEF CommitOK
  <2>5. CASE c.id \notin node[c.to].marks
    <3>1. c.did = "nothing"
      BY <2>1, <2>5 DEF CommitOK
    <3>2. d.st \in {"Accepted", "Rejected"} /\ d.did = d.st
      BY <1>6, <2>5, <3>1 DEF Answer
    <3>. QED
      BY <1>0, <2>1, <2>2, <2>3, <3>2 DEF CommitOK
  <2>. QED
    BY <2>4, <2>5
<1>7. ASSUME NEW c \in Commits, NEW d \in Commits', Again(c, d)
      PROVE  CommitOK(d)'
  <2>1. CommitOK(c) /\ c.id \in Nat /\ c.tries \in Nat /\ c.tries > 0
    BY <1>1 DEF CommitOK
  <2>. QED
    BY <1>0, <1>7, <2>1 DEF Again, Same, CommitOK
<1>8. ASSUME NEW d \in Commits', d \notin calls, NEW e \in Commits', e.id = d.id
      PROVE  e = d
  <2>1. SUFFICES ASSUME e # d PROVE FALSE
    OBVIOUS
  <2>2. CASE First(d)
    <3>1. e \in Commits
      BY <2>1, <2>2 DEF First, Commits
    <3>2. e.id \in Nat /\ e.id <= acts
      BY <1>0, <1>1, <3>1 DEF CommitOK
    <3>. QED
      BY <1>0, <1>8, <2>2, <3>2 DEF First
  <2>3. ASSUME NEW c \in Commits, Same(c, d)
        PROVE  FALSE
    <3>1. e \in Commits /\ e # c
      BY <2>1, <2>3 DEF Same, Commits
    <3>. QED
      BY <1>2, <1>8, <2>3, <3>1 DEF Same
  <2>. QED
    BY <1>0, <1>8, <2>2, <2>3, NewCommit DEF Answer, Again
<1>9. ASSUME NEW c \in Commits', NEW d \in Commits', c.id = d.id
      PROVE  c = d
  <2>1. CASE c \in calls /\ d \in calls
    BY <1>2, <1>9, <2>1 DEF Commits
  <2>. QED
    BY <1>8, <1>9, <2>1
<1>. QED
  BY <1>0, <1>4, <1>5, <1>6, <1>7, <1>9, NewCommit

LEMMA VerdictsStep ==
  ASSUME Types, Docs, Verdicts, Next
  PROVE  Verdicts'
<1>0. PlaceOK(local) /\ aux \in AuxSet
  BY DEF Docs, Types
<1>1. Grown /\ acts \in Nat /\ acts' \in Nat /\ acts <= acts'
  BY <1>0, NodeStep DEF Types, Grown
<1>2. \A p \in Node : \A m \in node'[p].marks : m <= acts'
  <2>1. SUFFICES ASSUME NEW p \in Node, NEW m \in node'[p].marks PROVE m <= acts'
    OBVIOUS
  <2>2. CASE m \in node[p].marks
    <3>1. m <= acts /\ m \in Nat
      BY <2>2, NodeRow DEF Verdicts, Types, NodeSet
    <3>. QED
      BY <1>1, <3>1
  <2>3. CASE m \notin node[p].marks
    <3>1. NodeChange(p)
      BY <1>0, NodeChanges
    <3>2. PICK c \in calls : handle_register_eth_address(c) /\ node'[p].marks = node[p].marks \cup {c.id}
      BY <2>1, <2>3, <3>1 DEF NodeChange, SameNode
    <3>3. m = c.id /\ c \in Commits
      BY <2>1, <2>3, <3>2 DEF handle_register_eth_address, Commits
    <3>4. c.id \in 1..acts
      BY <3>3 DEF Verdicts, CommitOK
    <3>. QED
      BY <1>1, <3>3, <3>4
  <2>. QED
    BY <2>2, <2>3
<1>3. ASSUME aux'.verdicts = aux.verdicts
      PROVE  VerdictsTrue'
  BY <1>3 DEF Verdicts, VerdictsTrue, RotationTrue, RoutedAnswersMatch
<1>4. ASSUME NEW c \in calls, commit_returns(c)
      PROVE  VerdictsTrue'
  <2>. DEFINE said == IF c.st = "Accepted" \/ (c.st = "Replay" /\ c.kind = "rotate") THEN "accepted" ELSE "rejected"
              v == [kind |-> c.kind, said |-> said, did |-> c.did, tries |-> c.tries, asked |-> 0, answered |-> 0]
  <2>1. aux' = [aux EXCEPT !.verdicts = @ \cup {v}] /\ c \in Commits /\ c.st # "sent"
    BY <1>4 DEF commit_returns, Commits
  <2>2. v.kind \in {"register", "rotate"} /\ v.said = said /\ v.did = c.did /\ v.tries = c.tries
    BY <2>1 DEF Commits
  <2>3. CommitOK(c) /\ c \in CallSet
    BY <2>1 DEF Verdicts, Types, CallOK
  <2>4. IF said = "accepted" THEN c.did = "Accepted" \/ (c.did = "Rejected" /\ c.tries > 1) ELSE c.did # "Accepted"
    BY <2>1, <2>3 DEF CommitOK, CallSet, Commits
  <2>. HIDE DEF said, v
  <2>5. aux'.verdicts = aux.verdicts \cup {v}
    BY <1>0, <2>1 DEF AuxSet
  <2>6. RotationTrue'
    BY <2>2, <2>4, <2>5 DEF Verdicts, VerdictsTrue, RotationTrue
  <2>7. RoutedAnswersMatch'
    BY <2>2, <2>5 DEF Verdicts, VerdictsTrue, RoutedAnswersMatch
  <2>. QED
    BY <2>6, <2>7 DEF VerdictsTrue
<1>5. ASSUME NEW c \in calls, routed_takes(c)
      PROVE  VerdictsTrue'
  <2>. DEFINE f == Head(replies)
              v == [kind |-> "routed", said |-> "answered", did |-> "none", tries |-> 1,
                    asked |-> c.id, answered |-> f.id]
  <2>1. aux' = aux \/ (verify_routed_reply(c, f) /\ aux' = [aux EXCEPT !.verdicts = @ \cup {v}])
    BY <1>5 DEF routed_takes
  <2>2. v.kind = "routed" /\ v.asked = c.id /\ v.answered = f.id
    OBVIOUS
  <2>. HIDE DEF v
  <2>3. aux'.verdicts = aux.verdicts \/ (f.id = c.id /\ aux'.verdicts = aux.verdicts \cup {v})
    BY <1>0, <2>1 DEF AuxSet, verify_routed_reply
  <2>. QED
    BY <1>3, <2>2, <2>3 DEF Verdicts, VerdictsTrue, RotationTrue, RoutedAnswersMatch
<1>6. ASSUME NEW c \in calls, leave_returns(c)
      PROVE  aux'.verdicts = aux.verdicts
  BY <1>0, <1>6 DEF leave_returns, AuxSet
<1>7. ASSUME NEW f \in net, handle_detach_notice(f) \/ Lose(f) \/ handle_join_approved(f)
      PROVE  aux'.verdicts = aux.verdicts
  <2>1. \E b, l, m : \/ aux' = aux \/ aux' = [aux EXCEPT !.lapsed = l]
                     \/ aux' = [aux EXCEPT !.missed = m, !.lapsed = l]
                     \/ aux' = [aux EXCEPT !.heard = FALSE, !.regressed = b]
    <3>1. CASE handle_detach_notice(f)
      BY <3>1 DEF handle_detach_notice
    <3>2. CASE Lose(f)
      BY <3>2 DEF Lose
    <3>3. CASE handle_join_approved(f)
      BY <3>3, Zenon DEF handle_join_approved
    <3>. QED
      BY <1>7, <3>1, <3>2, <3>3
  <2>. QED
    BY <1>0, <2>1 DEF AuxSet
<1>8. ASSUME NEW f \in net, handle_rebase(f)
      PROVE  aux'.verdicts = aux.verdicts
  <2>1. \E u, b, m : aux' = aux \/ aux' = [aux EXCEPT !.heard = TRUE, !.used = u, !.regressed = b] \/ aux' = [aux EXCEPT !.missed = m]
    <3>. DEFINE u == aux.used \cup {<<f.from, f.n>>}
                b == f.n < node[f.from].epoch /\ (aux.regressed \/ (~aux.heard /\ f.n < local.epoch))
                m == aux.missed \cup {<<f.from, f.n>>}
    <3>1. aux' = aux \/ aux' = [aux EXCEPT !.heard = TRUE, !.used = u, !.regressed = b] \/ aux' = [aux EXCEPT !.missed = m]
      BY <1>8 DEF handle_rebase
    <3>. HIDE DEF u, b, m
    <3>. QED
      BY <3>1
  <2>. QED
    BY <1>0, <2>1 DEF AuxSet
<1>9. ASSUME NEW sr \in BOOLEAN, NEW lr \in BOOLEAN, Reload(sr, lr)
      PROVE  aux'.verdicts = aux.verdicts
  <2>. DEFINE s == LocalState_from_bytes(disk, sr)
              gone == { <<c.to, joins>> : c \in { x \in calls : x.kind = "leave" } }
              old == IF s.link = local.link THEN {} ELSE {<<s.parent, s.link>>}
              asked == IF s.outbound = local.outbound THEN {} ELSE {<<s.outbound.parent, s.outbound.nonce>>}
              b == (s.link = local.link /\ aux.regressed) \/ s.epoch < local.epoch \/ s.link # local.link
              l == aux.lapsed \cup gone \cup old \cup asked
  <2>1. aux' = [aux EXCEPT !.heard = FALSE, !.regressed = b, !.lapsed = l]
    BY <1>9 DEF Reload
  <2>. HIDE DEF b, l
  <2>. QED
    BY <1>0, <2>1 DEF AuxSet
<1>10. \/ aux' = aux
       \/ \E c \in calls : leave_returns(c) \/ commit_returns(c) \/ routed_takes(c)
       \/ \E f \in net : handle_detach_notice(f) \/ Lose(f) \/ handle_join_approved(f) \/ handle_rebase(f)
       \/ \E s, l \in BOOLEAN : Reload(s, l)
  BY DEF Next, Join, approve_pending, reject_pending, apply_detach_child, propagate_rebase, NewLedgerKey,
     confirm_pin, accept_pin_change, pin_payee_leaf, Decide, handle_join, join_returns, handle_exit,
     handle_register_eth_address, CallFails, handle_join_rejected, MsgHandler_handle, Leave, RequestBalance,
     register_eth_address, rotate_eth_address, Commit, drainControlEvents, SendPayment, payment_returns, handle_order,
     exchange_routed_control, set_user_identity, try_recv_ledger_event
<1>11. VerdictsTrue'
  BY <1>3, <1>4, <1>5, <1>6, <1>7, <1>8, <1>9, <1>10
<1>. QED
  BY <1>2, <1>11, CommitStep DEF Verdicts

-----------------------------------------------------------------------------
(***************************************************************************)
(* The invariant.                                                          *)
(***************************************************************************)
LEMMA AheadStep ==
  ASSUME Types, Docs, Fresh, Ahead, Next
  PROVE  Ahead'
<1>0. PlaceOK(local)
  BY DEF Docs
<1>1. CASE events' = {}
  BY <1>1 DEF Ahead
<1>2. ASSUME local'.link = local.link, disk'.state = disk.state, "parent" \in events' => "parent" \in events
      PROVE  Ahead'
  BY <1>2 DEF Ahead
<1>3. ASSUME NEW p \in Node, Join(p)
      PROVE  Ahead'
  <2>1. Grown
    BY <1>0, NodeStep
  <2>2. local'.link = local.link
    BY <1>0, <1>3, <2>1, PlaceJoin DEF Join
  <2>. QED
    BY <1>2, <1>3, <2>2 DEF Join
<1>4. ASSUME NEW f \in net, handle_join_approved(f)
      PROVE  Ahead'
  <2>1. CASE on_join_approved_ok(local, f)
    <3>1. local'.link = f.id /\ Unused(f.id) /\ disk' = disk
      BY <1>4, <2>1, ApprovalTaken DEF handle_join_approved
    <3>. QED
      BY <3>1 DEF Ahead, Unused
  <2>2. CASE ~on_join_approved_ok(local, f)
    BY <1>2, <1>4, <2>2 DEF handle_join_approved, memory
  <2>. QED
    BY <2>1, <2>2
<1>5. ASSUME NEW f \in net, handle_join_rejected(f)
      PROVE  Ahead'
  <2>1. disk' = disk /\ (local' = local \/ local' = reject_outbound(local)) /\ ("parent" \in events' => "parent" \in events)
    BY <1>5 DEF handle_join_rejected
  <2>. QED
    BY <1>0, <1>2, <2>1, PlaceReject
<1>6. ASSUME Detached
      PROVE  (local'.link \in Int /\ ~(local'.link > 0)) \/ (local' = local /\ local.parent = Nil)
  BY <1>6, DetachDone
<1>7. ASSUME local'.link \in Int, ~(local'.link > 0)
      PROVE  Ahead'
  BY <1>7 DEF Ahead
<1>8. local.parent = Nil => local.link \in Int /\ ~(local.link > 0)
  BY <1>0, PlaceFacts
<1>9. ASSUME Detached
      PROVE  Ahead'
  BY <1>6, <1>7, <1>8, <1>9
<1>10. ASSUME NEW f \in net, handle_detach_notice(f)
       PROVE  Ahead'
  BY <1>2, <1>9, <1>10 DEF handle_detach_notice, memory
<1>11. ASSUME NEW c \in calls, leave_returns(c)
       PROVE  Ahead'
  BY <1>9, <1>11 DEF leave_returns
<1>12. ASSUME NEW f \in net, handle_rebase(f)
       PROVE  Ahead'
  <2>1. /\ disk' = disk /\ events' = events /\ f.kind = "Rebase"
        /\ local' = local \/ (Attached(local) /\ f.from = local.parent /\ local' = apply_rebase(local, f))
    BY <1>12 DEF handle_rebase
  <2>. QED
    BY <1>0, <1>2, <2>1, PlaceRebase
<1>13. ASSUME local' = local, events' = events, disk' = persistLedgerState(disk, led')
       PROVE  Ahead'
  <2>1. disk' = [state |-> disk.state, ledger |-> led']
    BY <1>13, DiskFacts
  <2>2. disk'.state = disk.state
    BY <2>1
  <2>. QED
    BY <1>2, <1>13, <2>2
<1>14. CASE try_recv_ledger_event \/ Deciding \/ \E c \in calls : payment_returns(c)
  BY <1>13, <1>14, DecidingFacts DEF try_recv_ledger_event, payment_returns, memory
<1>15. \/ local' = local /\ disk' = disk /\ events' = events
       \/ events' = {}
       \/ (\E p \in Node : Join(p)) \/ try_recv_ledger_event \/ Deciding
       \/ (\E c \in calls : leave_returns(c) \/ payment_returns(c))
       \/ (\E f \in net : handle_join_approved(f) \/ handle_join_rejected(f) \/ handle_detach_notice(f) \/ handle_rebase(f))
  BY DEF Next, Deciding, approve_pending, reject_pending, apply_detach_child, propagate_rebase, NewLedgerKey,
     handle_join, handle_exit, handle_order, handle_register_eth_address, commit_returns, routed_takes, CallFails,
     MsgHandler_handle, Lose, Leave, RequestBalance, register_eth_address, rotate_eth_address, Commit,
     exchange_routed_control, set_user_identity, memory, join_returns, drainControlEvents, Reload,
     SendPayment, pin_payee_leaf
<1>. QED
  BY <1>1, <1>2, <1>3, <1>4, <1>5, <1>10, <1>11, <1>12, <1>14, <1>15

LEMMA InvStep ==
  ASSUME WalletInv, [Next]_vars
  PROVE  WalletInv'
<1>1. CASE Next
  <2>1. PlaceOK(local) /\ PlaceOK(disk.state)
    BY DEF WalletInv, Docs
  <2>. QED
    BY <1>1, <2>1, TypesStep, DocsStep, AheadStep, FreshStep, LinksStep, EpochsStep, VerdictsStep DEF WalletInv
<1>2. CASE UNCHANGED vars
  <2>1. /\ UNCHANGED <<local, led, guard, events, ident, inbox, replies>>
        /\ UNCHANGED <<calls, disk, node, net, aux, joins, acts>>
    BY <1>2 DEF vars, memory, counters
  <2>2. Types'
    BY <2>1 DEF WalletInv, Types, NodeOK, FrameOK, CallOK
  <2>3. Docs'
    BY <2>1 DEF WalletInv, Docs, PlaceOK, Bound, Covers, SameParent
  <2>4. Ahead' /\ Fresh'
    BY <2>1 DEF WalletInv, Ahead, Fresh, Unused, Sent, Approvals
  <2>5. Links'
    BY <2>1 DEF WalletInv, Links, Known, Approvals
  <2>6. Epochs'
    BY <2>1 DEF WalletInv, Epochs, GuardUsed, Heard, Outdated, Current, Told, Stored, Approvals
  <2>7. Verdicts'
    BY <2>1 DEF WalletInv, Verdicts, Commits, CommitOK, VerdictsTrue, RotationTrue, RoutedAnswersMatch
  <2>. QED
    BY <2>2, <2>3, <2>4, <2>5, <2>6, <2>7 DEF WalletInv
<1>. QED
  BY <1>1, <1>2

LEMMA InitInv ==
  ASSUME Init
  PROVE  WalletInv
<1>1. joins = 0 /\ acts = 0 /\ net = {} /\ calls = {} /\ events = {} /\ guard = NoGuard /\ local = LocalState /\ led = LedgerState
  BY DEF Init
<1>2. disk.state = LocalState /\ disk.ledger = LedgerState /\ disk = [state |-> disk.state, ledger |-> disk.ledger]
  BY DEF Init
<1>3. inbox = << >> /\ replies = << >> /\ INBOX \in Nat /\ MaxJoins \in Nat
  BY UserAssumption DEF Init
<1>. DEFINE r == [listed |-> 0, queued |-> 0, epoch |-> 1, keys |-> 1, height |-> 0, anchor |-> Nil, marks |-> {}]
<1>4. \A p \in Node : 1 \in 1..Len(PrefixOf[p]) /\ 1 \in 1..Len(KeyOf[p])
  <2>1. \A p \in Node : PrefixOf[p] \in Seq(OctAddr) /\ PrefixOf[p] # << >> /\ Len(KeyOf[p]) \in Nat /\ Len(KeyOf[p]) # 0
    BY NodeAssumption
  <2>. QED
    BY <2>1, EmptySeq, LenProperties
<1>5. r \in NodeSet /\ r.listed = 0 /\ r.queued = 0 /\ r.epoch = 1 /\ r.keys = 1 /\ r.marks = {}
  BY DEF NodeSet
<1>. HIDE DEF r
<1>6. node = [p \in Node |-> r]
  BY DEF Init, r
<1>7. Types
  <2>1. node \in [Node -> NodeSet] /\ \A p \in Node : NodeOK(p)
    BY <1>1, <1>4, <1>5, <1>6 DEF NodeOK
  <2>2. ident \in Identity
    BY UserAssumption DEF Init
  <2>3. aux \in AuxSet
    BY DEF Init, AuxSet
  <2>4. guard \in [parent : Peer, generation : Nat]
    BY <1>1 DEF NoGuard, Peer
  <2>. QED
    BY <1>1, <1>3, <2>1, <2>2, <2>3, <2>4 DEF Types
<1>8. PlaceOK(LocalState)
  <2>1. None \in Seq(Slot) /\ 0 \in Slot
    BY DEF None, Slot, MAX_SLOT
  <2>. QED
    BY <1>1, <2>1 DEF PlaceOK, LocalState, LocalDoc, NoOutbound, Peer
<1>9. LedgerState \in LedgerDoc /\ LedgerState.balance = NoBalance /\ LedgerState.pending = << >> /\ LedgerState.link = 0
  BY FreshDoc DEF LedgerState
<1>10. LocalState.link = 0 /\ LocalState.parent = Nil
  BY DEF LocalState
<1>11. Docs
  BY <1>1, <1>2, <1>8, <1>9, <1>10, LostFacts, CoversItself DEF Docs, Bound
<1>12. Ahead /\ Fresh
  BY <1>1, <1>5, <1>6 DEF Ahead, Fresh, Sent, Approvals
<1>13. Links
  BY <1>1, <1>10 DEF Links, Attached, Approvals
<1>14. Epochs
  BY <1>1, <1>10 DEF Epochs, GuardUsed, Heard, Outdated, Current, Attached, NoGuard, Approvals
<1>15. Verdicts
  <2>1. aux.verdicts = {}
    BY DEF Init
  <2>. QED
    BY <1>1, <1>5, <1>6, <2>1 DEF Verdicts, Commits, VerdictsTrue, RotationTrue, RoutedAnswersMatch
<1>. QED
  BY <1>7, <1>11, <1>12, <1>13, <1>14, <1>15 DEF WalletInv

(* The documents are well formed in every state, the place in memory and   *)
(* the one stored agree on a link they share, every join number is in one  *)
(* place, a link is known to its parent or revoked, an address is current  *)
(* or a notice is under way, and every attempt of a commit knows as much   *)
(* as the node did. Each part is needed to carry another one over a step.  *)
THEOREM WalletSafe == Spec => []WalletInv
<1>1. Init => WalletInv
  BY InitInv
<1>2. WalletInv /\ [Next]_vars => WalletInv'
  BY InvStep
<1>. QED
  BY <1>1, <1>2, PTL DEF Spec

LEMMA InvTypeOK ==
  ASSUME WalletInv
  PROVE  TypeOK
<1>1. PlaceOK(local) /\ led \in LedgerDoc /\ Types /\ joins \in 0..MaxJoins /\ MaxJoins \in Nat
  BY UserAssumption DEF WalletInv, Docs, Types
<1>2. /\ local.parent \in Peer /\ local.slot \in Slot /\ local.rejected \in BOOLEAN
      /\ local.outbound.nonce \in Nat /\ local.outbound.nonce <= joins /\ local.outbound.parent \in Peer
      /\ (local.address = None) <=> (local.parent = Nil)
  BY <1>1 DEF PlaceOK, LocalDoc
<1>3. local.outbound.nonce \in 0..MaxJoins
  BY <1>1, <1>2
<1>4. ASSUME Attached(local)
      PROVE  slot(local.address) = local.slot
  <2>1. local.parent \in Node /\ local.slot = SlotAt[local.parent] /\ local.epoch \in 1..node[local.parent].epoch
        /\ local.address = AddressIn(local.parent, local.epoch)
    BY <1>1, <1>2, <1>4 DEF PlaceOK, Attached, Peer
  <2>2. node[local.parent].epoch \in 1..Len(PrefixOf[local.parent]) /\ Len(PrefixOf[local.parent]) \in Nat
    BY <1>1, <2>1, NodeRow
  <2>3. local.epoch \in 1..Len(PrefixOf[local.parent])
    BY <2>1, <2>2
  <2>. QED
    BY <2>1, <2>3, AddressFacts
<1>5. /\ led.pinned \in Keys /\ led.trust \in {"Confirmed", "Unconfirmed"}
      /\ Len(led.pending) <= MAX_PENDING_ORDERS /\ Len(led.leaves) <= MAX_PINNED_LEAF_KEYS
      /\ Len(led.changes) <= MAX_LEAF_KEY_CHANGES /\ Len(led.settlements) <= MAX_SETTLEMENT_RECORDS
  BY <1>1, DocType DEF List, Trust
<1>6. led.pending # << >> /\ ~Torn => Attached(local)
  BY DEF WalletInv, Docs, Bound, Torn, Attached
<1>7. Len(inbox) <= INBOX /\ Len(replies) <= INBOX /\ ident \in Identity /\ events \subseteq {"parent", "other"}
  BY DEF WalletInv, Types, Docs
<1>. QED
  BY <1>2, <1>3, <1>4, <1>5, <1>6, <1>7 DEF TypeOK, Peer

(* However joins, approvals, detach notices, exits and reloads overtake    *)
(* one another, a wallet that has a parent is listed there, or a notice or *)
(* an exit is under way, or one of the named exceptions happened.          *)
THEOREM LinkAlwaysKnown == Spec => []LinkKnown
<1>1. WalletInv => LinkKnown
  <2>. SUFFICES ASSUME WalletInv PROVE LinkKnown
    OBVIOUS
  <2>1. TypeOK
    BY InvTypeOK
  <2>2. Attached(local) => Known(local.parent, local.link)
    BY DEF WalletInv, Links
  <2>. QED
    BY <2>1, <2>2 DEF LinkKnown, Known
<1>. QED
  BY <1>1, WalletSafe, PTL

(* Whatever order re-base notices and approvals are handled in, the        *)
(* wallet's address is the one its parent gives it at present, or the      *)
(* notice is under way or missed, or the guard was empty when an older one *)
(* came, or a reload restored the address from before a re-base that the   *)
(* wallet had applied and not stored.                                      *)
THEOREM AddressStaysCurrent == Spec => []AddressCurrent
<1>1. WalletInv => AddressCurrent
  <2>. SUFFICES ASSUME WalletInv, Attached(local), node[local.parent].listed = local.link
                PROVE  LET p == local.parent
                           e == node[p].epoch
                       IN  \/ local.address = AddressAt(p)
                           \/ \E f \in net : f.kind = "Rebase" /\ f.from = p /\ f.n = e
                           \/ <<p, e>> \in aux.missed
                           \/ aux.regressed
    BY DEF AddressCurrent
  <2>1. local.epoch = node[local.parent].epoch \/ Told(local.parent) \/ aux.regressed
    BY DEF WalletInv, Epochs, Current
  <2>2. local.parent \in Node /\ local.address = AddressIn(local.parent, local.epoch) /\ Types
    BY DEF WalletInv, Docs, PlaceOK, LocalDoc, Attached, Peer
  <2>3. AddressAt(local.parent) = AddressIn(local.parent, node[local.parent].epoch)
    BY <2>2, NodeFacts
  <2>. QED
    BY <2>1, <2>2, <2>3 DEF Told
<1>. QED
  BY <1>1, WalletSafe, PTL

(* A receipt that is applied long after it was accepted, when the parent   *)
(* may have changed, never shows the balance of another link, unless a     *)
(* reload found the documents of two links.                                *)
THEOREM BalanceOfTheLink == Spec => []BalanceOfLink
<1>1. WalletInv => BalanceOfLink
  BY DEF WalletInv, Docs, Bound, BalanceOfLink, Torn
<1>. QED
  BY <1>1, WalletSafe, PTL

(* A verdict on a rotation or a registration is what the node did, however *)
(* often the frame was sent, except that a refusal may be reported as      *)
(* accepted after a retry; and a routed answer is one to that request.     *)
THEOREM CallsReturnTruth == Spec => []VerdictsTrue
<1>1. WalletInv => VerdictsTrue
  BY DEF WalletInv, Verdicts
<1>. QED
  BY <1>1, WalletSafe, PTL

(* A reload when the list of pins is full.                                 *)
Overfull == led' = disk.ledger /\ Len(led.leaves) = MAX_PINNED_LEAF_KEYS

LEMMA PinsStep ==
  ASSUME WalletInv, Next
  PROVE  /\ PinsShown(led, led') \/ Overfull
         /\ local.link > 0 /\ local'.link = local.link /\ led.pinned # Nil
              => led'.pinned \in {led.pinned, Nil, presented_key(led, local.parent)}
<1>0. Types /\ Docs /\ Fresh /\ Ahead /\ led \in LedgerDoc /\ PlaceOK(local)
  BY DEF WalletInv, Docs
<1>. DEFINE G == /\ PinsShown(led, led') \/ Overfull
                 /\ local.link > 0 /\ local'.link = local.link /\ led.pinned # Nil
                      => led'.pinned \in {led.pinned, Nil, presented_key(led, local.parent)}
<1>1. ASSUME PinsKept(led, led')
      PROVE  PinsShown(led, led')
  BY <1>1 DEF PinsKept, PinsShown
<1>2. CASE led' = led
  BY <1>2 DEF PinsShown
<1>3. ASSUME NEW f \in net, Taken(f)
      PROVE  G
  <2>1. Unused(f.id) /\ local'.link = f.id /\ led'.leaves = led.leaves
    BY <1>0, <1>3, ApprovalTaken DEF Taken
  <2>. QED
    BY <1>1, <2>1, SameLeaves DEF Unused
<1>4. ASSUME Detached
      PROVE  G
  BY <1>0, <1>1, <1>2, <1>4, DetachDone, SameLeaves
<1>5. CASE Noted
  BY <1>0, <1>1, <1>5, NotedFacts DEF SameParent
<1>6. CASE try_recv_ledger_event
  BY <1>0, <1>1, <1>2, <1>6, TakenAnswer DEF Answered
<1>7. CASE Deciding
  BY <1>0, <1>7, DecidingFacts DEF Decided
<1>8. ASSUME NEW sr \in BOOLEAN, NEW lr \in BOOLEAN, Reload(sr, lr)
      PROVE  G
  <2>. DEFINE s == LocalState_from_bytes(disk, sr)
              l == LedgerState_from_bytes(disk, lr, s)
  <2>1. /\ local' = s /\ led' = l /\ (s = disk.state \/ s.link = Lost)
        /\ l = disk.ledger \/ (l.leaves = << >> /\ l.pinned = Nil)
    BY <1>0, <1>8, ReloadDocs
  <2>. HIDE DEF s, l
  <2>2. CASE l = disk.ledger
    <3>1. PinsShown(led, led') \/ Overfull
      <4>1. Len(led.leaves) \in Nat /\ Len(led.leaves) <= MAX_PINNED_LEAF_KEYS /\ MAX_PINNED_LEAF_KEYS \in Nat
        BY <1>0, DocType, ListType, LimitAssumption
      <4>2. Covers(led, led')
        BY <1>0, <2>1, <2>2 DEF Docs
      <4>3. CASE Len(led.leaves) < MAX_PINNED_LEAF_KEYS
        BY <4>2, <4>3 DEF Covers, PinsShown
      <4>4. CASE Len(led.leaves) = MAX_PINNED_LEAF_KEYS
        BY <2>1, <2>2, <4>4 DEF Overfull
      <4>. QED
        BY <4>1, <4>3, <4>4
    <3>2. ASSUME local.link > 0, local'.link = local.link
          PROVE  led'.pinned = led.pinned
      <4>1. local.link \in Int /\ s.link = local.link /\ s = disk.state
        BY <1>0, <2>1, <3>2, LostFacts, PlaceFacts
      <4>2. "parent" \notin events
        BY <1>0, <3>2, <4>1 DEF Ahead
      <4>. QED
        BY <1>0, <2>1, <2>2, <4>2 DEF Docs, SameParent
    <3>. QED
      BY <3>1, <3>2
  <2>3. CASE l.leaves = << >> /\ l.pinned = Nil
    <3>1. \A q \in Node : pinned_leaf_key(l, q) = Nil
      BY <2>3 DEF pinned_leaf_key, Listed
    <3>. QED
      BY <2>1, <2>3, <3>1 DEF PinsShown
  <2>. QED
    BY <2>1, <2>2, <2>3
<1>9. ASSUME NEW f \in net, handle_join_approved(f)
      PROVE  G
  BY <1>2, <1>3, <1>9 DEF handle_join_approved, Taken, memory
<1>10. ASSUME NEW f \in net, handle_detach_notice(f)
       PROVE  G
  BY <1>2, <1>4, <1>10 DEF handle_detach_notice, memory
<1>11. ASSUME NEW c \in calls, leave_returns(c)
       PROVE  G
  BY <1>4, <1>11 DEF leave_returns
<1>12. \/ led' = led
       \/ try_recv_ledger_event \/ Deciding
       \/ (\E c \in calls : leave_returns(c))
       \/ (\E f \in net : handle_join_approved(f) \/ handle_detach_notice(f))
       \/ Noted
       \/ \E s, l \in BOOLEAN : Reload(s, l)
  BY DEF Next, Deciding, approve_pending, reject_pending, apply_detach_child, propagate_rebase, NewLedgerKey,
     handle_join, handle_exit, handle_order, handle_register_eth_address, commit_returns, routed_takes, CallFails,
     MsgHandler_handle, Lose, Leave, RequestBalance, register_eth_address, rotate_eth_address, Commit,
     exchange_routed_control, set_user_identity, memory, join_returns, drainControlEvents, Join,
     handle_join_rejected, handle_rebase, payment_returns, Noted
<1>. QED
  BY <1>2, <1>5, <1>6, <1>7, <1>8, <1>9, <1>10, <1>11, <1>12

(* No step replaces a pinned key, of a leaf or of the parent whose link is *)
(* kept, by a key that was not presented and recorded before: what a       *)
(* receipt, a proof or a receive URI brings never overwrites a pin, and no *)
(* reload does, although pins from receive URIs are not stored at once,    *)
(* unless the list of pins was full, so that a pin may have been pushed    *)
(* out of memory and made again.                                           *)
THEOREM PinsNeverSwapped == Spec => PinsStay
<1>1. WalletInv /\ [Next]_vars =>
        [ /\ \A q \in Node : LET was == pinned_leaf_key(led, q)  now == pinned_leaf_key(led', q)
                             IN  was # Nil /\ now \notin {Nil, was} =>
                                   \/ now = presented_key(led, q)
                                   \/ led' = disk.ledger /\ Len(led.leaves) = MAX_PINNED_LEAF_KEYS
          /\ local.link > 0 /\ local'.link = local.link /\ led.pinned # Nil
               => led'.pinned \in {led.pinned, Nil, presented_key(led, local.parent)} ]_vars
  BY PinsStep DEF PinsShown, Overfull
<1>. QED
  BY <1>1, WalletSafe, PTL DEF Spec, PinsStay
=============================================================================
