-------------------------- MODULE SettlementProofs --------------------------
(***************************************************************************)
(* Proofs about the settlement cascade, for every tree, every set of       *)
(* orders and every bound. The inductive invariant is TypeOK, the manager  *)
(* keys and CascadeInv together: the manager's eviction is well defined    *)
(* only while its insertion order names every live key, and what an answer *)
(* claims is true only while every message in flight is.                   *)
(***************************************************************************)
EXTENDS Settlement, SequenceTheorems, FiniteSetTheorems, WellFoundedInduction, TLAPS

(* A nonempty set of naturals has a least element.                         *)
LEMMA LeastNat ==
  ASSUME NEW T \in SUBSET Nat, T # {}
  PROVE  \E x \in T : \A y \in T : x <= y
<1>1. \E x \in T : \A y \in T : ~(<<y, x>> \in OpToRel(<, Nat))
  BY NatLessThanWellFounded, WFMin, Zenon
<1>2. \E x \in T : \A y \in T : ~(y < x)
  BY <1>1, Zenon DEF OpToRel
<1>. QED
  BY <1>2

(* The common prefix of two addresses (OctAddr::lca) ends where they       *)
(* differ or where one of them ends.                                       *)
LEMMA CommonEnds ==
  ASSUME NEW a \in Seq(Slot), NEW b \in Seq(Slot)
  PROVE  Common(a, b) \in Ends(a, b)
<1>1. Len(a) \in Nat /\ Len(b) \in Nat
  OBVIOUS
<1>2. (IF Len(a) <= Len(b) THEN Len(a) ELSE Len(b)) \in Ends(a, b)
  BY <1>1 DEF Ends
<1>3. Ends(a, b) \in SUBSET Nat
  BY <1>1 DEF Ends
<1>4. \E n \in Ends(a, b) : \A m \in Ends(a, b) : n <= m
  BY <1>2, <1>3, LeastNat
<1>. QED
  BY <1>4 DEF Common

(* The first k levels of an address.                                       *)
LEMMA PrefixFacts ==
  ASSUME NEW a \in Seq(Slot), NEW k \in 0..Len(a)
  PROVE  /\ Prefix(a, k) \in Seq(Slot)
         /\ Len(Prefix(a, k)) = k
         /\ \A x \in 1..k : Prefix(a, k)[x] = a[x]
<1>1. k \in Nat /\ k <= Len(a)
  OBVIOUS
<1>. QED
  BY <1>1 DEF Prefix

(* The parent of a user's address is an address one level up.              *)
LEMMA ParentAddr ==
  ASSUME NEW a \in OctAddr, depth(a) >= 2
  PROVE  parent(a) \in Seq(Slot) /\ Len(parent(a)) = Len(a) - 1
<1>1. a \in Seq(Slot) /\ Len(a) \in Nat /\ Len(a) >= 2
  BY DEF OctAddr, depth
<1>2. ~is_root(a)
  <2>1. \A k \in Nat : k >= 2 => k # 1
    OBVIOUS
  <2>. QED
    BY <1>1, <2>1, Zenon DEF is_root, depth
<1>3. parent(a) = Prefix(a, Len(a) - 1)
  BY <1>2 DEF parent
<1>. QED
  BY <1>1, <1>3, PrefixFacts

(***************************************************************************)
(* A settlement path starts at the payer's leaf and visits no node twice   *)
(* (route_signers): the way up and the way down only meet at the top.      *)
(***************************************************************************)
LEMMA RouteSimple ==
  ASSUME NEW src \in OctAddr, NEW dst \in OctAddr, route_signers(src, dst) # None
  PROVE  LET r == route_signers(src, dst)
         IN  /\ r \in Seq(Seq(Slot))
             /\ r[1] = parent(src) /\ Len(r) > 1
             /\ \A i, j \in 1..Len(r) : r[i] = r[j] => i = j
<1>. DEFINE s == parent(src)
            d == parent(dst)
            n == Common(s, d)
            up == Len(s) - n + 1
            last == up + Len(d) - n
            r == route_signers(src, dst)
<1>0. Len(src) \in Nat /\ Len(dst) \in Nat
  BY DEF OctAddr
<1>1. /\ depth(src) >= 2 /\ depth(dst) >= 2 /\ n # Len(s) /\ n # Len(d)
      /\ r = [ k \in 1..last |-> IF k <= up THEN Prefix(s, Len(s) - k + 1) ELSE Prefix(d, n + k - up) ]
  BY <1>0 DEF route_signers, depth
<1>2. /\ s \in Seq(Slot) /\ d \in Seq(Slot) /\ Len(s) \in Nat /\ Len(d) \in Nat
  BY <1>1, ParentAddr
<1>3. n \in Nat /\ n < Len(s) /\ n < Len(d) /\ s[n + 1] # d[n + 1]
  BY <1>1, <1>2, CommonEnds DEF Ends
<1>. HIDE DEF s, d, n, r
<1>4. up \in Nat /\ up >= 2 /\ last \in Nat /\ last > up
  BY <1>2, <1>3
<1>5. ASSUME NEW k \in 1..last, k <= up
      PROVE  /\ r[k] \in Seq(Slot) /\ Len(r[k]) = Len(s) - k + 1
             /\ \A x \in 1..Len(r[k]) : r[k][x] = s[x]
  <2>1. r[k] = Prefix(s, Len(s) - k + 1)
    BY <1>1, <1>5
  <2>2. Len(s) - k + 1 \in 0..Len(s)
    BY <1>2, <1>3, <1>4, <1>5
  <2>. QED
    BY <2>1, <2>2, <1>2, PrefixFacts
<1>6. ASSUME NEW k \in 1..last, k > up
      PROVE  /\ r[k] \in Seq(Slot) /\ Len(r[k]) = n + k - up
             /\ \A x \in 1..Len(r[k]) : r[k][x] = d[x]
  <2>1. ~(k <= up)
    BY <1>4, <1>6
  <2>2. r[k] = Prefix(d, n + k - up)
    BY <1>1, <2>1
  <2>3. n + k - up \in 0..Len(d)
    BY <1>2, <1>3, <1>4, <1>6
  <2>. QED
    BY <2>2, <2>3, <1>2, PrefixFacts
<1>7. r \in Seq(Seq(Slot)) /\ Len(r) = last
  <2>1. \A k \in 1..last : r[k] \in Seq(Slot)
    BY <1>4, <1>5, <1>6
  <2>2. r \in [1..last -> Seq(Slot)]
    BY <1>1, <2>1
  <2>. QED
    BY <2>2, <1>4
<1>8. r[1] = s
  <2>1. r[1] \in Seq(Slot) /\ Len(r[1]) = Len(s) /\ \A x \in 1..Len(r[1]) : r[1][x] = s[x]
    BY <1>2, <1>4, <1>5
  <2>. QED
    BY <2>1, <1>2, SeqEqual
<1>9. ASSUME NEW i \in 1..last, NEW j \in 1..last, r[i] = r[j], i <= up, j > up
      PROVE  FALSE
  <2>1. Len(r[i]) = Len(s) - i + 1 /\ \A x \in 1..Len(r[i]) : r[i][x] = s[x]
    BY <1>5, <1>9
  <2>2. \A x \in 1..Len(r[j]) : r[j][x] = d[x]
    BY <1>6, <1>9
  <2>3. n + 1 \in 1..Len(r[i])
    <3>1. Len(s) - i + 1 >= n + 1
      <4>1. r[j] \in Seq(Slot) /\ Len(r[j]) = n + j - up
        BY <1>6, <1>9
      <4>. QED
        BY <4>1, <2>1, <1>2, <1>3, <1>4, <1>9
    <3>. QED
      BY <3>1, <2>1, <1>2, <1>3
  <2>4. r[i][n + 1] = s[n + 1]
    BY <2>1, <2>3
  <2>5. r[j][n + 1] = d[n + 1]
    BY <2>2, <2>3, <1>9
  <2>. QED
    BY <2>4, <2>5, <1>3, <1>9
<1>10. \A i, j \in 1..last : r[i] = r[j] => i = j
  <2>. SUFFICES ASSUME NEW i \in 1..last, NEW j \in 1..last, r[i] = r[j]
                PROVE  i = j
    OBVIOUS
  <2>1. CASE i <= up /\ j <= up
    <3>1. Len(s) - i + 1 = Len(s) - j + 1
      BY <2>1, <1>5
    <3>. QED
      BY <3>1, <1>2
  <2>2. CASE i > up /\ j > up
    <3>1. n + i - up = n + j - up
      BY <2>2, <1>6
    <3>. QED
      BY <3>1, <1>3, <1>4
  <2>. QED
    BY <2>1, <2>2, <1>4, <1>9
<1>. QED
  BY <1>4, <1>7, <1>8, <1>10 DEF s, r
-----------------------------------------------------------------------------
(* The path of an order: from the payer's leaf, no node twice.             *)
LEMMA SignersSimple ==
  ASSUME NEW p \in Pay
  PROVE  /\ Origin(p) \in Node /\ Origin(p) \in Origins
         /\ Signers[p] \in Seq(Seq(Slot)) /\ Len(Signers[p]) \in Nat
         /\ Signers[p] # None => Len(Signers[p]) >= 1 /\ Signers[p][1] = Origin(p)
         /\ Signers[p] # None /\ ~SameLeaf(p) => Len(Signers[p]) > 1
         /\ SameLeaf(p) => Signers[p] = <<Origin(p)>>
         /\ \A i, j \in 1..Len(Signers[p]) : Signers[p][i] = Signers[p][j] => i = j
<1>1. /\ Origin(p) \in Node /\ Origin(p) \in Origins /\ Origin(p) \in Seq(Slot)
      /\ payer_addr[p] \in OctAddr /\ payee_addr[p] \in OctAddr
  BY OrderAssumption DEF Origin, Origins, OctAddr
<1>2. CASE SameLeaf(p)
  <2>1. Signers[p] = <<Origin(p)>>
    BY <1>2 DEF Signers
  <2>2. Signers[p] # None
    BY <2>1 DEF None
  <2>. QED
    BY <1>1, <1>2, <2>1, <2>2
<1>3. CASE ~SameLeaf(p)
  <2>1. Signers[p] = route_signers(payer_addr[p], payee_addr[p])
    BY <1>3 DEF Signers
  <2>2. CASE Signers[p] = None
    BY <1>1, <1>3, <2>2 DEF None
  <2>3. CASE Signers[p] # None
    <3>1. route_signers(payer_addr[p], payee_addr[p]) # None
      BY <2>1, <2>3
    <3>2. /\ Signers[p] \in Seq(Seq(Slot))
          /\ Signers[p][1] = parent(payer_addr[p]) /\ Len(Signers[p]) > 1
          /\ \A i, j \in 1..Len(Signers[p]) : Signers[p][i] = Signers[p][j] => i = j
      BY <1>1, <2>1, <3>1, RouteSimple
    <3>. QED
      BY <1>1, <1>3, <3>2 DEF Origin
  <2>. QED
    BY <2>2, <2>3
<1>. QED
  BY <1>2, <1>3

(* Eviction finds the oldest live key when the insertion order names all   *)
(* of them (evict_oldest_pending, evict_oldest_terminal).                  *)
LEMMA OldestLiveFound ==
  ASSUME NEW q \in Seq(Pay), NEW live, live # {}, live \subseteq Keys(q)
  PROVE  LET k == OldestLive(q, live)
         IN  k \in 1..Len(q) /\ q[k] \in live /\ \A j \in 1..(k - 1) : q[j] \notin live
<1>. DEFINE T == { k \in 1..Len(q) : q[k] \in live }
<1>1. T \in SUBSET Nat /\ T # {}
  BY DEF Keys
<1>2. PICK k \in T : \A j \in T : k <= j
  BY <1>1, LeastNat
<1>3. k \in 1..Len(q) /\ q[k] \in live /\ \A j \in 1..(k - 1) : q[j] \notin live
  BY <1>2
<1>. QED
  BY <1>3 DEF OldestLive

(* After the eviction, the order still names every other live key.         *)
LEMMA PopKeeps ==
  ASSUME NEW q \in Seq(Pay), NEW live, live # {}, live \subseteq Keys(q)
  PROVE  LET k == OldestLive(q, live)
         IN  /\ q[k] \in live /\ q[k] \in Pay
             /\ PopTo(q, k) \in Seq(Pay)
             /\ Len(PopTo(q, k)) < Len(q)
             /\ live \ {q[k]} \subseteq Keys(PopTo(q, k))
<1>. DEFINE k == OldestLive(q, live)
<1>1. k \in 1..Len(q) /\ q[k] \in live /\ \A j \in 1..(k - 1) : q[j] \notin live
  BY OldestLiveFound
<1>. HIDE DEF k
<1>2. /\ PopTo(q, k) \in Seq(Pay) /\ Len(PopTo(q, k)) = Len(q) - k
      /\ \A j \in 1..(Len(q) - k) : PopTo(q, k)[j] = q[k + j]
  BY <1>1, SubSeqProperties DEF PopTo
<1>3. ASSUME NEW x \in live, x # q[k]
      PROVE  x \in Keys(PopTo(q, k))
  <2>1. PICK j \in 1..Len(q) : q[j] = x
    BY DEF Keys
  <2>2. j - k \in 1..(Len(q) - k) /\ k + (j - k) = j
    BY <1>1, <1>3, <2>1
  <2>. QED
    BY <1>2, <2>1, <2>2 DEF Keys
<1>. QED
  BY <1>1, <1>2, <1>3 DEF k

(* A table that has reached its positive limit is not empty.               *)
LEMMA FullNotEmpty ==
  ASSUME NEW S, NEW limit \in Nat \ {0}, Cardinality(S) >= limit
  PROVE  S # {}
<1>1. Cardinality({}) = 0
  BY FS_EmptySet
<1>2. ~(0 >= limit)
  OBVIOUS
<1>. QED
  BY <1>1, <1>2

(* The order names what it named before and the appended key.              *)
LEMMA AppendKeys ==
  ASSUME NEW q \in Seq(Pay), NEW p \in Pay
  PROVE  Append(q, p) \in Seq(Pay) /\ Keys(Append(q, p)) = Keys(q) \cup {p}
<1>1. /\ Append(q, p) \in Seq(Pay) /\ Len(Append(q, p)) = Len(q) + 1
      /\ \A i \in 1..Len(q) : Append(q, p)[i] = q[i]
      /\ Append(q, p)[Len(q) + 1] = p
  OBVIOUS
<1>2. Len(q) \in Nat
  OBVIOUS
<1>. QED
  BY <1>1, <1>2 DEF Keys
-----------------------------------------------------------------------------
(* A handler adds the messages it sends to the network and no other.       *)
LEMMA HandledAdds ==
  ASSUME NEW m, NEW out, Handled(m, out)
  PROVE  net' \subseteq net \cup out
BY DEF Handled

(* Everything that is sent has the type of a message.                      *)
LEMMA MessageTypes ==
  ASSUME NEW p \in Pay
  PROVE  /\ Order(p) \in Message
         /\ \A i \in 1..MAX_SETTLE_HOPS : Forward(p, i) \in Message
         /\ \A o \in Outcome, n \in Node : Result(p, o, n) \in Message
         /\ \A s \in Status, b \in BOOLEAN : Reply(p, s, b) \in Message
BY DEF Message, Order, Forward, Result, Reply

(* What apply_hop and apply_order answer, and when.                        *)
LEMMA HopOutcomes ==
  ASSUME NEW n, NEW p, NEW contended \in BOOLEAN
  PROVE  /\ HopOutcome(n, p, contended) \in {"Applied", "Duplicate", "Rejected"}
         /\ HopOutcome(n, p, contended) = "Applied" => Appends(n, p)
         /\ HopOutcome(n, p, contended) = "Duplicate" => p \in consumed[n]
BY DEF HopOutcome

(* Appending a hop keeps the ledger's type: no balance leaves Amount       *)
(* (Balances::apply_deltas refuses an overdraft and an overflow).          *)
LEMMA AppendHopType ==
  ASSUME TypeOK, NEW n \in Node, NEW p \in Pay, Appends(n, p), AppendHop(n, p)
  PROVE  /\ consumed' \in [Node -> SUBSET Pay]
         /\ DOMAIN bal' = Node /\ \A k \in Node : bal'[k] \in [DOMAIN Funds[k] -> Amount]
<1>1. consumed' \in [Node -> SUBSET Pay]
  BY DEF TypeOK, AppendHop
<1>. DEFINE d == Postings[p][n]
<1>2. /\ bal[n] \in [DOMAIN Funds[n] -> Amount]
      /\ DOMAIN d \subseteq DOMAIN bal[n] /\ \A a \in DOMAIN d : bal[n][a] + d[a] \in Amount
  BY DEF TypeOK, Appends, CanApply
<1>. HIDE DEF d
<1>3. apply_deltas(bal[n], d) \in [DOMAIN Funds[n] -> Amount]
  BY <1>2 DEF apply_deltas
<1>4. bal' = [bal EXCEPT ![n] = apply_deltas(bal[n], d)]
  BY DEF AppendHop, d
<1>5. DOMAIN bal' = Node
  BY <1>4 DEF TypeOK
<1>6. ASSUME NEW k \in Node
      PROVE  bal'[k] \in [DOMAIN Funds[k] -> Amount]
  BY <1>3, <1>4 DEF TypeOK
<1>. QED
  BY <1>1, <1>5, <1>6

(* Reserving keeps the manager's type and its keys (reserve), and only a   *)
(* pending payment of the same origin is evicted.                          *)
LEMMA ReserveKeeps ==
  ASSUME TypeOK, KeysNamed, NEW p \in Pay, reserve(Origin(p), p)
  PROVE  /\ EvictedBy(Origin(p), p) \subseteq pending
         /\ pending' \subseteq pending \cup {p}
         /\ pending_order' \in [Origins -> Seq(Pay)]
         /\ \A n \in Origins : At(n, pending') \subseteq Keys(pending_order'[n])
<1>. DEFINE n == Origin(p)
            live == At(n, pending)
            q == pending_order[n]
<1>1. n \in Origins /\ q \in Seq(Pay) /\ live \subseteq Keys(q) /\ live \subseteq pending
  BY SignersSimple DEF TypeOK, KeysNamed, At
<1>2. \A k \in Origins : k # n => At(k, pending') = At(k, pending \ EvictedBy(n, p))
  BY DEF reserve, At
<1>3. CASE p \in pending
  <2>1. EvictedBy(n, p) = {}
    BY <1>3 DEF EvictedBy
  <2>2. pending' = pending /\ pending_order' = pending_order
    BY <1>1, <1>3, <2>1 DEF reserve, TypeOK
  <2>. QED
    BY <2>1, <2>2 DEF TypeOK, KeysNamed
<1>4. CASE p \notin pending /\ Cardinality(live) < MAX_PENDING
  <2>1. EvictedBy(n, p) = {}
    BY <1>4 DEF EvictedBy
  <2>2. pending' = pending \cup {p} /\ pending_order' = [pending_order EXCEPT ![n] = Append(q, p)]
    BY <1>4, <2>1 DEF reserve
  <2>3. Append(q, p) \in Seq(Pay) /\ Keys(Append(q, p)) = Keys(q) \cup {p}
    BY <1>1, AppendKeys
  <2>4. pending_order' \in [Origins -> Seq(Pay)]
    BY <1>1, <2>2, <2>3 DEF TypeOK
  <2>5. ASSUME NEW k \in Origins
        PROVE  At(k, pending') \subseteq Keys(pending_order'[k])
    <3>1. CASE k = n
      BY <1>1, <2>2, <2>3, <3>1 DEF At, TypeOK
    <3>2. CASE k # n
      <4>1. pending_order'[k] = pending_order[k]
        BY <2>2, <3>2 DEF TypeOK
      <4>. QED
        BY <1>2, <2>1, <3>2, <4>1 DEF At, KeysNamed
    <3>. QED
      BY <3>1, <3>2
  <2>. QED
    BY <2>1, <2>2, <2>4, <2>5
<1>5. CASE p \notin pending /\ ~(Cardinality(live) < MAX_PENDING)
  <2>. DEFINE o == OldestLive(q, live)
  <2>0. live # {}
    <3>1. Cardinality({}) = 0
      BY FS_EmptySet
    <3>2. 0 < MAX_PENDING
      BY BoundAssumption
    <3>3. ~(Cardinality(live) < MAX_PENDING)
      BY <1>5
    <3>. HIDE DEF live
    <3>. QED
      BY <3>1, <3>2, <3>3
  <2>1. /\ q[o] \in live /\ q[o] \in Pay /\ PopTo(q, o) \in Seq(Pay)
        /\ live \ {q[o]} \subseteq Keys(PopTo(q, o))
    BY <1>1, <2>0, PopKeeps
  <2>2. EvictedBy(n, p) = {q[o]}
    BY <1>5 DEF EvictedBy
  <2>. HIDE DEF o
  <2>3. pending' = (pending \ {q[o]}) \cup {p}
        /\ pending_order' = [pending_order EXCEPT ![n] = Append(PopTo(q, o), p)]
    BY <1>5, <2>2 DEF reserve, o
  <2>4. /\ Append(PopTo(q, o), p) \in Seq(Pay)
        /\ Keys(Append(PopTo(q, o), p)) = Keys(PopTo(q, o)) \cup {p}
    BY <2>1, AppendKeys
  <2>5. pending_order' \in [Origins -> Seq(Pay)]
    BY <1>1, <2>3, <2>4 DEF TypeOK
  <2>6. ASSUME NEW k \in Origins
        PROVE  At(k, pending') \subseteq Keys(pending_order'[k])
    <3>1. CASE k = n
      <4>1. pending_order'[k] = Append(PopTo(q, o), p)
        BY <2>3, <3>1 DEF TypeOK
      <4>2. At(k, pending') \subseteq (live \ {q[o]}) \cup {p}
        BY <2>3, <3>1 DEF At
      <4>. QED
        BY <2>1, <2>4, <4>1, <4>2
    <3>2. CASE k # n
      <4>1. pending_order'[k] = pending_order[k]
        BY <2>3, <3>2 DEF TypeOK
      <4>. QED
        BY <1>2, <3>2, <4>1 DEF At, KeysNamed
    <3>. QED
      BY <3>1, <3>2
  <2>. QED
    BY <1>1, <2>1, <2>2, <2>3, <2>5, <2>6
<1>. QED
  BY <1>3, <1>4, <1>5

(* Remembering an outcome keeps the manager's type and keys, and touches   *)
(* no other payment but the evicted one (record_terminal).                 *)
LEMMA RecordKeeps ==
  ASSUME TypeOK, KeysNamed, NEW p \in Pay, NEW outcome \in Outcome,
         record_terminal(Origin(p), p, outcome)
  PROVE  /\ terminal' \in [Pay -> Outcome \cup {"none"}]
         /\ terminal'[p] = outcome
         /\ \A r \in Pay : r # p => terminal'[r] \in {terminal[r], "none"}
         /\ terminal_order' \in [Origins -> Seq(Pay)]
         /\ \A n \in Origins : Remembered(n)' \subseteq Keys(terminal_order'[n])
<1>. DEFINE n == Origin(p)
            live == Remembered(n)
            full == Cardinality(live) >= MAX_TERMINAL
            q == terminal_order[n]
            i == OldestLive(q, live)
            again == terminal[p] # "none"
<1>1. n \in Origins /\ q \in Seq(Pay) /\ live \subseteq Keys(q)
  BY SignersSimple DEF TypeOK, KeysNamed
<1>2. /\ terminal' = [ r \in Pay |-> IF r = p THEN outcome
                                     ELSE IF ~again /\ full /\ r = q[i] THEN "none"
                                     ELSE terminal[r] ]
      /\ terminal_order' =
           [terminal_order EXCEPT ![n] = IF again THEN q
                                         ELSE Append(IF full THEN PopTo(q, i) ELSE q, p)]
  BY DEF record_terminal
<1>3. /\ terminal' \in [Pay -> Outcome \cup {"none"}]
      /\ terminal'[p] = outcome
      /\ \A r \in Pay : r # p => terminal'[r] \in {terminal[r], "none"}
  <2>. HIDE DEF n, live, full, q, i, again
  <2>. QED
    BY <1>2 DEF TypeOK
<1>4. ASSUME NEW kept \in Seq(Pay), terminal_order' = [terminal_order EXCEPT ![n] = kept],
             \A r \in Pay : Origin(r) = n /\ terminal'[r] # "none" => r \in Keys(kept)
      PROVE  /\ terminal_order' \in [Origins -> Seq(Pay)]
             /\ \A k \in Origins : Remembered(k)' \subseteq Keys(terminal_order'[k])
  <2>1. terminal_order' \in [Origins -> Seq(Pay)]
    BY <1>1, <1>4 DEF TypeOK
  <2>2. ASSUME NEW k \in Origins
        PROVE  Remembered(k)' \subseteq Keys(terminal_order'[k])
    <3>1. CASE k = n
      <4>1. terminal_order'[k] = kept
        BY <1>4, <3>1 DEF TypeOK
      <4>. QED
        BY <1>4, <3>1, <4>1 DEF Remembered, At
    <3>2. CASE k # n
      <4>1. terminal_order'[k] = terminal_order[k]
        BY <1>4, <3>2 DEF TypeOK
      <4>2. Remembered(k)' \subseteq Remembered(k)
        BY <1>3, <3>2 DEF Remembered, At
      <4>. QED
        BY <4>1, <4>2 DEF KeysNamed
    <3>. QED
      BY <3>1, <3>2
  <2>. QED
    BY <2>1, <2>2
<1>5. CASE again
  <2>1. terminal_order' = [terminal_order EXCEPT ![n] = q]
    BY <1>2, <1>5
  <2>2. \A r \in Pay : Origin(r) = n /\ terminal'[r] # "none" => r \in Keys(q)
    BY <1>1, <1>3, <1>5 DEF Remembered, At
  <2>. QED
    BY <1>1, <1>3, <1>4, <2>1, <2>2
<1>6. CASE ~again /\ ~full
  <2>1. terminal_order' = [terminal_order EXCEPT ![n] = Append(q, p)]
    BY <1>2, <1>6
  <2>2. Append(q, p) \in Seq(Pay) /\ Keys(Append(q, p)) = Keys(q) \cup {p}
    BY <1>1, AppendKeys
  <2>3. \A r \in Pay : Origin(r) = n /\ terminal'[r] # "none" => r \in Keys(q) \cup {p}
    BY <1>1, <1>3 DEF Remembered, At
  <2>. QED
    BY <1>3, <1>4, <2>1, <2>2, <2>3
<1>7. CASE ~again /\ full
  <2>0. live # {}
    <3>1. MAX_TERMINAL \in Nat \ {0}
      BY BoundAssumption
    <3>2. Cardinality(live) >= MAX_TERMINAL
      BY <1>7
    <3>. HIDE DEF live
    <3>. QED
      BY <3>1, <3>2, FullNotEmpty
  <2>1. PopTo(q, i) \in Seq(Pay) /\ live \ {q[i]} \subseteq Keys(PopTo(q, i))
    BY <1>1, <2>0, PopKeeps
  <2>2. terminal_order' = [terminal_order EXCEPT ![n] = Append(PopTo(q, i), p)]
    BY <1>2, <1>7
  <2>3. Append(PopTo(q, i), p) \in Seq(Pay) /\ Keys(Append(PopTo(q, i), p)) = Keys(PopTo(q, i)) \cup {p}
    BY <2>1, AppendKeys
  <2>4. ASSUME NEW r \in Pay, Origin(r) = n, terminal'[r] # "none", r # p
        PROVE  r \in live \ {q[i]}
    <3>1. r # q[i]
      BY <1>2, <1>7, <2>4
    <3>2. terminal[r] # "none"
      BY <1>3, <2>4
    <3>. QED
      BY <2>4, <3>1, <3>2 DEF Remembered, At
  <2>. QED
    BY <1>3, <1>4, <2>1, <2>2, <2>3, <2>4
<1>. QED
  BY <1>5, <1>6, <1>7
-----------------------------------------------------------------------------
(***************************************************************************)
(* Type correctness. The state that every action but a few leaves alone is *)
(* dealt with once.                                                        *)
(***************************************************************************)
LedgerType ==
  /\ consumed \in [Node -> SUBSET Pay]
  /\ DOMAIN bal = Node /\ \A n \in Node : bal[n] \in [DOMAIN Funds[n] -> Amount]

ManagerType ==
  /\ pending \subseteq Pay
  /\ pending_order \in [Origins -> Seq(Pay)]
  /\ terminal \in [Pay -> Outcome \cup {"none"}]
  /\ terminal_order \in [Origins -> Seq(Pay)]
  /\ KeysNamed

EnvType ==
  /\ attached \subseteq Child
  /\ expired \subseteq Pay
  /\ restarts \in 0..MaxRestarts
  /\ detaches \in 0..MaxDetaches

WalletType ==
  /\ wallet \in [Pay -> Status \cup {"idle", "pending", "Unverified"}]
  /\ sends \in [Pay -> 0..MaxSends]

(* The type invariant and the named keys, grouped by what a step changes   *)
(* together: ledgers, manager, environment, wallets and the network.       *)
LEMMA TypeParts ==
  (TypeOK /\ KeysNamed) <=> (LedgerType /\ ManagerType /\ EnvType /\ WalletType /\ net \subseteq Message)
BY DEF TypeOK, LedgerType, ManagerType, EnvType, WalletType

(* The same grouping after a step.                                         *)
LEMMA TypePartsPrime ==
  (TypeOK' /\ KeysNamed') <=> (LedgerType' /\ ManagerType' /\ EnvType' /\ WalletType' /\ net' \subseteq Message)
BY DEF TypeOK, LedgerType, ManagerType, EnvType, WalletType

(* A group keeps its type over a step that leaves its variables alone.     *)
LEMMA Unchanged ==
  /\ LedgerType /\ UNCHANGED node_vars => LedgerType'
  /\ ManagerType /\ UNCHANGED mgr_vars => ManagerType'
  /\ EnvType /\ UNCHANGED env_vars => EnvType'
  /\ WalletType /\ UNCHANGED <<wallet, sends>> => WalletType'
BY DEF LedgerType, ManagerType, EnvType, WalletType, KeysNamed, At, Remembered,
       node_vars, mgr_vars, env_vars

(* Taking payments out of pending keeps the manager's type.                *)
LEMMA PendingShrinks ==
  ASSUME ManagerType, pending' \subseteq pending,
         UNCHANGED <<pending_order, terminal, terminal_order>>
  PROVE  ManagerType'
BY DEF ManagerType, KeysNamed, At, Remembered

(* Every step keeps every variable in its type and every manager key named. *)
LEMMA TypeStep ==
  ASSUME TypeOK, KeysNamed, [Next]_vars
  PROVE  TypeOK' /\ KeysNamed'
<1>0. LedgerType /\ ManagerType /\ EnvType /\ WalletType /\ net \subseteq Message
  BY TypeParts
<1>. SUFFICES LedgerType' /\ ManagerType' /\ EnvType' /\ WalletType' /\ net' \subseteq Message
  BY TypePartsPrime
<1>1. CASE UNCHANGED vars
  BY <1>0, <1>1, Unchanged DEF vars
<1>2. ASSUME NEW p \in Pay, SendOrder(p) \/ ResendOrder(p)
      PROVE  LedgerType' /\ ManagerType' /\ EnvType' /\ WalletType' /\ net' \subseteq Message
  <2>1. LedgerType' /\ ManagerType' /\ EnvType'
    BY <1>0, <1>2, Unchanged DEF SendOrder, ResendOrder
  <2>2. net' \subseteq Message
    BY <1>0, <1>2, MessageTypes DEF SendOrder, ResendOrder
  <2>3. sends' \in [Pay -> 0..MaxSends]
    BY <1>0, <1>2, BoundAssumption DEF SendOrder, ResendOrder, WalletType
  <2>4. wallet' \in [Pay -> Status \cup {"idle", "pending", "Unverified"}]
    BY <1>0, <1>2 DEF SendOrder, ResendOrder, WalletType
  <2>. QED
    BY <2>1, <2>2, <2>3, <2>4 DEF WalletType
<1>3. ASSUME NEW p \in Pay, RefuseOrder(p)
      PROVE  LedgerType' /\ ManagerType' /\ EnvType' /\ WalletType' /\ net' \subseteq Message
  <2>1. net' \subseteq Message
    BY <1>0, <1>3, HandledAdds, MessageTypes DEF RefuseOrder, Status
  <2>. QED
    BY <1>0, <1>3, <2>1, Unchanged DEF RefuseOrder
<1>4. ASSUME NEW p \in Pay, NEW contended \in BOOLEAN, NEW proven \in BOOLEAN,
             ApplySameLeafOrder(p, contended, proven)
      PROVE  LedgerType' /\ ManagerType' /\ EnvType' /\ WalletType' /\ net' \subseteq Message
  <2>. DEFINE outcome == HopOutcome(Origin(p), p, contended)
              told == IF outcome # "Rejected" /\ ~proven THEN "Indeterminate" ELSE outcome
  <2>1. outcome \in {"Applied", "Duplicate", "Rejected"} /\ (outcome = "Applied" => Appends(Origin(p), p))
    BY HopOutcomes
  <2>2. IF outcome = "Applied" THEN AppendHop(Origin(p), p) ELSE UNCHANGED node_vars
    BY <1>4 DEF ApplySameLeafOrder
  <2>3. LedgerType'
    BY <1>0, <2>1, <2>2, Unchanged, AppendHopType, SignersSimple DEF LedgerType
  <2>4. Handled(Order(p), {Reply(p, told, told \in {"Applied", "Duplicate"})})
    BY <1>4 DEF ApplySameLeafOrder
  <2>. HIDE DEF outcome
  <2>5. told \in Status
    BY <2>1 DEF Status
  <2>. HIDE DEF told
  <2>6. net' \subseteq Message
    <3>. DEFINE b == told \in {"Applied", "Duplicate"}
    <3>1. b \in BOOLEAN
      OBVIOUS
    <3>. HIDE DEF b
    <3>2. Reply(p, told, b) \in Message
      BY <2>5, <3>1, MessageTypes
    <3>. QED
      BY <1>0, <2>4, <3>2, HandledAdds DEF b
  <2>7. ManagerType' /\ EnvType' /\ WalletType'
    BY <1>0, <1>4, Unchanged DEF ApplySameLeafOrder
  <2>. QED
    BY <2>3, <2>6, <2>7
<1>5. ASSUME NEW p \in Pay, NEW contended \in BOOLEAN, ReserveOrder(p, contended)
      PROVE  LedgerType' /\ ManagerType' /\ EnvType' /\ WalletType' /\ net' \subseteq Message
  <2>1. LedgerType'
    BY <1>5, HopOutcomes, AppendHopType, SignersSimple DEF LedgerType, ReserveOrder
  <2>2. /\ EvictedBy(Origin(p), p) \subseteq pending
        /\ pending' \subseteq pending \cup {p}
        /\ pending_order' \in [Origins -> Seq(Pay)]
        /\ \A n \in Origins : At(n, pending') \subseteq Keys(pending_order'[n])
    BY <1>5, ReserveKeeps DEF ReserveOrder
  <2>3. ManagerType'
    BY <1>0, <1>5, <2>2 DEF ManagerType, KeysNamed, Remembered, At, ReserveOrder
  <2>4. net' \subseteq Message
    <3>1. net' \subseteq net \cup {Forward(p, 1)} \cup { Reply(q, "Indeterminate", FALSE) : q \in EvictedBy(Origin(p), p) }
      BY <1>5, HandledAdds DEF ReserveOrder
    <3>2. Forward(p, 1) \in Message
      BY MessageTypes, BoundAssumption
    <3>3. \A q \in EvictedBy(Origin(p), p) : Reply(q, "Indeterminate", FALSE) \in Message
      BY <1>0, <2>2, MessageTypes DEF ManagerType, Status
    <3>. QED
      BY <1>0, <3>1, <3>2, <3>3
  <2>5. EnvType' /\ WalletType'
    BY <1>0, <1>5, Unchanged DEF ReserveOrder
  <2>. QED
    BY <2>1, <2>3, <2>4, <2>5
<1>6. ASSUME NEW p \in Pay, NEW contended \in BOOLEAN, AnswerOrder(p, contended)
      PROVE  LedgerType' /\ ManagerType' /\ EnvType' /\ WalletType' /\ net' \subseteq Message
  <2>1. \/ Handled(Order(p), {})
        \/ \E s \in Status, b \in BOOLEAN : Handled(Order(p), {Reply(p, s, b)})
    <3>1. settle_reject_to_status(terminal[p]) \in Status
      BY DEF Status, settle_reject_to_status
    <3>2. (terminal[p] = "Applied") \in BOOLEAN /\ {"Rejected", "Duplicate"} \subseteq Status
      BY DEF Status
    <3>. QED
      BY <1>6, <3>1, <3>2 DEF AnswerOrder
  <2>2. net' \subseteq Message
    <3>1. CASE Handled(Order(p), {})
      BY <1>0, <3>1, HandledAdds
    <3>2. CASE \E s \in Status, b \in BOOLEAN : Handled(Order(p), {Reply(p, s, b)})
      <4>1. PICK s \in Status, b \in BOOLEAN : Handled(Order(p), {Reply(p, s, b)})
        BY <3>2
      <4>. QED
        BY <1>0, <4>1, HandledAdds, MessageTypes
    <3>. QED
      BY <2>1, <3>1, <3>2
  <2>. QED
    BY <1>0, <1>6, <2>2, Unchanged DEF AnswerOrder
<1>7. ASSUME NEW p \in Pay, SweepExpired(p)
      PROVE  LedgerType' /\ ManagerType' /\ EnvType' /\ WalletType' /\ net' \subseteq Message
  <2>1. net' \subseteq Message
    BY <1>0, <1>7, MessageTypes DEF SweepExpired, Status
  <2>2. ManagerType'
    BY <1>0, <1>7, PendingShrinks DEF SweepExpired
  <2>. QED
    BY <1>0, <1>7, <2>1, <2>2, Unchanged DEF SweepExpired
<1>8. ASSUME NEW p \in Pay, Expire(p)
      PROVE  LedgerType' /\ ManagerType' /\ EnvType' /\ WalletType' /\ net' \subseteq Message
  BY <1>0, <1>8, Unchanged DEF Expire, EnvType
<1>9. ASSUME NEW p \in Pay, NEW i \in 1..(Len(Signers[p]) - 1), NEW contended \in BOOLEAN,
             RefuseForward(p, i, contended)
      PROVE  LedgerType' /\ ManagerType' /\ EnvType' /\ WalletType' /\ net' \subseteq Message
  <2>. DEFINE n == Signers[p][i + 1]
              outcome == IF ForwardRejects(n, p, contended) THEN "IntermediateRejected" ELSE "Malformed"
  <2>1. n \in Node /\ Handled(Forward(p, i), {Result(p, outcome, n)})
    BY <1>9 DEF RefuseForward, ReceivesForward
  <2>2. outcome \in Outcome
    BY DEF Outcome
  <2>. HIDE DEF outcome, n
  <2>3. net' \subseteq Message
    BY <1>0, <2>1, <2>2, HandledAdds, MessageTypes
  <2>. QED
    BY <1>0, <1>9, <2>3, Unchanged DEF RefuseForward
<1>10. ASSUME NEW p \in Pay, NEW i \in 1..(Len(Signers[p]) - 1), NEW contended \in BOOLEAN,
              NEW proven \in BOOLEAN, ApplyForward(p, i, contended, proven)
      PROVE  LedgerType' /\ ManagerType' /\ EnvType' /\ WalletType' /\ net' \subseteq Message
  <2>. DEFINE n == Signers[p][i + 1]
              outcome == HopOutcome(n, p, contended)
              next == IF i + 1 < Len(Signers[p]) THEN {Forward(p, i + 1)}
                      ELSE IF proven THEN {Result(p, "Applied", n)} ELSE {}
  <2>1. /\ n \in Node /\ Len(Signers[p]) <= MAX_SETTLE_HOPS
        /\ IF outcome = "Applied" THEN AppendHop(n, p) ELSE UNCHANGED node_vars
        /\ Handled(Forward(p, i), next)
    BY <1>10 DEF ApplyForward, ReceivesForward
  <2>2. LedgerType'
    BY <1>0, <2>1, HopOutcomes, Unchanged, AppendHopType DEF LedgerType
  <2>3. next \subseteq Message
    <3>1. i + 1 < Len(Signers[p]) => i + 1 \in 1..MAX_SETTLE_HOPS
      BY <2>1, SignersSimple, BoundAssumption
    <3>. QED
      BY <2>1, <3>1, MessageTypes DEF Outcome
  <2>4. net' \subseteq Message
    BY <1>0, <2>1, <2>3, HandledAdds
  <2>5. ManagerType' /\ EnvType' /\ WalletType'
    BY <1>0, <1>10, Unchanged DEF ApplyForward
  <2>. QED
    BY <2>2, <2>4, <2>5
<1>11. ASSUME NEW m \in net, IgnoreResult(m)
      PROVE  LedgerType' /\ ManagerType' /\ EnvType' /\ WalletType' /\ net' \subseteq Message
  <2>1. net' \subseteq Message
    BY <1>0, <1>11, HandledAdds DEF IgnoreResult
  <2>. QED
    BY <1>0, <1>11, <2>1, Unchanged DEF IgnoreResult
<1>12. ASSUME NEW m \in net, NEW verified \in BOOLEAN, HandleResult(m, verified)
      PROVE  LedgerType' /\ ManagerType' /\ EnvType' /\ WalletType' /\ net' \subseteq Message
  <2>. DEFINE p == m.pay
              status == IF m.outcome # "Applied" THEN settle_reject_to_status(m.outcome)
                        ELSE IF verified THEN "Applied" ELSE "Indeterminate"
  <2>1. m \in Message /\ m.type = "Result"
    BY <1>0, <1>12 DEF HandleResult
  <2>2. p \in Pay /\ m.outcome \in Outcome
    BY <2>1 DEF Message
  <2>3. status \in Status
    BY DEF Status, settle_reject_to_status
  <2>4. Handled(m, {Reply(p, status, status = "Applied")})
    BY <1>12 DEF HandleResult
  <2>5. net' \subseteq Message
    <3>. HIDE DEF status, p
    <3>. QED
      BY <1>0, <2>2, <2>3, <2>4, HandledAdds, MessageTypes
  <2>6. ManagerType'
    <3>1. pending' = pending \ {p} /\ UNCHANGED pending_order
      BY <1>12 DEF HandleResult
    <3>2. CASE UNCHANGED <<terminal, terminal_order>>
      BY <1>0, <3>1, <3>2, PendingShrinks
    <3>3. CASE record_terminal(Origin(p), p, m.outcome)
      BY <1>0, <2>2, <3>1, <3>3, RecordKeeps DEF ManagerType, KeysNamed, At
    <3>. QED
      BY <1>12, <3>2, <3>3 DEF HandleResult
  <2>7. LedgerType' /\ EnvType' /\ WalletType'
    BY <1>0, <1>12, Unchanged DEF HandleResult
  <2>. QED
    BY <2>5, <2>6, <2>7
<1>13. ASSUME NEW m \in net, ApplyReply(m)
      PROVE  LedgerType' /\ ManagerType' /\ EnvType' /\ WalletType' /\ net' \subseteq Message
  <2>1. m \in Message /\ m.type = "Reply"
    BY <1>0, <1>13 DEF ApplyReply
  <2>2. m.pay \in Pay /\ m.status \in Status
    BY <2>1 DEF Message
  <2>3. SettlementState(m) \in Status \cup {"Unverified"}
    BY <2>2 DEF SettlementState
  <2>4. WalletType'
    BY <1>0, <1>13, <2>2, <2>3 DEF ApplyReply, WalletType
  <2>5. LedgerType' /\ ManagerType' /\ EnvType' /\ net' \subseteq Message
    BY <1>0, <1>13, Unchanged DEF ApplyReply
  <2>. QED
    BY <2>4, <2>5
<1>14. ASSUME NEW m \in net, Lose(m)
      PROVE  LedgerType' /\ ManagerType' /\ EnvType' /\ WalletType' /\ net' \subseteq Message
  BY <1>0, <1>14, Unchanged DEF Lose
<1>15. ASSUME NEW n \in Origins, Restart(n)
      PROVE  LedgerType' /\ ManagerType' /\ EnvType' /\ WalletType' /\ net' \subseteq Message
  <2>1. LedgerType' /\ WalletType' /\ net' \subseteq Message
    BY <1>0, <1>15, Unchanged DEF Restart
  <2>2. EnvType'
    BY <1>0, <1>15, BoundAssumption DEF Restart, EnvType
  <2>3. /\ pending' \subseteq Pay
        /\ pending_order' \in [Origins -> Seq(Pay)] /\ terminal_order' \in [Origins -> Seq(Pay)]
        /\ terminal' \in [Pay -> Outcome \cup {"none"}]
    BY <1>0, <1>15 DEF Restart, ManagerType
  <2>4. ASSUME NEW k \in Origins
        PROVE  /\ At(k, pending') \subseteq Keys(pending_order'[k])
               /\ Remembered(k)' \subseteq Keys(terminal_order'[k])
    <3>1. CASE k = n
      <4>1. At(k, pending') = {} /\ Remembered(k)' = {}
        BY <1>0, <1>15, <3>1 DEF Restart, At, Remembered, ManagerType
      <4>. QED
        BY <4>1
    <3>2. CASE k # n
      <4>1. /\ pending_order'[k] = pending_order[k] /\ terminal_order'[k] = terminal_order[k]
            /\ At(k, pending') \subseteq At(k, pending) /\ Remembered(k)' \subseteq Remembered(k)
        BY <1>0, <1>15, <3>2 DEF Restart, At, Remembered, ManagerType
      <4>. QED
        BY <1>0, <4>1 DEF ManagerType, KeysNamed
    <3>. QED
      BY <3>1, <3>2
  <2>5. ManagerType'
    BY <2>3, <2>4 DEF ManagerType, KeysNamed, At
  <2>. QED
    BY <2>1, <2>2, <2>5
<1>16. ASSUME NEW c \in attached, Detach(c)
      PROVE  LedgerType' /\ ManagerType' /\ EnvType' /\ WalletType' /\ net' \subseteq Message
  <2>1. EnvType'
    BY <1>0, <1>16, BoundAssumption DEF Detach, EnvType
  <2>. QED
    BY <1>0, <1>16, <2>1, Unchanged DEF Detach
<1>. QED
  BY <1>1, <1>2, <1>3, <1>4, <1>5, <1>6, <1>7, <1>8, <1>9, <1>10, <1>11, <1>12, <1>13, <1>14,
     <1>15, <1>16, BoundAssumption DEF Next, HandleOrder, HandleForward
-----------------------------------------------------------------------------
(***************************************************************************)
(* The cascade. What is claimed about one payment by the manager and by    *)
(* the wallet:                                                             *)
(***************************************************************************)
Claims(p) ==
  /\ p \in pending => Debited(p)
  /\ terminal[p] # "none" => Debited(p)
  /\ terminal[p] = "Applied" => Credited(p)
  /\ wallet[p] \in {"Partial", "Indeterminate", "Unverified"} => Debited(p)
  /\ wallet[p] \in {"Applied", "Duplicate"} => Credited(p)

(* CascadeInv, payment by payment and message by message.                  *)
LEMMA CascadeParts ==
  CascadeInv <=> PrefixApplied /\ (\A p \in Pay : Claims(p)) /\ (\A m \in net : Truthful(m))
BY DEF CascadeInv, Claims, AppliedMeansCredited, UnsettledMeansDebited

(* The same grouping after a step.                                         *)
LEMMA CascadePartsPrime ==
  CascadeInv' <=> PrefixApplied' /\ (\A p \in Pay : Claims(p)') /\ (\A m \in net' : Truthful(m)')
BY DEF CascadeInv, Claims, AppliedMeansCredited, UnsettledMeansDebited

(* The ledgers only grow.                                                  *)
Grows == \A n \in Node : consumed[n] \subseteq consumed'[n]

(* A step that leaves the ledgers alone lets them grow, and keeps the      *)
(* prefix of applied hops.                                                 *)
LEMMA SameGrows ==
  ASSUME UNCHANGED node_vars
  PROVE  Grows /\ (PrefixApplied => PrefixApplied')
BY DEF Grows, PrefixApplied, AppliedAt, node_vars

(* A fact about applied hops stays true when the ledgers grow.             *)
LEMMA FactsGrow ==
  ASSUME Grows, NEW p \in Pay
  PROVE  /\ \A i : AppliedAt(p, i) => AppliedAt(p, i)'
         /\ Debited(p) => Debited(p)'
         /\ Credited(p) => Credited(p)'
<1>1. Origin(p) \in Node
  BY SignersSimple
<1>. QED
  BY <1>1 DEF Grows, AppliedAt, Debited, Credited

(* A message that was true of the ledgers stays true when they grow.       *)
LEMMA TruthGrows ==
  ASSUME Grows, NEW m \in Message, Truthful(m)
  PROVE  Truthful(m)'
<1>1. m.pay \in Pay
  BY DEF Message
<1>2. /\ \A i : AppliedAt(m.pay, i) => AppliedAt(m.pay, i)'
      /\ Debited(m.pay) => Debited(m.pay)'
      /\ Credited(m.pay) => Credited(m.pay)'
  BY <1>1, FactsGrow
<1>. QED
  BY <1>2 DEF Truthful

(* What is claimed of a payment stays true when the ledgers grow.          *)
LEMMA ClaimsGrow ==
  ASSUME Grows, NEW p \in Pay, Claims(p),
         p \in pending' => p \in pending,
         terminal'[p] \in {terminal[p], "none"}, wallet'[p] = wallet[p]
  PROVE  Claims(p)'
BY FactsGrow DEF Claims

(* Applying the next hop after an applied prefix gives a longer prefix:    *)
(* the signers are all different, so no later hop appears applied.         *)
LEMMA PrefixGrows ==
  ASSUME TypeOK, PrefixApplied, NEW p \in Pay, NEW i \in 1..Len(Signers[p]),
         Signers[p][i] \in Node, \A k \in 1..(i - 1) : AppliedAt(p, k),
         AppendHop(Signers[p][i], p)
  PROVE  Grows /\ PrefixApplied' /\ AppliedAt(p, i)'
<1>. DEFINE n == Signers[p][i]
<1>1. consumed' = [consumed EXCEPT ![n] = consumed[n] \cup {p}] /\ consumed \in [Node -> SUBSET Pay]
  BY DEF AppendHop, TypeOK
<1>2. Grows /\ AppliedAt(p, i)'
  BY <1>1 DEF Grows, AppliedAt
<1>3. ASSUME NEW q \in Pay, NEW j \in 1..Len(Signers[q]), AppliedAt(q, j)', NEW k \in 1..j
      PROVE  AppliedAt(q, k)'
  <2>0. Len(Signers[q]) \in Nat /\ k \in 1..Len(Signers[q])
    BY SignersSimple
  <2>1. CASE AppliedAt(q, j)
    BY <1>2, <2>0, <2>1, FactsGrow DEF PrefixApplied
  <2>2. CASE ~AppliedAt(q, j)
    <3>1. q = p /\ Signers[q][j] = n
      BY <1>1, <1>3, <2>2 DEF AppliedAt
    <3>2. j = i
      BY <3>1, SignersSimple
    <3>. QED
      BY <1>2, <3>1, <3>2, FactsGrow
  <2>. QED
    BY <2>1, <2>2
<1>. QED
  BY <1>2, <1>3 DEF PrefixApplied

(* What has to be shown of a step that leaves the wallets alone and only   *)
(* forgets in the manager: that it sends nothing untrue.                   *)
LEMMA QuietStep ==
  ASSUME TypeOK, CascadeInv, Grows, PrefixApplied',
         pending' \subseteq pending, terminal' = terminal, wallet' = wallet,
         \A m \in net' : m \in net \/ Truthful(m)'
  PROVE  CascadeInv'
<1>1. \A p \in Pay : Claims(p)'
  BY CascadeParts, ClaimsGrow
<1>2. \A m \in net' : Truthful(m)'
  BY CascadeParts, TruthGrows DEF TypeOK
<1>. QED
  BY <1>1, <1>2, CascadePartsPrime

(* When an answer is true.                                                *)
LEMMA ReplyTruth ==
  ASSUME NEW p \in Pay, NEW s \in Status, NEW b \in BOOLEAN,
         s # "Rejected" => Debited(p)', b => Credited(p)', s = "Applied" => b
  PROVE  Truthful(Reply(p, s, b))'
BY DEF Truthful, Reply

(* Every step keeps every claim true.                                      *)
LEMMA CascadeStep ==
  ASSUME TypeOK, KeysNamed, CascadeInv, [Next]_vars
  PROVE  CascadeInv'
<1>0. PrefixApplied /\ (\A p \in Pay : Claims(p)) /\ (\A m \in net : Truthful(m))
  BY CascadeParts
<1>1. CASE UNCHANGED vars
  BY <1>0, <1>1, SameGrows, QuietStep DEF vars, mgr_vars
<1>2. ASSUME NEW p \in Pay, SendOrder(p) \/ ResendOrder(p)
      PROVE  CascadeInv'
  <2>1. UNCHANGED node_vars /\ UNCHANGED mgr_vars /\ net' = net \cup {Order(p)}
    BY <1>2 DEF SendOrder, ResendOrder
  <2>2. Grows /\ PrefixApplied'
    BY <1>0, <2>1, SameGrows
  <2>3. Truthful(Order(p))'
    BY DEF Truthful, Order
  <2>4. \A m \in net' : Truthful(m)'
    BY <1>0, <2>1, <2>2, <2>3, TruthGrows DEF TypeOK
  <2>5. ASSUME NEW q \in Pay
        PROVE  Claims(q)'
    <3>1. wallet'[q] \in {wallet[q], "pending"}
      BY <1>2 DEF SendOrder, ResendOrder, TypeOK
    <3>2. pending' = pending /\ terminal' = terminal
      BY <2>1 DEF mgr_vars
    <3>. QED
      BY <1>0, <2>2, <3>1, <3>2, FactsGrow DEF Claims
  <2>. QED
    BY <2>2, <2>4, <2>5, CascadePartsPrime
<1>3. ASSUME NEW p \in Pay, RefuseOrder(p)
      PROVE  CascadeInv'
  <2>1. Truthful(Reply(p, "Rejected", FALSE))'
    BY ReplyTruth DEF Status
  <2>2. net' \subseteq net \cup {Reply(p, "Rejected", FALSE)}
    BY <1>3, HandledAdds DEF RefuseOrder
  <2>. QED
    BY <1>0, <1>3, <2>1, <2>2, SameGrows, QuietStep DEF RefuseOrder, mgr_vars
<1>4. ASSUME NEW p \in Pay, NEW contended \in BOOLEAN, NEW proven \in BOOLEAN,
             ApplySameLeafOrder(p, contended, proven)
      PROVE  CascadeInv'
  <2>. DEFINE n == Origin(p)
              outcome == HopOutcome(n, p, contended)
              told == IF outcome # "Rejected" /\ ~proven THEN "Indeterminate" ELSE outcome
  <2>1. /\ n \in Node /\ Signers[p] # None /\ Signers[p][1] = n /\ Len(Signers[p]) = 1
    <3>1. SameLeaf(p)
      BY <1>4 DEF ApplySameLeafOrder, PayeeIsLocal
    <3>2. Signers[p] = <<n>> /\ n \in Node
      BY <3>1, SignersSimple
    <3>. QED
      BY <3>2 DEF None
  <2>2. /\ IF outcome = "Applied" THEN AppendHop(n, p) ELSE UNCHANGED node_vars
        /\ Handled(Order(p), {Reply(p, told, told \in {"Applied", "Duplicate"})})
        /\ UNCHANGED mgr_vars /\ wallet' = wallet
    BY <1>4 DEF ApplySameLeafOrder
  <2>3. Grows /\ PrefixApplied'
    BY <1>0, <2>1, <2>2, SameGrows, PrefixGrows
  <2>4. /\ outcome \in {"Applied", "Duplicate", "Rejected"}
        /\ outcome # "Rejected" => AppliedAt(p, 1)'
    <3>1. CASE outcome = "Applied"
      BY <1>0, <2>1, <2>2, <3>1, PrefixGrows
    <3>2. CASE outcome = "Duplicate"
      BY <2>1, <2>3, <3>2, HopOutcomes, FactsGrow DEF AppliedAt
    <3>. QED
      BY <3>1, <3>2, HopOutcomes
  <2>5. outcome # "Rejected" => Debited(p)' /\ Credited(p)'
    BY <2>1, <2>4 DEF Debited, Credited, AppliedAt
  <2>. HIDE DEF outcome
  <2>6. PICK s \in Status : s = told
    BY <2>4 DEF Status
  <2>7. PICK b \in BOOLEAN : b <=> s \in {"Applied", "Duplicate"}
    OBVIOUS
  <2>8. Truthful(Reply(p, s, b))'
    <3>1. s # "Rejected" => Debited(p)' /\ Credited(p)'
      BY <2>5, <2>6
    <3>. QED
      BY <2>7, <3>1, ReplyTruth
  <2>9. net' \subseteq net \cup {Reply(p, s, b)}
    <3>1. Handled(Order(p), {Reply(p, s, s \in {"Applied", "Duplicate"})})
      BY <2>2, <2>6
    <3>2. b = (s \in {"Applied", "Duplicate"})
      BY <2>7
    <3>. QED
      BY <3>1, <3>2, HandledAdds
  <2>. QED
    BY <2>2, <2>3, <2>8, <2>9, QuietStep DEF mgr_vars
<1>5. ASSUME NEW p \in Pay, NEW contended \in BOOLEAN, ReserveOrder(p, contended)
      PROVE  CascadeInv'
  <2>1. /\ Origin(p) \in Node /\ Signers[p][1] = Origin(p) /\ Len(Signers[p]) > 1 /\ Len(Signers[p]) \in Nat
    BY <1>5, SignersSimple DEF ReserveOrder, OrderRefused, CascadeRoutes
  <2>2. Grows /\ PrefixApplied' /\ AppliedAt(p, 1)'
    BY <1>0, <1>5, <2>1, PrefixGrows DEF ReserveOrder
  <2>3. /\ EvictedBy(Origin(p), p) \subseteq pending /\ pending' \subseteq pending \cup {p}
        /\ terminal' = terminal /\ wallet' = wallet
    BY <1>5, ReserveKeeps DEF ReserveOrder
  <2>4. Debited(p)'
    BY <2>1, <2>2 DEF Debited, AppliedAt
  <2>5. ASSUME NEW q \in Pay
        PROVE  Claims(q)'
    BY <1>0, <2>2, <2>3, <2>4, FactsGrow DEF Claims
  <2>6. Truthful(Forward(p, 1))'
    BY <2>1, <2>2 DEF Truthful, Forward
  <2>7. ASSUME NEW q \in EvictedBy(Origin(p), p)
        PROVE  Truthful(Reply(q, "Indeterminate", FALSE))'
    <3>1. q \in Pay /\ Debited(q)'
      BY <1>0, <2>2, <2>3, FactsGrow DEF Claims, TypeOK
    <3>. QED
      BY <3>1, ReplyTruth DEF Status
  <2>8. net' \subseteq net \cup {Forward(p, 1)} \cup { Reply(q, "Indeterminate", FALSE) : q \in EvictedBy(Origin(p), p) }
    BY <1>5, HandledAdds DEF ReserveOrder
  <2>9. \A m \in net' : Truthful(m)'
    BY <1>0, <2>2, <2>6, <2>7, <2>8, TruthGrows DEF TypeOK
  <2>. QED
    BY <2>2, <2>5, <2>9, CascadePartsPrime
<1>6. ASSUME NEW p \in Pay, NEW contended \in BOOLEAN, AnswerOrder(p, contended)
      PROVE  CascadeInv'
  <2>. DEFINE outcome == HopOutcome(Origin(p), p, contended)
  <2>0. outcome \in {"Duplicate", "Rejected"} /\ (outcome = "Duplicate" => Debited(p))
    BY <1>6, HopOutcomes DEF AnswerOrder, Debited
  <2>1. \/ Handled(Order(p), {})
        \/ \E s \in Status, b \in BOOLEAN :
             /\ Handled(Order(p), {Reply(p, s, b)})
             /\ s # "Rejected" => Debited(p)
             /\ b => Credited(p)
             /\ s # "Applied"
    <3>1. settle_reject_to_status(terminal[p]) \in Status \ {"Applied"}
      BY DEF Status, settle_reject_to_status
    <3>2. (terminal[p] = "Applied") \in BOOLEAN /\ {"Rejected", "Duplicate"} \subseteq Status
      BY DEF Status
    <3>3. terminal[p] = "Applied" => Credited(p)
      BY <1>0 DEF Claims
    <3>4. CASE outcome = "Rejected"
      BY <1>6, <3>2, <3>4 DEF AnswerOrder
    <3>5. CASE outcome # "Rejected"
      BY <1>6, <2>0, <3>1, <3>2, <3>3, <3>5 DEF AnswerOrder
    <3>. QED
      BY <3>4, <3>5
  <2>2. Grows /\ PrefixApplied'
    BY <1>0, <1>6, SameGrows DEF AnswerOrder
  <2>3. \A m \in net' : m \in net \/ Truthful(m)'
    <3>1. CASE Handled(Order(p), {})
      BY <3>1, HandledAdds
    <3>2. CASE ~Handled(Order(p), {})
      <4>1. PICK s \in Status, b \in BOOLEAN :
                   /\ Handled(Order(p), {Reply(p, s, b)})
                   /\ s # "Rejected" => Debited(p)
                   /\ b => Credited(p)
                   /\ s # "Applied"
        BY <2>1, <3>2
      <4>2. Truthful(Reply(p, s, b))'
        BY <2>2, <4>1, FactsGrow, ReplyTruth
      <4>. QED
        BY <4>1, <4>2, HandledAdds
    <3>. QED
      BY <3>1, <3>2
  <2>. QED
    BY <1>6, <2>2, <2>3, QuietStep DEF AnswerOrder, mgr_vars
<1>7. ASSUME NEW p \in Pay, SweepExpired(p)
      PROVE  CascadeInv'
  <2>1. Grows /\ PrefixApplied'
    BY <1>0, <1>7, SameGrows DEF SweepExpired
  <2>2. Debited(p)'
    BY <1>0, <1>7, <2>1, FactsGrow DEF SweepExpired, Claims
  <2>3. Truthful(Reply(p, "Indeterminate", FALSE))'
    BY <2>2, ReplyTruth DEF Status
  <2>. QED
    BY <1>7, <2>1, <2>3, QuietStep DEF SweepExpired
<1>8. ASSUME NEW p \in Pay, Expire(p)
      PROVE  CascadeInv'
  BY <1>0, <1>8, SameGrows, QuietStep DEF Expire, mgr_vars
<1>9. ASSUME NEW p \in Pay, NEW i \in 1..(Len(Signers[p]) - 1), NEW contended \in BOOLEAN,
             RefuseForward(p, i, contended)
      PROVE  CascadeInv'
  <2>1. Forward(p, i) \in net /\ Truthful(Forward(p, i))
    BY <1>0, <1>9 DEF RefuseForward
  <2>2. AppliedAt(p, 1)
    BY <2>1, SignersSimple DEF Truthful, Forward
  <2>3. Grows /\ PrefixApplied'
    BY <1>0, <1>9, SameGrows DEF RefuseForward
  <2>4. Signers[p] # None
    BY SignersSimple DEF None
  <2>5. Debited(p)'
    BY <2>2, <2>3, <2>4, SignersSimple, FactsGrow DEF AppliedAt, Debited
  <2>6. PICK o \in {"IntermediateRejected", "Malformed"} :
          Handled(Forward(p, i), {Result(p, o, Signers[p][i + 1])})
    BY <1>9 DEF RefuseForward
  <2>7. Truthful(Result(p, o, Signers[p][i + 1]))'
    BY <2>5 DEF Truthful, Result
  <2>8. net' \subseteq net \cup {Result(p, o, Signers[p][i + 1])}
    BY <2>6, HandledAdds
  <2>. QED
    BY <1>9, <2>3, <2>7, <2>8, QuietStep DEF RefuseForward, mgr_vars
<1>10. ASSUME NEW p \in Pay, NEW i \in 1..(Len(Signers[p]) - 1), NEW contended \in BOOLEAN,
              NEW proven \in BOOLEAN, ApplyForward(p, i, contended, proven)
      PROVE  CascadeInv'
  <2>. DEFINE n == Signers[p][i + 1]
              outcome == HopOutcome(n, p, contended)
              next == IF i + 1 < Len(Signers[p]) THEN {Forward(p, i + 1)}
                      ELSE IF proven THEN {Result(p, "Applied", n)} ELSE {}
  <2>0. Len(Signers[p]) \in Nat /\ i \in Nat /\ i + 1 \in 1..Len(Signers[p]) /\ Signers[p] # None
    BY SignersSimple DEF None
  <2>1. Forward(p, i) \in net /\ Truthful(Forward(p, i)) /\ n \in Node
    BY <1>0, <1>10 DEF ApplyForward, ReceivesForward
  <2>2. \A k \in 1..i : AppliedAt(p, k)
    BY <2>1 DEF Truthful, Forward
  <2>3. /\ IF outcome = "Applied" THEN AppendHop(n, p) ELSE UNCHANGED node_vars
        /\ outcome \in {"Applied", "Duplicate"}
        /\ Handled(Forward(p, i), next)
        /\ UNCHANGED mgr_vars /\ wallet' = wallet
    BY <1>10, HopOutcomes DEF ApplyForward, ForwardRejects
  <2>4. Grows /\ PrefixApplied' /\ AppliedAt(p, i + 1)'
    <3>1. CASE outcome = "Applied"
      BY <1>0, <2>0, <2>1, <2>2, <2>3, <3>1, PrefixGrows
    <3>2. CASE outcome = "Duplicate"
      <4>1. AppliedAt(p, i + 1)
        BY <2>1, <3>2, HopOutcomes DEF AppliedAt
      <4>. QED
        BY <1>0, <2>3, <3>2, <4>1, SameGrows, FactsGrow
    <3>. QED
      BY <2>3, <3>1, <3>2
  <2>. HIDE DEF outcome
  <2>5. \A k \in 1..(i + 1) : AppliedAt(p, k)'
    BY <2>0, <2>2, <2>4, FactsGrow
  <2>6. Debited(p)'
    BY <2>0, <2>5, SignersSimple DEF Debited, AppliedAt
  <2>7. ASSUME NEW m \in next
        PROVE  Truthful(m)'
    <3>1. CASE i + 1 < Len(Signers[p])
      BY <2>5, <2>7, <3>1 DEF Truthful, Forward
    <3>2. CASE ~(i + 1 < Len(Signers[p]))
      <4>1. i + 1 = Len(Signers[p])
        BY <2>0, <3>2
      <4>2. Credited(p)'
        BY <2>0, <2>4, <4>1 DEF Credited
      <4>3. m = Result(p, "Applied", n)
        BY <2>7, <3>2
      <4>. QED
        BY <2>6, <4>2, <4>3 DEF Truthful, Result
    <3>. QED
      BY <3>1, <3>2
  <2>8. net' \subseteq net \cup next
    BY <2>3, HandledAdds
  <2>. QED
    BY <2>3, <2>4, <2>7, <2>8, QuietStep DEF mgr_vars
<1>11. ASSUME NEW m \in net, IgnoreResult(m)
      PROVE  CascadeInv'
  <2>1. net' \subseteq net
    BY <1>11, HandledAdds DEF IgnoreResult
  <2>. QED
    BY <1>0, <1>11, <2>1, SameGrows, QuietStep DEF IgnoreResult, mgr_vars
<1>12. ASSUME NEW m \in net, NEW verified \in BOOLEAN, HandleResult(m, verified)
      PROVE  CascadeInv'
  <2>. DEFINE p == m.pay
              status == IF m.outcome # "Applied" THEN settle_reject_to_status(m.outcome)
                        ELSE IF verified THEN "Applied" ELSE "Indeterminate"
  <2>1. m \in Message /\ m.type = "Result" /\ Truthful(m)
    BY <1>0, <1>12 DEF HandleResult, TypeOK
  <2>2. p \in Pay /\ m.outcome \in Outcome
    BY <2>1 DEF Message
  <2>3. Debited(p) /\ (m.outcome = "Applied" => Credited(p))
    BY <2>1 DEF Truthful
  <2>4. Grows /\ PrefixApplied'
    BY <1>0, <1>12, SameGrows DEF HandleResult
  <2>5. Debited(p)' /\ (m.outcome = "Applied" => Credited(p)')
    BY <2>2, <2>3, <2>4, FactsGrow
  <2>6. /\ status \in Status \ {"Rejected"}
        /\ status = "Applied" => m.outcome = "Applied"
    BY DEF Status, settle_reject_to_status
  <2>7. /\ pending' = pending \ {p} /\ wallet' = wallet
        /\ net' \subseteq net \cup {Reply(p, status, status = "Applied")}
    BY <1>12, HandledAdds DEF HandleResult
  <2>8. PICK s \in Status, b \in BOOLEAN : s = status /\ b = (status = "Applied")
    BY <2>6
  <2>9. Truthful(Reply(p, s, b))'
    <3>1. Debited(p)' /\ (b => Credited(p)') /\ (s = "Applied" => b)
      BY <2>5, <2>6, <2>8
    <3>. QED
      BY <3>1 DEF Truthful, Reply
  <2>10. \A x \in net' : Truthful(x)'
    BY <1>0, <2>4, <2>7, <2>8, <2>9, TruthGrows DEF TypeOK
  <2>11. ASSUME NEW q \in Pay
        PROVE  Claims(q)'
    <3>1. CASE record_terminal(Origin(p), p, m.outcome)
      <4>1. /\ terminal'[p] = m.outcome
            /\ q # p => terminal'[q] \in {terminal[q], "none"}
        BY <2>2, <3>1, RecordKeeps
      <4>2. CASE q # p
        BY <1>0, <2>4, <2>7, <4>1, <4>2, ClaimsGrow
      <4>3. CASE q = p
        BY <1>0, <2>4, <2>5, <2>7, <4>1, <4>3, FactsGrow DEF Claims
      <4>. QED
        BY <4>2, <4>3
    <3>2. CASE UNCHANGED <<terminal, terminal_order>>
      BY <1>0, <2>4, <2>7, <3>2, ClaimsGrow
    <3>. QED
      BY <1>12, <3>1, <3>2 DEF HandleResult
  <2>. QED
    BY <2>4, <2>10, <2>11, CascadePartsPrime
<1>13. ASSUME NEW m \in net, ApplyReply(m)
      PROVE  CascadeInv'
  <2>1. m \in Message /\ m.type = "Reply" /\ Truthful(m)
    BY <1>0, <1>13 DEF ApplyReply, TypeOK
  <2>2. m.pay \in Pay /\ m.status \in Status
    BY <2>1 DEF Message
  <2>3. /\ m.status # "Rejected" => Debited(m.pay)
        /\ m.proof => Credited(m.pay)
    BY <2>1 DEF Truthful
  <2>4. Grows /\ PrefixApplied'
    BY <1>0, <1>13, SameGrows DEF ApplyReply
  <2>5. \A x \in net' : Truthful(x)'
    BY <1>0, <1>13, <2>4, TruthGrows DEF ApplyReply, TypeOK
  <2>6. ASSUME NEW q \in Pay
        PROVE  Claims(q)'
    <3>1. pending' = pending /\ terminal' = terminal
      BY <1>13 DEF ApplyReply, mgr_vars
    <3>2. CASE wallet'[q] = wallet[q]
      BY <1>0, <2>4, <3>1, <3>2, ClaimsGrow
    <3>3. CASE wallet'[q] # wallet[q]
      <4>1. q = m.pay /\ wallet'[q] = SettlementState(m)
        BY <1>13, <3>3 DEF ApplyReply, TypeOK
      <4>2. /\ SettlementState(m) \in {"Partial", "Indeterminate", "Unverified"} => m.status # "Rejected"
            /\ SettlementState(m) \in {"Applied", "Duplicate"} => m.proof
        BY <2>2 DEF SettlementState, Status
      <4>3. /\ wallet'[q] \in {"Partial", "Indeterminate", "Unverified"} => Debited(q)'
            /\ wallet'[q] \in {"Applied", "Duplicate"} => Credited(q)'
        BY <2>2, <2>3, <2>4, <4>1, <4>2, FactsGrow
      <4>. QED
        BY <1>0, <2>4, <3>1, <4>3, FactsGrow DEF Claims
    <3>. QED
      BY <3>2, <3>3
  <2>. QED
    BY <2>4, <2>5, <2>6, CascadePartsPrime
<1>14. ASSUME NEW m \in net, Lose(m)
      PROVE  CascadeInv'
  BY <1>0, <1>14, SameGrows, QuietStep DEF Lose, mgr_vars
<1>15. ASSUME NEW n \in Origins, Restart(n)
      PROVE  CascadeInv'
  <2>1. Grows /\ PrefixApplied'
    BY <1>0, <1>15, SameGrows DEF Restart
  <2>2. \A q \in Pay : terminal'[q] \in {terminal[q], "none"}
    BY <1>15 DEF Restart
  <2>3. \A q \in Pay : Claims(q)'
    BY <1>0, <1>15, <2>1, <2>2, ClaimsGrow DEF Restart
  <2>4. \A m \in net' : Truthful(m)'
    BY <1>0, <1>15, <2>1, TruthGrows DEF Restart, TypeOK
  <2>. QED
    BY <2>1, <2>3, <2>4, CascadePartsPrime
<1>16. ASSUME NEW c \in attached, Detach(c)
      PROVE  CascadeInv'
  BY <1>0, <1>16, SameGrows, QuietStep DEF Detach, mgr_vars
<1>. QED
  BY <1>1, <1>2, <1>3, <1>4, <1>5, <1>6, <1>7, <1>8, <1>9, <1>10, <1>11, <1>12, <1>13, <1>14,
     <1>15, <1>16, BoundAssumption DEF Next, HandleOrder, HandleForward
-----------------------------------------------------------------------------
IInv == TypeOK /\ KeysNamed /\ CascadeInv

(* The invariant holds before the first order is sent.                     *)
LEMMA InitIInv == Init => IInv
<1>. SUFFICES ASSUME Init PROVE IInv
  OBVIOUS
<1>1. TypeOK
  BY BoundAssumption DEF Init, TypeOK
<1>2. KeysNamed
  BY DEF Init, KeysNamed, At, Remembered
<1>3. \A p \in Pay : \A i : ~AppliedAt(p, i)
  BY DEF Init, AppliedAt
<1>4. PrefixApplied
  BY <1>3 DEF PrefixApplied
<1>5. (\A p \in Pay : Claims(p)) /\ (\A m \in net : Truthful(m))
  BY DEF Init, Claims
<1>. QED
  BY <1>1, <1>2, <1>4, <1>5, CascadeParts DEF IInv

(***************************************************************************)
(* The invariant that the theorems below are read off from: types, manager *)
(* keys and the truth of every claim hold in every reachable state.        *)
(***************************************************************************)
THEOREM Invariance == Spec => []IInv
<1>1. Init => IInv
  BY InitIInv
<1>2. IInv /\ [Next]_vars => IInv'
  BY TypeStep, CascadeStep DEF IInv
<1>. QED
  BY <1>1, <1>2, PTL DEF Spec

(***************************************************************************)
(* Type correctness of the cascade, for every tree, every set of orders    *)
(* and every bound: in particular no balance of any node is ever overdrawn *)
(* or overflows, and no message leaves the bound on the signer path.       *)
(***************************************************************************)
THEOREM TypeCorrect == Spec => []TypeOK
<1>1. IInv => TypeOK
  BY DEF IInv
<1>. QED
  BY <1>1, Invariance, PTL

(***************************************************************************)
(* The hops of a payment are applied in the order of its path, whatever is *)
(* lost, delivered again, refused, expired or restarted                    *)
(* (handle_settlement_order, handle_settle_forward).                       *)
(***************************************************************************)
THEOREM HopsInOrder == Spec => []PrefixApplied
<1>1. IInv => PrefixApplied
  BY DEF IInv, CascadeInv
<1>. QED
  BY <1>1, Invariance, PTL

(***************************************************************************)
(* An Applied or proven Duplicate that reaches the origin or the wallet    *)
(* means that the payee's leaf has credited the payee (handle_settle_result,*)
(* apply_settlement_result).                                               *)
(***************************************************************************)
THEOREM AppliedIsCredited == Spec => []AppliedMeansCredited
<1>1. IInv => AppliedMeansCredited
  BY DEF IInv, CascadeInv
<1>. QED
  BY <1>1, Invariance, PTL

(***************************************************************************)
(* A pending reservation, and a Partial, Indeterminate or Unverified       *)
(* answer, mean that the payer has been debited (send_timeout_result,      *)
(* settle_reject_to_status).                                               *)
(***************************************************************************)
THEOREM UnsettledIsDebited == Spec => []UnsettledMeansDebited
<1>1. IInv => UnsettledMeansDebited
  BY DEF IInv, CascadeInv
<1>. QED
  BY <1>1, Invariance, PTL

(* All of CascadeInv, the truth of every message in flight included.       *)
THEOREM CascadeTrue == Spec => []CascadeInv
<1>1. IInv => CascadeInv
  BY DEF IInv
<1>. QED
  BY <1>1, Invariance, PTL
-----------------------------------------------------------------------------
(***************************************************************************)
(* The bounds of the manager. The order of reservations may hold stale     *)
(* keys; the order of outcomes never does: it names every remembered       *)
(* outcome once and nothing else, so that an eviction pops its first key.  *)
(***************************************************************************)
Exact(q, S) ==
  /\ q \in Seq(Pay) /\ Keys(q) = S
  /\ \A i, j \in 1..Len(q) : q[i] = q[j] => i = j
  /\ IsFiniteSet(S) /\ Cardinality(S) = Len(q) /\ Len(q) <= MAX_TERMINAL

PendingCounted ==
  \A n \in Origins : IsFiniteSet(At(n, pending)) /\ Cardinality(At(n, pending)) <= MAX_PENDING

TerminalCounted == \A n \in Origins : Exact(terminal_order[n], Remembered(n))

(* A new key goes to the end of an order with room.                        *)
LEMMA ExactAppend ==
  ASSUME NEW q, NEW S, Exact(q, S), NEW p \in Pay, p \notin S, Len(q) < MAX_TERMINAL
  PROVE  Exact(Append(q, p), S \cup {p})
<1>. DEFINE n == Len(q)
<1>1. n \in Nat /\ MAX_TERMINAL \in Nat /\ q \in Seq(Pay)
  BY BoundAssumption DEF Exact
<1>2. /\ Append(q, p) \in Seq(Pay) /\ Len(Append(q, p)) = n + 1 /\ Append(q, p)[n + 1] = p
      /\ \A i \in 1..n : Append(q, p)[i] = q[i]
  BY <1>1, AppendProperties
<1>3. Keys(Append(q, p)) = S \cup {p}
  BY <1>1, AppendKeys DEF Exact
<1>4. IsFiniteSet(S \cup {p}) /\ Cardinality(S \cup {p}) = n + 1
  BY FS_AddElement DEF Exact
<1>5. \A i \in 1..n : q[i] # p
  BY DEF Exact, Keys
<1>6. \A i \in 1..(n + 1) : i \in 1..n \/ i = n + 1
  BY <1>1
<1>7. \A i, j \in 1..n : q[i] = q[j] => i = j
  BY DEF Exact
<1>8. n < MAX_TERMINAL
  OBVIOUS
<1>. HIDE DEF n
<1>9. \A i, j \in 1..(n + 1) : Append(q, p)[i] = Append(q, p)[j] => i = j
  BY <1>2, <1>5, <1>6, <1>7
<1>. QED
  BY <1>1, <1>2, <1>3, <1>4, <1>8, <1>9 DEF Exact

(* The first key is the oldest, and goes alone.                            *)
LEMMA ExactPop ==
  ASSUME NEW q, NEW S, Exact(q, S), S # {}
  PROVE  /\ OldestLive(q, S) = 1 /\ q[1] \in S
         /\ Exact(PopTo(q, 1), S \ {q[1]}) /\ Len(PopTo(q, 1)) = Len(q) - 1
<1>. DEFINE n == Len(q)
            k == OldestLive(q, S)
<1>1. n \in Nat /\ q \in Seq(Pay) /\ Keys(q) = S /\ MAX_TERMINAL \in Nat /\ n <= MAX_TERMINAL
  BY BoundAssumption DEF Exact
<1>2. k \in 1..n /\ \A j \in 1..(k - 1) : q[j] \notin S
  BY <1>1, OldestLiveFound
<1>3. \A j \in 1..n : q[j] \in S
  BY <1>1 DEF Keys
<1>. HIDE DEF n, k
<1>4. k = 1 /\ 1 <= n
  <2>1. ~(k > 1)
    <3>1. k > 1 => 1 \in 1..(k - 1) /\ 1 \in 1..n
      BY <1>1, <1>2
    <3>. QED
      BY <1>2, <1>3, <3>1
  <2>. QED
    BY <1>1, <1>2, <2>1
<1>5. /\ PopTo(q, 1) \in Seq(Pay) /\ Len(PopTo(q, 1)) = n - 1
      /\ \A j \in 1..(n - 1) : PopTo(q, 1)[j] = q[j + 1]
  <2>1. PopTo(q, 1) = SubSeq(q, 2, n) /\ \A j \in 1..(n - 1) : 2 + j - 1 = j + 1
    BY <1>1 DEF PopTo, n
  <2>2. 2 \in 1..(n + 1) /\ n \in 1..n /\ n - 2 + 1 = n - 1
    BY <1>1, <1>4
  <2>3. SubSeq(q, 2, n) \in Seq(Pay)
    BY <1>1, <1>4, <2>2 DEF n
  <2>4. Len(SubSeq(q, 2, n)) = n - 1
    BY <1>1, <1>4, <2>2 DEF n
  <2>5. \A j \in 1..(n - 1) : SubSeq(q, 2, n)[j] = q[j + 1]
    BY <1>1, <1>4, <2>1, <2>2 DEF n
  <2>. QED
    BY <2>1, <2>3, <2>4, <2>5
<1>6. \A j \in 1..(n - 1) : j + 1 \in 1..n /\ j + 1 # 1
  BY <1>1
<1>7. \A i, j \in 1..n : q[i] = q[j] => i = j
  BY DEF Exact, n
<1>8. q[1] \in S /\ 1 \in 1..n
  BY <1>1, <1>3, <1>4
<1>9. Keys(PopTo(q, 1)) = S \ {q[1]}
  <2>1. Keys(PopTo(q, 1)) \subseteq S \ {q[1]}
    BY <1>3, <1>5, <1>6, <1>7, <1>8 DEF Keys
  <2>2. S \ {q[1]} \subseteq Keys(PopTo(q, 1))
    BY <1>1, <1>2, <1>4, PopKeeps DEF k
  <2>. QED
    BY <2>1, <2>2
<1>10. \A i, j \in 1..(n - 1) : PopTo(q, 1)[i] = PopTo(q, 1)[j] => i = j
  <2>1. SUFFICES ASSUME NEW i \in 1..(n - 1), NEW j \in 1..(n - 1), PopTo(q, 1)[i] = PopTo(q, 1)[j]
                 PROVE  i = j
    OBVIOUS
  <2>2. i + 1 = j + 1
    BY <1>5, <1>6, <1>7, <2>1
  <2>. QED
    BY <1>1, <2>2
<1>11. IsFiniteSet(S \ {q[1]}) /\ Cardinality(S \ {q[1]}) = n - 1
  BY <1>8, FS_RemoveElement DEF Exact, n
<1>. QED
  BY <1>1, <1>4, <1>5, <1>8, <1>9, <1>10, <1>11 DEF Exact, n, k

(* Remembering an outcome keeps the order exact (record_terminal).         *)
LEMMA RecordCounts ==
  ASSUME TypeOK, TerminalCounted, NEW p \in Pay, NEW outcome \in Outcome,
         record_terminal(Origin(p), p, outcome)
  PROVE  TerminalCounted'
<1>1. PICK n, q, S : n = Origin(p) /\ q = terminal_order[n] /\ S = Remembered(n)
  OBVIOUS
<1>2. n \in Origins /\ Exact(q, S) /\ "none" \notin Outcome /\ MAX_TERMINAL \in Nat \ {0}
  BY <1>1, BoundAssumption DEF TerminalCounted, Origins, Outcome
<1>3. PICK i, full : i = OldestLive(q, S) /\ full = (Cardinality(S) >= MAX_TERMINAL)
  OBVIOUS
<1>4. /\ terminal' = [ r \in Pay |-> IF r = p THEN outcome
                                     ELSE IF ~(terminal[p] # "none") /\ full /\ r = q[i] THEN "none"
                                     ELSE terminal[r] ]
      /\ terminal_order' =
           [terminal_order EXCEPT ![n] = IF terminal[p] # "none" THEN q
                                         ELSE Append(IF full THEN PopTo(q, i) ELSE q, p)]
  BY <1>1, <1>3 DEF record_terminal
<1>5. /\ \A k \in Origins : k # n => terminal_order'[k] = terminal_order[k]
      /\ terminal_order'[n] = IF terminal[p] # "none" THEN q ELSE Append(IF full THEN PopTo(q, i) ELSE q, p)
  BY <1>2, <1>4 DEF TypeOK
<1>6. \A r \in Pay : r \in S <=> Origin(r) = n /\ terminal[r] # "none"
  BY <1>1 DEF Remembered, At
<1>7. \A r \in Pay : r \in Remembered(n)' <=> Origin(r) = n /\ terminal'[r] # "none"
  BY DEF Remembered, At
<1>8. S \subseteq Pay /\ Remembered(n)' \subseteq Pay
  BY <1>1 DEF Remembered, At
<1>9. Exact(terminal_order'[n], Remembered(n)')
  <2>1. CASE terminal[p] # "none"
    <3>1. \A r \in Pay : terminal'[r] # "none" <=> terminal[r] # "none"
      BY <1>2, <1>4, <2>1
    <3>2. Remembered(n)' = S
      BY <1>6, <1>7, <1>8, <3>1
    <3>. QED
      BY <1>2, <1>5, <2>1, <3>2
  <2>2. CASE terminal[p] = "none" /\ ~full
    <3>1. \A r \in Pay : terminal'[r] # "none" <=> r = p \/ terminal[r] # "none"
      BY <1>2, <1>4, <2>2
    <3>2. Remembered(n)' = S \cup {p}
      BY <1>1, <1>6, <1>7, <1>8, <3>1
    <3>3. p \notin S
      BY <1>6, <2>2
    <3>4. Len(q) < MAX_TERMINAL
      <4>1. Cardinality(S) = Len(q) /\ Len(q) \in Nat
        BY <1>2 DEF Exact
      <4>2. ~(Cardinality(S) >= MAX_TERMINAL)
        BY <1>3, <2>2, Zenon
      <4>. QED
        BY <1>2, <4>1, <4>2
    <3>5. terminal_order'[n] = Append(q, p)
      BY <1>5, <2>2
    <3>. QED
      BY <1>2, <3>2, <3>3, <3>4, <3>5, ExactAppend
  <2>3. CASE terminal[p] = "none" /\ full
    <3>1. S # {}
      BY <1>2, <1>3, <2>3, FullNotEmpty
    <3>2. i = 1 /\ q[1] \in S /\ Exact(PopTo(q, 1), S \ {q[1]}) /\ Len(PopTo(q, 1)) = Len(q) - 1
      BY <1>2, <1>3, <3>1, ExactPop
    <3>3. PICK u, x : u = PopTo(q, 1) /\ x = q[1]
      OBVIOUS
    <3>4. p \notin S
      BY <1>6, <2>3
    <3>5. \A r \in Pay : terminal'[r] # "none" <=> r = p \/ (terminal[r] # "none" /\ r # x)
      BY <1>2, <1>4, <2>3, <3>2, <3>3
    <3>6. Remembered(n)' = (S \ {x}) \cup {p}
      BY <1>1, <1>6, <1>7, <1>8, <3>5
    <3>7. Len(u) < MAX_TERMINAL
      <4>1. Len(q) \in Nat /\ Len(q) <= MAX_TERMINAL
        BY <1>2 DEF Exact
      <4>. QED
        BY <1>2, <3>2, <3>3, <4>1
    <3>8. terminal_order'[n] = Append(u, p)
      BY <1>5, <2>3, <3>2, <3>3
    <3>9. Exact(u, S \ {x}) /\ p \notin S \ {x}
      BY <3>2, <3>3, <3>4
    <3>. QED
      BY <3>6, <3>7, <3>8, <3>9, ExactAppend
  <2>. QED
    BY <1>3, <2>1, <2>2, <2>3
<1>10. ASSUME NEW k \in Origins, k # n PROVE Exact(terminal_order'[k], Remembered(k)')
  <2>1. \A r \in Pay : Origin(r) = k => terminal'[r] = terminal[r]
    <3>1. SUFFICES ASSUME NEW r \in Pay, Origin(r) = k, full, terminal[p] = "none", r = q[i]
                   PROVE  FALSE
      BY <1>1, <1>4, <1>10
    <3>2. S # {}
      BY <1>2, <1>3, <3>1, FullNotEmpty
    <3>3. i = 1 /\ q[1] \in S
      BY <1>2, <1>3, <3>2, ExactPop
    <3>. QED
      BY <1>6, <1>10, <3>1, <3>3
  <2>2. Remembered(k)' = Remembered(k)
    BY <2>1 DEF Remembered, At
  <2>. QED
    BY <1>5, <1>10, <2>2 DEF TerminalCounted
<1>. QED
  BY <1>9, <1>10 DEF TerminalCounted

(* Reserving takes the place of the oldest reservation when there is none  *)
(* left (reserve).                                                         *)
LEMMA ReserveCounts ==
  ASSUME TypeOK, KeysNamed, PendingCounted, NEW p \in Pay, reserve(Origin(p), p)
  PROVE  PendingCounted'
<1>1. PICK n, q, S : n = Origin(p) /\ q = pending_order[n] /\ S = At(n, pending)
  OBVIOUS
<1>2. n \in Origins /\ q \in Seq(Pay) /\ S \subseteq Keys(q) /\ MAX_PENDING \in Nat \ {0}
  BY <1>1, BoundAssumption DEF TypeOK, KeysNamed, Origins
<1>3. IsFiniteSet(S) /\ Cardinality(S) <= MAX_PENDING /\ Cardinality(S) \in Nat
  BY <1>1, <1>2, FS_CardinalityType DEF PendingCounted
<1>4. pending' = (pending \ EvictedBy(n, p)) \cup {p}
  BY <1>1 DEF reserve
<1>5. ASSUME NEW k \in Origins, k # n
      PROVE  IsFiniteSet(At(k, pending')) /\ Cardinality(At(k, pending')) <= MAX_PENDING
  <2>1. At(k, pending') \subseteq At(k, pending)
    BY <1>1, <1>4, <1>5 DEF At
  <2>2. IsFiniteSet(At(k, pending)) /\ Cardinality(At(k, pending)) <= MAX_PENDING
    BY DEF PendingCounted
  <2>3. /\ IsFiniteSet(At(k, pending')) /\ Cardinality(At(k, pending')) <= Cardinality(At(k, pending))
        /\ Cardinality(At(k, pending')) \in Nat /\ Cardinality(At(k, pending)) \in Nat
    BY <2>1, <2>2, FS_Subset, FS_CardinalityType
  <2>. QED
    BY <1>2, <2>2, <2>3
<1>6. IsFiniteSet(At(n, pending')) /\ Cardinality(At(n, pending')) <= MAX_PENDING
  <2>1. CASE p \in pending
    <3>1. EvictedBy(n, p) = {}
      BY <2>1 DEF EvictedBy
    <3>2. At(n, pending') = S
      BY <1>1, <1>4, <2>1, <3>1
    <3>. QED
      BY <1>3, <3>2
  <2>2. CASE p \notin pending /\ Cardinality(S) < MAX_PENDING
    <3>1. EvictedBy(n, p) = {}
      BY <1>1, <2>2 DEF EvictedBy
    <3>2. At(n, pending') = S \cup {p} /\ p \notin S
      BY <1>1, <1>4, <2>2, <3>1 DEF At
    <3>3. IsFiniteSet(S \cup {p}) /\ Cardinality(S \cup {p}) = Cardinality(S) + 1
      BY <1>3, <3>2, FS_AddElement
    <3>. QED
      BY <1>2, <1>3, <2>2, <3>2, <3>3
  <2>3. CASE p \notin pending /\ ~(Cardinality(S) < MAX_PENDING)
    <3>1. S # {}
      BY <1>2, <1>3, <2>3, FullNotEmpty
    <3>2. PICK x : x = q[OldestLive(q, S)]
      OBVIOUS
    <3>3. x \in S
      BY <1>2, <3>1, <3>2, PopKeeps
    <3>4. EvictedBy(n, p) = {x}
      BY <1>1, <2>3, <3>2 DEF EvictedBy
    <3>5. At(n, pending') = (S \ {x}) \cup {p} /\ p \notin S \ {x}
      BY <1>1, <1>4, <2>3, <3>4 DEF At
    <3>6. IsFiniteSet(S \ {x}) /\ Cardinality(S \ {x}) = Cardinality(S) - 1
      BY <1>3, <3>3, FS_RemoveElement
    <3>7. /\ IsFiniteSet((S \ {x}) \cup {p})
          /\ Cardinality((S \ {x}) \cup {p}) = Cardinality(S \ {x}) + 1
      BY <3>5, <3>6, FS_AddElement
    <3>. QED
      BY <1>3, <3>5, <3>6, <3>7
  <2>. QED
    BY <2>1, <2>2, <2>3
<1>. QED
  BY <1>5, <1>6 DEF PendingCounted, At

(* Fewer reservations stay within the bound.                               *)
LEMMA PendingFewer ==
  ASSUME PendingCounted, pending' \subseteq pending
  PROVE  PendingCounted'
<1>1. SUFFICES ASSUME NEW n \in Origins
               PROVE  IsFiniteSet(At(n, pending')) /\ Cardinality(At(n, pending')) <= MAX_PENDING
  BY DEF PendingCounted, At
<1>2. At(n, pending') \subseteq At(n, pending)
  BY DEF At
<1>3. IsFiniteSet(At(n, pending)) /\ Cardinality(At(n, pending)) <= MAX_PENDING /\ MAX_PENDING \in Nat
  BY BoundAssumption DEF PendingCounted
<1>4. /\ IsFiniteSet(At(n, pending')) /\ Cardinality(At(n, pending')) <= Cardinality(At(n, pending))
      /\ Cardinality(At(n, pending')) \in Nat /\ Cardinality(At(n, pending)) \in Nat
  BY <1>2, <1>3, FS_Subset, FS_CardinalityType
<1>. QED
  BY <1>3, <1>4

(* The steps that touch the manager.                                       *)
LEMMA ManagerSteps ==
  ASSUME TypeOK, [Next]_vars
  PROVE  \/ UNCHANGED mgr_vars
         \/ \E p \in Pay : reserve(Origin(p), p) /\ UNCHANGED <<terminal, terminal_order>>
         \/ /\ pending' \subseteq pending
            /\ \/ UNCHANGED <<terminal, terminal_order>>
               \/ \E p \in Pay, o \in Outcome : record_terminal(Origin(p), p, o)
         \/ \E n \in Origins : Restart(n)
<1>1. ASSUME NEW p \in Pay, NEW contended, ReserveOrder(p, contended)
      PROVE  reserve(Origin(p), p) /\ UNCHANGED <<terminal, terminal_order>>
  BY <1>1 DEF ReserveOrder
<1>2. ASSUME NEW p \in Pay, SweepExpired(p)
      PROVE  pending' \subseteq pending /\ UNCHANGED <<terminal, terminal_order>>
  BY <1>2 DEF SweepExpired
<1>3. ASSUME NEW m \in net, NEW verified, HandleResult(m, verified)
      PROVE  /\ pending' \subseteq pending
             /\ \/ UNCHANGED <<terminal, terminal_order>>
                \/ \E p \in Pay, o \in Outcome : record_terminal(Origin(p), p, o)
  <2>1. m \in Message /\ m.type = "Result"
    BY <1>3 DEF TypeOK, HandleResult
  <2>2. m.pay \in Pay /\ m.outcome \in Outcome
    BY <2>1 DEF Message
  <2>. QED
    BY <1>3, <2>2 DEF HandleResult
<1>4. ASSUME NEW p \in Pay,
             \/ SendOrder(p) \/ ResendOrder(p) \/ RefuseOrder(p) \/ Expire(p)
             \/ \E contended, proven : ApplySameLeafOrder(p, contended, proven)
             \/ \E contended : AnswerOrder(p, contended)
             \/ \E i, contended : RefuseForward(p, i, contended)
             \/ \E i, contended, proven : ApplyForward(p, i, contended, proven)
      PROVE  UNCHANGED mgr_vars
  BY <1>4 DEF SendOrder, ResendOrder, RefuseOrder, Expire, ApplySameLeafOrder, AnswerOrder,
              RefuseForward, ApplyForward
<1>5. ASSUME NEW m, IgnoreResult(m) \/ ApplyReply(m) \/ Lose(m) PROVE UNCHANGED mgr_vars
  BY <1>5 DEF IgnoreResult, ApplyReply, Lose
<1>6. ASSUME NEW c, Detach(c) PROVE UNCHANGED mgr_vars
  BY <1>6 DEF Detach
<1>7. CASE UNCHANGED vars
  BY <1>7 DEF vars
<1>. QED
  BY <1>1, <1>2, <1>3, <1>4, <1>5, <1>6, <1>7, Zenon DEF Next, HandleOrder, HandleForward

(* Every step keeps the manager's counts.                                  *)
LEMMA CountStep ==
  ASSUME TypeOK, KeysNamed, PendingCounted, TerminalCounted, [Next]_vars
  PROVE  PendingCounted' /\ TerminalCounted'
<1>1. ASSUME UNCHANGED <<terminal, terminal_order>> PROVE TerminalCounted'
  BY <1>1 DEF TerminalCounted, Remembered
<1>2. CASE UNCHANGED mgr_vars
  BY <1>1, <1>2, PendingFewer DEF mgr_vars
<1>3. ASSUME NEW p \in Pay, reserve(Origin(p), p), UNCHANGED <<terminal, terminal_order>>
      PROVE  PendingCounted' /\ TerminalCounted'
  BY <1>1, <1>3, ReserveCounts
<1>4. ASSUME NEW p \in Pay, NEW o \in Outcome, record_terminal(Origin(p), p, o)
      PROVE  TerminalCounted'
  BY <1>4, RecordCounts
<1>5. ASSUME NEW n \in Origins, Restart(n)
      PROVE  PendingCounted' /\ TerminalCounted'
  <2>1. pending' \subseteq pending
    BY <1>5 DEF Restart
  <2>2. /\ terminal_order' = [terminal_order EXCEPT ![n] = << >>]
        /\ terminal' = [ p \in Pay |-> IF Origin(p) = n THEN "none" ELSE terminal[p] ]
    BY <1>5 DEF Restart
  <2>3. Exact(<< >>, {})
    <3>1. Keys(<< >>) = {} /\ << >> \in Seq(Pay) /\ Len(<< >>) = 0
      BY EmptySeq DEF Keys
    <3>. QED
      BY <3>1, FS_EmptySet, BoundAssumption DEF Exact
  <2>4. ASSUME NEW k \in Origins PROVE Exact(terminal_order'[k], Remembered(k)')
    <3>1. CASE k = n
      <4>1. terminal_order'[k] = << >> /\ Remembered(k)' = {}
        BY <2>2, <3>1 DEF TypeOK, Remembered, At
      <4>. QED
        BY <2>3, <4>1
    <3>2. CASE k # n
      <4>1. terminal_order'[k] = terminal_order[k] /\ Remembered(k)' = Remembered(k)
        BY <2>2, <3>2 DEF TypeOK, Remembered, At
      <4>. QED
        BY <4>1 DEF TerminalCounted
    <3>. QED
      BY <3>1, <3>2
  <2>. QED
    BY <2>1, <2>4, PendingFewer DEF TerminalCounted
<1>. QED
  BY <1>1, <1>2, <1>3, <1>4, <1>5, ManagerSteps, PendingFewer

(***************************************************************************)
(* The SettlementManager stays within MAX_PENDING and MAX_TERMINAL at      *)
(* every origin, its evictions always find a key, and its order of         *)
(* outcomes does not grow beyond the outcomes it remembers.                *)
(***************************************************************************)
THEOREM BoundsHeld == Spec => []ManagerBounded
<1>. DEFINE Inv == IInv /\ PendingCounted /\ TerminalCounted
<1>1. Init => Inv
  <2>. SUFFICES ASSUME Init PROVE PendingCounted /\ TerminalCounted
    BY InitIInv
  <2>1. \A n \in Origins : At(n, pending) = {} /\ Remembered(n) = {} /\ terminal_order[n] = << >>
    BY DEF Init, At, Remembered
  <2>2. Keys(<< >>) = {} /\ << >> \in Seq(Pay) /\ Len(<< >>) = 0
    BY EmptySeq DEF Keys
  <2>3. Exact(<< >>, {})
    BY <2>2, FS_EmptySet, BoundAssumption DEF Exact
  <2>4. IsFiniteSet({}) /\ Cardinality({}) <= MAX_PENDING
    BY FS_EmptySet, BoundAssumption
  <2>5. PendingCounted
    BY <2>1, <2>4, Zenon DEF PendingCounted
  <2>6. TerminalCounted
    BY <2>1, <2>3, Zenon DEF TerminalCounted
  <2>. QED
    BY <2>5, <2>6
<1>2. Inv /\ [Next]_vars => Inv'
  BY TypeStep, CascadeStep, CountStep DEF IInv
<1>3. Inv => ManagerBounded
  BY DEF IInv, PendingCounted, TerminalCounted, Exact, ManagerBounded
<1>. QED
  BY <1>1, <1>2, <1>3, PTL DEF Spec
-----------------------------------------------------------------------------
(***************************************************************************)
(* The cascade implements PaymentContract when every envelope is delivered *)
(* at most once and every order is submitted once (AtMostOnce). The truth  *)
(* of messages is not enough for that: Rejected and Partial have to stay   *)
(* true, so a payment must have one message that can still move it, its    *)
(* order or one forward, and none once a refusal is on its way.            *)
(***************************************************************************)
AtMostOnce == Keep = {FALSE} /\ MaxSends = 1

(* The payment has not left the payer and never will.                      *)
Refused(p) == ~Debited(p) /\ Order(p) \notin net

(* The payment is stuck before the payee.                                  *)
Stopped(p) == ~Credited(p) /\ \A m \in net : m.type = "Forward" => m.pay # p

Refuses(m) == m.type = "Reply" /\ m.status = "Rejected"

Stops(m) == \/ m.type = "Reply" /\ m.status = "Partial"
            \/ m.type = "Result" /\ m.outcome = "IntermediateRejected"

(* What a message in flight says about the rest of its payment.            *)
Fresh(m) ==
  /\ wallet[m.pay] # "idle"
  /\ m.type = "Order" => ~Debited(m.pay)
  /\ m.type = "Forward" => ~AppliedAt(m.pay, m.hops + 1)
  /\ Refuses(m) => Refused(m.pay)
  /\ Stops(m) => Stopped(m.pay)

(* What the wallet believes says as much.                                  *)
Settled(p) ==
  /\ sends[p] = 0 <=> wallet[p] = "idle"
  /\ wallet[p] = "idle" => ~Debited(p)
  /\ wallet[p] = "Rejected" => Refused(p)
  /\ wallet[p] = "Partial" => Stopped(p)
  /\ Debited(p) => Signers[p] # None

OneForward == \A m, k \in net : m.type = "Forward" /\ k.type = "Forward" /\ m.pay = k.pay => m = k

Once == (\A m \in net : Fresh(m)) /\ (\A p \in Pay : Settled(p)) /\ OneForward

(* A message is what its kind says it is.                                  *)
LEMMA MessageForms ==
  ASSUME NEW m \in Message
  PROVE  /\ m.pay \in Pay /\ m.type \in {"Order", "Forward", "Result", "Reply"}
         /\ m.type = "Order" => m = Order(m.pay)
         /\ m.type = "Forward" => m = Forward(m.pay, m.hops) /\ m.hops \in Nat
         /\ m.type = "Result" => m.outcome \in Outcome
         /\ m.type = "Reply" => m.status \in Status /\ m.proof \in BOOLEAN
<1>1. CASE m \in [type : {"Order"}, pay : Pay]
  BY <1>1 DEF Order
<1>2. CASE m \in [type : {"Forward"}, pay : Pay, hops : 1..MAX_SETTLE_HOPS]
  BY <1>2, BoundAssumption DEF Forward
<1>3. CASE m \in [type : {"Result"}, pay : Pay, outcome : Outcome, src : Node]
  BY <1>3
<1>4. CASE m \in [type : {"Reply"}, pay : Pay, status : Status, proof : BOOLEAN]
  BY <1>4
<1>. QED
  BY <1>1, <1>2, <1>3, <1>4 DEF Message

(* With at-most-once delivery a handled envelope is gone.                  *)
LEMMA HandledOnce ==
  ASSUME AtMostOnce, NEW m, NEW out, Handled(m, out)
  PROVE  net' = (net \ {m}) \cup out
BY DEF AtMostOnce, Handled

(* A message that can neither move its payment nor refuse or stop it.      *)
Harmless(m) == m.pay \in Pay /\ m.type \in {"Result", "Reply"} /\ wallet[m.pay] # "idle"

(* What has to be shown of a step that leaves ledgers and wallets alone:   *)
(* that what it sends as a refusal or a stop is one.                       *)
LEMMA OnceSame ==
  ASSUME TypeOK, Once, consumed' = consumed, wallet' = wallet, sends' = sends,
         \A m \in net' : \/ m \in net
                         \/ /\ Harmless(m)
                            /\ Refuses(m) => Refused(m.pay)'
                            /\ Stops(m) => Stopped(m.pay)'
  PROVE  Once'
<1>1. \A p \in Pay : /\ Debited(p)' <=> Debited(p)
                     /\ Credited(p)' <=> Credited(p)
                     /\ \A i : AppliedAt(p, i)' <=> AppliedAt(p, i)
  BY DEF Debited, Credited, AppliedAt
<1>2. \A m \in net : m.pay \in Pay /\ Fresh(m) /\ (m.type = "Order" => m = Order(m.pay))
  BY MessageForms DEF TypeOK, Once
<1>3. \A p : Order(p).type = "Order"
  BY DEF Order
<1>4. \A p \in Pay : Refused(p) => Refused(p)'
  BY <1>1, <1>3 DEF Refused, Harmless
<1>5. \A p \in Pay : Stopped(p) => Stopped(p)'
  BY <1>1 DEF Stopped, Harmless
<1>6. ASSUME NEW m \in net' PROVE Fresh(m)'
  <2>1. CASE m \in net
    <3>1. m.pay \in Pay /\ Fresh(m)
      BY <1>2, <2>1
    <3>. QED
      BY <1>1, <1>4, <1>5, <3>1 DEF Fresh, Refuses, Stops
  <2>2. CASE m \notin net
    BY <1>6, <2>2 DEF Fresh, Harmless, Refuses, Stops
  <2>. QED
    BY <2>1, <2>2
<1>7. \A p \in Pay : Settled(p)'
  BY <1>1, <1>4, <1>5 DEF Once, Settled
<1>8. OneForward'
  BY DEF Once, OneForward, Harmless
<1>. QED
  BY <1>6, <1>7, <1>8 DEF Once

(* What has to be shown of a step that applies hop k of p: that it was the *)
(* next one, that the order or forward which asked for it is consumed, and *)
(* that nothing else is sent to move a payment. The payer has not been     *)
(* told that the payment failed.                                           *)
LEMMA OnceApply ==
  ASSUME TypeOK, CascadeInv, Once, NEW p \in Pay, NEW k \in 1..Len(Signers[p]),
         Signers[p][k] \in Node, AppendHop(Signers[p][k], p), wallet' = wallet, sends' = sends,
         NEW m0 \in net, IF k = 1 THEN m0 = Order(p) ELSE m0 = Forward(p, k - 1),
         \A m \in net' : \/ m \in net \ {m0}
                         \/ m = Forward(p, k) /\ k < Len(Signers[p])
                         \/ Harmless(m) /\ ~Refuses(m) /\ ~Stops(m)
  PROVE  /\ Once' /\ ~AppliedAt(p, k) /\ (\A i \in 1..(k - 1) : AppliedAt(p, i))
         /\ wallet[p] \notin {"idle", "Rejected", "Partial"}
<1>. DEFINE n == Signers[p][k]
<1>1. /\ Len(Signers[p]) \in Nat /\ k \in Nat /\ Signers[p] # None /\ Signers[p][1] = Origin(p) /\ Origin(p) \in Node
      /\ \A i, j \in 1..Len(Signers[p]) : Signers[p][i] = Signers[p][j] => i = j
  BY SignersSimple DEF None
<1>2. /\ consumed' = [consumed EXCEPT ![n] = consumed[n] \cup {p}] /\ consumed \in [Node -> SUBSET Pay]
  BY DEF AppendHop, TypeOK
<1>3. /\ \A q \in Pay : q # p => /\ Debited(q)' <=> Debited(q)
                                 /\ Credited(q)' <=> Credited(q)
                                 /\ \A i : AppliedAt(q, i)' <=> AppliedAt(q, i)
      /\ \A i \in 1..Len(Signers[p]) : i # k => (AppliedAt(p, i)' <=> AppliedAt(p, i))
      /\ AppliedAt(p, k)'
  <2>1. ASSUME NEW q \in Pay, q # p, NEW x PROVE (q \in consumed'[x]) <=> (q \in consumed[x])
    BY <1>2, <2>1
  <2>2. ASSUME NEW i \in 1..Len(Signers[p]), i # k PROVE AppliedAt(p, i)' <=> AppliedAt(p, i)
    BY <1>1, <1>2, <2>2 DEF AppliedAt
  <2>3. AppliedAt(p, k)'
    BY <1>2 DEF AppliedAt
  <2>. QED
    BY <2>1, <2>2, <2>3 DEF Debited, Credited, AppliedAt
<1>4. Debited(p) <=> AppliedAt(p, 1)
  BY <1>1 DEF Debited, AppliedAt
<1>5. \A m \in net : /\ m.pay \in Pay /\ Fresh(m) /\ Truthful(m)
                     /\ m.type = "Order" => m = Order(m.pay)
                     /\ m.type = "Forward" => m = Forward(m.pay, m.hops) /\ m.hops \in Nat
  BY MessageForms DEF TypeOK, Once, CascadeInv
<1>6. \A m \in net : m.type = "Forward" => Debited(m.pay)
  <2>. SUFFICES ASSUME NEW m \in net, m.type = "Forward" PROVE Debited(m.pay)
    OBVIOUS
  <2>1. m.pay \in Pay /\ m.hops \in 1..Len(Signers[m.pay]) /\ AppliedAt(m.pay, 1)
    <3>1. m \in Message
      BY DEF TypeOK
    <3>2. m.hops \in 1..MAX_SETTLE_HOPS
      BY <3>1 DEF Message
    <3>3. m.hops < Len(Signers[m.pay]) /\ \A i \in 1..m.hops : AppliedAt(m.pay, i)
      BY <1>5 DEF Truthful
    <3>4. m.pay \in Pay /\ Len(Signers[m.pay]) \in Nat
      BY <1>5, SignersSimple
    <3>5. m.hops \in Nat /\ 1 <= m.hops
      BY <3>2, BoundAssumption
    <3>. QED
      BY <3>3, <3>4, <3>5
  <2>2. Signers[m.pay] # None /\ Signers[m.pay][1] = Origin(m.pay)
    BY <2>1, SignersSimple DEF None
  <2>. QED
    BY <2>1, <2>2 DEF AppliedAt, Debited
<1>7. m0.pay = p /\ (k = 1 => m0.type = "Order") /\ (k # 1 => m0.type = "Forward" /\ m0.hops = k - 1)
  BY DEF Order, Forward
<1>8. ~AppliedAt(p, k) /\ (\A i \in 1..(k - 1) : AppliedAt(p, i))
  <2>1. CASE k = 1
    BY <1>4, <1>5, <1>7, <2>1 DEF Fresh
  <2>2. CASE k # 1
    <3>1. m0.pay = p /\ m0.type = "Forward" /\ m0.hops = k - 1 /\ (k - 1) + 1 = k
      BY <1>1, <1>7, <2>2
    <3>2. ~AppliedAt(p, (k - 1) + 1) /\ \A i \in 1..(k - 1) : AppliedAt(p, i)
      BY <1>5, <3>1 DEF Fresh, Truthful
    <3>. QED
      BY <3>1, <3>2
  <2>. QED
    BY <2>1, <2>2
<1>9. k # 1 <=> Debited(p)
  BY <1>1, <1>4, <1>8
<1>10. ~Refused(p)
  BY <1>7, <1>9 DEF Refused
<1>11. wallet[p] # "Partial" /\ \A m \in net : Stops(m) => m.pay # p
  <2>1. CASE k = 1
    <3>1. wallet[p] = "Partial" => Debited(p)
      BY DEF CascadeInv, UnsettledMeansDebited
    <3>2. \A m \in net : Stops(m) => Debited(m.pay)
      BY <1>5 DEF Truthful, Stops
    <3>. QED
      BY <1>9, <2>1, <3>1, <3>2
  <2>2. CASE k # 1
    <3>1. ~Stopped(p)
      BY <1>7, <2>2 DEF Stopped
    <3>. QED
      BY <1>5, <3>1 DEF Once, Settled, Fresh
  <2>. QED
    BY <2>1, <2>2
<1>12. wallet[p] \notin {"idle", "Rejected", "Partial"} /\ \A m \in net : Refuses(m) => m.pay # p
  BY <1>5, <1>7, <1>10, <1>11 DEF Once, Settled, Fresh
<1>13. \A m \in net' : m.type = "Order" => m \in net /\ m.pay # p
  <2>. SUFFICES ASSUME NEW m \in net', m.type = "Order" PROVE m \in net /\ m.pay # p
    OBVIOUS
  <2>1. m \in net /\ m # m0
    BY DEF Forward, Harmless
  <2>2. CASE k = 1
    BY <1>5, <2>1, <2>2
  <2>3. CASE k # 1
    BY <1>5, <1>9, <2>1, <2>3 DEF Fresh
  <2>. QED
    BY <2>1, <2>2, <2>3
<1>14. \A m \in net' : m.type = "Forward" /\ m.pay = p => m = Forward(p, k)
  <2>. SUFFICES ASSUME NEW m \in net', m.type = "Forward", m.pay = p, m \in net, m # m0 PROVE FALSE
    BY DEF Harmless
  <2>1. CASE k = 1
    BY <1>6, <1>9, <2>1
  <2>2. CASE k # 1
    BY <1>7, <2>2 DEF Once, OneForward
  <2>. QED
    BY <2>1, <2>2
<1>15. \A m \in net' : m.type = "Forward" /\ m.pay # p => m \in net
  BY DEF Harmless, Forward
<1>16. \A q \in Pay : q # p => (Refused(q) => Refused(q)') /\ (Stopped(q) => Stopped(q)')
  <2>1. \A q : Order(q).type = "Order" /\ Order(q).pay = q
    BY DEF Order
  <2>. QED
    BY <1>3, <1>13, <1>15, <2>1 DEF Refused, Stopped
<1>17. k + 1 \in 1..Len(Signers[p]) => ~AppliedAt(p, k + 1)'
  <2>1. k + 1 \in 1..Len(Signers[p]) => (AppliedAt(p, k + 1) => AppliedAt(p, k))
    BY <1>1 DEF CascadeInv, PrefixApplied
  <2>. QED
    BY <1>1, <1>3, <1>8, <2>1
<1>18. ASSUME NEW m \in net' PROVE Fresh(m)'
  <2>1. CASE m \in net /\ m.pay # p
    <3>1. m.pay \in Pay /\ Fresh(m)
      BY <1>5, <2>1
    <3>. QED
      BY <1>3, <1>16, <2>1, <3>1 DEF Fresh, Refuses, Stops
  <2>2. CASE m \in net /\ m.pay = p /\ m.type # "Forward"
    BY <1>11, <1>12, <1>13, <2>2 DEF Fresh, Refuses, Stops
  <2>3. CASE m = Forward(p, k) /\ k < Len(Signers[p])
    <3>1. m.type = "Forward" /\ m.pay = p /\ m.hops = k
      BY <2>3 DEF Forward
    <3>2. ~AppliedAt(p, k + 1)'
      BY <1>1, <1>17, <2>3
    <3>. QED
      BY <1>12, <3>1, <3>2 DEF Fresh, Refuses, Stops
  <2>4. CASE Harmless(m) /\ ~Refuses(m) /\ ~Stops(m)
    BY <2>4 DEF Fresh, Harmless, Refuses, Stops
  <2>5. m \in net /\ m.pay = p /\ m.type = "Forward" => m = Forward(p, k) /\ k < Len(Signers[p])
    <3>. SUFFICES ASSUME m \in net, m.pay = p, m.type = "Forward"
                  PROVE  m = Forward(p, k) /\ k < Len(Signers[p])
      OBVIOUS
    <3>1. m = Forward(p, k) /\ m.hops < Len(Signers[p])
      BY <1>5, <1>14, <1>18 DEF Truthful
    <3>2. m.hops = k
      BY <3>1 DEF Forward
    <3>. QED
      BY <3>1, <3>2
  <2>. QED
    BY <2>1, <2>2, <2>3, <2>4, <2>5
<1>19. ASSUME NEW q \in Pay PROVE Settled(q)'
  <2>1. CASE q # p
    BY <1>3, <1>16, <2>1 DEF Once, Settled
  <2>2. CASE q = p
    BY <1>1, <1>12, <2>2 DEF Once, Settled
  <2>. QED
    BY <2>1, <2>2
<1>20. OneForward'
  BY <1>14, <1>15 DEF Once, OneForward
<1>. QED
  BY <1>8, <1>12, <1>18, <1>19, <1>20 DEF Once

(* What a step can mean to the payer.                                      *)
Submits(p) == /\ wallet[p] = "idle" /\ wallet' = [wallet EXCEPT ![p] = "pending"]
              /\ consumed' = consumed

Moves(p, k) == /\ wallet[p] \notin {"idle", "Rejected", "Partial"} /\ wallet' = wallet
               /\ Signers[p][k] \in Node /\ AppendHop(Signers[p][k], p)
               /\ ~AppliedAt(p, k) /\ \A i \in 1..(k - 1) : AppliedAt(p, i)

Tells(m) == /\ m.type = "Reply" /\ wallet[m.pay] = "pending"
            /\ wallet' = [wallet EXCEPT ![m.pay] = SettlementState(m)]
            /\ consumed' = consumed

Progress ==
  \/ consumed' = consumed /\ wallet' = wallet
  \/ \E p \in Pay : Submits(p) \/ \E k \in 1..Len(Signers[p]) : Moves(p, k)
  \/ \E m \in net : Tells(m)

(* An order is answered with a refusal only before its debit.              *)
LEMMA RefuseStep ==
  ASSUME TypeOK, Once, NEW p \in Pay, Order(p) \in net, NEW b,
         net' = (net \ {Order(p)}) \cup {Reply(p, "Rejected", b)},
         consumed' = consumed, wallet' = wallet, sends' = sends
  PROVE  Once'
<1>1. Order(p).pay = p /\ Order(p).type = "Order"
  BY DEF Order
<1>2. wallet[p] # "idle" /\ ~Debited(p)
  BY <1>1 DEF Once, Fresh
<1>3. LET m == Reply(p, "Rejected", b)
      IN  m.pay = p /\ m.type = "Reply" /\ m.status = "Rejected" /\ m # Order(p)
  BY <1>1 DEF Reply
<1>4. Refused(p)'
  BY <1>2, <1>3 DEF Refused, Debited
<1>. QED
  BY <1>2, <1>3, <1>4, OnceSame DEF Harmless, Stops

(* A step that only takes messages out of the network.                     *)
LEMMA LossStep ==
  ASSUME TypeOK, Once, net' \subseteq net, consumed' = consumed, wallet' = wallet, sends' = sends
  PROVE  Once'
BY OnceSame

(* A step that answers Applied, Duplicate or Indeterminate.                *)
LEMMA TellStep ==
  ASSUME TypeOK, Once, NEW p \in Pay, wallet[p] # "idle", NEW st, st \notin {"Rejected", "Partial"}, NEW b,
         net' \subseteq net \cup {Reply(p, st, b)}, consumed' = consumed, wallet' = wallet, sends' = sends
  PROVE  Once'
<1>1. LET m == Reply(p, st, b) IN m.pay = p /\ m.type = "Reply" /\ m.status = st
  BY DEF Reply
<1>. QED
  BY <1>1, OnceSame DEF Harmless, Refuses, Stops

(* Every step keeps one message per payment that can still move it, and    *)
(* submits, moves or tells at most one payment.                            *)
LEMMA OnceStep ==
  ASSUME AtMostOnce, TypeOK, KeysNamed, CascadeInv, Once, [Next]_vars
  PROVE  Once' /\ Progress
<1>0. /\ \A m \in net : m.pay \in Pay /\ wallet[m.pay] # "idle" /\ Fresh(m) /\ Truthful(m)
      /\ \A p : Order(p).pay = p /\ Order(p).type = "Order"
      /\ \A p, i : LET m == Forward(p, i) IN m.pay = p /\ m.type = "Forward" /\ m.hops = i
      /\ \A p, o, n : LET m == Result(p, o, n) IN m.pay = p /\ m.type = "Result" /\ m.outcome = o
      /\ \A p, st, b : LET m == Reply(p, st, b) IN m.pay = p /\ m.type = "Reply" /\ m.status = st
      /\ \A p \in pending : p \in Pay /\ wallet[p] # "idle"
  <2>1. \A m \in net : m.pay \in Pay /\ Fresh(m) /\ Truthful(m) /\ wallet[m.pay] # "idle"
    BY MessageForms DEF TypeOK, Once, CascadeInv, Fresh
  <2>2. \A p \in pending : p \in Pay /\ wallet[p] # "idle"
    BY DEF TypeOK, CascadeInv, UnsettledMeansDebited, Once, Settled
  <2>. QED
    BY <2>1, <2>2 DEF Order, Forward, Result, Reply
<1>1. CASE UNCHANGED vars
  BY <1>1, LossStep DEF vars, node_vars, Progress
<1>2. ASSUME NEW p \in Pay, SendOrder(p) PROVE Once' /\ Progress
  <2>1. /\ wallet[p] = "idle" /\ wallet' = [wallet EXCEPT ![p] = "pending"] /\ consumed' = consumed
        /\ sends' = [sends EXCEPT ![p] = sends[p] + 1] /\ net' = net \cup {Order(p)}
    BY <1>2 DEF SendOrder, node_vars
  <2>2. Progress
    BY <2>1 DEF Progress, Submits
  <2>3. \A q \in Pay : /\ Debited(q)' <=> Debited(q)
                       /\ Credited(q)' <=> Credited(q)
                       /\ \A i : AppliedAt(q, i)' <=> AppliedAt(q, i)
    BY <2>1 DEF Debited, Credited, AppliedAt
  <2>4. /\ \A m \in net : m.pay # p
        /\ ~Debited(p) /\ sends[p] = 0
    BY <1>0, <2>1 DEF Once, Settled
  <2>5. /\ wallet'[p] = "pending" /\ \A q \in Pay : q # p => wallet'[q] = wallet[q]
        /\ sends'[p] = 1 /\ \A q \in Pay : q # p => sends'[q] = sends[q]
    BY <2>1, <2>4 DEF TypeOK
  <2>6. \A q \in Pay : (q # p /\ Refused(q) => Refused(q)') /\ (Stopped(q) => Stopped(q)')
    BY <1>0, <2>1, <2>3 DEF Refused, Stopped
  <2>7. ASSUME NEW m \in net' PROVE Fresh(m)'
    <3>1. CASE m \in net
      <4>1. m.pay \in Pay /\ m.pay # p /\ Fresh(m)
        BY <1>0, <2>4, <3>1
      <4>. QED
        BY <2>3, <2>5, <2>6, <4>1 DEF Fresh, Refuses, Stops
    <3>2. CASE m = Order(p)
      BY <1>0, <2>3, <2>4, <2>5, <3>2 DEF Fresh, Refuses, Stops
    <3>. QED
      BY <2>1, <3>1, <3>2
  <2>8. ASSUME NEW q \in Pay PROVE Settled(q)'
    <3>1. CASE q = p
      BY <2>3, <2>4, <2>5, <3>1 DEF Settled
    <3>2. CASE q # p
      BY <2>3, <2>5, <2>6, <3>2 DEF Once, Settled
    <3>. QED
      BY <3>1, <3>2
  <2>9. OneForward'
    BY <1>0, <2>1 DEF Once, OneForward
  <2>. QED
    BY <2>2, <2>7, <2>8, <2>9 DEF Once
<1>3. ASSUME NEW p \in Pay, ResendOrder(p) PROVE FALSE
  <2>1. sends[p] < 1 /\ sends[p] \in 0..1 /\ wallet[p] # "idle"
    BY <1>3 DEF ResendOrder, AtMostOnce, TypeOK
  <2>. QED
    BY <2>1 DEF Once, Settled
<1>4. ASSUME NEW p \in Pay, RefuseOrder(p) PROVE Once' /\ Progress
  <2>1. /\ Order(p) \in net /\ consumed' = consumed /\ wallet' = wallet /\ sends' = sends
        /\ net' = (net \ {Order(p)}) \cup {Reply(p, "Rejected", FALSE)}
    BY <1>4, HandledOnce DEF RefuseOrder, node_vars
  <2>. QED
    BY <2>1, RefuseStep DEF Progress
<1>7. ASSUME NEW p \in Pay, SweepExpired(p) PROVE Once' /\ Progress
  <2>1. /\ p \in pending /\ consumed' = consumed /\ wallet' = wallet /\ sends' = sends
        /\ net' \subseteq net \cup {Reply(p, "Indeterminate", FALSE)}
    BY <1>7 DEF SweepExpired, node_vars
  <2>. QED
    BY <1>0, <2>1, TellStep DEF Progress
<1>8. ASSUME NEW p \in Pay, Expire(p) PROVE Once' /\ Progress
  BY <1>8, LossStep DEF Expire, node_vars, Progress
<1>11. ASSUME NEW m \in net, IgnoreResult(m) PROVE Once' /\ Progress
  <2>1. net' \subseteq net
    BY <1>11, HandledAdds DEF IgnoreResult
  <2>. QED
    BY <1>11, <2>1, LossStep DEF IgnoreResult, node_vars, Progress
<1>14. ASSUME NEW m \in net, Lose(m) PROVE Once' /\ Progress
  BY <1>14, LossStep DEF Lose, node_vars, Progress
<1>15. ASSUME NEW n \in Origins, Restart(n) PROVE Once' /\ Progress
  BY <1>15, LossStep DEF Restart, node_vars, Progress
<1>16. ASSUME NEW c \in attached, Detach(c) PROVE Once' /\ Progress
  BY <1>16, LossStep DEF Detach, node_vars, Progress
<1>5. ASSUME NEW p \in Pay, NEW contended \in BOOLEAN, NEW proven \in BOOLEAN,
             ApplySameLeafOrder(p, contended, proven)
      PROVE  Once' /\ Progress
  <2>. DEFINE n == Origin(p)
              outcome == HopOutcome(n, p, contended)
              told == IF outcome # "Rejected" /\ ~proven THEN "Indeterminate" ELSE outcome
              b == told \in {"Applied", "Duplicate"}
  <2>1. n \in Node /\ Signers[p] = <<n>>
    BY <1>5, SignersSimple DEF ApplySameLeafOrder, PayeeIsLocal
  <2>2. /\ IF outcome = "Applied" THEN AppendHop(n, p) ELSE UNCHANGED node_vars
        /\ Order(p) \in net /\ Handled(Order(p), {Reply(p, told, b)})
        /\ wallet' = wallet /\ sends' = sends
    BY <1>5 DEF ApplySameLeafOrder
  <2>3. net' = (net \ {Order(p)}) \cup {Reply(p, told, b)}
    BY <2>2, HandledOnce
  <2>4. wallet[p] # "idle" /\ p \notin consumed[n]
    BY <1>0, <2>2 DEF Fresh, Debited
  <2>5. outcome \in {"Applied", "Rejected"}
    BY <2>4, HopOutcomes
  <2>. HIDE DEF outcome
  <2>6. CASE outcome = "Applied"
    <3>1. /\ 1 \in 1..Len(Signers[p]) /\ Signers[p][1] = n /\ AppendHop(Signers[p][1], p)
      BY <2>1, <2>2, <2>6
    <3>2. told \in {"Applied", "Indeterminate"}
      BY <2>6
    <3>3. \A m \in net' : m \in net \ {Order(p)} \/ (Harmless(m) /\ ~Refuses(m) /\ ~Stops(m))
      BY <1>0, <2>3, <2>4, <3>2 DEF Harmless, Refuses, Stops
    <3>4. /\ Once' /\ ~AppliedAt(p, 1) /\ (\A i \in 1..(1 - 1) : AppliedAt(p, i))
          /\ wallet[p] \notin {"idle", "Rejected", "Partial"}
      BY <2>1, <2>2, <3>1, <3>3, OnceApply
    <3>. QED
      BY <2>1, <2>2, <3>1, <3>4 DEF Progress, Moves
  <2>7. CASE outcome = "Rejected"
    <3>1. consumed' = consumed /\ told = "Rejected"
      BY <2>2, <2>7 DEF node_vars
    <3>. QED
      BY <2>2, <2>3, <3>1, RefuseStep DEF Progress
  <2>. QED
    BY <2>5, <2>6, <2>7
<1>6. ASSUME NEW p \in Pay, NEW contended \in BOOLEAN, ReserveOrder(p, contended)
      PROVE  Once' /\ Progress
  <2>. DEFINE E == EvictedBy(Origin(p), p)
  <2>1. /\ Origin(p) \in Node /\ Signers[p][1] = Origin(p) /\ Len(Signers[p]) > 1 /\ Len(Signers[p]) \in Nat
    BY <1>6, SignersSimple DEF ReserveOrder, OrderRefused, CascadeRoutes
  <2>2. /\ Order(p) \in net /\ AppendHop(Origin(p), p) /\ reserve(Origin(p), p)
        /\ wallet' = wallet /\ sends' = sends
        /\ Handled(Order(p), {Forward(p, 1)} \cup { Reply(q, "Indeterminate", FALSE) : q \in E })
    BY <1>6 DEF ReserveOrder
  <2>3. net' = (net \ {Order(p)}) \cup ({Forward(p, 1)} \cup { Reply(q, "Indeterminate", FALSE) : q \in E })
    BY <2>2, HandledOnce
  <2>4. E \subseteq pending
    BY <2>2, ReserveKeeps
  <2>. HIDE DEF E
  <2>5. \A m \in net' : \/ m \in net \ {Order(p)}
                        \/ m = Forward(p, 1) /\ 1 < Len(Signers[p])
                        \/ Harmless(m) /\ ~Refuses(m) /\ ~Stops(m)
    <3>1. ASSUME NEW q \in E, NEW m, m = Reply(q, "Indeterminate", FALSE)
          PROVE  Harmless(m) /\ ~Refuses(m) /\ ~Stops(m)
      <4>1. q \in pending /\ m.pay = q /\ m.type = "Reply" /\ m.status = "Indeterminate"
        BY <2>4, <3>1 DEF Reply
      <4>. QED
        BY <1>0, <4>1 DEF Harmless, Refuses, Stops
    <3>. QED
      BY <2>1, <2>3, <3>1
  <2>6. 1 \in 1..Len(Signers[p])
    BY <2>1
  <2>7. /\ Once' /\ ~AppliedAt(p, 1) /\ (\A i \in 1..(1 - 1) : AppliedAt(p, i))
        /\ wallet[p] \notin {"idle", "Rejected", "Partial"}
    BY <2>1, <2>2, <2>5, <2>6, OnceApply
  <2>. QED
    BY <2>1, <2>2, <2>6, <2>7 DEF Progress, Moves
<1>9. ASSUME NEW p \in Pay, NEW contended \in BOOLEAN, AnswerOrder(p, contended)
      PROVE  Once' /\ Progress
  <2>1. HopOutcome(Origin(p), p, contended) # "Applied" /\ Order(p) \in net
    BY <1>9 DEF AnswerOrder
  <2>2. p \notin consumed[Origin(p)]
    BY <1>0, <2>1 DEF Fresh, Debited
  <2>3. HopOutcome(Origin(p), p, contended) = "Rejected"
    BY <2>1, <2>2, HopOutcomes
  <2>4. /\ Handled(Order(p), {Reply(p, "Rejected", FALSE)})
        /\ consumed' = consumed /\ wallet' = wallet /\ sends' = sends
    BY <1>9, <2>3 DEF AnswerOrder, node_vars
  <2>. QED
    BY <2>1, <2>4, HandledOnce, RefuseStep DEF Progress
<1>10. ASSUME NEW p \in Pay, NEW i \in 1..(Len(Signers[p]) - 1), NEW contended \in BOOLEAN,
              RefuseForward(p, i, contended)
      PROVE  Once' /\ Progress
  <2>1. PICK o \in {"IntermediateRejected", "Malformed"} :
          Handled(Forward(p, i), {Result(p, o, Signers[p][i + 1])})
    BY <1>10 DEF RefuseForward
  <2>2. /\ Forward(p, i) \in net /\ consumed' = consumed /\ wallet' = wallet /\ sends' = sends
        /\ net' = (net \ {Forward(p, i)}) \cup {Result(p, o, Signers[p][i + 1])}
    BY <1>10, <2>1, HandledOnce DEF RefuseForward, node_vars
  <2>3. \A m \in net' : m.type = "Forward" => m.pay # p
    BY <1>0, <2>2 DEF Once, OneForward
  <2>4. Len(Signers[p]) \in Nat /\ i + 1 \in 1..Len(Signers[p])
    BY SignersSimple
  <2>5. ~AppliedAt(p, i + 1)
    BY <1>0, <2>2 DEF Fresh
  <2>6. ~AppliedAt(p, Len(Signers[p]))
    BY <2>4, <2>5 DEF CascadeInv, PrefixApplied
  <2>7. Stopped(p)'
    BY <2>2, <2>3, <2>6 DEF Stopped, Credited, AppliedAt
  <2>. QED
    BY <1>0, <2>2, <2>7, OnceSame DEF Harmless, Refuses, Progress
<1>12. ASSUME NEW p \in Pay, NEW i \in 1..(Len(Signers[p]) - 1), NEW contended \in BOOLEAN,
              NEW proven \in BOOLEAN, ApplyForward(p, i, contended, proven)
      PROVE  Once' /\ Progress
  <2>. DEFINE n == Signers[p][i + 1]
              outcome == HopOutcome(n, p, contended)
              next == IF i + 1 < Len(Signers[p]) THEN {Forward(p, i + 1)}
                      ELSE IF proven THEN {Result(p, "Applied", n)} ELSE {}
  <2>1. Len(Signers[p]) \in Nat /\ i \in Nat /\ i + 1 \in 1..Len(Signers[p]) /\ i + 1 # 1 /\ (i + 1) - 1 = i
    BY SignersSimple
  <2>2. /\ Forward(p, i) \in net /\ n \in Node /\ Handled(Forward(p, i), next)
        /\ IF outcome = "Applied" THEN AppendHop(n, p) ELSE UNCHANGED node_vars
        /\ outcome # "Rejected" /\ wallet' = wallet /\ sends' = sends
    BY <1>12 DEF ApplyForward, ReceivesForward, ForwardRejects
  <2>3. net' = (net \ {Forward(p, i)}) \cup next
    BY <2>2, HandledOnce
  <2>4. wallet[p] # "idle" /\ p \notin consumed[n]
    BY <1>0, <2>2 DEF Fresh, AppliedAt
  <2>5. AppendHop(n, p)
    BY <2>2, <2>4, HopOutcomes
  <2>6. \A m \in net' : \/ m \in net \ {Forward(p, i)}
                        \/ m = Forward(p, i + 1) /\ i + 1 < Len(Signers[p])
                        \/ Harmless(m) /\ ~Refuses(m) /\ ~Stops(m)
    BY <1>0, <2>3, <2>4 DEF Harmless, Refuses, Stops
  <2>7. PICK k \in 1..Len(Signers[p]) : k = i + 1
    BY <2>1
  <2>8. Signers[p][k] \in Node /\ AppendHop(Signers[p][k], p) /\ k # 1 /\ Forward(p, i) = Forward(p, k - 1)
    BY <2>1, <2>2, <2>5, <2>7
  <2>9. /\ Once' /\ ~AppliedAt(p, k) /\ (\A j \in 1..(k - 1) : AppliedAt(p, j))
        /\ wallet[p] \notin {"idle", "Rejected", "Partial"}
    <3>. HIDE DEF next
    <3>. QED
      BY <2>2, <2>6, <2>7, <2>8, OnceApply
  <2>. QED
    BY <2>2, <2>8, <2>9 DEF Progress, Moves
<1>13. ASSUME NEW m \in net, NEW verified \in BOOLEAN, HandleResult(m, verified)
      PROVE  Once' /\ Progress
  <2>. DEFINE p == m.pay
              status == IF m.outcome # "Applied" THEN settle_reject_to_status(m.outcome)
                        ELSE IF verified THEN "Applied" ELSE "Indeterminate"
              b == status = "Applied"
  <2>1. m.type = "Result" /\ p \in Pay /\ wallet[p] # "idle" /\ Fresh(m)
    BY <1>0, <1>13 DEF HandleResult
  <2>2. /\ consumed' = consumed /\ wallet' = wallet /\ sends' = sends
        /\ net' = (net \ {m}) \cup {Reply(p, status, b)}
    BY <1>13, HandledOnce DEF HandleResult, node_vars
  <2>3. /\ status # "Rejected"
        /\ status = "Partial" => m.outcome = "IntermediateRejected"
    BY DEF settle_reject_to_status
  <2>4. CASE status # "Partial"
    <3>. HIDE DEF status
    <3>. QED
      BY <2>1, <2>2, <2>3, <2>4, TellStep DEF Progress
  <2>5. CASE status = "Partial"
    <3>1. Stopped(p)
      BY <2>1, <2>3, <2>5 DEF Fresh, Stops
    <3>. HIDE DEF status
    <3>2. Stopped(p)'
      BY <1>0, <2>2, <3>1 DEF Stopped, Credited, AppliedAt
    <3>. QED
      BY <1>0, <2>1, <2>2, <2>3, <3>2, OnceSame DEF Harmless, Refuses, Progress
  <2>. QED
    BY <2>4, <2>5
<1>17. ASSUME NEW m \in net, ApplyReply(m) PROVE Once' /\ Progress
  <2>1. /\ consumed' = consumed /\ sends' = sends /\ net' \subseteq net /\ m.type = "Reply"
    BY <1>17 DEF ApplyReply, node_vars
  <2>2. CASE wallet[m.pay] # "pending"
    BY <1>17, <2>1, <2>2, LossStep DEF ApplyReply, Progress
  <2>3. CASE wallet[m.pay] = "pending"
    <3>. DEFINE p == m.pay
    <3>1. wallet' = [wallet EXCEPT ![p] = SettlementState(m)] /\ p \in Pay /\ m \in Message
      BY <1>0, <1>17, <2>3 DEF ApplyReply, TypeOK
    <3>2. Progress
      BY <2>1, <2>3, <3>1 DEF Progress, Tells
    <3>3. \A q \in Pay : /\ Debited(q)' <=> Debited(q)
                         /\ Credited(q)' <=> Credited(q)
                         /\ \A i : AppliedAt(q, i)' <=> AppliedAt(q, i)
      BY <2>1 DEF Debited, Credited, AppliedAt
    <3>4. \A q \in Pay : (Refused(q) => Refused(q)') /\ (Stopped(q) => Stopped(q)')
      BY <2>1, <3>3 DEF Refused, Stopped
    <3>5. /\ SettlementState(m) # "idle"
          /\ SettlementState(m) = "Rejected" => Refused(p)
          /\ SettlementState(m) = "Partial" => Stopped(p)
      BY <1>0, <2>1, <3>1, MessageForms DEF SettlementState, Status, Fresh, Refuses, Stops
    <3>6. wallet'[p] = SettlementState(m) /\ \A q \in Pay : q # p => wallet'[q] = wallet[q]
      BY <3>1 DEF TypeOK
    <3>7. ASSUME NEW x \in net' PROVE Fresh(x)'
      <4>1. x \in net /\ x.pay \in Pay /\ Fresh(x)
        BY <1>0, <2>1, <3>7
      <4>2. wallet'[x.pay] # "idle"
        BY <1>0, <3>5, <3>6, <4>1
      <4>. QED
        BY <3>3, <3>4, <4>1, <4>2 DEF Fresh, Refuses, Stops
    <3>8. ASSUME NEW q \in Pay PROVE Settled(q)'
      <4>1. CASE q # p
        BY <2>1, <3>3, <3>4, <3>6, <4>1 DEF Once, Settled
      <4>2. CASE q = p
        BY <2>1, <2>3, <3>3, <3>4, <3>5, <3>6, <4>2 DEF Once, Settled
      <4>. QED
        BY <4>1, <4>2
    <3>9. OneForward'
      BY <2>1 DEF Once, OneForward
    <3>. QED
      BY <3>2, <3>7, <3>8, <3>9 DEF Once
  <2>. QED
    BY <2>2, <2>3
<1>. QED
  BY <1>1, <1>2, <1>3, <1>4, <1>5, <1>6, <1>7, <1>8, <1>9, <1>10, <1>11, <1>12, <1>13, <1>14,
     <1>15, <1>16, <1>17, BoundAssumption DEF Next, HandleOrder, HandleForward
-----------------------------------------------------------------------------
(* A set of the first k numbers has k elements.                            *)
LEMMA PrefixCount ==
  ASSUME NEW n \in Nat, NEW k \in 0..n, NEW S, \A i : i \in S <=> i \in 1..n /\ i <= k
  PROVE  Cardinality(S) = k
<1>1. S = 1..k
  <2>1. \A i : i \in 1..k <=> i \in 1..n /\ i <= k
    OBVIOUS
  <2>. QED
    BY <2>1, Zenon
<1>2. Cardinality(1..k) = k
  BY FS_Interval
<1>. QED
  BY <1>1, <1>2

(* The number of applied hops is the length of the applied prefix.         *)
LEMMA StageCounts ==
  ASSUME PrefixApplied, NEW p \in Pay
  PROVE  \E k \in 0..Len(Signers[p]) :
           Stage[p] = k /\ \A i \in 1..Len(Signers[p]) : AppliedAt(p, i) <=> i <= k
<1>. DEFINE n == Len(Signers[p])
            T == { i \in 1..(n + 1) : i = n + 1 \/ ~AppliedAt(p, i) }
            S == { i \in 1..n : AppliedAt(p, i) }
<1>1. n \in Nat
  BY SignersSimple
<1>2. T \in SUBSET Nat /\ n + 1 \in T
  BY <1>1
<1>. HIDE DEF n
<1>3. PICK x \in T : \A y \in T : x <= y
  BY <1>2, LeastNat
<1>4. PICK k \in 0..n : k = x - 1
  BY <1>1, <1>3
<1>5. ASSUME NEW i \in 1..n, i <= k PROVE AppliedAt(p, i)
  BY <1>1, <1>3, <1>4, <1>5
<1>6. ASSUME NEW i \in 1..n, AppliedAt(p, i) PROVE i <= k
  <2>1. SUFFICES ASSUME ~(i <= k) PROVE FALSE
    OBVIOUS
  <2>2. x \in 1..i /\ x # n + 1
    BY <1>1, <1>3, <1>4, <2>1
  <2>3. AppliedAt(p, x)
    BY <1>6, <2>2 DEF PrefixApplied, n
  <2>. QED
    BY <1>3, <2>2, <2>3
<1>7. Cardinality(S) = k
  <2>1. \A i : i \in S <=> i \in 1..n /\ i <= k
    BY <1>5, <1>6
  <2>. HIDE DEF S
  <2>. QED
    BY <1>1, <2>1, PrefixCount
<1>8. Stage[p] = k
  BY <1>7 DEF Stage, n
<1>. QED
  BY <1>4, <1>5, <1>6, <1>8 DEF n

(* What the hops applied say of debit and credit.                          *)
LEMMA StageMeans ==
  ASSUME PrefixApplied, NEW p \in Pay
  PROVE  /\ Stage[p] \in Nat /\ Hops[p] = Len(Signers[p]) /\ Hops[p] \in Nat
         /\ Debited(p) /\ Signers[p] # None => 0 < Stage[p]
         /\ ~Debited(p) => Stage[p] = 0
         /\ Credited(p) => Hops[p] > 0 /\ Stage[p] = Hops[p]
         /\ ~Credited(p) /\ Signers[p] # None => Stage[p] < Hops[p]
<1>1. /\ Len(Signers[p]) \in Nat /\ Origin(p) \in Node
      /\ Signers[p] # None => Len(Signers[p]) >= 1 /\ Signers[p][1] = Origin(p)
      /\ Signers[p] = None => Len(Signers[p]) = 0
  BY SignersSimple DEF None
<1>2. PICK k \in 0..Len(Signers[p]) :
        Stage[p] = k /\ \A i \in 1..Len(Signers[p]) : AppliedAt(p, i) <=> i <= k
  BY StageCounts
<1>3. Hops[p] = Len(Signers[p])
  BY DEF Hops
<1>4. Signers[p] # None => /\ Debited(p) <=> AppliedAt(p, 1)
                           /\ Credited(p) <=> AppliedAt(p, Len(Signers[p]))
  BY <1>1 DEF Debited, Credited, AppliedAt
<1>5. Signers[p] = None => ~Credited(p)
  BY DEF Credited
<1>. QED
  BY <1>1, <1>2, <1>3, <1>4, <1>5

(* Every answer the wallet records is true of the hops applied.            *)
LEMMA TellTrue ==
  ASSUME TypeOK, CascadeInv, Once, NEW m \in net, m.type = "Reply"
  PROVE  m.pay \in Pay /\ SettlementState(m) \in C!Answer /\ C!True(m.pay, SettlementState(m))
<1>. DEFINE p == m.pay
            a == SettlementState(m)
<1>1. m \in Message /\ Truthful(m) /\ Fresh(m)
  BY DEF TypeOK, CascadeInv, Once
<1>2. p \in Pay /\ m.status \in Status /\ m.proof \in BOOLEAN
  BY <1>1, MessageForms
<1>3. /\ m.status # "Rejected" => Debited(p) /\ Signers[p] # None
      /\ m.proof => Credited(p)
      /\ m.status = "Rejected" => ~Debited(p)
      /\ m.status = "Partial" => ~Credited(p)
  BY <1>1, <1>2 DEF Truthful, Fresh, Refuses, Stops, Refused, Stopped, Once, Settled
<1>4. /\ a \in {"Applied", "Duplicate"} => m.proof
      /\ a = "Unverified" => m.status # "Rejected"
      /\ a # "Unverified" => a = m.status
      /\ a \in Status \cup {"Unverified"}
  BY <1>2 DEF SettlementState, Status
<1>. HIDE DEF a
<1>5. a \in C!Answer
  BY <1>4 DEF C!Answer, Status
<1>6. PrefixApplied
  BY DEF CascadeInv
<1>7. /\ Stage[p] \in Nat /\ Hops[p] \in Nat
      /\ a \in {"Applied", "Duplicate"} => Hops[p] > 0 /\ Stage[p] = Hops[p]
      /\ a = "Partial" => 0 < Stage[p] /\ Stage[p] < Hops[p]
      /\ a = "Rejected" => Stage[p] = 0
      /\ a \in {"Indeterminate", "Unverified"} => 0 < Stage[p]
  BY <1>2, <1>3, <1>4, <1>6, StageMeans
<1>8. C!True(p, a)
  BY <1>4, <1>7 DEF C!True, Status
<1>. QED
  BY <1>2, <1>5, <1>8 DEF a

(* A step of the cascade is a step of the contract, or nothing to it.      *)
LEMMA ContractStep ==
  ASSUME TypeOK, CascadeInv, PrefixApplied', Once, Progress
  PROVE  [C!Next]_(C!cvars)
<1>0. PrefixApplied
  BY DEF CascadeInv
<1>1. consumed' = consumed => Stage' = Stage
  BY DEF Stage, AppliedAt
<1>2. CASE consumed' = consumed /\ wallet' = wallet
  BY <1>1, <1>2 DEF C!cvars
<1>3. ASSUME NEW p \in Pay, Submits(p) PROVE C!Next
  BY <1>1, <1>3 DEF Submits, C!Next, C!Submit
<1>4. ASSUME NEW m \in net, Tells(m) PROVE C!Next
  <2>1. m.pay \in Pay /\ SettlementState(m) \in C!Answer /\ C!True(m.pay, SettlementState(m))
    BY <1>4, TellTrue DEF Tells
  <2>2. C!Tell(m.pay, SettlementState(m))
    BY <1>1, <1>4, <2>1 DEF Tells, C!Tell
  <2>. QED
    BY <2>1, <2>2 DEF C!Next
<1>5. ASSUME NEW p \in Pay, NEW k \in 1..Len(Signers[p]), Moves(p, k) PROVE C!Next
  <2>. DEFINE n == Signers[p][k]
  <2>1. /\ consumed' = [consumed EXCEPT ![n] = consumed[n] \cup {p}] /\ consumed \in [Node -> SUBSET Pay]
        /\ n \in Node
    BY <1>5 DEF Moves, AppendHop, TypeOK
  <2>2. ASSUME NEW q \in Pay, q # p PROVE Stage'[q] = Stage[q]
    <3>1. \A i : AppliedAt(q, i)' <=> AppliedAt(q, i)
      BY <2>1, <2>2 DEF AppliedAt
    <3>2. { i \in 1..Len(Signers[q]) : AppliedAt(q, i)' } = { i \in 1..Len(Signers[q]) : AppliedAt(q, i) }
      BY <3>1
    <3>. QED
      BY <3>2 DEF Stage
  <2>3. /\ Len(Signers[p]) \in Nat
        /\ \A i, j \in 1..Len(Signers[p]) : Signers[p][i] = Signers[p][j] => i = j
    BY SignersSimple
  <2>4. PICK s \in 0..Len(Signers[p]) :
          Stage[p] = s /\ \A i \in 1..Len(Signers[p]) : AppliedAt(p, i) <=> i <= s
    BY <1>0, StageCounts
  <2>5. s = k - 1
    BY <1>5, <2>3, <2>4 DEF Moves
  <2>6. \A i \in 1..Len(Signers[p]) : AppliedAt(p, i)' <=> AppliedAt(p, i) \/ i = k
    BY <2>1, <2>3 DEF AppliedAt
  <2>7. Stage'[p] = k
    <3>1. \A i : i \in { j \in 1..Len(Signers[p]) : AppliedAt(p, j)' } <=> i \in 1..Len(Signers[p]) /\ i <= k
      BY <2>3, <2>4, <2>5, <2>6
    <3>2. Cardinality({ j \in 1..Len(Signers[p]) : AppliedAt(p, j)' }) = k
      BY <2>3, <3>1, PrefixCount
    <3>. QED
      BY <3>2 DEF Stage
  <2>8. Stage' = [Stage EXCEPT ![p] = Stage[p] + 1]
    <3>1. /\ DOMAIN Stage = Pay /\ DOMAIN Stage' = Pay
          /\ Stage = [ q \in Pay |-> Stage[q] ] /\ Stage' = [ q \in Pay |-> Stage'[q] ]
      BY DEF Stage
    <3>2. Stage'[p] = Stage[p] + 1
      BY <2>4, <2>5, <2>7
    <3>. QED
      BY <2>2, <3>1, <3>2
  <2>9. Stage[p] < Hops[p]
    BY <2>3, <2>4, <2>5 DEF Hops
  <2>10. C!Advance(p)
    BY <1>5, <2>8, <2>9 DEF Moves, C!Advance
  <2>. QED
    BY <2>10 DEF C!Next
<1>. QED
  BY <1>2, <1>3, <1>4, <1>5 DEF Progress

(***************************************************************************)
(* The cascade implements PaymentContract: whatever is lost, refused,      *)
(* expired, evicted, restarted or detached, the payment advances hop by    *)
(* hop, the wallet records one answer that is true when it is given, and   *)
(* no hop applies after Rejected or Partial (dispatch_ledger_envelope,     *)
(* handle_settle_forward, handle_settle_result, apply_settlement_result).  *)
(* The hypothesis is that of the contract: no envelope is delivered twice  *)
(* and no client submits an order again.                                   *)
(***************************************************************************)
THEOREM ContractImplemented == ASSUME AtMostOnce PROVE Spec => Contract
<1>. DEFINE Inv == IInv /\ Once
<1>1. Init => Inv /\ C!Init
  <2>. SUFFICES ASSUME Init PROVE Once /\ C!Init
    BY InitIInv
  <2>1. /\ net = {} /\ \A p \in Pay : wallet[p] = "idle" /\ sends[p] = 0 /\ ~Debited(p)
    BY SignersSimple DEF Init, Debited
  <2>2. Once
    BY <2>1 DEF Once, Settled, OneForward
  <2>3. \A p \in Pay : Stage[p] = 0
    <3>1. PrefixApplied
      BY InitIInv DEF IInv, CascadeInv
    <3>. QED
      BY <2>1, <3>1, StageMeans
  <2>4. Stage = [ p \in Pay |-> 0 ]
    <3>1. Stage = [ p \in Pay |-> Stage[p] ]
      BY DEF Stage
    <3>. QED
      BY <2>3, <3>1
  <2>. QED
    BY <2>2, <2>4 DEF Init, C!Init
<1>2. Inv /\ [Next]_vars => Inv' /\ [C!Next]_(C!cvars)
  <2>. SUFFICES ASSUME Inv, [Next]_vars PROVE Inv' /\ [C!Next]_(C!cvars)
    OBVIOUS
  <2>1. IInv'
    BY TypeStep, CascadeStep DEF IInv
  <2>2. Once' /\ Progress
    BY OnceStep DEF IInv
  <2>. QED
    BY <2>1, <2>2, ContractStep DEF IInv, CascadeInv
<1>. QED
  BY <1>1, <1>2, PTL DEF Spec, Contract, C!Spec

-----------------------------------------------------------------------------
(***************************************************************************)
(* Sums. SumOver takes the elements of a set in an order of its own; the   *)
(* lemmas show that there is such a sum of every finite set and that the   *)
(* order does not matter.                                                  *)
(***************************************************************************)
Some(s) == CHOOSE x \in s : TRUE

(* A set of terms is finite, and the terms are integers.                   *)
Terms(f, S) == IsFiniteSet(S) /\ \A x \in S : f[x] \in Int

(* What a table g of the sums of all subsets of S says of one of them.     *)
SumStep(f, g, s) == IF s = {} THEN 0 ELSE f[Some(s)] + g[s \ {Some(s)}]

SumTable(f, S, g) == g = [ s \in SUBSET S |-> SumStep(f, g, s) ]

(* Taking an element away makes a set smaller.                             *)
LEMMA Smaller ==
  ASSUME NEW S, IsFiniteSet(S), NEW x \in S
  PROVE  /\ IsFiniteSet(S \ {x}) /\ Cardinality(S \ {x}) \in Nat /\ Cardinality(S) \in Nat
         /\ Cardinality(S \ {x}) < Cardinality(S)
<1>1. IsFiniteSet(S \ {x}) /\ Cardinality(S \ {x}) = Cardinality(S) - 1
  BY FS_RemoveElement
<1>. QED
  BY <1>1, FS_CardinalityType

(* A set that is not empty has some element.                               *)
LEMMA SomeIn == ASSUME NEW s, s # {} PROVE Some(s) \in s
  BY DEF Some

(* A table that is right for sets of up to k elements, and a better one.   *)
Partly(f, S, g, k) == \A s \in SUBSET S : Cardinality(s) <= k => g[s] = SumStep(f, g, s)

Improved(f, S, g) == [ s \in SUBSET S |-> SumStep(f, g, s) ]

(* A part of a finite set is finite and not larger.                        *)
LEMMA SubFinite ==
  ASSUME NEW S, IsFiniteSet(S), NEW s \in SUBSET S
  PROVE  IsFiniteSet(s) /\ Cardinality(s) \in Nat /\ Cardinality(s) <= Cardinality(S)
  BY FS_Subset, FS_CardinalityType

(* Improving a table makes it right for one more element.                  *)
LEMMA PartlyNext ==
  ASSUME NEW f, NEW S, IsFiniteSet(S), NEW g, NEW k \in Int, Partly(f, S, g, k)
  PROVE  Partly(f, S, Improved(f, S, g), k + 1)
<1>1. PICK h : h = Improved(f, S, g)
  OBVIOUS
<1>2. \A s \in SUBSET S : h[s] = SumStep(f, g, s)
  BY <1>1 DEF Improved
<1>3. ASSUME NEW s \in SUBSET S, Cardinality(s) <= k + 1
      PROVE  h[s] = SumStep(f, h, s)
  <2>1. CASE s = {}
    BY <1>2, <2>1 DEF SumStep
  <2>2. CASE s # {}
    <3>1. PICK r : r = s \ {Some(s)}
      OBVIOUS
    <3>2. r \in SUBSET S /\ Cardinality(r) <= k
      <4>1. Some(s) \in s
        BY <2>2, SomeIn
      <4>2. IsFiniteSet(s)
        BY SubFinite
      <4>3. Cardinality(r) \in Nat /\ Cardinality(s) \in Nat /\ Cardinality(r) < Cardinality(s)
        BY <3>1, <4>1, <4>2, Smaller
      <4>. QED
        BY <1>3, <3>1, <4>3
    <3>3. h[r] = g[r]
      BY <1>2, <3>2 DEF Partly
    <3>. QED
      BY <1>2, <2>2, <3>1, <3>3 DEF SumStep
  <2>. QED
    BY <2>1, <2>2
<1>. QED
  BY <1>1, <1>3 DEF Partly

(* So there is a table that is right for all subsets of a finite set.      *)
LEMMA TableExists ==
  ASSUME NEW f, NEW S, IsFiniteSet(S)
  PROVE  \E g : SumTable(f, S, g)
<1>. DEFINE T == { k \in Nat : ~\E g : Partly(f, S, g, k) }
<1>1. T = {}
  <2>. SUFFICES ASSUME T # {} PROVE FALSE
    OBVIOUS
  <2>1. PICK k \in T : \A m \in T : k <= m
    <3>. T \in SUBSET Nat
      OBVIOUS
    <3>. HIDE DEF T
    <3>. QED
      BY LeastNat
  <2>2. PICK m \in Int : m = k - 1
    OBVIOUS
  <2>3. \E g : Partly(f, S, g, m)
    <3>1. CASE k = 0
      <4>1. \A s \in SUBSET S : ~(Cardinality(s) <= m)
        BY <2>2, <3>1, SubFinite
      <4>. QED
        BY <4>1 DEF Partly
    <3>2. CASE k # 0
      <4>1. m \in Nat /\ m \notin T
        BY <2>1, <2>2, <3>2
      <4>. QED
        BY <4>1
    <3>. QED
      BY <3>1, <3>2
  <2>4. PICK g : Partly(f, S, g, m)
    BY <2>3
  <2>5. Partly(f, S, Improved(f, S, g), m + 1)
    BY <2>4, PartlyNext
  <2>. QED
    BY <2>1, <2>2, <2>5
<1>2. PICK n \in Nat : n = Cardinality(S)
  BY FS_CardinalityType
<1>3. PICK g : Partly(f, S, g, n)
  BY <1>1
<1>4. PICK h : h = Improved(f, S, g)
  OBVIOUS
<1>5. Partly(f, S, h, n + 1)
  BY <1>3, <1>4, PartlyNext
<1>6. \A s \in SUBSET S : h[s] = SumStep(f, h, s)
  BY <1>2, <1>5, SubFinite DEF Partly
<1>7. h = [ s \in SUBSET S |-> h[s] ]
  BY <1>4 DEF Improved
<1>. QED
  BY <1>6, <1>7 DEF SumTable

(* SumOver reads a table.                                                  *)
LEMMA SumIsTable ==
  ASSUME NEW f, NEW S, IsFiniteSet(S)
  PROVE  \E g : SumTable(f, S, g) /\ SumOver(f, S) = g[S]
<1>1. PICK g : g = CHOOSE h : SumTable(f, S, h)
  OBVIOUS
<1>2. SumTable(f, S, g)
  BY <1>1, TableExists
<1>3. SumOver(f, S) = (CHOOSE h : h = [ s \in SUBSET S |-> IF s = {} THEN 0 ELSE f[CHOOSE x \in s : TRUE] + h[s \ {CHOOSE x \in s : TRUE}] ])[S]
  BY DEF SumOver, MapThenSumSet, MapThenFoldSet
<1>4. SumOver(f, S) = (CHOOSE h : SumTable(f, S, h))[S]
  BY <1>3 DEF SumTable, SumStep, Some
<1>. QED
  BY <1>1, <1>2, <1>4

(* Two tables agree on the sets both have, if the terms are the same.      *)
LEMMA TablesAgree ==
  ASSUME NEW f, NEW g, NEW S, NEW T, NEW a, NEW b,
         IsFiniteSet(S), SumTable(f, S, a), SumTable(g, T, b),
         NEW s \in SUBSET S, s \in SUBSET T, \A x \in s : f[x] = g[x]
  PROVE  a[s] = b[s]
<1>. DEFINE D(k) == \E r \in SUBSET s : Cardinality(r) = k /\ a[r] # b[r]
            B == { k \in Nat : D(k) }
<1>1. \A r \in SUBSET s : a[r] = SumStep(f, a, r) /\ b[r] = SumStep(g, b, r)
  BY DEF SumTable
<1>2. B = {}
  <2>. SUFFICES ASSUME B # {} PROVE FALSE
    OBVIOUS
  <2>1. PICK k \in B : \A m \in B : k <= m
    <3>. B \in SUBSET Nat
      OBVIOUS
    <3>. HIDE DEF B
    <3>. QED
      BY LeastNat
  <2>2. PICK r \in SUBSET s : Cardinality(r) = k /\ a[r] # b[r]
    BY <2>1
  <2>3. r # {}
    BY <1>1, <2>2 DEF SumStep
  <2>4. PICK q : q = r \ {Some(r)}
    OBVIOUS
  <2>5. Some(r) \in r
    BY <2>3, SomeIn
  <2>6. q \in SUBSET s /\ Cardinality(q) \in Nat /\ Cardinality(q) < k
    <3>1. IsFiniteSet(r)
      BY SubFinite
    <3>. QED
      BY <2>2, <2>4, <2>5, <3>1, Smaller
  <2>7. a[q] = b[q]
    <3>1. PICK m \in Nat : m = Cardinality(q)
      BY <2>6
    <3>2. m \notin B
      BY <2>1, <2>6, <3>1
    <3>. QED
      BY <2>6, <3>1, <3>2
  <2>8. f[Some(r)] = g[Some(r)]
    BY <2>5
  <2>. QED
    BY <1>1, <2>2, <2>3, <2>4, <2>7, <2>8 DEF SumStep
<1>3. PICK n \in Nat : n = Cardinality(s)
  BY SubFinite
<1>4. ~D(n)
  BY <1>2
<1>. QED
  BY <1>3, <1>4

(* A sum takes one element of its set and adds the sum of the others.      *)
LEMMA SumStart ==
  ASSUME NEW f, NEW S, Terms(f, S)
  PROVE  /\ S = {} => SumOver(f, S) = 0
         /\ S # {} => SumOver(f, S) = f[Some(S)] + SumOver(f, S \ {Some(S)})
<1>1. PICK a : SumTable(f, S, a) /\ SumOver(f, S) = a[S]
  BY SumIsTable DEF Terms
<1>2. a[S] = SumStep(f, a, S)
  BY <1>1 DEF SumTable
<1>3. ASSUME S # {} PROVE SumOver(f, S) = f[Some(S)] + SumOver(f, S \ {Some(S)})
  <2>1. PICK T : T = S \ {Some(S)}
    OBVIOUS
  <2>2. Some(S) \in S
    BY <1>3, SomeIn
  <2>3. IsFiniteSet(T) /\ T \in SUBSET S
    BY <2>1, <2>2, Smaller DEF Terms
  <2>4. PICK b : SumTable(f, T, b) /\ SumOver(f, T) = b[T]
    BY <2>3, SumIsTable
  <2>5. a[T] = b[T]
    <3>1. IsFiniteSet(S) /\ T \in SUBSET T
      BY DEF Terms
    <3>. QED
      BY <1>1, <2>3, <2>4, <3>1, TablesAgree
  <2>. QED
    BY <1>1, <1>2, <1>3, <2>1, <2>4, <2>5 DEF SumStep
<1>. QED
  BY <1>1, <1>2, <1>3 DEF SumStep

(* Only the terms of the set matter.                                       *)
LEMMA SumSame ==
  ASSUME NEW f, NEW g, NEW S, IsFiniteSet(S), \A x \in S : f[x] = g[x]
  PROVE  SumOver(f, S) = SumOver(g, S)
<1>1. PICK a : SumTable(f, S, a) /\ SumOver(f, S) = a[S]
  BY SumIsTable
<1>2. PICK b : SumTable(g, S, b) /\ SumOver(g, S) = b[S]
  BY SumIsTable
<1>3. S \in SUBSET S
  OBVIOUS
<1>4. a[S] = b[S]
  BY <1>1, <1>2, <1>3, TablesAgree
<1>. QED
  BY <1>1, <1>2, <1>4

(* What a set of terms says of its sum, in whatever order it is taken.     *)
Sums(f, S) ==
  /\ SumOver(f, S) \in Int
  /\ \A x \in S : SumOver(f, S) = f[x] + SumOver(f, S \ {x})

(* Any element may be taken first: otherwise there is a smallest set of    *)
(* which this is not so, and taking two of its elements in either order    *)
(* leaves the same smaller set.                                            *)
LEMMA SumAny ==
  ASSUME NEW f, NEW S, Terms(f, S)
  PROVE  Sums(f, S)
<1>. DEFINE D(k) == \E r \in SUBSET S : Cardinality(r) = k /\ ~Sums(f, r)
            B == { k \in Nat : D(k) }
<1>0. IsFiniteSet(S)
  BY DEF Terms
<1>1. B = {}
  <2>. SUFFICES ASSUME B # {} PROVE FALSE
    OBVIOUS
  <2>1. PICK k \in B : \A m \in B : k <= m
    <3>. B \in SUBSET Nat
      OBVIOUS
    <3>. HIDE DEF B
    <3>. QED
      BY LeastNat
  <2>2. PICK r \in SUBSET S : Cardinality(r) = k /\ ~Sums(f, r)
    BY <2>1
  <2>3. IsFiniteSet(r) /\ \A x \in r : f[x] \in Int
    BY <1>0, SubFinite DEF Terms
  <2>4. ASSUME NEW x \in r
        PROVE  Sums(f, r \ {x})
    <3>1. PICK q : q = r \ {x}
      OBVIOUS
    <3>2. q \in SUBSET S /\ Cardinality(q) \in Nat /\ Cardinality(q) < k
      BY <2>2, <2>3, <3>1, Smaller
    <3>3. PICK m \in Nat : m = Cardinality(q)
      BY <3>2
    <3>4. m \notin B
      BY <2>1, <3>2, <3>3
    <3>. QED
      BY <3>1, <3>2, <3>3, <3>4
  <2>6. SumOver(f, r) \in Int
    <3>0. (r = {} => SumOver(f, r) = 0)
          /\ (r # {} => SumOver(f, r) = f[Some(r)] + SumOver(f, r \ {Some(r)}))
      BY <2>3, SumStart DEF Terms
    <3>1. CASE r = {}
      <4>1. 0 \in Int
        OBVIOUS
      <4>2. PICK z : z = SumOver(f, r)
        OBVIOUS
      <4>. QED
        BY <3>0, <3>1, <4>1, <4>2, Zenon
    <3>2. CASE r # {}
      <4>1. Some(r) \in r
        BY <3>2, SomeIn
      <4>2. SumOver(f, r \ {Some(r)}) \in Int
        BY <2>4, <4>1 DEF Sums
      <4>3. SumOver(f, r) = f[Some(r)] + SumOver(f, r \ {Some(r)})
        BY <2>3, <3>2, SumStart DEF Terms
      <4>. QED
        BY <2>3, <4>1, <4>2, <4>3
    <3>. QED
      BY <3>1, <3>2
  <2>7. ASSUME NEW x \in r
        PROVE  SumOver(f, r) = f[x] + SumOver(f, r \ {x})
    <3>1. PICK y : y = Some(r)
      OBVIOUS
    <3>2. y \in r
      <4>1. r # {}
        OBVIOUS
      <4>. QED
        BY <3>1, <4>1, SomeIn
    <3>3. SumOver(f, r) = f[y] + SumOver(f, r \ {y})
      BY <2>3, <3>1, SumStart DEF Terms
    <3>4. CASE x = y
      BY <3>3, <3>4
    <3>5. CASE x # y
      <4>1. PICK z : z = SumOver(f, (r \ {y}) \ {x})
        OBVIOUS
      <4>2. (r \ {x}) \ {y} = (r \ {y}) \ {x} /\ x \in r \ {y} /\ y \in r \ {x}
        BY <3>2, <3>5
      <4>3. Sums(f, r \ {x}) /\ Sums(f, r \ {y})
        BY <2>4, <3>2
      <4>4. SumOver(f, r \ {y}) = f[x] + z
        BY <4>1, <4>2, <4>3 DEF Sums
      <4>5. SumOver(f, r \ {x}) = f[y] + z
        BY <4>1, <4>2, <4>3 DEF Sums
      <4>6. f[x] \in Int /\ f[y] \in Int /\ z \in Int
        <5>2. PICK w : w = r \ {y}
          OBVIOUS
        <5>3. PICK q : q = w \ {x}
          OBVIOUS
        <5>4. q \in SUBSET S /\ Cardinality(q) \in Nat /\ Cardinality(q) < k
          <6>1. IsFiniteSet(w) /\ Cardinality(w) \in Nat /\ Cardinality(w) < Cardinality(r)
            BY <2>3, <3>2, <5>2, Smaller
          <6>2. x \in w
            BY <4>2, <5>2
          <6>3. Cardinality(q) \in Nat /\ Cardinality(q) < Cardinality(w)
            BY <5>3, <6>1, <6>2, Smaller
          <6>4. k \in Nat /\ Cardinality(r) = k
            BY <2>2
          <6>. QED
            BY <5>2, <5>3, <6>1, <6>3, <6>4
        <5>5. PICK m \in Nat : m = Cardinality(q)
          BY <5>4
        <5>6. m \notin B
          BY <2>1, <5>4, <5>5
        <5>7. Sums(f, q)
          BY <5>4, <5>5, <5>6
        <5>. QED
          BY <2>3, <3>2, <4>1, <5>2, <5>3, <5>7 DEF Sums
      <4>. QED
        BY <3>3, <4>4, <4>5, <4>6
    <3>. QED
      BY <3>4, <3>5
  <2>. QED
    BY <2>2, <2>6, <2>7 DEF Sums
<1>2. PICK n \in Nat : n = Cardinality(S)
  BY <1>0, FS_CardinalityType
<1>3. ~D(n)
  BY <1>1
<1>. QED
  BY <1>2, <1>3

(* Adding a term adds it to the sum.                                       *)
LEMMA SumAdd ==
  ASSUME NEW f, NEW S, Terms(f, S), NEW x, x \notin S, f[x] \in Int
  PROVE  Terms(f, S \cup {x}) /\ SumOver(f, S \cup {x}) = SumOver(f, S) + f[x]
<1>1. PICK T : T = S \cup {x}
  OBVIOUS
<1>2. Terms(f, T)
  BY <1>1, FS_AddElement DEF Terms
<1>3. x \in T /\ T \ {x} = S
  BY <1>1
<1>4. SumOver(f, T) = f[x] + SumOver(f, T \ {x})
  BY <1>2, <1>3, SumAny DEF Sums
<1>5. PICK n \in Int : n = SumOver(f, S)
  BY SumAny DEF Sums
<1>6. SumOver(f, T \ {x}) = n
  BY <1>3, <1>5, Zenon
<1>7. SumOver(f, T) = n + f[x]
  BY <1>4, <1>5, <1>6
<1>. QED
  BY <1>1, <1>2, <1>5, <1>7, Zenon

(* Taking a term away takes it from the sum.                               *)
LEMMA SumDrop ==
  ASSUME NEW f, NEW S, Terms(f, S), NEW x \in S
  PROVE  Terms(f, S \ {x}) /\ SumOver(f, S \ {x}) = SumOver(f, S) - f[x]
<1>1. Terms(f, S \ {x})
  BY Smaller DEF Terms
<1>2. SumOver(f, S) = f[x] + SumOver(f, S \ {x}) /\ f[x] \in Int
  BY SumAny DEF Sums, Terms
<1>3. SumOver(f, S \ {x}) \in Int
  BY <1>1, SumAny DEF Sums
<1>. QED
  BY <1>1, <1>2, <1>3

-----------------------------------------------------------------------------
(***************************************************************************)
(* The shape of a route. The signers up to the top are prefixes of the     *)
(* payer's address, one level shorter each, and the others prefixes of the *)
(* payee's, one level longer each.                                         *)
(***************************************************************************)
LEMMA PrefixEqual ==
  ASSUME NEW a \in Seq(Slot), NEW b \in Seq(Slot), NEW k \in Nat, k <= Len(a), k <= Len(b),
         \A x \in 1..k : a[x] = b[x]
  PROVE  Prefix(a, k) = Prefix(b, k)
<1>1. /\ Prefix(a, k) \in Seq(Slot) /\ Len(Prefix(a, k)) = k /\ \A x \in 1..k : Prefix(a, k)[x] = a[x]
      /\ Prefix(b, k) \in Seq(Slot) /\ Len(Prefix(b, k)) = k /\ \A x \in 1..k : Prefix(b, k)[x] = b[x]
  BY PrefixFacts
<1>. QED
  BY <1>1, SeqEqual

(* A prefix of a prefix.                                                   *)
LEMMA PrefixAgain ==
  ASSUME NEW a \in Seq(Slot), NEW j \in Nat, NEW k \in Nat, k <= j, j <= Len(a)
  PROVE  Prefix(Prefix(a, j), k) = Prefix(a, k)
<1>1. PICK b : b = Prefix(a, j)
  OBVIOUS
<1>2. b \in Seq(Slot) /\ Len(b) = j /\ \A x \in 1..j : b[x] = a[x]
  BY <1>1, PrefixFacts
<1>3. Prefix(b, k) = Prefix(a, k)
  BY <1>2, PrefixEqual
<1>. QED
  BY <1>1, <1>3

(* The parent of a prefix, the child of a prefix on the way to the whole   *)
(* address, and which prefixes are above which.                            *)
LEMMA PrefixSteps ==
  ASSUME NEW a \in Seq(Slot), NEW k \in Nat, k >= 1, k <= Len(a)
  PROVE  /\ parent(Prefix(a, k)) = IF k = 1 THEN None ELSE Prefix(a, k - 1)
         /\ k < Len(a) => ChildToward(Prefix(a, k), a) = Prefix(a, k + 1)
         /\ \A j \in Nat : j < k => is_ancestor_of(Prefix(a, j), Prefix(a, k))
         /\ k < Len(a) => is_ancestor_of(Prefix(a, k), a)
<1>1. PICK b : b = Prefix(a, k)
  OBVIOUS
<1>2. b \in Seq(Slot) /\ Len(b) = k /\ \A x \in 1..k : b[x] = a[x]
  BY <1>1, PrefixFacts
<1>3. parent(b) = IF k = 1 THEN None ELSE Prefix(a, k - 1)
  <2>1. is_root(b) <=> k = 1
    BY <1>2 DEF is_root, depth
  <2>2. k # 1 => Prefix(b, k - 1) = Prefix(a, k - 1)
    BY <1>1, PrefixAgain
  <2>. QED
    BY <1>2, <2>1, <2>2 DEF parent
<1>4. ASSUME k < Len(a)
      PROVE  ChildToward(b, a) = Prefix(a, k + 1)
  <2>1. PICK x \in Slot : x = a[k + 1]
    BY <1>4
  <2>2. PICK c : c = Append(b, x)
    OBVIOUS
  <2>3. c \in Seq(Slot) /\ Len(c) = k + 1 /\ c[k + 1] = x /\ \A y \in 1..k : c[y] = b[y]
    BY <1>2, <2>2, AppendProperties
  <2>4. PICK d : d = Prefix(a, k + 1)
    OBVIOUS
  <2>5. d \in Seq(Slot) /\ Len(d) = k + 1 /\ \A y \in 1..(k + 1) : d[y] = a[y]
    <3>1. k + 1 \in 0..Len(a)
      BY <1>4
    <3>. QED
      BY <2>4, <3>1, PrefixFacts
  <2>6. \A y \in 1..(k + 1) : c[y] = d[y]
    BY <1>2, <2>1, <2>3, <2>5
  <2>7. c = d
    BY <2>3, <2>5, <2>6, SeqEqual
  <2>8. ChildToward(b, a) = c
    BY <1>2, <2>1, <2>2 DEF ChildToward, child, depth
  <2>. QED
    BY <2>4, <2>7, <2>8
<1>5. ASSUME NEW j \in Nat, j < k
      PROVE  is_ancestor_of(Prefix(a, j), b)
  <2>1. PICK c : c = Prefix(a, j)
    OBVIOUS
  <2>2. Len(c) = j
    BY <1>5, <2>1, PrefixFacts
  <2>3. Prefix(b, j) = c
    BY <1>1, <1>5, <2>1, PrefixAgain
  <2>. QED
    BY <1>2, <1>5, <2>1, <2>2, <2>3 DEF is_ancestor_of, depth
<1>6. k < Len(a) => is_ancestor_of(b, a)
  BY <1>1, <1>2 DEF is_ancestor_of, depth
<1>. QED
  BY <1>1, <1>3, <1>4, <1>5, <1>6

(* Below the place where two addresses part there is no place before it.   *)
LEMMA CommonLeast ==
  ASSUME NEW a \in Seq(Slot), NEW b \in Seq(Slot), NEW n \in Nat, n < Len(a), n < Len(b),
         a[n + 1] # b[n + 1], \A x \in 1..n : a[x] = b[x]
  PROVE  Common(a, b) = n
<1>1. n \in Ends(a, b)
  BY DEF Ends
<1>2. \A m \in Ends(a, b) : n <= m
  <2>. SUFFICES ASSUME NEW m \in Ends(a, b), m < n PROVE FALSE
    BY DEF Ends
  <2>1. m \in Nat /\ (m < Len(a) /\ m < Len(b) => a[m + 1] # b[m + 1])
    BY DEF Ends
  <2>2. m + 1 \in 1..n
    BY <2>1
  <2>. QED
    BY <2>1, <2>2
<1>3. PICK k : k = Common(a, b)
  OBVIOUS
<1>4. k \in Ends(a, b) /\ \A m \in Ends(a, b) : k <= m
  BY <1>1, <1>2, <1>3 DEF Common
<1>5. k \in Nat
  BY <1>4 DEF Ends
<1>6. k <= n /\ n <= k
  BY <1>1, <1>2, <1>4
<1>. QED
  BY <1>3, <1>5, <1>6

(* Where two addresses part they are equal before it.                      *)
LEMMA CommonSame ==
  ASSUME NEW a \in Seq(Slot), NEW b \in Seq(Slot)
  PROVE  \A x \in 1..Common(a, b) : a[x] = b[x]
<1>1. PICK n : n = Common(a, b)
  OBVIOUS
<1>2. n \in Ends(a, b) /\ \A m \in Ends(a, b) : n <= m
  <2>1. Ends(a, b) \in SUBSET Nat /\ Ends(a, b) # {}
    BY CommonEnds DEF Ends
  <2>2. \E k \in Ends(a, b) : \A m \in Ends(a, b) : k <= m
    BY <2>1, LeastNat
  <2>. QED
    BY <1>1, <2>2 DEF Common
<1>3. ASSUME NEW x \in 1..n, a[x] # b[x]
      PROVE  FALSE
  <2>1. n \in Nat /\ n <= Len(a) /\ n <= Len(b)
    BY <1>2 DEF Ends
  <2>2. PICK m \in Nat : m = x - 1
    BY <2>1
  <2>3. m < n /\ m + 1 = x /\ m \in 0..Len(a) /\ m <= Len(b)
    BY <2>1, <2>2
  <2>4. m \in Ends(a, b)
    BY <1>3, <2>3 DEF Ends
  <2>. QED
    BY <1>2, <2>1, <2>3, <2>4
<1>. QED
  BY <1>1, <1>3

(* A route r that turns at its u-th signer: the parent of a signer is the  *)
(* next one on the way up and the one before on the way down, nobody above *)
(* the top signs, and a signer's account on either side of it is that of   *)
(* its neighbour on the route, or of the user at its end.                  *)
Turns(src, dst, r, u) ==
  /\ u \in 2..(Len(r) - 1)
  /\ \A k \in 1..Len(r) :
       /\ k < u => classify_hop(src, dst, r[k]) = "Ascend" /\ parent(r[k]) = r[k + 1]
       /\ k = u => classify_hop(src, dst, r[k]) = "Lca" /\ \A j \in 1..Len(r) : parent(r[k]) # r[j]
       /\ k > u => classify_hop(src, dst, r[k]) = "Descend" /\ parent(r[k]) = r[k - 1]
       /\ k <= u => ChildToward(r[k], src) = IF k = 1 THEN src ELSE r[k - 1]
       /\ k >= u => ChildToward(r[k], dst) = IF k = Len(r) THEN dst ELSE r[k + 1]

(* The signers are prefixes of the two addresses, which part after level n.*)
Climbs(src, dst, r, u, n) ==
  /\ n \in Nat /\ n >= 1 /\ n < Len(src) - 1 /\ n < Len(dst) - 1
  /\ Common(src, dst) = n /\ src[n + 1] # dst[n + 1]
  /\ Prefix(src, n) = Prefix(dst, n)
  /\ parent(src) # parent(dst)
  /\ u = Len(src) - n /\ Len(r) = u + (Len(dst) - 1 - n)
  /\ \A k \in 1..Len(r) : r[k] = IF k <= u THEN Prefix(src, Len(src) - k) ELSE Prefix(dst, n + (k - u))

(* The two halves of a route: up to its top, then down.                    *)
LEMMA RouteClimbs ==
  ASSUME NEW src \in OctAddr, NEW dst \in OctAddr, route_signers(src, dst) # None
  PROVE  \E u, n : Climbs(src, dst, route_signers(src, dst), u, n)
<1>1. PICK s : s = parent(src)
  OBVIOUS
<1>2. PICK d : d = parent(dst)
  OBVIOUS
<1>3. PICK n : n = Common(s, d)
  OBVIOUS
<1>4. PICK r : r = route_signers(src, dst)
  OBVIOUS
<1>5. src \in Seq(Slot) /\ dst \in Seq(Slot) /\ Len(src) \in Nat /\ Len(dst) \in Nat
  BY DEF OctAddr
<1>. DEFINE up == Len(s) - n + 1
<1>6. /\ depth(src) >= 2 /\ depth(dst) >= 2 /\ n # Len(s) /\ n # Len(d) /\ s # d
      /\ r = [ k \in 1..(up + Len(d) - n) |->
                 IF k <= up THEN Prefix(s, Len(s) - k + 1) ELSE Prefix(d, n + k - up) ]
  BY <1>1, <1>2, <1>3, <1>4, <1>5 DEF route_signers, depth
<1>7. /\ s \in Seq(Slot) /\ d \in Seq(Slot) /\ Len(s) = Len(src) - 1 /\ Len(d) = Len(dst) - 1
      /\ Len(src) >= 2 /\ Len(dst) >= 2
  BY <1>1, <1>2, <1>6, ParentAddr DEF depth
<1>8. n \in Nat /\ n < Len(s) /\ n < Len(d) /\ s[n + 1] # d[n + 1]
  BY <1>3, <1>6, <1>7, CommonEnds DEF Ends
<1>9. s = Prefix(src, Len(src) - 1) /\ d = Prefix(dst, Len(dst) - 1)
  <2>1. ~is_root(src) /\ ~is_root(dst)
    BY <1>5, <1>7 DEF is_root, depth
  <2>. QED
    BY <1>1, <1>2, <2>1 DEF parent
<1>10. (\A x \in 1..(Len(src) - 1) : s[x] = src[x]) /\ (\A x \in 1..(Len(dst) - 1) : d[x] = dst[x])
  <2>1. PICK i \in 0..Len(src) : i = Len(src) - 1
    BY <1>5, <1>7
  <2>2. PICK j \in 0..Len(dst) : j = Len(dst) - 1
    BY <1>5, <1>7
  <2>3. (\A x \in 1..i : Prefix(src, i)[x] = src[x]) /\ (\A x \in 1..j : Prefix(dst, j)[x] = dst[x])
    BY <1>5, PrefixFacts
  <2>. QED
    BY <1>9, <2>1, <2>2, <2>3
<1>11. \A x \in 1..n : s[x] = d[x]
  BY <1>3, <1>7, CommonSame
<1>12. \A x \in 1..n : src[x] = dst[x]
  <2>. SUFFICES ASSUME NEW x \in 1..n PROVE src[x] = dst[x]
    OBVIOUS
  <2>1. x \in 1..(Len(src) - 1) /\ x \in 1..(Len(dst) - 1)
    BY <1>5, <1>7, <1>8
  <2>. QED
    BY <1>10, <1>11, <2>1
<1>13. src[n + 1] # dst[n + 1]
  <2>1. n + 1 \in 1..(Len(src) - 1) /\ n + 1 \in 1..(Len(dst) - 1)
    BY <1>5, <1>7, <1>8
  <2>. QED
    BY <1>8, <1>10, <2>1
<1>14. n >= 1
  <2>1. src[1] = 0 /\ dst[1] = 0
    BY DEF OctAddr
  <2>. QED
    BY <1>8, <1>13, <2>1
<1>15. Common(src, dst) = n /\ Prefix(src, n) = Prefix(dst, n)
  <2>1. n < Len(src) /\ n < Len(dst)
    BY <1>5, <1>7, <1>8
  <2>2. Common(src, dst) = n
    BY <1>5, <1>8, <1>12, <1>13, <2>1, CommonLeast
  <2>3. Prefix(src, n) = Prefix(dst, n)
    BY <1>5, <1>8, <1>12, <2>1, PrefixEqual
  <2>. QED
    BY <2>2, <2>3
<1>16. up = Len(src) - n /\ up \in Nat /\ up >= 2
  BY <1>5, <1>7, <1>8
<1>17. PICK u \in Nat : u = Len(src) - n
  BY <1>16
<1>18. PICK L \in Nat : L = u + (Len(dst) - 1 - n)
  <2>1. PICK b \in Nat : b = Len(dst)
    BY <1>5
  <2>2. u + (b - 1 - n) \in Nat
    BY <1>7, <1>8, <1>17, <2>1
  <2>. QED
    BY <2>1, <2>2
<1>19. r = [ k \in 1..L |-> IF k <= u THEN Prefix(s, Len(s) - k + 1) ELSE Prefix(d, n + k - u) ]
  BY <1>5, <1>6, <1>7, <1>8, <1>17, <1>18
<1>20. Len(r) = L
  BY <1>19
<1>21. ASSUME NEW k \in 1..L
       PROVE  r[k] = IF k <= u THEN Prefix(src, Len(src) - k) ELSE Prefix(dst, n + (k - u))
  <2>1. CASE k <= u
    <3>1. PICK j \in Nat : j = Len(src) - k
      <4>1. PICK b \in Nat : b = Len(src)
        BY <1>5
      <4>2. k \in Nat /\ n \in Nat /\ u = b - n
        BY <1>8, <1>17, <4>1
      <4>3. b - k \in Nat
        BY <2>1, <4>1, <4>2
      <4>. QED
        BY <4>1, <4>3
    <3>2. PICK i \in Nat : i = Len(src) - 1
      BY <1>5, <1>7
    <3>3. Len(s) - k + 1 = j /\ j <= i /\ i <= Len(src) /\ s = Prefix(src, i)
      BY <1>5, <1>7, <1>9, <3>1, <3>2
    <3>4. Prefix(s, j) = Prefix(src, j)
      BY <1>5, <3>3, PrefixAgain
    <3>. QED
      BY <1>19, <2>1, <3>1, <3>3, <3>4
  <2>2. CASE ~(k <= u)
    <3>1. PICK j \in Nat : j = n + k - u
      BY <1>8, <2>2
    <3>2. PICK i \in Nat : i = Len(dst) - 1
      BY <1>5, <1>7
    <3>3. j <= i /\ i <= Len(dst) /\ d = Prefix(dst, i) /\ n + (k - u) = j
      BY <1>5, <1>7, <1>8, <1>9, <1>18, <3>1, <3>2
    <3>4. Prefix(d, j) = Prefix(dst, j)
      BY <1>5, <3>3, PrefixAgain
    <3>5. r[k] = Prefix(d, j)
      BY <1>19, <2>2, <3>1
    <3>. QED
      BY <2>2, <3>3, <3>4, <3>5
  <2>. QED
    BY <2>1, <2>2
<1>22. n < Len(src) - 1 /\ n < Len(dst) - 1 /\ parent(src) # parent(dst)
  BY <1>1, <1>2, <1>6, <1>7, <1>8
<1>23. Climbs(src, dst, r, u, n)
  BY <1>8, <1>13, <1>14, <1>15, <1>17, <1>18, <1>20, <1>21, <1>22 DEF Climbs
<1>. QED
  BY <1>4, <1>23

(* The role of the prefix of length j of one of two addresses that part    *)
(* after level n.                                                          *)
LEMMA RolesBelow ==
  ASSUME NEW src \in Seq(Slot), NEW dst \in Seq(Slot), NEW n \in Nat, n >= 1,
         n < Len(src), n < Len(dst), Common(src, dst) = n, src[n + 1] # dst[n + 1],
         Prefix(src, n) = Prefix(dst, n), parent(src) # parent(dst), NEW j \in Nat, j > n
  PROVE  /\ classify_hop(src, dst, Prefix(src, n)) = "Lca"
         /\ j < Len(src) => classify_hop(src, dst, Prefix(src, j)) = "Ascend"
         /\ j < Len(dst) => classify_hop(src, dst, Prefix(dst, j)) = "Descend"
<1>1. PICK top : top = Prefix(src, n)
  OBVIOUS
<1>2. lca(src, dst) = top
  BY <1>1 DEF lca
<1>3. top \in Seq(Slot) /\ Len(top) = n /\ Prefix(dst, n) = top
  BY <1>1, PrefixFacts
<1>4. classify_hop(src, dst, top) = "Lca"
  BY <1>2 DEF classify_hop
<1>5. ASSUME j < Len(src)
      PROVE  classify_hop(src, dst, Prefix(src, j)) = "Ascend"
  <2>1. PICK this : this = Prefix(src, j)
    OBVIOUS
  <2>2. this \in Seq(Slot) /\ Len(this) = j
    BY <1>5, <2>1, PrefixFacts
  <2>3. is_ancestor_of(top, this) /\ is_ancestor_of(this, src)
    BY <1>1, <1>5, <2>1, PrefixSteps
  <2>4. this # top
    BY <1>3, <2>2
  <2>. QED
    BY <1>2, <2>1, <2>3, <2>4 DEF classify_hop
<1>6. ASSUME j < Len(dst)
      PROVE  classify_hop(src, dst, Prefix(dst, j)) = "Descend"
  <2>1. PICK this : this = Prefix(dst, j)
    OBVIOUS
  <2>2. this \in Seq(Slot) /\ Len(this) = j /\ this[n + 1] = dst[n + 1]
    BY <1>6, <2>1, PrefixFacts
  <2>3. is_ancestor_of(top, this) /\ is_ancestor_of(this, dst)
    BY <1>3, <1>6, <2>1, PrefixSteps
  <2>4. this # top /\ this # src
    BY <1>3, <2>2
  <2>5. ~is_ancestor_of(this, src)
    <3>. SUFFICES ASSUME is_ancestor_of(this, src) PROVE FALSE
      OBVIOUS
    <3>1. j < Len(src) /\ Prefix(src, j) = this
      BY <2>2 DEF is_ancestor_of, depth
    <3>2. this[n + 1] = src[n + 1]
      BY <3>1, PrefixFacts
    <3>. QED
      BY <2>2, <3>2
  <2>. QED
    BY <1>2, <2>1, <2>3, <2>4, <2>5 DEF classify_hop
<1>. QED
  BY <1>1, <1>4, <1>5, <1>6

(* A route turns once, and its roles say on which side a hop is.           *)
LEMMA RouteTurns ==
  ASSUME NEW src \in OctAddr, NEW dst \in OctAddr, NEW r, r = route_signers(src, dst), r # None
  PROVE  \E u \in Nat : Turns(src, dst, r, u)
<1>1. PICK u, n : Climbs(src, dst, r, u, n)
  BY RouteClimbs
<1>2. PICK a \in Nat : a = Len(src)
  BY DEF OctAddr
<1>3. PICK b \in Nat : b = Len(dst)
  BY DEF OctAddr
<1>4. src \in Seq(Slot) /\ dst \in Seq(Slot)
  BY DEF OctAddr
<1>5. /\ n \in Nat /\ n >= 1 /\ n < a - 1 /\ n < b - 1 /\ u = a - n
      /\ Common(src, dst) = n /\ src[n + 1] # dst[n + 1] /\ Prefix(src, n) = Prefix(dst, n)
      /\ parent(src) # parent(dst)
  BY <1>1, <1>2, <1>3 DEF Climbs
<1>6. PICK L \in Nat : L = Len(r) /\ L = u + (b - 1 - n)
  <2>1. u + (b - 1 - n) \in Nat
    BY <1>5
  <2>. QED
    BY <1>1, <1>3, <2>1 DEF Climbs
<1>7. u \in Nat /\ u \in 2..(L - 1)
  BY <1>5, <1>6
<1>8. \A k \in 1..L : k <= u => r[k] = Prefix(src, a - k)
  BY <1>1, <1>2, <1>6 DEF Climbs
<1>9. \A k \in 1..L : k >= u => r[k] = Prefix(dst, n + (k - u))
  <2>. SUFFICES ASSUME NEW k \in 1..L, k >= u PROVE r[k] = Prefix(dst, n + (k - u))
    OBVIOUS
  <2>1. CASE k = u
    <3>1. a - k = n /\ n + (k - u) = n
      BY <1>5, <2>1
    <3>. QED
      BY <1>5, <1>7, <1>8, <2>1, <3>1
  <2>2. CASE k # u
    <3>1. ~(k <= u)
      BY <1>7, <2>2
    <3>. QED
      BY <1>1, <1>6, <3>1 DEF Climbs
  <2>. QED
    BY <2>1, <2>2
<1>10. Prefix(src, a) = src /\ Prefix(dst, b) = dst
  BY <1>2, <1>3, <1>4 DEF Prefix
<1>11. ASSUME NEW k \in 1..L, k < u
       PROVE  classify_hop(src, dst, r[k]) = "Ascend" /\ parent(r[k]) = r[k + 1]
  <2>1. PICK j \in Nat : j = a - k
    BY <1>5, <1>11
  <2>2. j > n /\ j < a /\ j # 1 /\ j - 1 = a - (k + 1) /\ k + 1 \in 1..L /\ k + 1 <= u /\ j >= 1 /\ j <= a
    BY <1>5, <1>7, <1>11, <2>1
  <2>3. r[k] = Prefix(src, j) /\ r[k + 1] = Prefix(src, j - 1)
    <3>1. k <= u
      BY <1>7, <1>11
    <3>2. r[k] = Prefix(src, a - k) /\ r[k + 1] = Prefix(src, a - (k + 1))
      BY <1>8, <2>2, <3>1
    <3>. QED
      BY <2>1, <2>2, <3>2
  <2>4. classify_hop(src, dst, Prefix(src, j)) = "Ascend"
    <3>1. n < Len(src) /\ n < Len(dst) /\ j < Len(src)
      BY <1>2, <1>3, <1>5, <2>2
    <3>. QED
      BY <1>4, <1>5, <2>2, <3>1, RolesBelow
  <2>5. parent(Prefix(src, j)) = Prefix(src, j - 1)
    BY <1>2, <1>4, <2>2, PrefixSteps
  <2>. QED
    BY <2>3, <2>4, <2>5
<1>12. ASSUME NEW k \in 1..L, k > u
       PROVE  classify_hop(src, dst, r[k]) = "Descend" /\ parent(r[k]) = r[k - 1]
  <2>1. PICK j \in Nat : j = n + (k - u)
    BY <1>5, <1>7, <1>12
  <2>2. j > n /\ j < b /\ j # 1 /\ j - 1 = n + ((k - 1) - u) /\ k - 1 \in 1..L /\ k - 1 >= u /\ j >= 1 /\ j <= b
    BY <1>5, <1>6, <1>7, <1>12, <2>1
  <2>3. r[k] = Prefix(dst, j) /\ r[k - 1] = Prefix(dst, j - 1)
    BY <1>7, <1>9, <1>12, <2>1, <2>2
  <2>4. classify_hop(src, dst, Prefix(dst, j)) = "Descend"
    <3>1. n < Len(src) /\ n < Len(dst) /\ j < Len(dst)
      BY <1>2, <1>3, <1>5, <2>2
    <3>. QED
      BY <1>4, <1>5, <2>2, <3>1, RolesBelow
  <2>5. parent(Prefix(dst, j)) = Prefix(dst, j - 1)
    BY <1>3, <1>4, <2>2, PrefixSteps
  <2>. QED
    BY <2>3, <2>4, <2>5
<1>13. /\ classify_hop(src, dst, r[u]) = "Lca"
       /\ \A j \in 1..L : parent(r[u]) # r[j]
  <2>1. r[u] = Prefix(src, n)
    <3>1. u \in 1..L /\ u <= u /\ a - u = n
      BY <1>5, <1>7
    <3>. QED
      BY <1>8, <3>1
  <2>2. classify_hop(src, dst, Prefix(src, n)) = "Lca"
    <3>1. n < Len(src) /\ n < Len(dst)
      BY <1>2, <1>3, <1>5
    <3>2. PICK j \in Nat : j = n + 1
      BY <1>5
    <3>. QED
      BY <1>4, <1>5, <3>1, <3>2, RolesBelow
  <2>3. Len(parent(Prefix(src, n))) = n - 1
    <3>1. parent(Prefix(src, n)) = IF n = 1 THEN None ELSE Prefix(src, n - 1)
      BY <1>2, <1>4, <1>5, PrefixSteps
    <3>2. PICK i \in 0..Len(src) : i = n - 1
      BY <1>2, <1>5
    <3>3. Len(Prefix(src, i)) = i
      BY <1>4, PrefixFacts
    <3>. QED
      BY <3>1, <3>2, <3>3 DEF None
  <2>4. ASSUME NEW j \in 1..L
        PROVE  Len(r[j]) >= n
    <3>1. CASE j <= u
      <4>0. a - j \in 0..a /\ a - j >= n
        BY <1>5, <3>1
      <4>1. PICK i \in 0..Len(src) : i = a - j /\ i >= n
        BY <1>2, <4>0
      <4>2. Len(Prefix(src, i)) = i
        BY <1>4, PrefixFacts
      <4>. QED
        BY <1>8, <3>1, <4>1, <4>2
    <3>2. CASE j > u
      <4>1. PICK i \in 0..Len(dst) : i = n + (j - u) /\ i >= n
        BY <1>3, <1>5, <1>6, <1>7, <3>2
      <4>2. Len(Prefix(dst, i)) = i
        BY <1>4, PrefixFacts
      <4>. QED
        BY <1>7, <1>9, <3>2, <4>1, <4>2
    <3>. QED
      BY <1>7, <3>1, <3>2
  <2>5. ASSUME NEW j \in 1..L, parent(r[u]) = r[j]
        PROVE  FALSE
    BY <1>5, <2>1, <2>3, <2>4, <2>5
  <2>. QED
    BY <2>1, <2>2, <2>5
<1>14. ASSUME NEW k \in 1..L, k <= u
       PROVE  ChildToward(r[k], src) = IF k = 1 THEN src ELSE r[k - 1]
  <2>1. PICK j \in Nat : j = a - k
    BY <1>5, <1>14
  <2>2. j >= 1 /\ j < a /\ j <= a
    BY <1>5, <1>14, <2>1
  <2>3. ChildToward(r[k], src) = Prefix(src, j + 1)
    BY <1>2, <1>4, <1>8, <1>14, <2>1, <2>2, PrefixSteps
  <2>4. CASE k = 1
    BY <1>10, <2>1, <2>3, <2>4
  <2>5. CASE k # 1
    <3>1. k - 1 \in 1..L /\ k - 1 <= u /\ a - (k - 1) = j + 1
      BY <1>7, <1>14, <2>1, <2>5
    <3>2. r[k - 1] = Prefix(src, j + 1)
      BY <1>8, <3>1
    <3>. QED
      BY <2>3, <2>5, <3>2
  <2>. QED
    BY <2>4, <2>5
<1>15. ASSUME NEW k \in 1..L, k >= u
       PROVE  ChildToward(r[k], dst) = IF k = L THEN dst ELSE r[k + 1]
  <2>1. PICK j \in Nat : j = n + (k - u)
    BY <1>5, <1>7, <1>15
  <2>2. j >= 1 /\ j < b /\ j <= b
    BY <1>5, <1>6, <1>7, <1>15, <2>1
  <2>3. ChildToward(r[k], dst) = Prefix(dst, j + 1)
    BY <1>3, <1>4, <1>9, <1>15, <2>1, <2>2, PrefixSteps
  <2>4. CASE k = L
    <3>1. j + 1 = b
      BY <1>5, <1>6, <1>7, <2>1, <2>4
    <3>. QED
      BY <1>10, <2>3, <2>4, <3>1
  <2>5. CASE k # L
    <3>1. k + 1 \in 1..L /\ k + 1 >= u /\ n + ((k + 1) - u) = j + 1
      BY <1>5, <1>7, <1>15, <2>1, <2>5
    <3>2. r[k + 1] = Prefix(dst, j + 1)
      BY <1>9, <3>1
    <3>. QED
      BY <2>3, <2>5, <3>2
  <2>. QED
    BY <2>4, <2>5
<1>16. Turns(src, dst, r, u)
  BY <1>6, <1>7, <1>11, <1>12, <1>13, <1>14, <1>15 DEF Turns
<1>. QED
  BY <1>7, <1>16

-----------------------------------------------------------------------------
(***************************************************************************)
(* What a hop posts, and what it does to the edges of the tree.            *)
(***************************************************************************)
Legs(d, role, x, y, m) ==
  /\ role = "Ascend" => DOMAIN d = {Parent, x} /\ \A a \in DOMAIN d : d[a] = 0 - m
  /\ role = "Descend" => DOMAIN d = {Parent, y} /\ \A a \in DOMAIN d : d[a] = m
  /\ role \in {"Lca", "Direct"} => DOMAIN d = {x, y} /\ \A a \in DOMAIN d : d[a] = IF a = y THEN m ELSE 0 - m

(* The postings of a hop are the two legs its role calls for.              *)
LEMMA HopLegs ==
  ASSUME NEW p \in Pay, NEW n \in SignerSet(p)
  PROVE  Legs(Postings[p][n], classify_hop(payer_addr[p], payee_addr[p], n),
              ChildToward(n, payer_addr[p]), ChildToward(n, payee_addr[p]), amount[p])
<1>1. PICK role : role = classify_hop(payer_addr[p], payee_addr[p], n)
  OBVIOUS
<1>2. PICK x : x = ChildToward(n, payer_addr[p])
  OBVIOUS
<1>3. PICK y : y = ChildToward(n, payee_addr[p])
  OBVIOUS
<1>4. PICK first : first = IF role \in {"Ascend", "Descend"} THEN Parent ELSE x
  OBVIOUS
<1>5. PICK second : second = IF role = "Ascend" THEN x ELSE y
  OBVIOUS
<1>6. derive_hop(n, p) = [role |-> role, first |-> first, second |-> second]
  BY <1>1, <1>2, <1>3, <1>4, <1>5 DEF derive_hop
<1>7. Postings[p][n] = hop_postings(role, first, second, amount[p])
  BY <1>6 DEF Postings
<1>8. PICK d : d = hop_postings(role, first, second, amount[p])
  OBVIOUS
<1>9. DOMAIN d = {first, second}
  BY <1>8 DEF hop_postings
<1>10. \A a \in {first, second} :
         d[a] = IF role = "Descend" \/ (role # "Ascend" /\ a = second) THEN amount[p] ELSE 0 - amount[p]
  BY <1>8 DEF hop_postings
<1>11. Legs(d, role, x, y, amount[p])
  <2>1. CASE role = "Ascend"
    BY <1>4, <1>5, <1>9, <1>10, <2>1 DEF Legs
  <2>2. CASE role = "Descend"
    BY <1>4, <1>5, <1>9, <1>10, <2>2 DEF Legs
  <2>3. CASE role \notin {"Ascend", "Descend"}
    BY <1>4, <1>5, <1>9, <1>10, <2>3 DEF Legs
  <2>. QED
    BY <2>1, <2>2, <2>3
<1>. QED
  BY <1>1, <1>2, <1>3, <1>7, <1>8, <1>11

(* The two ends of an edge differ, and neither is the Parent account.      *)
LEMMA EdgeEnds ==
  ASSUME NEW c \in Edges
  PROVE  c \in Node /\ parent(c) \in Node /\ c # parent(c) /\ c # Parent
<1>1. c \in OctAddr /\ parent(c) \in OctAddr /\ ~is_root(c)
  BY OrderAssumption DEF Edges
<1>2. c \in Seq(Slot) /\ Len(c) \in Nat /\ c # << >>
  BY <1>1 DEF OctAddr, None
<1>3. Len(c) >= 2
  <2>1. Len(c) # 0
    BY <1>2, EmptySeq
  <2>2. Len(c) # 1
    BY <1>1, Zenon DEF is_root, depth
  <2>3. \A n \in Nat : n # 0 /\ n # 1 => n >= 2
    OBVIOUS
  <2>. QED
    BY <1>2, <2>1, <2>2, <2>3, Zenon
<1>4. Len(parent(c)) = Len(c) - 1
  BY <1>1, <1>3, ParentAddr DEF depth
<1>5. c # parent(c)
  BY <1>2, <1>4
<1>. QED
  BY <1>1, <1>2, <1>5 DEF Edges, Parent

(* A user's address is the child of its leaf toward itself.                *)
LEMMA LeafToward ==
  ASSUME NEW a \in OctAddr, parent(a) \in OctAddr
  PROVE  ChildToward(parent(a), a) = a /\ a # Parent
<1>1. a \in Seq(Slot) /\ Len(a) \in Nat /\ a # << >> /\ parent(a) # << >>
  BY DEF OctAddr, None
<1>2. ~is_root(a)
  BY <1>1 DEF parent, None
<1>3. Len(a) >= 2
  <2>1. Len(a) # 0
    BY <1>1, EmptySeq
  <2>2. Len(a) # 1
    BY <1>2, Zenon DEF is_root, depth
  <2>3. \A n \in Nat : n # 0 /\ n # 1 => n >= 2
    OBVIOUS
  <2>. QED
    BY <1>1, <2>1, <2>2, <2>3, Zenon
<1>4. PICK k \in Nat : k = Len(a) - 1
  BY <1>1, <1>3
<1>5. parent(a) = Prefix(a, k)
  BY <1>2, <1>4 DEF parent
<1>6. ChildToward(Prefix(a, k), a) = Prefix(a, k + 1)
  BY <1>1, <1>3, <1>4, PrefixSteps
<1>7. Prefix(a, k + 1) = a
  <2>1. k + 1 = Len(a)
    BY <1>1, <1>4
  <2>2. Prefix(a, Len(a)) = a
    BY <1>1 DEF Prefix
  <2>. QED
    BY <2>1, <2>2
<1>. QED
  BY <1>1, <1>5, <1>6, <1>7 DEF Parent

(* How the k-th hop of p meets an edge: at its lower end it posts to the   *)
(* Parent account just when the upper end signs too, next on the way up    *)
(* and before on the way down; at its upper end it posts to the child just *)
(* when that signs too.                                                    *)
EdgeAt(p, k, c, d) ==
  /\ Signers[p][k] = c =>
       \/ Parent \notin DOMAIN d /\ ~Crosses(p, c)
       \/ /\ Parent \in DOMAIN d /\ d[Parent] = 0 - amount[p]
          /\ k + 1 \in 1..Len(Signers[p]) /\ Signers[p][k + 1] = parent(c)
       \/ /\ Parent \in DOMAIN d /\ d[Parent] = amount[p]
          /\ k - 1 \in 1..Len(Signers[p]) /\ Signers[p][k - 1] = parent(c)
  /\ Signers[p][k] = parent(c) =>
       \/ c \notin DOMAIN d /\ ~Crosses(p, c)
       \/ /\ c \in DOMAIN d /\ d[c] = 0 - amount[p]
          /\ k - 1 \in 1..Len(Signers[p]) /\ Signers[p][k - 1] = c
       \/ /\ c \in DOMAIN d /\ d[c] = amount[p]
          /\ k + 1 \in 1..Len(Signers[p]) /\ Signers[p][k + 1] = c

(* A payment within one leaf touches no edge: both ends are users.         *)
LEMMA DirectMeets ==
  ASSUME NEW p \in Pay, SameLeaf(p), NEW k \in 1..Len(Signers[p]),
         payer_addr[p] \notin Node, payee_addr[p] \notin Node, NEW c \in Edges
  PROVE  EdgeAt(p, k, c, Postings[p][Signers[p][k]])
<1>1. PICK d : d = Postings[p][Origin(p)]
  OBVIOUS
<1>2. Signers[p] = <<Origin(p)>> /\ Origin(p) \in Node
  BY SignersSimple
<1>3. k = 1 /\ Len(Signers[p]) = 1 /\ Signers[p][k] = Origin(p)
  BY <1>2
<1>4. SignerSet(p) = {Origin(p)}
  BY <1>2 DEF SignerSet
<1>5. /\ payer_addr[p] \in OctAddr /\ payee_addr[p] \in OctAddr
      /\ parent(payer_addr[p]) = Origin(p) /\ parent(payee_addr[p]) = Origin(p) /\ Origin(p) \in OctAddr
  BY <1>2, OrderAssumption DEF SameLeaf, Origin
<1>6. classify_hop(payer_addr[p], payee_addr[p], Origin(p)) = "Direct"
  BY <1>5 DEF classify_hop
<1>7. /\ ChildToward(Origin(p), payer_addr[p]) = payer_addr[p] /\ payer_addr[p] # Parent
      /\ ChildToward(Origin(p), payee_addr[p]) = payee_addr[p] /\ payee_addr[p] # Parent
  <2>1. ChildToward(parent(payer_addr[p]), payer_addr[p]) = payer_addr[p] /\ payer_addr[p] # Parent
    BY <1>5, LeafToward
  <2>2. ChildToward(parent(payee_addr[p]), payee_addr[p]) = payee_addr[p] /\ payee_addr[p] # Parent
    BY <1>5, LeafToward
  <2>. QED
    BY <1>5, <2>1, <2>2, Zenon
<1>8. DOMAIN d = {payer_addr[p], payee_addr[p]}
  <2>1. Origin(p) \in SignerSet(p)
    BY <1>4
  <2>2. Legs(d, "Direct", payer_addr[p], payee_addr[p], amount[p])
    BY <1>1, <1>6, <1>7, <2>1, HopLegs
  <2>. QED
    BY <2>2 DEF Legs
<1>9. c \in Node /\ c # parent(c)
  BY EdgeEnds
<1>10. Parent \notin DOMAIN d /\ c \notin DOMAIN d /\ ~Crosses(p, c)
  BY <1>4, <1>7, <1>8, <1>9 DEF Crosses
<1>. QED
  BY <1>1, <1>3, <1>10 DEF EdgeAt

(* A hop of a cascade meets an edge only together with its other end.      *)
LEMMA CascadeMeets ==
  ASSUME NEW p \in Pay, ~SameLeaf(p), Signers[p] # None, NEW k \in 1..Len(Signers[p]),
         k = 1 => payer_addr[p] \notin Node, k = Len(Signers[p]) => payee_addr[p] \notin Node,
         NEW c \in Edges
  PROVE  EdgeAt(p, k, c, Postings[p][Signers[p][k]])
<1>1. PICK r : r = Signers[p]
  OBVIOUS
<1>2. PICK L \in Nat : L = Len(r)
  BY <1>1, SignersSimple
<1>3. PICK d : d = Postings[p][r[k]]
  OBVIOUS
<1>4. PICK src \in OctAddr : src = payer_addr[p]
  BY OrderAssumption
<1>5. PICK dst \in OctAddr : dst = payee_addr[p]
  BY OrderAssumption
<1>6. r = route_signers(src, dst)
  BY <1>1, <1>4, <1>5 DEF Signers
<1>7. PICK u \in Nat : Turns(src, dst, r, u)
  BY <1>1, <1>6, RouteTurns
<1>8. \A i, j \in 1..L : r[i] = r[j] => i = j
  BY <1>1, <1>2, SignersSimple
<1>9. k \in 1..L /\ u \in 2..(L - 1)
  BY <1>1, <1>2, <1>7 DEF Turns
<1>10. SignerSet(p) = { r[i] : i \in 1..L }
  BY <1>1, <1>2 DEF SignerSet
<1>11. PICK role : role = classify_hop(src, dst, r[k])
  OBVIOUS
<1>12. PICK x : x = ChildToward(r[k], src)
  OBVIOUS
<1>13. PICK y : y = ChildToward(r[k], dst)
  OBVIOUS
<1>14. PICK m : m = amount[p]
  OBVIOUS
<1>15. Legs(d, role, x, y, m)
  <2>1. r[k] \in SignerSet(p)
    BY <1>9, <1>10
  <2>. QED
    BY <1>3, <1>4, <1>5, <1>11, <1>12, <1>13, <1>14, <2>1, HopLegs
<1>16. /\ k < u => role = "Ascend" /\ parent(r[k]) = r[k + 1]
       /\ k = u => role = "Lca" /\ \A j \in 1..L : parent(r[k]) # r[j]
       /\ k > u => role = "Descend" /\ parent(r[k]) = r[k - 1]
       /\ k <= u => x = IF k = 1 THEN src ELSE r[k - 1]
       /\ k >= u => y = IF k = L THEN dst ELSE r[k + 1]
  BY <1>2, <1>7, <1>9, <1>11, <1>12, <1>13 DEF Turns
<1>17. c \in Node /\ c # parent(c) /\ c # Parent
  BY EdgeEnds
<1>18. x # Parent /\ y # Parent
  <2>1. \A a, s : Append(a, s) # << >>
    OBVIOUS
  <2>. QED
    BY <1>12, <1>13, <2>1 DEF ChildToward, child, Parent
<1>19. ASSUME r[k] = c
       PROVE  \/ Parent \notin DOMAIN d /\ ~Crosses(p, c)
              \/ /\ Parent \in DOMAIN d /\ d[Parent] = 0 - m
                 /\ k + 1 \in 1..L /\ r[k + 1] = parent(c)
              \/ /\ Parent \in DOMAIN d /\ d[Parent] = m
                 /\ k - 1 \in 1..L /\ r[k - 1] = parent(c)
  <2>1. CASE k < u
    <3>1. k + 1 \in 1..L
      BY <1>9, <2>1
    <3>2. Parent \in DOMAIN d /\ d[Parent] = 0 - m
      BY <1>15, <1>16, <2>1 DEF Legs
    <3>. QED
      BY <1>16, <1>19, <2>1, <3>1, <3>2
  <2>2. CASE k > u
    <3>1. k - 1 \in 1..L
      BY <1>9, <2>2
    <3>2. Parent \in DOMAIN d /\ d[Parent] = m
      BY <1>15, <1>16, <2>2 DEF Legs
    <3>. QED
      BY <1>16, <1>19, <2>2, <3>1, <3>2
  <2>3. CASE k = u
    <3>1. DOMAIN d = {x, y}
      BY <1>15, <1>16, <2>3 DEF Legs
    <3>2. \A j \in 1..L : parent(c) # r[j]
      BY <1>16, <1>19, <2>3
    <3>3. ~Crosses(p, c)
      BY <1>10, <3>2 DEF Crosses
    <3>. QED
      BY <1>18, <3>1, <3>3
  <2>. QED
    BY <1>9, <2>1, <2>2, <2>3
<1>20. ASSUME r[k] = parent(c)
       PROVE  \/ c \notin DOMAIN d /\ ~Crosses(p, c)
              \/ /\ c \in DOMAIN d /\ d[c] = 0 - m
                 /\ k - 1 \in 1..L /\ r[k - 1] = c
              \/ /\ c \in DOMAIN d /\ d[c] = m
                 /\ k + 1 \in 1..L /\ r[k + 1] = c
  <2>1. k <= u /\ c = x => k - 1 \in 1..L /\ r[k - 1] = c
    <3>. SUFFICES ASSUME k <= u, c = x PROVE k - 1 \in 1..L /\ r[k - 1] = c
      OBVIOUS
    <3>1. k # 1
      BY <1>4, <1>16, <1>17
    <3>. QED
      BY <1>9, <1>16, <3>1
  <2>2. k >= u /\ c = y => k + 1 \in 1..L /\ r[k + 1] = c
    <3>. SUFFICES ASSUME k >= u, c = y PROVE k + 1 \in 1..L /\ r[k + 1] = c
      OBVIOUS
    <3>1. k # L
      BY <1>1, <1>2, <1>5, <1>16, <1>17
    <3>. QED
      BY <1>9, <1>16, <3>1
  <2>3. ASSUME Crosses(p, c)
        PROVE  (k <= u /\ c = x) \/ (k >= u /\ c = y)
    <3>1. PICK j \in 1..L : c = r[j]
      BY <1>10, <2>3 DEF Crosses
    <3>2. CASE j < u
      <4>1. parent(r[j]) = r[j + 1] /\ j + 1 \in 1..L
        BY <1>2, <1>7, <1>9, <3>2 DEF Turns
      <4>2. k = j + 1
        BY <1>8, <1>9, <1>20, <3>1, <4>1
      <4>3. k <= u /\ k # 1 /\ k - 1 = j
        BY <1>9, <3>2, <4>2
      <4>. QED
        BY <1>16, <3>1, <4>3
    <3>3. CASE j > u
      <4>1. parent(r[j]) = r[j - 1] /\ j - 1 \in 1..L
        BY <1>2, <1>7, <1>9, <3>3 DEF Turns
      <4>2. k = j - 1
        BY <1>8, <1>9, <1>20, <3>1, <4>1
      <4>3. k >= u /\ k # L /\ k + 1 = j
        BY <1>9, <3>3, <4>2
      <4>. QED
        BY <1>16, <3>1, <4>3
    <3>4. CASE j = u
      <4>1. \A i \in 1..L : parent(r[j]) # r[i]
        BY <1>2, <1>7, <1>9, <3>4 DEF Turns
      <4>. QED
        BY <1>9, <1>20, <3>1, <4>1
    <3>. QED
      BY <1>9, <3>2, <3>3, <3>4
  <2>4. CASE k < u
    <3>1. DOMAIN d = {Parent, x} /\ \A a \in DOMAIN d : d[a] = 0 - m
      BY <1>15, <1>16, <2>4 DEF Legs
    <3>2. CASE c = x
      BY <1>9, <2>1, <2>4, <3>1, <3>2
    <3>3. CASE c # x
      BY <1>9, <1>17, <2>3, <2>4, <3>1, <3>3
    <3>. QED
      BY <3>2, <3>3
  <2>5. CASE k > u
    <3>1. DOMAIN d = {Parent, y} /\ \A a \in DOMAIN d : d[a] = m
      BY <1>15, <1>16, <2>5 DEF Legs
    <3>2. CASE c = y
      BY <1>9, <2>2, <2>5, <3>1, <3>2
    <3>3. CASE c # y
      BY <1>9, <1>17, <2>3, <2>5, <3>1, <3>3
    <3>. QED
      BY <3>2, <3>3
  <2>6. CASE k = u
    <3>1. DOMAIN d = {x, y} /\ \A a \in DOMAIN d : d[a] = IF a = y THEN m ELSE 0 - m
      BY <1>15, <1>16, <2>6 DEF Legs
    <3>2. CASE c = y
      BY <1>9, <2>2, <2>6, <3>1, <3>2
    <3>3. CASE c = x /\ c # y
      BY <1>9, <2>1, <2>6, <3>1, <3>3
    <3>4. CASE c # x /\ c # y
      BY <2>3, <3>1, <3>4
    <3>. QED
      BY <3>2, <3>3, <3>4
  <2>. QED
    BY <1>9, <2>4, <2>5, <2>6
<1>. QED
  BY <1>1, <1>2, <1>3, <1>14, <1>19, <1>20 DEF EdgeAt

-----------------------------------------------------------------------------
(***************************************************************************)
(* The edges reconcile. A step that changes a ledger applies the k-th hop  *)
(* of one payment, for the first time, after all the hops before it.       *)
(***************************************************************************)
LedgerHop(p, k) ==
  LET n == Signers[p][k]
  IN  /\ Signers[p] # None /\ n \in Node /\ p \notin consumed[n]
      /\ CanApply(bal[n], Postings[p][n])
      /\ \A i \in 1..(k - 1) : AppliedAt(p, i)
      /\ k = 1 => payer_addr[p] \notin Node
      /\ k = Len(Signers[p]) => payee_addr[p] \notin Node
      /\ AppendHop(n, p)

(* What apply_hop has checked when it appends.                             *)
LEMMA AppliedFresh ==
  ASSUME NEW n, NEW p, NEW contended \in BOOLEAN, HopOutcome(n, p, contended) = "Applied"
  PROVE  p \notin consumed[n] /\ CanApply(bal[n], Postings[p][n])
BY DEF HopOutcome, Appends

(* Every step leaves the ledgers alone or applies such a hop.              *)
LEMMA LedgerSteps ==
  ASSUME TypeOK, CascadeInv, [Next]_vars
  PROVE  UNCHANGED node_vars \/ \E p \in Pay : \E k \in 1..Len(Signers[p]) : LedgerHop(p, k)
<1>1. CASE UNCHANGED vars
  BY <1>1 DEF vars
<1>2. ASSUME NEW p \in Pay, SendOrder(p) \/ ResendOrder(p) \/ RefuseOrder(p) \/ SweepExpired(p) \/ Expire(p)
      PROVE  UNCHANGED node_vars
  BY <1>2 DEF SendOrder, ResendOrder, RefuseOrder, SweepExpired, Expire
<1>3. ASSUME NEW p \in Pay, NEW contended \in BOOLEAN, AnswerOrder(p, contended)
      PROVE  UNCHANGED node_vars
  BY <1>3 DEF AnswerOrder
<1>4. ASSUME NEW p \in Pay, NEW i, NEW contended \in BOOLEAN, RefuseForward(p, i, contended)
      PROVE  UNCHANGED node_vars
  BY <1>4 DEF RefuseForward
<1>5. ASSUME NEW m \in net,
             IgnoreResult(m) \/ (\E verified \in BOOLEAN : HandleResult(m, verified)) \/ ApplyReply(m) \/ Lose(m)
      PROVE  UNCHANGED node_vars
  BY <1>5 DEF IgnoreResult, HandleResult, ApplyReply, Lose
<1>6. ASSUME (\E n \in Origins : Restart(n)) \/ (\E c \in attached : Detach(c))
      PROVE  UNCHANGED node_vars
  BY <1>6 DEF Restart, Detach
<1>7. ASSUME NEW p \in Pay, NEW contended \in BOOLEAN, NEW proven \in BOOLEAN,
             ApplySameLeafOrder(p, contended, proven)
      PROVE  UNCHANGED node_vars \/ \E k \in 1..Len(Signers[p]) : LedgerHop(p, k)
  <2>1. SameLeaf(p) /\ payee_addr[p] \notin Node /\ payer_addr[p] \notin Node
    BY <1>7 DEF ApplySameLeafOrder, PayeeIsLocal, OrderRefused, UserChildren
  <2>2. Signers[p] = <<Origin(p)>> /\ Origin(p) \in Node
    BY <2>1, SignersSimple
  <2>3. Signers[p] # None /\ Len(Signers[p]) = 1 /\ Signers[p][1] = Origin(p)
    BY <2>2 DEF None
  <2>4. CASE HopOutcome(Origin(p), p, contended) = "Applied"
    <3>1. AppendHop(Origin(p), p)
      BY <1>7, <2>4 DEF ApplySameLeafOrder
    <3>2. LedgerHop(p, 1)
      BY <2>1, <2>2, <2>3, <2>4, <3>1, AppliedFresh DEF LedgerHop
    <3>. QED
      BY <2>3, <3>2
  <2>5. CASE HopOutcome(Origin(p), p, contended) # "Applied"
    BY <1>7, <2>5 DEF ApplySameLeafOrder
  <2>. QED
    BY <2>4, <2>5
<1>8. ASSUME NEW p \in Pay, NEW contended \in BOOLEAN, ReserveOrder(p, contended)
      PROVE  \E k \in 1..Len(Signers[p]) : LedgerHop(p, k)
  <2>1. payer_addr[p] \notin Node /\ ~SameLeaf(p) /\ Signers[p] # None
    BY <1>8 DEF ReserveOrder, OrderRefused, CascadeRoutes, UserChildren
  <2>2. PICK L \in Nat : L = Len(Signers[p])
    BY SignersSimple
  <2>3. Signers[p][1] = Origin(p) /\ Origin(p) \in Node /\ L > 1
    BY <2>1, <2>2, SignersSimple
  <2>4. AppendHop(Origin(p), p) /\ HopOutcome(Origin(p), p, contended) = "Applied"
    BY <1>8 DEF ReserveOrder
  <2>5. 1 # Len(Signers[p]) /\ \A i \in 1..(1 - 1) : AppliedAt(p, i)
    <3>1. L # 1 /\ \A i \in 1..(1 - 1) : FALSE
      BY <2>3
    <3>. QED
      BY <2>2, <3>1, Zenon
  <2>6. /\ p \notin consumed[Origin(p)] /\ CanApply(bal[Origin(p)], Postings[p][Origin(p)])
    BY <2>4, AppliedFresh
  <2>7. LedgerHop(p, 1)
    BY <2>1, <2>3, <2>4, <2>5, <2>6 DEF LedgerHop
  <2>. QED
    BY <2>2, <2>3, <2>7
<1>9. ASSUME NEW p \in Pay, NEW i \in 1..(Len(Signers[p]) - 1), NEW contended \in BOOLEAN,
             NEW proven \in BOOLEAN, ApplyForward(p, i, contended, proven)
      PROVE  UNCHANGED node_vars \/ \E k \in 1..Len(Signers[p]) : LedgerHop(p, k)
  <2>1. PICK k : k = i + 1
    OBVIOUS
  <2>2. /\ i \in Nat /\ k \in 1..Len(Signers[p]) /\ k - 1 = i /\ k # 1 /\ Signers[p] # None
    BY <2>1, SignersSimple DEF None
  <2>3. Truthful(Forward(p, i)) /\ Signers[p][k] \in Node
    BY <1>9, <2>1, CascadeParts DEF ApplyForward, ReceivesForward
  <2>4. \A j \in 1..(k - 1) : AppliedAt(p, j)
    BY <2>2, <2>3 DEF Truthful, Forward
  <2>5. k = Len(Signers[p]) => payee_addr[p] \notin Node
    BY <1>9, <2>1 DEF ApplyForward, ForwardRejects, PayeeLeaf, UserChildren
  <2>6. CASE HopOutcome(Signers[p][k], p, contended) = "Applied"
    <3>1. AppendHop(Signers[p][k], p)
      BY <1>9, <2>1, <2>6 DEF ApplyForward
    <3>2. LedgerHop(p, k)
      BY <2>2, <2>3, <2>4, <2>5, <2>6, <3>1, AppliedFresh DEF LedgerHop
    <3>. QED
      BY <2>2, <3>2
  <2>7. CASE HopOutcome(Signers[p][k], p, contended) # "Applied"
    BY <1>9, <2>1, <2>7 DEF ApplyForward
  <2>. QED
    BY <2>6, <2>7
<1>. QED
  BY <1>1, <1>2, <1>3, <1>4, <1>5, <1>6, <1>7, <1>8, <1>9, BoundAssumption
  DEF Next, HandleOrder, HandleForward

(* However a hop is reached, it meets an edge as EdgeAt says.              *)
LEMMA HopMeets ==
  ASSUME NEW p \in Pay, NEW k \in 1..Len(Signers[p]), LedgerHop(p, k), NEW c \in Edges
  PROVE  EdgeAt(p, k, c, Postings[p][Signers[p][k]])
<1>1. /\ Signers[p] # None
      /\ k = 1 => payer_addr[p] \notin Node
      /\ k = Len(Signers[p]) => payee_addr[p] \notin Node
  BY DEF LedgerHop
<1>2. CASE SameLeaf(p)
  <2>0. Signers[p] = <<Origin(p)>>
    BY <1>2, SignersSimple
  <2>1. Len(Signers[p]) = 1
    BY <2>0
  <2>2. payer_addr[p] \notin Node /\ payee_addr[p] \notin Node
    BY <1>1, <2>1
  <2>. QED
    BY <1>2, <2>2, DirectMeets
<1>3. CASE ~SameLeaf(p)
  BY <1>1, <1>3, CascadeMeets
<1>. QED
  BY <1>2, <1>3

(* By how much the account of c at its parent exceeds what c claims there. *)
Gap(c) == bal[parent(c)][c] - bal[c][Parent]

(* What the hop of p does to the edge of c: nothing, or p becomes half     *)
(* applied, or it stops to be.                                             *)
EdgeMoves(p, c) ==
  \/ HalfApplied(c)' = HalfApplied(c) /\ Gap(c)' = Gap(c)
  \/ /\ p \notin HalfApplied(c) /\ HalfApplied(c)' = HalfApplied(c) \cup {p}
     /\ Gap(c)' = Gap(c) + amount[p]
  \/ /\ p \in HalfApplied(c) /\ HalfApplied(c)' = HalfApplied(c) \ {p}
     /\ Gap(c)' = Gap(c) - amount[p]

(* The two accounts of an edge are open and hold amounts.                  *)
LEMMA EdgeAccounts ==
  ASSUME TypeOK, NEW c \in Edges
  PROVE  /\ c \in DOMAIN bal[parent(c)] /\ bal[parent(c)][c] \in Int
         /\ Parent \in DOMAIN bal[c] /\ bal[c][Parent] \in Int
<1>1. c \in Node /\ parent(c) \in Node
  BY EdgeEnds
<1>2. Parent \in DOMAIN Funds[c] /\ c \in DOMAIN Funds[parent(c)]
  BY <1>1, BoundAssumption DEF Edges
<1>. QED
  BY <1>1, <1>2, WidthAssumption DEF TypeOK, Amount

(* Where on the edge a hop is applied decides how its books move: before   *)
(* the other end has applied the payment they part, after it they meet.    *)
LEMMA HopMoves ==
  ASSUME TypeOK, PrefixApplied, NEW p \in Pay, NEW k \in 1..Len(Signers[p]), LedgerHop(p, k),
         NEW c \in Edges
  PROVE  EdgeMoves(p, c)
<1>1. PICK n : n = Signers[p][k]
  OBVIOUS
<1>2. PICK d : d = Postings[p][n]
  OBVIOUS
<1>3. PICK u : u = parent(c)
  OBVIOUS
<1>4. PICK m \in Int : m = amount[p]
  BY OrderAssumption, WidthAssumption DEF Amount
<1>5. PICK A \in Int : A = bal[u][c]
  BY <1>3, EdgeAccounts
<1>6. PICK B \in Int : B = bal[c][Parent]
  BY EdgeAccounts
<1>7. c \in Node /\ u \in Node /\ c # u /\ c \in DOMAIN bal[u] /\ Parent \in DOMAIN bal[c]
  BY <1>3, EdgeEnds, EdgeAccounts
<1>8. n \in Node /\ p \notin consumed[n] /\ \A i \in 1..(k - 1) : AppliedAt(p, i)
  BY <1>1 DEF LedgerHop
<1>9. /\ consumed \in [Node -> SUBSET Pay]
      /\ consumed' = [consumed EXCEPT ![n] = consumed[n] \cup {p}]
  BY <1>1 DEF LedgerHop, AppendHop, TypeOK
<1>10. DOMAIN bal = Node /\ bal' = [bal EXCEPT ![n] = apply_deltas(bal[n], d)]
  BY <1>1, <1>2 DEF LedgerHop, AppendHop, TypeOK
<1>11. EdgeAt(p, k, c, d)
  BY <1>1, <1>2, HopMeets
<1>12. PICK L \in Nat : L = Len(Signers[p])
  BY SignersSimple
<1>13. ~AppliedAt(p, k) /\ k \in 1..L
  BY <1>1, <1>8, <1>12 DEF AppliedAt
<1>14. k + 1 \in 1..L => p \notin consumed[Signers[p][k + 1]] \/ Signers[p][k + 1] \notin Node
  <2>1. k + 1 \in 1..L => ~AppliedAt(p, k + 1)
    BY <1>12, <1>13 DEF PrefixApplied
  <2>. QED
    BY <2>1 DEF AppliedAt
<1>15. k - 1 \in 1..L => p \in consumed[Signers[p][k - 1]]
  <2>1. k - 1 \in 1..L => AppliedAt(p, k - 1)
    BY <1>8, <1>12, <1>13
  <2>. QED
    BY <2>1 DEF AppliedAt
<1>16. \A q : q \in HalfApplied(c) <=>
         q \in Pay /\ Crosses(q, c) /\ ((q \in consumed[c]) # (q \in consumed[u]))
  BY <1>3 DEF HalfApplied
<1>17. \A q : q \in HalfApplied(c)' <=>
         q \in Pay /\ Crosses(q, c) /\ ((q \in consumed'[c]) # (q \in consumed'[u]))
  BY <1>3 DEF HalfApplied, Crosses, SignerSet
<1>18. \A i, j \in 1..L : Signers[p][i] = c /\ Signers[p][j] = u => Crosses(p, c)
  BY <1>3, <1>12 DEF Crosses, SignerSet
<1>19. Gap(c) = A - B /\ Gap(c)' = bal'[u][c] - bal'[c][Parent]
  BY <1>3, <1>5, <1>6 DEF Gap
<1>20. CASE n = c
  <2>1. /\ consumed'[c] = consumed[c] \cup {p} /\ consumed'[u] = consumed[u]
        /\ p \notin consumed[c]
    BY <1>7, <1>8, <1>9, <1>20
  <2>2. /\ bal'[u][c] = A
        /\ bal'[c][Parent] = IF Parent \in DOMAIN d THEN B + d[Parent] ELSE B
    BY <1>5, <1>6, <1>7, <1>10, <1>20 DEF apply_deltas
  <2>3. \/ Parent \notin DOMAIN d /\ ~Crosses(p, c)
        \/ /\ Parent \in DOMAIN d /\ d[Parent] = 0 - m
           /\ k + 1 \in 1..L /\ Signers[p][k + 1] = u
        \/ /\ Parent \in DOMAIN d /\ d[Parent] = m
           /\ k - 1 \in 1..L /\ Signers[p][k - 1] = u
    BY <1>1, <1>3, <1>4, <1>11, <1>12, <1>20 DEF EdgeAt
  <2>4. CASE Parent \notin DOMAIN d /\ ~Crosses(p, c)
    <3>0. p \notin HalfApplied(c)' /\ p \notin HalfApplied(c)
      BY <1>16, <1>17, <2>4
    <3>1. HalfApplied(c)' = HalfApplied(c)
      <4>1. ASSUME NEW q
            PROVE  q \in HalfApplied(c)' <=> q \in HalfApplied(c)
        BY <1>16, <1>17, <2>1, <3>0
      <4>. QED
        BY <4>1
    <3>. QED
      BY <1>19, <2>2, <2>4, <3>1 DEF EdgeMoves
  <2>5. CASE /\ Parent \in DOMAIN d /\ d[Parent] = 0 - m
             /\ k + 1 \in 1..L /\ Signers[p][k + 1] = u
    <3>1. p \notin consumed[u] /\ Crosses(p, c)
      BY <1>1, <1>7, <1>13, <1>14, <1>18, <1>20, <2>5
    <3>2. p \notin HalfApplied(c) /\ HalfApplied(c)' = HalfApplied(c) \cup {p}
      BY <1>16, <1>17, <2>1, <3>1
    <3>3. Gap(c)' = Gap(c) + m
      BY <1>19, <2>2, <2>5
    <3>. QED
      BY <1>4, <3>2, <3>3 DEF EdgeMoves
  <2>6. CASE /\ Parent \in DOMAIN d /\ d[Parent] = m
             /\ k - 1 \in 1..L /\ Signers[p][k - 1] = u
    <3>1. p \in consumed[u] /\ Crosses(p, c)
      BY <1>1, <1>7, <1>13, <1>15, <1>18, <1>20, <2>6
    <3>2. p \in HalfApplied(c) /\ HalfApplied(c)' = HalfApplied(c) \ {p}
      BY <1>16, <1>17, <2>1, <3>1
    <3>3. Gap(c)' = Gap(c) - m
      BY <1>19, <2>2, <2>6
    <3>. QED
      BY <1>4, <3>2, <3>3 DEF EdgeMoves
  <2>. QED
    BY <2>3, <2>4, <2>5, <2>6
<1>21. CASE n = u
  <2>1. /\ consumed'[u] = consumed[u] \cup {p} /\ consumed'[c] = consumed[c]
        /\ p \notin consumed[u]
    BY <1>7, <1>8, <1>9, <1>21
  <2>2. /\ bal'[c][Parent] = B
        /\ bal'[u][c] = IF c \in DOMAIN d THEN A + d[c] ELSE A
    BY <1>5, <1>6, <1>7, <1>10, <1>21 DEF apply_deltas
  <2>3. \/ c \notin DOMAIN d /\ ~Crosses(p, c)
        \/ /\ c \in DOMAIN d /\ d[c] = 0 - m
           /\ k - 1 \in 1..L /\ Signers[p][k - 1] = c
        \/ /\ c \in DOMAIN d /\ d[c] = m
           /\ k + 1 \in 1..L /\ Signers[p][k + 1] = c
    BY <1>1, <1>3, <1>4, <1>11, <1>12, <1>21 DEF EdgeAt
  <2>4. CASE c \notin DOMAIN d /\ ~Crosses(p, c)
    <3>0. p \notin HalfApplied(c)' /\ p \notin HalfApplied(c)
      BY <1>16, <1>17, <2>4
    <3>1. HalfApplied(c)' = HalfApplied(c)
      <4>1. ASSUME NEW q
            PROVE  q \in HalfApplied(c)' <=> q \in HalfApplied(c)
        BY <1>16, <1>17, <2>1, <3>0
      <4>. QED
        BY <4>1
    <3>. QED
      BY <1>19, <2>2, <2>4, <3>1 DEF EdgeMoves
  <2>5. CASE /\ c \in DOMAIN d /\ d[c] = 0 - m
             /\ k - 1 \in 1..L /\ Signers[p][k - 1] = c
    <3>1. p \in consumed[c] /\ Crosses(p, c)
      BY <1>1, <1>7, <1>13, <1>15, <1>18, <1>21, <2>5
    <3>2. p \in HalfApplied(c) /\ HalfApplied(c)' = HalfApplied(c) \ {p}
      BY <1>16, <1>17, <2>1, <3>1
    <3>3. Gap(c)' = Gap(c) - m
      BY <1>19, <2>2, <2>5
    <3>. QED
      BY <1>4, <3>2, <3>3 DEF EdgeMoves
  <2>6. CASE /\ c \in DOMAIN d /\ d[c] = m
             /\ k + 1 \in 1..L /\ Signers[p][k + 1] = c
    <3>1. p \notin consumed[c] /\ Crosses(p, c)
      BY <1>1, <1>7, <1>13, <1>14, <1>18, <1>21, <2>6
    <3>2. p \notin HalfApplied(c) /\ HalfApplied(c)' = HalfApplied(c) \cup {p}
      BY <1>16, <1>17, <2>1, <3>1
    <3>3. Gap(c)' = Gap(c) + m
      BY <1>19, <2>2, <2>6
    <3>. QED
      BY <1>4, <3>2, <3>3 DEF EdgeMoves
  <2>. QED
    BY <2>3, <2>4, <2>5, <2>6
<1>22. CASE n # c /\ n # u
  <2>1. /\ consumed'[u] = consumed[u] /\ consumed'[c] = consumed[c]
        /\ bal'[c] = bal[c] /\ bal'[u] = bal[u]
    BY <1>7, <1>9, <1>10, <1>22
  <2>2. HalfApplied(c)' = HalfApplied(c)
    BY <1>16, <1>17, <2>1
  <2>. QED
    BY <1>5, <1>6, <1>19, <2>1, <2>2 DEF EdgeMoves
<1>. QED
  BY <1>20, <1>21, <1>22

(* Every ledger is finite: a hop adds one payment.                         *)
LedgersFinite == \A n \in Node : IsFiniteSet(consumed[n])

(* The edges reconcile after a step if they did before it.                 *)
LEMMA EdgesStep ==
  ASSUME TypeOK, CascadeInv, LedgersFinite, EdgesReconcile, [Next]_vars
  PROVE  LedgersFinite' /\ EdgesReconcile'
<1>1. CASE UNCHANGED node_vars
  BY <1>1 DEF node_vars, LedgersFinite, EdgesReconcile, HalfApplied
<1>2. ASSUME NEW p \in Pay, NEW k \in 1..Len(Signers[p]), LedgerHop(p, k)
      PROVE  LedgersFinite' /\ EdgesReconcile'
  <2>1. LedgersFinite'
    <3>1. PICK n \in Node : consumed' = [consumed EXCEPT ![n] = consumed[n] \cup {p}]
      BY <1>2 DEF LedgerHop, AppendHop
    <3>2. IsFiniteSet(consumed[n] \cup {p})
      BY FS_AddElement DEF LedgersFinite
    <3>. QED
      BY <3>1, <3>2 DEF LedgersFinite, TypeOK
  <2>2. ASSUME NEW c \in Edges
        PROVE  Gap(c)' = Funds[parent(c)][c] - Funds[c][Parent] + SumOver(amount, HalfApplied(c)')
    <3>1. EdgeMoves(p, c)
      BY <1>2, CascadeParts, HopMoves
    <3>2. PICK H : H = HalfApplied(c)
      OBVIOUS
    <3>3. PICK H2 : H2 = HalfApplied(c)'
      OBVIOUS
    <3>4. Terms(amount, H)
      <4>1. H \subseteq consumed[c] \cup consumed[parent(c)]
        BY <3>2 DEF HalfApplied
      <4>2. IsFiniteSet(consumed[c] \cup consumed[parent(c)])
        BY EdgeEnds, FS_Union DEF LedgersFinite
      <4>3. IsFiniteSet(H)
        BY <4>1, <4>2, FS_Subset
      <4>4. \A q \in H : amount[q] \in Int
        BY <3>2, OrderAssumption, WidthAssumption DEF HalfApplied, Amount
      <4>. QED
        BY <4>3, <4>4 DEF Terms
    <3>5. PICK s \in Int : s = SumOver(amount, H)
      BY <3>4, SumAny DEF Sums
    <3>6. PICK m \in Int : m = amount[p]
      BY OrderAssumption, WidthAssumption DEF Amount
    <3>7. PICK e \in Int : e = Funds[parent(c)][c] - Funds[c][Parent]
      <4>1. Funds[parent(c)][c] \in Int /\ Funds[c][Parent] \in Int
        BY EdgeEnds, BoundAssumption, WidthAssumption DEF Edges, Amount
      <4>. QED
        BY <4>1
    <3>8. PICK g \in Int : g = Gap(c)
      BY EdgeAccounts DEF Gap
    <3>9. g = e + s
      BY <3>2, <3>5, <3>7, <3>8 DEF EdgesReconcile, Gap
    <3>10. CASE H2 = H /\ Gap(c)' = g
      BY <3>3, <3>5, <3>7, <3>9, <3>10
    <3>11. CASE p \notin H /\ H2 = H \cup {p} /\ Gap(c)' = g + m
      <4>1. SumOver(amount, H2) = s + m
        BY <3>4, <3>5, <3>6, <3>11, SumAdd
      <4>. QED
        BY <3>3, <3>7, <3>9, <3>11, <4>1
    <3>12. CASE p \in H /\ H2 = H \ {p} /\ Gap(c)' = g - m
      <4>1. SumOver(amount, H2) = s - m
        BY <3>4, <3>5, <3>6, <3>12, SumDrop
      <4>. QED
        BY <3>3, <3>7, <3>9, <3>12, <4>1
    <3>. QED
      BY <3>1, <3>2, <3>3, <3>6, <3>8, <3>10, <3>11, <3>12 DEF EdgeMoves
  <2>. QED
    BY <2>1, <2>2 DEF EdgesReconcile, Gap
<1>. QED
  BY <1>1, <1>2, LedgerSteps

(***************************************************************************)
(* The books of both sides of an edge, for every tree and every set of     *)
(* orders, differ by exactly the payments that one side has applied and    *)
(* the other has not (apply_hop at both ends of the edge): a parent never  *)
(* owes less than its child claims, whatever is lost, refused, repeated or *)
(* restarted on the way.                                                   *)
(***************************************************************************)
THEOREM EdgesBalance == Spec => []EdgesReconcile
<1>1. Init => LedgersFinite /\ EdgesReconcile
  <2>. SUFFICES ASSUME Init PROVE LedgersFinite /\ EdgesReconcile
    OBVIOUS
  <2>1. LedgersFinite
    BY FS_EmptySet DEF Init, LedgersFinite
  <2>2. ASSUME NEW c \in Edges
        PROVE  bal[parent(c)][c] - bal[c][Parent]
                 = Funds[parent(c)][c] - Funds[c][Parent] + SumOver(amount, HalfApplied(c))
    <3>1. HalfApplied(c) = {}
      BY EdgeEnds DEF Init, HalfApplied
    <3>2. Terms(amount, {}) 
      BY FS_EmptySet DEF Terms
    <3>3. SumOver(amount, HalfApplied(c)) = 0
      BY <3>1, <3>2, SumStart
    <3>4. Funds[parent(c)][c] \in Int /\ Funds[c][Parent] \in Int
      BY EdgeEnds, BoundAssumption, WidthAssumption DEF Edges, Amount
    <3>. QED
      BY <3>3, <3>4 DEF Init
  <2>. QED
    BY <2>1, <2>2 DEF EdgesReconcile
<1>2. IInv /\ (LedgersFinite /\ EdgesReconcile) /\ [Next]_vars => (LedgersFinite /\ EdgesReconcile)'
  BY EdgesStep DEF IInv
<1>. QED
  BY <1>1, <1>2, Invariance, PTL DEF Spec
=============================================================================
