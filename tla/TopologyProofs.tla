--------------------------- MODULE TopologyProofs ---------------------------
(***************************************************************************)
(* Proofs about the whole-tree view, for every finite set of ids. That a   *)
(* chain of parent links ends is not inductive in the form validate checks *)
(* it, a bounded walk: the invariant proved instead is that some rank of   *)
(* the nodes falls along every link. A walk of ever fewer ranks ends, and  *)
(* it never visits a node twice, so it ends within the bound.              *)
(***************************************************************************)
EXTENDS Topology, FiniteSetTheorems, SequenceTheorems, WellFoundedInduction, TLAPS

(* What a parent link may name.                                            *)
Ups(t) == DOMAIN t \cup {NoNode}

(* Every parent link of t names a node of t.                               *)
Closed(t) ==
  /\ NoNode \notin DOMAIN t
  /\ IsFiniteSet(DOMAIN t)
  /\ \A m \in DOMAIN t : t[m].parent \in Ups(t)

(* u lists n, its parent, and so on up.                                    *)
ChainOf(t, n, u) ==
  /\ u \in [Nat -> Ups(t)] /\ u[0] = n
  /\ \A k \in Nat : u[k + 1] = IF u[k] = NoNode THEN NoNode ELSE t[u[k]].parent

(* a is n or above n, however far.                                         *)
Reaches(t, n, a) == \E k \in Nat : Above(t, n)[k] = a

(* h falls along every parent link of t.                                   *)
Falls(t, h) ==
  /\ h \in [DOMAIN t -> Nat]
  /\ \A m \in DOMAIN t : t[m].parent # NoNode => h[t[m].parent] < h[m]

(***************************************************************************)
(* The inductive invariant, of a tree t: the records are well formed, the  *)
(* two ends of every link agree, no two children hold one slot, no slot is *)
(* taken by nobody, and some rank falls along every link.                  *)
(***************************************************************************)
Rec == [kind : Kind, parent : Id \cup {NoNode}, slot : Slot \cup {NoSlot}, children : SUBSET Slot]

Shaped(t) == root \in DOMAIN t /\ DOMAIN t \subseteq Id /\ t \in [DOMAIN t -> Rec]

Agreed(t) ==
  /\ t[root].parent = NoNode
  /\ \A n \in DOMAIN t :
       /\ t[n].kind = "User" => t[n].children = {}
       /\ (t[n].parent = NoNode) <=> (t[n].slot = NoSlot)
       /\ t[n].parent # NoNode =>
            /\ t[n].parent \in DOMAIN t
            /\ t[t[n].parent].kind = "Node"
            /\ t[n].slot \in t[t[n].parent].children

Single(t) ==
  \A c, d \in DOMAIN t :
    t[c].parent # NoNode /\ t[c].parent = t[d].parent /\ t[c].slot = t[d].slot => c = d

Filled(t) ==
  \A n \in DOMAIN t : \A s \in t[n].children :
    \E c \in DOMAIN t : t[c].parent = n /\ t[c].slot = s

Ranked(t) == \E h : Falls(t, h)

Sound(t) == Shaped(t) /\ Agreed(t) /\ Single(t) /\ Filled(t) /\ Ranked(t)

TreeInv == Sound(nodes)

(* f lists n and what g makes of it, again and again.                      *)
Orbit(S, g, n, f) == f \in [Nat -> S] /\ f[0] = n /\ \A k \in Nat : f[k + 1] = g[f[k]]

HasOrbit(S, g, n) == \E f : Orbit(S, g, n, f)

-----------------------------------------------------------------------------
(***************************************************************************)
(* Chains of parent links.                                                 *)
(***************************************************************************)
LEMMA LeastNat ==
  ASSUME NEW T \in SUBSET Nat, T # {}
  PROVE  \E x \in T : \A y \in T : x <= y
<1>1. \E x \in T : \A y \in T : ~(<<y, x>> \in OpToRel(<, Nat))
  BY NatLessThanWellFounded, WFMin, Zenon
<1>2. \E x \in T : \A y \in T : ~(y < x)
  BY <1>1, Zenon DEF OpToRel
<1>. QED
  BY <1>2

(* A set of naturals with 0 and with every successor is all of them.       *)
LEMMA AllNat ==
  ASSUME NEW T \in SUBSET Nat, 0 \in T, \A k \in T : k + 1 \in T
  PROVE  \A k \in Nat : k \in T
<1>. SUFFICES ASSUME NEW j \in Nat, j \notin T
              PROVE  FALSE
  OBVIOUS
<1>1. PICK x \in Nat \ T : \A y \in Nat \ T : x <= y
  BY LeastNat
<1>2. x # 0 /\ x - 1 \in Nat
  BY <1>1
<1>3. x - 1 \in T
  BY <1>1, <1>2
<1>. QED
  BY <1>1, <1>2, <1>3

(* A function can be applied to its own values again and again.            *)
LEMMA Iterates ==
  ASSUME NEW S, NEW g \in [S -> S], NEW n \in S
  PROVE  HasOrbit(S, g, n)
<1>. DEFINE Part(j) == { h \in [0..j -> S] : h[0] = n /\ \A i \in 0..j : i # j => h[i + 1] = g[h[i]] }
            T == { j \in Nat : Part(j) # {} }
            A == { i \in Nat : \A j, l \in Nat : i <= j /\ i <= l =>
                                 \A h \in Part(j), e \in Part(l) : h[i] = e[i] }
            f == [ j \in Nat |-> (CHOOSE h \in Part(j) : TRUE)[j] ]
<1>0. ASSUME NEW j \in Nat, NEW h \in Part(j)
      PROVE  /\ h \in [0..j -> S] /\ h[0] = n
             /\ \A i \in 0..j : i # j => h[i + 1] = g[h[i]]
  OBVIOUS
<1>1. \A j \in Nat : j \in T
  <2>1. 0 \in T
    <3>1. [ i \in 0..0 |-> n ] \in Part(0)
      OBVIOUS
    <3>. QED
      BY <3>1
  <2>2. ASSUME NEW j \in T
        PROVE  j + 1 \in T
    <3>1. PICK h : h \in Part(j)
      OBVIOUS
    <3>. DEFINE e == [ i \in 0..(j + 1) |-> IF i = j + 1 THEN g[h[j]] ELSE h[i] ]
    <3>2. e \in [0..(j + 1) -> S] /\ e[0] = n
      BY <3>1
    <3>3. \A i \in 0..(j + 1) : i # j + 1 => e[i + 1] = g[e[i]]
      BY <3>1
    <3>. HIDE DEF e
    <3>4. e \in Part(j + 1)
      BY <3>2, <3>3
    <3>. QED
      BY <3>4
  <2>. HIDE DEF T
  <2>3. T \in SUBSET Nat
    BY DEF T
  <2>. QED
    BY <2>1, <2>2, <2>3, AllNat
<1>. HIDE DEF Part
<1>2. \A i \in Nat : i \in A
  <2>1. 0 \in A
    BY <1>0
  <2>2. ASSUME NEW i \in A
        PROVE  i + 1 \in A
    <3>. SUFFICES ASSUME NEW j \in Nat, NEW l \in Nat, i + 1 <= j, i + 1 <= l,
                         NEW h \in Part(j), NEW e \in Part(l)
                  PROVE  h[i + 1] = e[i + 1]
      OBVIOUS
    <3>1. i \in Nat /\ i \in 0..j /\ i # j /\ i \in 0..l /\ i # l
      OBVIOUS
    <3>2. h[i + 1] = g[h[i]] /\ e[i + 1] = g[e[i]]
      BY <1>0, <3>1
    <3>3. h[i] = e[i]
      BY <3>1
    <3>. QED
      BY <3>2, <3>3
  <2>. HIDE DEF A
  <2>3. A \in SUBSET Nat
    BY DEF A
  <2>. QED
    BY <2>1, <2>2, <2>3, AllNat
<1>3. \A j \in Nat : \E h \in Part(j) : f[j] = h[j]
  BY <1>1
<1>. HIDE DEF f
<1>4. ASSUME NEW j \in Nat
      PROVE  f[j] \in S /\ f[j + 1] = g[f[j]]
  <2>1. PICK h \in Part(j) : f[j] = h[j]
    BY <1>3
  <2>2. PICK e \in Part(j + 1) : f[j + 1] = e[j + 1]
    BY <1>3
  <2>3. j \in 0..j /\ j \in 0..(j + 1) /\ j # j + 1 /\ j <= j + 1 /\ j <= j
    OBVIOUS
  <2>4. h[j] = e[j]
    BY <1>2, <2>3
  <2>5. e[j + 1] = g[e[j]]
    <3>1. j + 1 \in Nat
      OBVIOUS
    <3>. QED
      BY <1>0, <2>3, <3>1
  <2>6. h[j] \in S
    BY <1>0, <2>3
  <2>. QED
    BY <2>1, <2>2, <2>4, <2>5, <2>6
<1>5. f[0] = n
  BY <1>0, <1>3
<1>6. f \in [Nat -> S]
  BY <1>4 DEF f
<1>. QED
  BY <1>4, <1>5, <1>6 DEF HasOrbit, Orbit

(* The chain above a node, link by link.                                   *)
LEMMA AboveFacts ==
  ASSUME NEW t, Closed(t), NEW n \in Ups(t)
  PROVE  ChainOf(t, n, Above(t, n))
<1>. DEFINE S == Ups(t)
            g == [ m \in S |-> IF m = NoNode THEN NoNode ELSE t[m].parent ]
            F(f) == [ k \in Nat |-> IF k = 0 THEN n
                                    ELSE LET m == f[k - 1] IN IF m = NoNode THEN NoNode ELSE t[m].parent ]
<1>1. g \in [S -> S]
  BY DEF Closed, Ups
<1>2. PICK f \in [Nat -> S] : f[0] = n /\ \A k \in Nat : f[k + 1] = g[f[k]]
  <2>1. n \in S
    OBVIOUS
  <2>. HIDE DEF g, S, F
  <2>2. HasOrbit(S, g, n)
    BY <1>1, <2>1, Iterates, Zenon
  <2>. QED
    BY <2>2 DEF HasOrbit, Orbit
<1>3. f = F(f)
  <2>1. ASSUME NEW k \in Nat
        PROVE  f[k] = F(f)[k]
    <3>1. CASE k = 0
      BY <1>2, <3>1
    <3>2. CASE k # 0
      <4>1. k - 1 \in Nat /\ (k - 1) + 1 = k
        BY <3>2
      <4>2. f[k] = g[f[k - 1]] /\ f[k - 1] \in S
        BY <1>2, <4>1
      <4>. QED
        BY <3>2, <4>2
    <3>. QED
      BY <3>1, <3>2
  <2>. QED
    BY <2>1
<1>4. Above(t, n) = CHOOSE f2 : f2 = F(f2)
  BY DEF Above
<1>5. Above(t, n) = F(Above(t, n))
  <2>. HIDE DEF F
  <2>. QED
    BY <1>3, <1>4
<1>6. PICK u : u = Above(t, n)
  OBVIOUS
<1>7. u = F(u)
  BY <1>5, <1>6
<1>8. u[0] = n
  BY <1>7
<1>9. ASSUME NEW k \in Nat
      PROVE  u[k + 1] = IF u[k] = NoNode THEN NoNode ELSE t[u[k]].parent
  <2>1. k + 1 \in Nat /\ k + 1 # 0 /\ (k + 1) - 1 = k
    OBVIOUS
  <2>. QED
    BY <1>7, <2>1
<1>10. \A k \in Nat : u[k] \in S
  <2>. DEFINE T == { k \in Nat : u[k] \in S }
  <2>1. 0 \in T
    BY <1>8
  <2>2. \A k \in T : k + 1 \in T
    BY <1>9 DEF Closed, Ups
  <2>3. \A k \in Nat : k \in T
    <3>. HIDE DEF T
    <3>1. T \in SUBSET Nat
      BY DEF T
    <3>. QED
      BY <2>1, <2>2, <3>1, AllNat
  <2>. QED
    BY <2>3
<1>11. u \in [Nat -> S]
  <2>1. u = [ k \in Nat |-> u[k] ]
    BY <1>7
  <2>. QED
    BY <1>10, <2>1
<1>. QED
  BY <1>6, <1>8, <1>9, <1>11 DEF ChainOf

(* Above the top there is nothing.                                         *)
LEMMA AboveNone ==
  ASSUME NEW t, Closed(t)
  PROVE  \A k \in Nat : Above(t, NoNode)[k] = NoNode
<1>. DEFINE T == { k \in Nat : Above(t, NoNode)[k] = NoNode }
<1>0. NoNode \in Ups(t)
  BY DEF Ups
<1>1. ChainOf(t, NoNode, Above(t, NoNode))
  BY <1>0, AboveFacts
<1>2. 0 \in T /\ \A k \in T : k + 1 \in T
  BY <1>1 DEF ChainOf
<1>3. \A k \in Nat : k \in T
  <2>. HIDE DEF T
  <2>1. T \in SUBSET Nat
    BY DEF T
  <2>. QED
    BY <1>2, <2>1, AllNat
<1>. QED
  BY <1>3

(* The chain from the i-th node above n on is the chain of that node.      *)
LEMMA AboveAgain ==
  ASSUME NEW t, Closed(t), NEW n \in Ups(t), NEW i \in Nat
  PROVE  \A d \in Nat : Above(t, n)[i + d] = Above(t, Above(t, n)[i])[d]
<1>1. PICK u : u = Above(t, n)
  OBVIOUS
<1>2. ChainOf(t, n, u)
  BY <1>1, AboveFacts
<1>3. PICK v : v = Above(t, u[i])
  OBVIOUS
<1>4. ChainOf(t, u[i], v)
  <2>1. u[i] \in Ups(t)
    BY <1>2 DEF ChainOf
  <2>. QED
    BY <1>3, <2>1, AboveFacts
<1>. DEFINE T == { d \in Nat : u[i + d] = v[d] }
<1>5. 0 \in T
  BY <1>4 DEF ChainOf
<1>6. ASSUME NEW d \in T
      PROVE  d + 1 \in T
  <2>1. d \in Nat /\ i + d \in Nat /\ (i + d) + 1 = i + (d + 1) /\ u[i + d] = v[d]
    OBVIOUS
  <2>. HIDE DEF T
  <2>2. u[(i + d) + 1] = v[d + 1]
    BY <1>2, <1>4, <2>1 DEF ChainOf
  <2>. QED
    BY <2>1, <2>2 DEF T
<1>7. \A d \in Nat : d \in T
  <2>. HIDE DEF T
  <2>1. T \in SUBSET Nat
    BY DEF T
  <2>. QED
    BY <1>5, <1>6, <2>1, AllNat
<1>. QED
  BY <1>1, <1>3, <1>7

(* What n reaches: itself, and what its parent reaches.                    *)
LEMMA ReachStep ==
  ASSUME NEW t, Closed(t), NEW n \in DOMAIN t, NEW a
  PROVE  Reaches(t, n, a) <=> n = a \/ Reaches(t, t[n].parent, a)
<1>0. n \in Ups(t) /\ n # NoNode /\ t[n].parent \in Ups(t)
  BY DEF Closed, Ups
<1>1. Above(t, n)[0] = n /\ Above(t, n)[1] = t[n].parent
  <2>1. ChainOf(t, n, Above(t, n))
    BY <1>0, AboveFacts
  <2>2. 0 \in Nat /\ 0 + 1 = 1
    OBVIOUS
  <2>. QED
    BY <1>0, <2>1, <2>2 DEF ChainOf
<1>2. \A d \in Nat : Above(t, n)[1 + d] = Above(t, t[n].parent)[d]
  <2>1. PICK i \in Nat : i = 1
    OBVIOUS
  <2>2. \A d \in Nat : Above(t, n)[i + d] = Above(t, Above(t, n)[i])[d]
    BY <1>0, AboveAgain
  <2>. QED
    BY <1>1, <2>1, <2>2
<1>3. ASSUME Reaches(t, n, a)
      PROVE  n = a \/ Reaches(t, t[n].parent, a)
  <2>1. PICK k \in Nat : Above(t, n)[k] = a
    BY <1>3 DEF Reaches
  <2>2. CASE k = 0
    BY <1>1, <2>1, <2>2
  <2>3. CASE k # 0
    <3>1. k - 1 \in Nat /\ 1 + (k - 1) = k
      BY <2>3
    <3>. QED
      BY <1>2, <2>1, <3>1 DEF Reaches
  <2>. QED
    BY <2>2, <2>3
<1>4. ASSUME n = a
      PROVE  Reaches(t, n, a)
  BY <1>1, <1>4 DEF Reaches
<1>5. ASSUME Reaches(t, t[n].parent, a)
      PROVE  Reaches(t, n, a)
  <2>1. PICK d \in Nat : Above(t, t[n].parent)[d] = a
    BY <1>5 DEF Reaches
  <2>2. 1 + d \in Nat
    OBVIOUS
  <2>. QED
    BY <1>2, <2>1, <2>2 DEF Reaches
<1>. QED
  BY <1>3, <1>4, <1>5

(* A bounded walk finds everything a walk of any length finds: the         *)
(* shortest walk to a visits no node twice.                                *)
LEMMA ReachBound ==
  ASSUME NEW t, Closed(t), NEW n \in Ups(t), NEW a
  PROVE  Reaches(t, n, a) <=> OnChain(t, a, n)
<1>. DEFINE c == Cardinality(DOMAIN t)
<1>0. c \in Nat
  BY FS_CardinalityType DEF Closed
<1>1. OnChain(t, a, n) => Reaches(t, n, a)
  BY <1>0 DEF OnChain, Reaches
<1>. SUFFICES ASSUME Reaches(t, n, a)
              PROVE  \E k \in 0..c : Above(t, n)[k] = a
  BY <1>1 DEF OnChain
<1>. HIDE DEF c
<1>2. PICK u : u = Above(t, n)
  OBVIOUS
<1>3. u \in [Nat -> Ups(t)]
  <2>1. ChainOf(t, n, u)
    BY <1>2, AboveFacts
  <2>. QED
    BY <2>1 DEF ChainOf
<1>4. \A i, d \in Nat : u[i + d] = Above(t, u[i])[d]
  BY <1>2, AboveAgain
<1>5. PICK k \in { j \in Nat : u[j] = a } : \A j \in { jj \in Nat : u[jj] = a } : k <= j
  <2>1. { j \in Nat : u[j] = a } # {}
    BY <1>2 DEF Reaches
  <2>. QED
    BY <2>1, LeastNat
<1>6. k \in Nat /\ u[k] = a /\ \A j \in Nat : j < k => u[j] # a
  BY <1>5
<1>. SUFFICES ASSUME ~(k <= c)
              PROVE  FALSE
  BY <1>0, <1>2, <1>6
<1>7. ASSUME NEW i \in 0..(k - 1)
      PROVE  u[i] \in DOMAIN t
  <2>1. i \in Nat /\ k - i \in Nat /\ i + (k - i) = k /\ i < k
    BY <1>6
  <2>2. ASSUME u[i] = NoNode
        PROVE  FALSE
    <3>1. u[i + (k - i)] = Above(t, NoNode)[k - i]
      BY <1>4, <2>1, <2>2
    <3>2. Above(t, NoNode)[k - i] = NoNode
      BY <2>1, AboveNone
    <3>. QED
      BY <1>6, <2>1, <2>2, <3>1, <3>2
  <2>. QED
    BY <1>3, <2>1, <2>2 DEF Ups
<1>. DEFINE f == [ i \in 0..(k - 1) |-> u[i] ]
<1>8. f \in [0..(k - 1) -> DOMAIN t]
  BY <1>7
<1>9. \E i, j \in 0..(k - 1) : i # j /\ f[i] = f[j]
  <2>1. IsFiniteSet(0..(k - 1)) /\ Cardinality(0..(k - 1)) = k
    <3>1. 0 \in Int /\ k - 1 \in Int
      BY <1>6
    <3>2. IsFiniteSet(0..(k - 1)) /\ Cardinality(0..(k - 1)) = IF 0 > k - 1 THEN 0 ELSE (k - 1) - 0 + 1
      BY <3>1, FS_Interval
    <3>. QED
      BY <1>6, <3>2
  <2>2. Cardinality(DOMAIN t) < Cardinality(0..(k - 1))
    BY <1>0, <1>6, <2>1 DEF c
  <2>3. IsFiniteSet(DOMAIN t)
    BY DEF Closed
  <2>. HIDE DEF f
  <2>. QED
    BY <1>8, <2>1, <2>2, <2>3, FS_PigeonHole
<1>10. PICK i \in 0..(k - 1), j \in 0..(k - 1) : i < j /\ u[i] = u[j]
  <2>1. PICK x \in 0..(k - 1), y \in 0..(k - 1) : x # y /\ u[x] = u[y]
    BY <1>9
  <2>2. x < y \/ y < x
    BY <1>6, <2>1
  <2>. QED
    BY <2>1, <2>2
<1>11. /\ i \in Nat /\ j \in Nat /\ k - j \in Nat /\ i + (k - j) \in Nat
       /\ i + (k - j) < k /\ j + (k - j) = k
  BY <1>6, <1>10
<1>12. u[i + (k - j)] = u[k]
  <2>1. u[i + (k - j)] = Above(t, u[i])[k - j]
    BY <1>4, <1>11
  <2>2. u[j + (k - j)] = Above(t, u[j])[k - j]
    BY <1>4, <1>11
  <2>. QED
    BY <1>10, <1>11, <2>1, <2>2
<1>. QED
  BY <1>6, <1>11, <1>12

(* With a rank that falls along every link, every chain ends.              *)
LEMMA FallsEnds ==
  ASSUME NEW t, Closed(t), NEW h, Falls(t, h)
  PROVE  \A n \in DOMAIN t : Acyclic(t, n)
<1>. DEFINE Endless == { m \in DOMAIN t : ~Reaches(t, m, NoNode) }
            T == { h[m] : m \in Endless }
<1>1. T \in SUBSET Nat
  BY DEF Falls
<1>2. ASSUME T # {}
      PROVE  FALSE
  <2>1. PICK x \in T : \A y \in T : x <= y
    <3>. HIDE DEF T
    <3>. QED
      BY <1>1, <1>2, LeastNat
  <2>2. PICK m \in Endless : x = h[m]
    OBVIOUS
  <2>3. \A l \in Endless : h[m] <= h[l]
    BY <2>1, <2>2
  <2>4. m \in DOMAIN t /\ ~Reaches(t, m, NoNode)
    OBVIOUS
  <2>5. m # NoNode /\ ~Reaches(t, t[m].parent, NoNode)
    BY <2>4, ReachStep DEF Closed
  <2>6. t[m].parent # NoNode
    <3>1. Above(t, NoNode)[0] = NoNode
      BY AboveNone
    <3>2. Reaches(t, NoNode, NoNode)
      BY <3>1 DEF Reaches
    <3>. QED
      BY <2>5, <3>2
  <2>7. t[m].parent \in Endless
    BY <2>4, <2>5, <2>6 DEF Closed, Ups
  <2>8. h[t[m].parent] < h[m] /\ h[m] \in Nat /\ h[t[m].parent] \in Nat
    BY <2>4, <2>6, <2>7 DEF Falls
  <2>. HIDE DEF Endless
  <2>. QED
    BY <2>3, <2>7, <2>8
<1>3. Endless = {}
  BY <1>2
<1>4. ASSUME NEW n \in DOMAIN t
      PROVE  Acyclic(t, n)
  <2>1. n \in Ups(t) /\ Reaches(t, n, NoNode)
    BY <1>3 DEF Ups
  <2>. QED
    BY <2>1, ReachBound DEF Acyclic
<1>. QED
  BY <1>4

-----------------------------------------------------------------------------
(***************************************************************************)
(* Relinking: attach and move_child.                                       *)
(***************************************************************************)
LEMMA SoundClosed ==
  ASSUME NEW t, Sound(t)
  PROVE  Closed(t)
<1>1. DOMAIN t \subseteq Id /\ IsFiniteSet(Id) /\ NoNode \notin Id
  BY TopologyAssumption DEF Sound, Shaped
<1>2. IsFiniteSet(DOMAIN t)
  BY <1>1, FS_Subset
<1>3. \A m \in DOMAIN t : t[m].parent \in Ups(t)
  BY DEF Sound, Agreed, Ups
<1>. QED
  BY <1>1, <1>2, <1>3 DEF Closed

LEMMA FieldFacts ==
  ASSUME NEW t, Sound(t), NEW m \in DOMAIN t
  PROVE  /\ t[m] \in Rec /\ m \in Id /\ m # NoNode
         /\ t[m].kind \in Kind /\ t[m].parent \in Id \cup {NoNode}
         /\ t[m].slot \in Slot \cup {NoSlot} /\ t[m].children \in SUBSET Slot
<1>1. t[m] \in Rec /\ m \in Id
  BY DEF Sound, Shaped
<1>2. m # NoNode
  BY <1>1, TopologyAssumption
<1>. QED
  BY <1>1, <1>2 DEF Rec

(* The slot given is free, or the one the child holds there already.       *)
LEMMA SlotGiven ==
  ASSUME NEW t, Sound(t), NEW p \in DOMAIN t, NEW c \in DOMAIN t, NEW s,
         NEW f \in resolve_slot(t, p, c, s)
  PROVE  f \in Slot /\ (f \in t[p].children => t[c].parent = p /\ f = t[c].slot)
<1>1. t[p].children \in SUBSET Slot /\ p # NoNode
  BY FieldFacts
<1>2. t[c].parent = p => t[c].slot \in t[p].children
  BY <1>1 DEF Sound, Agreed
<1>3. f \in (Slot \ t[p].children) \cup (IF t[c].parent = p THEN {t[c].slot} ELSE {})
  BY DEF resolve_slot
<1>. QED
  BY <1>1, <1>2, <1>3

(* What relinking c under p in slot f leaves of every record.              *)
LEMMA RelinkFacts ==
  ASSUME NEW t, Sound(t), NEW p \in DOMAIN t, NEW c \in DOMAIN t, p # c, NEW f \in Slot,
         NEW r, r = Relink(t, c, p, f)
  PROVE  /\ DOMAIN r = DOMAIN t /\ r \in [DOMAIN t -> Rec]
         /\ r[c].parent = p /\ r[c].slot = f
         /\ \A m \in DOMAIN t : m # c => r[m].parent = t[m].parent /\ r[m].slot = t[m].slot
         /\ \A m \in DOMAIN t : r[m].kind = t[m].kind
         /\ \A m \in DOMAIN t : r[m].children
              = (t[m].children \ (IF m = t[c].parent THEN {t[c].slot} ELSE {}))
                  \cup (IF m = p THEN {f} ELSE {})
<1>. DEFINE left == [ m \in DOMAIN t |-> IF m = t[c].parent
                        THEN [t[m] EXCEPT !.children = @ \ {t[c].slot}] ELSE t[m] ]
<1>1. r = [ m \in DOMAIN t |->
              CASE m = c -> [left[m] EXCEPT !.parent = p, !.slot = f]
                [] m = p -> [left[m] EXCEPT !.children = @ \cup {f}]
                [] OTHER -> left[m] ]
  BY DEF Relink
<1>2. ASSUME NEW m \in DOMAIN t
      PROVE  /\ left[m] \in Rec
             /\ left[m].parent = t[m].parent /\ left[m].slot = t[m].slot /\ left[m].kind = t[m].kind
             /\ left[m].children = t[m].children \ (IF m = t[c].parent THEN {t[c].slot} ELSE {})
  <2>1. t[m] \in Rec
    BY FieldFacts
  <2>. QED
    BY <2>1 DEF Rec
<1>. HIDE DEF left
<1>3. p \in Id
  BY FieldFacts
<1>4. ASSUME NEW m \in DOMAIN t
      PROVE  /\ r[m] \in Rec
             /\ m = c => r[m].parent = p /\ r[m].slot = f
             /\ m # c => r[m].parent = t[m].parent /\ r[m].slot = t[m].slot
             /\ r[m].kind = t[m].kind
             /\ r[m].children = left[m].children \cup (IF m = p THEN {f} ELSE {})
  <2>1. CASE m = c
    <3>1. r[m] = [left[m] EXCEPT !.parent = p, !.slot = f]
      BY <1>1, <2>1
    <3>. QED
      BY <1>2, <1>3, <2>1, <3>1 DEF Rec
  <2>2. CASE m # c /\ m = p
    <3>1. r[m] = [left[m] EXCEPT !.children = @ \cup {f}]
      BY <1>1, <2>2
    <3>. QED
      BY <1>2, <2>2, <3>1 DEF Rec
  <2>3. CASE m # c /\ m # p
    <3>1. r[m] = left[m]
      BY <1>1, <2>3
    <3>. QED
      BY <1>2, <2>3, <3>1
  <2>. QED
    BY <2>1, <2>2, <2>3
<1>5. DOMAIN r = DOMAIN t
  BY <1>1
<1>6. r \in [DOMAIN t -> Rec]
  <2>1. r = [ m \in DOMAIN t |-> r[m] ]
    BY <1>1
  <2>. QED
    BY <1>4, <2>1
<1>. QED
  BY <1>2, <1>4, <1>5, <1>6

(* The new rank: everything at or below c is lifted above p.               *)
LEMMA RelinkRanked ==
  ASSUME NEW t, Sound(t), NEW p \in DOMAIN t, NEW c \in DOMAIN t, ~OnChain(t, c, p),
         NEW r, DOMAIN r = DOMAIN t, r[c].parent = p,
         \A m \in DOMAIN t : m # c => r[m].parent = t[m].parent
  PROVE  Ranked(r)
<1>1. Closed(t)
  BY SoundClosed
<1>2. PICK h : Falls(t, h)
  BY DEF Sound, Ranked
<1>3. ~Reaches(t, p, c)
  <2>1. p \in Ups(t)
    BY DEF Ups
  <2>. QED
    BY <1>1, <2>1, ReachBound
<1>4. Reaches(t, c, c)
  BY <1>1, ReachStep
<1>. DEFINE e == [ m \in DOMAIN t |-> IF Reaches(t, m, c) THEN h[m] + h[p] + 1 ELSE h[m] ]
<1>5. h \in [DOMAIN t -> Nat]
  BY <1>2 DEF Falls
<1>6. e \in [DOMAIN r -> Nat]
  BY <1>5
<1>7. ASSUME NEW m \in DOMAIN t, r[m].parent # NoNode
      PROVE  e[r[m].parent] < e[m]
  <2>1. CASE m = c
    <3>1. e[p] = h[p] /\ e[c] = h[c] + h[p] + 1 /\ h[c] \in Nat /\ h[p] \in Nat
      BY <1>3, <1>4, <1>5
    <3>. HIDE DEF e
    <3>. QED
      BY <2>1, <3>1
  <2>2. CASE m # c
    <3>1. PICK q : q = t[m].parent
      OBVIOUS
    <3>2. r[m].parent = q /\ q # NoNode
      BY <1>7, <2>2, <3>1
    <3>3. q \in DOMAIN t
      BY <1>1, <3>1, <3>2 DEF Closed, Ups
    <3>4. h[q] < h[m]
      BY <1>2, <3>1, <3>2 DEF Falls
    <3>5. Reaches(t, m, c) <=> Reaches(t, q, c)
      BY <1>1, <2>2, <3>1, ReachStep
    <3>6. e[q] < e[m]
      BY <1>5, <3>3, <3>4, <3>5
    <3>. QED
      BY <3>2, <3>6
  <2>. QED
    BY <2>1, <2>2
<1>. HIDE DEF e
<1>8. Falls(r, e)
  BY <1>6, <1>7 DEF Falls
<1>. QED
  BY <1>8 DEF Ranked

LEMMA RelinkSound ==
  ASSUME NEW t, Sound(t), NEW p \in DOMAIN t, NEW c \in DOMAIN t, c # root,
         t[p].kind = "Node", ~OnChain(t, c, p), NEW s, NEW f \in resolve_slot(t, p, c, s),
         NEW r, r = Relink(t, c, p, f)
  PROVE  Sound(r)
<1>1. Closed(t)
  BY SoundClosed
<1>2. p # c
  <2>1. p \in Ups(t)
    BY DEF Ups
  <2>2. ~Reaches(t, p, c)
    BY <1>1, <2>1, ReachBound
  <2>. QED
    BY <1>1, <2>2, ReachStep
<1>3. f \in Slot /\ (f \in t[p].children => t[c].parent = p /\ f = t[c].slot)
  BY SlotGiven
<1>4. /\ DOMAIN r = DOMAIN t /\ r \in [DOMAIN t -> Rec]
      /\ r[c].parent = p /\ r[c].slot = f
      /\ \A m \in DOMAIN t : m # c => r[m].parent = t[m].parent /\ r[m].slot = t[m].slot
      /\ \A m \in DOMAIN t : r[m].kind = t[m].kind
      /\ \A m \in DOMAIN t : r[m].children
           = (t[m].children \ (IF m = t[c].parent THEN {t[c].slot} ELSE {}))
               \cup (IF m = p THEN {f} ELSE {})
  BY <1>2, <1>3, RelinkFacts
<1>5. Shaped(r)
  BY <1>4 DEF Sound, Shaped
<1>6. p # NoNode /\ f # NoSlot
  BY <1>3, FieldFacts, TopologyAssumption
<1>7. Single(t) /\ Filled(t) /\ Agreed(t) /\ root \in DOMAIN t
  BY DEF Sound, Shaped
<1>8. Agreed(r)
  <2>1. r[root].parent = NoNode
    BY <1>4, <1>7 DEF Agreed
  <2>2. ASSUME NEW n \in DOMAIN t
        PROVE  r[n].kind = "User" => r[n].children = {}
    BY <1>4, <1>7 DEF Agreed
  <2>3. ASSUME NEW n \in DOMAIN t
        PROVE  (r[n].parent = NoNode) <=> (r[n].slot = NoSlot)
    BY <1>4, <1>6, <1>7 DEF Agreed
  <2>4. ASSUME NEW n \in DOMAIN t, r[n].parent # NoNode
        PROVE  /\ r[n].parent \in DOMAIN t
               /\ r[r[n].parent].kind = "Node"
               /\ r[n].slot \in r[r[n].parent].children
    <3>1. CASE n = c
      BY <1>4, <3>1
    <3>2. CASE n # c
      <4>1. r[n].parent = t[n].parent /\ r[n].slot = t[n].slot /\ t[n].parent # NoNode
        BY <1>4, <2>4, <3>2
      <4>2. /\ t[n].parent \in DOMAIN t /\ t[t[n].parent].kind = "Node"
            /\ t[n].slot \in t[t[n].parent].children
        BY <1>7, <4>1 DEF Agreed
      <4>3. ~(t[n].parent = t[c].parent /\ t[n].slot = t[c].slot)
        BY <1>7, <3>2, <4>1 DEF Single
      <4>. QED
        BY <1>4, <4>1, <4>2, <4>3
    <3>. QED
      BY <3>1, <3>2
  <2>. QED
    BY <1>4, <2>1, <2>2, <2>3, <2>4 DEF Agreed
<1>9. Single(r)
  <2>1. ASSUME NEW d \in DOMAIN t, d # c, t[d].parent = p, t[d].slot = f
        PROVE  FALSE
    <3>1. f \in t[p].children
      BY <1>6, <1>7, <2>1 DEF Agreed
    <3>2. t[c].parent = t[d].parent /\ t[c].slot = t[d].slot /\ t[c].parent # NoNode
      BY <1>3, <1>6, <2>1, <3>1
    <3>. QED
      BY <1>7, <2>1, <3>2 DEF Single
  <2>2. ASSUME NEW a \in DOMAIN t, NEW b \in DOMAIN t, r[a].parent # NoNode,
               r[a].parent = r[b].parent, r[a].slot = r[b].slot
        PROVE  a = b
    <3>1. CASE a # c /\ b # c
      <4>1. t[a].parent # NoNode /\ t[a].parent = t[b].parent /\ t[a].slot = t[b].slot
        BY <1>4, <2>2, <3>1
      <4>. QED
        BY <1>7, <4>1 DEF Single
    <3>2. CASE a = c /\ b # c
      BY <1>4, <2>1, <2>2, <3>2
    <3>3. CASE b = c /\ a # c
      BY <1>4, <2>1, <2>2, <3>3
    <3>. QED
      BY <3>1, <3>2, <3>3
  <2>. QED
    BY <1>4, <2>2 DEF Single
<1>10. Filled(r)
  <2>1. ASSUME NEW n \in DOMAIN t, NEW x \in r[n].children
        PROVE  \E d \in DOMAIN t : r[d].parent = n /\ r[d].slot = x
    <3>1. CASE n = p /\ x = f
      BY <1>4, <3>1
    <3>2. CASE ~(n = p /\ x = f)
      <4>1. x \in t[n].children /\ ~(n = t[c].parent /\ x = t[c].slot)
        BY <1>4, <2>1, <3>2
      <4>2. PICK d \in DOMAIN t : t[d].parent = n /\ t[d].slot = x
        BY <1>7, <4>1 DEF Filled
      <4>3. d # c
        BY <4>1, <4>2
      <4>. QED
        BY <1>4, <4>2, <4>3
    <3>. QED
      BY <3>1, <3>2
  <2>. QED
    BY <1>4, <2>1 DEF Filled
<1>11. Ranked(r)
  BY <1>4, RelinkRanked
<1>. QED
  BY <1>5, <1>8, <1>9, <1>10, <1>11 DEF Sound

-----------------------------------------------------------------------------
(***************************************************************************)
(* The other operations.                                                   *)
(***************************************************************************)
(* What detaching c leaves of every record.                                *)
LEMMA DetachFacts ==
  ASSUME NEW t, Sound(t), NEW c \in DOMAIN t, t[c].parent # c, NEW r,
         r = Unlink(t, c)
  PROVE  /\ DOMAIN r = DOMAIN t /\ r \in [DOMAIN t -> Rec]
         /\ r[c].parent = NoNode /\ r[c].slot = NoSlot
         /\ \A m \in DOMAIN t : m # c => r[m].parent = t[m].parent /\ r[m].slot = t[m].slot
         /\ \A m \in DOMAIN t : r[m].kind = t[m].kind
         /\ \A m \in DOMAIN t : r[m].children
              = t[m].children \ (IF m = t[c].parent THEN {t[c].slot} ELSE {})
<1>. DEFINE q == t[c].parent
            Cut(x) == [x EXCEPT !.parent = NoNode, !.slot = NoSlot]
            Freed(x) == [x EXCEPT !.children = @ \ {t[c].slot}]
<1>1. r = [ m \in DOMAIN t |-> CASE m = c -> Cut(t[m]) [] m = q -> Freed(t[m]) [] OTHER -> t[m] ]
  BY Zenon DEF Unlink
<1>2. ASSUME NEW x \in Rec
      PROVE  /\ Cut(x) \in Rec /\ Cut(x).parent = NoNode /\ Cut(x).slot = NoSlot
             /\ Cut(x).kind = x.kind /\ Cut(x).children = x.children
             /\ Freed(x) \in Rec /\ Freed(x).parent = x.parent /\ Freed(x).slot = x.slot
             /\ Freed(x).kind = x.kind /\ Freed(x).children = x.children \ {t[c].slot}
  BY DEF Rec
<1>3. q # c
  OBVIOUS
<1>. HIDE DEF Cut, Freed, q
<1>8. ASSUME NEW m \in DOMAIN t
      PROVE  /\ r[m] \in Rec
             /\ m = c => r[m].parent = NoNode /\ r[m].slot = NoSlot
             /\ m # c => r[m].parent = t[m].parent /\ r[m].slot = t[m].slot
             /\ r[m].kind = t[m].kind
             /\ r[m].children = t[m].children \ (IF m = q THEN {t[c].slot} ELSE {})
  <2>1. t[m] \in Rec
    BY FieldFacts
  <2>2. CASE m = c
    <3>1. r[m] = Cut(t[m])
      BY <1>1, <1>3, <2>2
    <3>. QED
      BY <1>2, <1>3, <2>1, <2>2, <3>1
  <2>3. CASE m # c /\ m = q
    <3>1. r[m] = Freed(t[m])
      BY <1>1, <2>3
    <3>. QED
      BY <1>2, <2>1, <2>3, <3>1
  <2>4. CASE m # c /\ m # q
    <3>1. r[m] = t[m]
      BY <1>1, <2>4
    <3>. QED
      BY <2>1, <2>4, <3>1
  <2>. QED
    BY <2>2, <2>3, <2>4
<1>9. DOMAIN r = DOMAIN t /\ r \in [DOMAIN t -> Rec]
  <2>1. DOMAIN r = DOMAIN t /\ r = [ m \in DOMAIN t |-> r[m] ]
    BY <1>1
  <2>. QED
    BY <1>8, <2>1
<1>. QED
  BY <1>8, <1>9 DEF q

LEMMA DetachSound ==
  ASSUME Sound(nodes), NEW c \in Id, detach(c)
  PROVE  Sound(nodes')
<1>0. PICK t : t = nodes
  OBVIOUS
<1>1. PICK r : r = nodes'
  OBVIOUS
<1>2. PICK q : q = t[c].parent
  OBVIOUS
<1>3. c \in DOMAIN t /\ c # root /\ q # NoNode
  BY <1>0, <1>2 DEF detach
<1>4. Sound(t)
  BY <1>0
<1>5. Agreed(t) /\ Single(t) /\ Filled(t) /\ root \in DOMAIN t
  BY <1>4 DEF Sound, Shaped
<1>6. PICK h : Falls(t, h)
  BY <1>4 DEF Sound, Ranked
<1>7. q # c
  <2>1. q \in DOMAIN t /\ h[q] < h[c] /\ h[q] \in Nat
    BY <1>2, <1>3, <1>5, <1>6 DEF Agreed, Falls
  <2>. QED
    BY <2>1
<1>8. /\ DOMAIN r = DOMAIN t /\ r \in [DOMAIN t -> Rec]
      /\ r[c].parent = NoNode /\ r[c].slot = NoSlot
      /\ \A m \in DOMAIN t : m # c => r[m].parent = t[m].parent /\ r[m].slot = t[m].slot
      /\ \A m \in DOMAIN t : r[m].kind = t[m].kind
      /\ \A m \in DOMAIN t : r[m].children
           = t[m].children \ (IF m = q THEN {t[c].slot} ELSE {})
  <2>1. c \in DOMAIN nodes /\ nodes[c].parent # c
    BY <1>0, <1>2, <1>3, <1>7
  <2>2. r = Unlink(t, c) /\ c \in DOMAIN t /\ t[c].parent # c
    BY <1>0, <1>1, <2>1 DEF detach
  <2>. QED
    BY <1>2, <1>4, <2>2, DetachFacts
<1>9. DOMAIN r = DOMAIN t /\ r \in [DOMAIN t -> Rec]
  BY <1>8
<1>10. Shaped(r)
  BY <1>4, <1>9 DEF Sound, Shaped
<1>11. Agreed(r)
  <2>1. r[root].parent = NoNode
    BY <1>3, <1>5, <1>8 DEF Agreed
  <2>2. ASSUME NEW n \in DOMAIN t
        PROVE  /\ r[n].kind = "User" => r[n].children = {}
               /\ (r[n].parent = NoNode) <=> (r[n].slot = NoSlot)
    BY <1>5, <1>8 DEF Agreed
  <2>3. ASSUME NEW n \in DOMAIN t, r[n].parent # NoNode
        PROVE  /\ r[n].parent \in DOMAIN t
               /\ r[r[n].parent].kind = "Node"
               /\ r[n].slot \in r[r[n].parent].children
    <3>1. n # c /\ r[n].parent = t[n].parent /\ r[n].slot = t[n].slot /\ t[n].parent # NoNode
      BY <1>8, <2>3
    <3>2. /\ t[n].parent \in DOMAIN t /\ t[t[n].parent].kind = "Node"
          /\ t[n].slot \in t[t[n].parent].children
      BY <1>5, <3>1 DEF Agreed
    <3>3. ~(t[n].parent = q /\ t[n].slot = t[c].slot)
      BY <1>2, <1>3, <1>5, <3>1 DEF Single
    <3>. QED
      BY <1>8, <3>1, <3>2, <3>3
  <2>. QED
    BY <1>9, <2>1, <2>2, <2>3 DEF Agreed
<1>12. Single(r)
  <2>1. ASSUME NEW a \in DOMAIN t, NEW b \in DOMAIN t, r[a].parent # NoNode,
               r[a].parent = r[b].parent, r[a].slot = r[b].slot
        PROVE  a = b
    <3>1. a # c /\ b # c
      BY <1>8, <2>1
    <3>2. t[a].parent # NoNode /\ t[a].parent = t[b].parent /\ t[a].slot = t[b].slot
      BY <1>8, <2>1, <3>1
    <3>. QED
      BY <1>5, <3>2 DEF Single
  <2>. QED
    BY <1>9, <2>1 DEF Single
<1>13. Filled(r)
  <2>1. ASSUME NEW n \in DOMAIN t, NEW x \in r[n].children
        PROVE  \E d \in DOMAIN t : r[d].parent = n /\ r[d].slot = x
    <3>1. x \in t[n].children /\ ~(n = q /\ x = t[c].slot)
      BY <1>8, <2>1
    <3>2. PICK d \in DOMAIN t : t[d].parent = n /\ t[d].slot = x
      BY <1>5, <3>1 DEF Filled
    <3>3. d # c
      BY <1>2, <3>1, <3>2
    <3>. QED
      BY <1>8, <3>2, <3>3
  <2>. QED
    BY <1>9, <2>1 DEF Filled
<1>14. Falls(r, h)
  <2>1. h \in [DOMAIN r -> Nat]
    BY <1>6, <1>9 DEF Falls
  <2>2. ASSUME NEW m \in DOMAIN t, r[m].parent # NoNode
        PROVE  h[r[m].parent] < h[m]
    <3>1. r[m].parent = t[m].parent
      BY <1>8, <2>2
    <3>. QED
      BY <1>6, <2>2, <3>1 DEF Falls
  <2>. QED
    BY <1>9, <2>1, <2>2 DEF Falls
<1>15. Ranked(r)
  BY <1>14 DEF Ranked
<1>. QED
  BY <1>1, <1>10, <1>11, <1>12, <1>13, <1>15 DEF Sound

LEMMA RemoveSound ==
  ASSUME Sound(nodes), NEW x \in Id, remove_node(x)
  PROVE  Sound(nodes')
<1>0. PICK t : t = nodes
  OBVIOUS
<1>1. PICK r : r = nodes'
  OBVIOUS
<1>2. PICK q : q = t[x].parent
  OBVIOUS
<1>3. /\ x \in DOMAIN t /\ x # root /\ t[x].children = {}
      /\ r = [ m \in DOMAIN t \ {x} |->
                 IF m = q THEN [t[m] EXCEPT !.children = @ \ {t[x].slot}] ELSE t[m] ]
  BY <1>0, <1>1, <1>2 DEF remove_node
<1>4. Sound(t)
  BY <1>0
<1>5. Agreed(t) /\ Single(t) /\ Filled(t) /\ root \in DOMAIN t /\ DOMAIN t \subseteq Id
  BY <1>4 DEF Sound, Shaped
<1>6. PICK h : Falls(t, h)
  BY <1>4 DEF Sound, Ranked
<1>7. DOMAIN r = DOMAIN t \ {x}
  BY <1>3
<1>8. ASSUME NEW m \in DOMAIN r
      PROVE  /\ m \in DOMAIN t /\ m # x /\ r[m] \in Rec
             /\ r[m].parent = t[m].parent /\ r[m].slot = t[m].slot /\ r[m].kind = t[m].kind
             /\ r[m].children = t[m].children \ (IF m = q THEN {t[x].slot} ELSE {})
  <2>0. m \in DOMAIN t /\ m # x
    BY <1>7
  <2>1. t[m] \in Rec
    BY <1>4, <2>0, FieldFacts
  <2>2. r[m] = IF m = q THEN [t[m] EXCEPT !.children = @ \ {t[x].slot}] ELSE t[m]
    BY <1>3, <2>0
  <2>. QED
    BY <2>0, <2>1, <2>2 DEF Rec
<1>9. Shaped(r)
  <2>1. r = [ m \in DOMAIN r |-> r[m] ]
    BY <1>3
  <2>2. r \in [DOMAIN r -> Rec]
    BY <1>8, <2>1
  <2>. QED
    BY <1>3, <1>5, <1>7, <2>2 DEF Shaped
<1>10. ASSUME NEW n \in DOMAIN t, t[n].parent # NoNode
       PROVE  t[n].parent \in DOMAIN r
  <2>1. t[n].parent \in DOMAIN t /\ t[n].slot \in t[t[n].parent].children
    BY <1>5, <1>10 DEF Agreed
  <2>. QED
    BY <1>3, <1>7, <2>1
<1>11. Agreed(r)
  <2>1. r[root].parent = NoNode
    BY <1>3, <1>5, <1>7, <1>8 DEF Agreed
  <2>2. ASSUME NEW n \in DOMAIN r
        PROVE  /\ r[n].kind = "User" => r[n].children = {}
               /\ (r[n].parent = NoNode) <=> (r[n].slot = NoSlot)
    BY <1>5, <1>8 DEF Agreed
  <2>3. ASSUME NEW n \in DOMAIN r, r[n].parent # NoNode
        PROVE  /\ r[n].parent \in DOMAIN r
               /\ r[r[n].parent].kind = "Node"
               /\ r[n].slot \in r[r[n].parent].children
    <3>1. n \in DOMAIN t /\ n # x /\ r[n].parent = t[n].parent /\ r[n].slot = t[n].slot
      BY <1>8
    <3>2. r[n].parent \in DOMAIN r
      BY <1>10, <2>3, <3>1
    <3>3. t[t[n].parent].kind = "Node" /\ t[n].slot \in t[t[n].parent].children
      BY <1>5, <2>3, <3>1 DEF Agreed
    <3>4. ~(t[n].parent = q /\ t[n].slot = t[x].slot)
      BY <1>2, <1>3, <1>5, <2>3, <3>1 DEF Single
    <3>. QED
      BY <1>8, <3>1, <3>2, <3>3, <3>4
  <2>. QED
    BY <2>1, <2>2, <2>3 DEF Agreed
<1>12. Single(r)
  BY <1>5, <1>8 DEF Single
<1>13. Filled(r)
  <2>1. ASSUME NEW n \in DOMAIN r, NEW s \in r[n].children
        PROVE  \E d \in DOMAIN r : r[d].parent = n /\ r[d].slot = s
    <3>1. n \in DOMAIN t /\ s \in t[n].children /\ ~(n = q /\ s = t[x].slot)
      BY <1>8, <2>1
    <3>2. PICK d \in DOMAIN t : t[d].parent = n /\ t[d].slot = s
      BY <1>5, <3>1 DEF Filled
    <3>3. d \in DOMAIN r
      BY <1>2, <1>7, <3>1, <3>2
    <3>. QED
      BY <1>8, <3>2, <3>3
  <2>. QED
    BY <2>1 DEF Filled
<1>14. Ranked(r)
  <2>. DEFINE e == [ m \in DOMAIN r |-> h[m] ]
  <2>1. e \in [DOMAIN r -> Nat]
    BY <1>6, <1>8 DEF Falls
  <2>2. ASSUME NEW m \in DOMAIN r, r[m].parent # NoNode
        PROVE  e[r[m].parent] < e[m]
    <3>1. m \in DOMAIN t /\ r[m].parent = t[m].parent /\ r[m].parent \in DOMAIN r
      BY <1>8, <1>10, <2>2
    <3>2. h[t[m].parent] < h[m]
      BY <1>6, <2>2, <3>1 DEF Falls
    <3>. QED
      BY <3>1, <3>2
  <2>. HIDE DEF e
  <2>3. Falls(r, e)
    BY <2>1, <2>2 DEF Falls
  <2>. QED
    BY <2>3 DEF Ranked
<1>. QED
  BY <1>1, <1>9, <1>11, <1>12, <1>13, <1>14 DEF Sound

LEMMA AddSound ==
  ASSUME Sound(nodes), NEW x \in Id, NEW kind \in Kind, add_node(x, kind)
  PROVE  Sound(nodes')
<1>0. PICK t : t = nodes
  OBVIOUS
<1>1. PICK r : r = nodes'
  OBVIOUS
<1>3. /\ x \notin DOMAIN t
      /\ r = [ m \in DOMAIN t \cup {x} |-> IF m = x THEN Unattached(kind) ELSE t[m] ]
  BY <1>0, <1>1 DEF add_node
<1>4. Sound(t)
  BY <1>0
<1>5. Agreed(t) /\ Single(t) /\ Filled(t) /\ root \in DOMAIN t /\ DOMAIN t \subseteq Id
  BY <1>4 DEF Sound, Shaped
<1>6. PICK h : Falls(t, h)
  BY <1>4 DEF Sound, Ranked
<1>7. DOMAIN r = DOMAIN t \cup {x}
  BY <1>3
<1>8. /\ r[x] \in Rec /\ r[x].parent = NoNode /\ r[x].slot = NoSlot /\ r[x].children = {}
      /\ \A m \in DOMAIN t : m # x /\ r[m] = t[m] /\ t[m] \in Rec
  <2>1. r[x] = Unattached(kind)
    BY <1>3
  <2>2. \A m \in DOMAIN t : m # x /\ r[m] = t[m] /\ t[m] \in Rec
    BY <1>3, <1>4, FieldFacts
  <2>. QED
    BY <2>1, <2>2 DEF Unattached, Rec
<1>9. Shaped(r)
  <2>1. r = [ m \in DOMAIN r |-> r[m] ]
    BY <1>3
  <2>2. \A m \in DOMAIN r : r[m] \in Rec
    BY <1>7, <1>8
  <2>3. r \in [DOMAIN r -> Rec]
    BY <2>1, <2>2
  <2>. QED
    BY <1>5, <1>7, <2>3 DEF Shaped
<1>10. Agreed(r)
  BY <1>5, <1>7, <1>8 DEF Agreed
<1>11. Single(r)
  BY <1>5, <1>7, <1>8 DEF Single
<1>12. Filled(r)
  BY <1>5, <1>7, <1>8 DEF Filled
<1>13. Ranked(r)
  <2>. DEFINE e == [ m \in DOMAIN r |-> IF m = x THEN 0 ELSE h[m] ]
  <2>1. e \in [DOMAIN r -> Nat]
    BY <1>6, <1>7 DEF Falls
  <2>2. ASSUME NEW m \in DOMAIN r, r[m].parent # NoNode
        PROVE  e[r[m].parent] < e[m]
    <3>1. m \in DOMAIN t /\ m # x /\ r[m].parent = t[m].parent
      BY <1>7, <1>8, <2>2
    <3>2. t[m].parent \in DOMAIN t /\ t[m].parent # x
      BY <1>3, <1>5, <2>2, <3>1 DEF Agreed
    <3>3. h[t[m].parent] < h[m]
      BY <1>6, <2>2, <3>1 DEF Falls
    <3>. QED
      BY <1>7, <3>1, <3>2, <3>3
  <2>. HIDE DEF e
  <2>3. Falls(r, e)
    BY <2>1, <2>2 DEF Falls
  <2>. QED
    BY <2>3 DEF Ranked
<1>. QED
  BY <1>1, <1>9, <1>10, <1>11, <1>12, <1>13 DEF Sound

LEMMA InitSound ==
  ASSUME Init
  PROVE  Sound(nodes)
<1>0. PICK t : t = nodes
  OBVIOUS
<1>1. t = [ n \in {root} |-> Unattached("Node") ] /\ root \in Id
  BY <1>0, TopologyAssumption DEF Init
<1>2. /\ DOMAIN t = {root} /\ t \in [{root} -> Rec]
      /\ t[root].parent = NoNode /\ t[root].slot = NoSlot /\ t[root].children = {}
  BY <1>1 DEF Unattached, Rec, Kind
<1>3. Shaped(t) /\ Agreed(t) /\ Single(t) /\ Filled(t)
  BY <1>1, <1>2 DEF Shaped, Agreed, Single, Filled
<1>4. Falls(t, [ n \in {root} |-> 0 ])
  BY <1>2 DEF Falls
<1>. QED
  BY <1>0, <1>3, <1>4 DEF Sound, Ranked

LEMMA StepSound ==
  ASSUME TreeInv, [Next]_nodes
  PROVE  TreeInv'
<1>0. Sound(nodes)
  BY DEF TreeInv
<1>1. ASSUME NEW n \in Id, remove_node(n)
      PROVE  Sound(nodes')
  BY <1>0, <1>1, RemoveSound
<1>2. ASSUME NEW n \in Id, detach(n)
      PROVE  Sound(nodes')
  BY <1>0, <1>2, DetachSound
<1>3. ASSUME NEW n \in Id, NEW k \in Kind, add_node(n, k)
      PROVE  Sound(nodes')
  BY <1>0, <1>3, AddSound
<1>4. ASSUME NEW p \in Id, NEW c \in Id, NEW s, attach(p, c, s)
      PROVE  Sound(nodes')
  <2>1. /\ p \in DOMAIN nodes /\ c \in DOMAIN nodes /\ c # root /\ nodes[p].kind = "Node"
        /\ ~OnChain(nodes, c, p)
        /\ \E f \in resolve_slot(nodes, p, c, s) : nodes' = Relink(nodes, c, p, f)
    BY <1>4 DEF attach
  <2>. QED
    BY <1>0, <2>1, RelinkSound
<1>5. ASSUME NEW p \in Id, NEW c \in Id, NEW s, move_child(c, p, s)
      PROVE  Sound(nodes')
  <2>1. /\ p \in DOMAIN nodes /\ c \in DOMAIN nodes /\ nodes[c].parent # NoNode
        /\ nodes[p].kind = "Node" /\ ~OnChain(nodes, c, p)
        /\ \E f \in resolve_slot(nodes, p, c, s) : nodes' = Relink(nodes, c, p, f)
    BY <1>5 DEF move_child
  <2>2. c # root
    BY <1>0, <2>1 DEF Sound, Agreed
  <2>. QED
    BY <1>0, <2>1, <2>2, RelinkSound
<1>6. CASE Next
  BY <1>1, <1>2, <1>3, <1>4, <1>5, <1>6 DEF Next, TreeInv
<1>7. CASE UNCHANGED nodes
  BY <1>7 DEF TreeInv, Sound, Shaped, Agreed, Single, Filled, Ranked, Falls
<1>. QED
  BY <1>6, <1>7

-----------------------------------------------------------------------------
(***************************************************************************)
(* Derived addresses.                                                      *)
(***************************************************************************)
(* Above the root there is nothing, so the root is in one place of a chain *)
(* at most: the bounded search for it finds that place.                    *)
LEMMA RootPlace ==
  ASSUME NEW t, Sound(t), NEW n \in DOMAIN t, Reaches(t, n, root)
  PROVE  /\ Links(t, n, root) \in Nat
         /\ Above(t, n)[Links(t, n, root)] = root
         /\ \A k \in Nat : Above(t, n)[k] = root => k = Links(t, n, root)
         /\ \A k \in Nat : k <= Links(t, n, root) => Above(t, n)[k] \in DOMAIN t
<1>. DEFINE d == Links(t, n, root)
<1>1. Closed(t) /\ n \in Ups(t) /\ root \in DOMAIN t /\ root # NoNode /\ t[root].parent = NoNode
  BY SoundClosed, FieldFacts DEF Ups, Sound, Shaped, Agreed
<1>2. PICK u : u = Above(t, n)
  OBVIOUS
<1>3. ChainOf(t, n, u)
  BY <1>1, <1>2, AboveFacts
<1>4. \A i, j \in Nat : u[i + j] = Above(t, u[i])[j]
  BY <1>1, <1>2, AboveAgain
<1>5. d \in Nat /\ u[d] = root
  <2>1. \E k \in 0..Cardinality(DOMAIN t) : Above(t, n)[k] = root
    BY <1>1, ReachBound DEF OnChain
  <2>2. d \in 0..Cardinality(DOMAIN t) /\ Above(t, n)[d] = root
    BY <2>1 DEF Links
  <2>3. Cardinality(DOMAIN t) \in Nat
    BY <1>1, FS_CardinalityType DEF Closed
  <2>. HIDE DEF d
  <2>. QED
    BY <1>2, <2>2, <2>3
<1>. HIDE DEF d
<1>6. ASSUME NEW i \in Nat, NEW j \in Nat, i < j, u[i] = NoNode \/ u[i] = root
      PROVE  u[j] = NoNode
  <2>1. u[i + 1] = NoNode
    BY <1>1, <1>3, <1>6 DEF ChainOf
  <2>2. i + 1 \in Nat /\ j - (i + 1) \in Nat /\ (i + 1) + (j - (i + 1)) = j
    BY <1>6
  <2>3. u[(i + 1) + (j - (i + 1))] = Above(t, u[i + 1])[j - (i + 1)]
    BY <1>4, <2>2
  <2>. QED
    BY <1>1, <2>1, <2>2, <2>3, AboveNone
<1>7. ASSUME NEW k \in Nat, u[k] = root
      PROVE  k = d
  <2>1. ~(k < d) /\ ~(d < k)
    BY <1>1, <1>5, <1>6, <1>7
  <2>. QED
    BY <1>5, <2>1
<1>8. ASSUME NEW k \in Nat, k <= d
      PROVE  u[k] \in DOMAIN t
  <2>1. u[k] # NoNode
    <3>1. CASE k = d
      BY <1>1, <1>5, <3>1
    <3>2. CASE k < d
      BY <1>1, <1>5, <1>6, <3>2
    <3>. QED
      BY <1>5, <1>8, <3>1, <3>2
  <2>. QED
    BY <1>3, <2>1 DEF ChainOf, Ups
<1>. QED
  BY <1>2, <1>5, <1>7, <1>8 DEF d

(* What address_of computes, from the root down.                           *)
LEMMA AddressForm ==
  ASSUME NEW t, Sound(t), NEW n \in DOMAIN t, Reaches(t, n, root), NEW d, d = Links(t, n, root)
  PROVE  /\ d \in Nat
         /\ address_of(t, root, n) \in Seq(Slot)
         /\ Len(address_of(t, root, n)) = d + 1
         /\ address_of(t, root, n)[1] = 0
         /\ \A i \in 1..d : address_of(t, root, n)[i + 1] = t[Above(t, n)[d - i]].slot
<1>. DEFINE s == [ i \in 1..d |-> t[Above(t, n)[d - i]].slot ]
<1>1. Closed(t) /\ n \in Ups(t) /\ Agreed(t) /\ ChainOf(t, n, Above(t, n))
  BY SoundClosed, AboveFacts DEF Ups, Sound
<1>2. d \in Nat /\ Above(t, n)[d] = root /\ \A k \in Nat : k <= d => Above(t, n)[k] \in DOMAIN t
  BY RootPlace
<1>3. ASSUME NEW i \in 1..d
      PROVE  t[Above(t, n)[d - i]].slot \in Slot
  <2>1. d - i \in Nat /\ d - i <= d /\ (d - i) + 1 \in Nat /\ (d - i) + 1 <= d
    BY <1>2
  <2>2. PICK m : m = Above(t, n)[d - i]
    OBVIOUS
  <2>3. m \in DOMAIN t
    BY <1>2, <2>1, <2>2
  <2>4. m # NoNode /\ t[m].slot \in Slot \cup {NoSlot}
    BY <2>3, FieldFacts
  <2>5. t[m].parent = Above(t, n)[(d - i) + 1]
    BY <1>1, <2>1, <2>2, <2>4 DEF ChainOf
  <2>6. t[m].parent \in DOMAIN t
    BY <1>2, <2>1, <2>5
  <2>7. t[m].parent # NoNode
    BY <2>6, FieldFacts
  <2>. QED
    BY <1>1, <2>2, <2>3, <2>4, <2>7 DEF Agreed
<1>4. s \in [1..d -> Slot]
  BY <1>3
<1>5. s \in Seq(Slot) /\ Len(s) = d /\ \A i \in 1..d : s[i] = t[Above(t, n)[d - i]].slot
  BY <1>2, <1>4
<1>6. address_of(t, root, n) = <<0>> \o s
  <2>1. OnChain(t, root, n)
    BY <1>1, ReachBound
  <2>. QED
    BY <2>1 DEF address_of
<1>. HIDE DEF s
<1>7. 0 \in Slot
  BY DEF Slot, MAX_SLOT
<1>8. <<0>> \in Seq(Slot) /\ Len(<<0>>) = 1 /\ <<0>>[1] = 0
  BY <1>7
<1>9. /\ <<0>> \o s \in Seq(Slot) /\ Len(<<0>> \o s) = d + 1
      /\ (<<0>> \o s)[1] = 0
      /\ \A i \in 1..d : (<<0>> \o s)[i + 1] = s[i]
  BY <1>2, <1>5, <1>7, <1>8
<1>. QED
  BY <1>2, <1>5, <1>6, <1>9

(* The address of a node that is not in the tree of root is none.          *)
LEMMA NoAddress ==
  ASSUME NEW t, Sound(t), NEW n \in DOMAIN t
  PROVE  /\ Reaches(t, n, root) <=> address_of(t, root, n) # None
         /\ ~Reaches(t, n, root) => address_of(t, root, n) = None
<1>1. Closed(t) /\ n \in Ups(t)
  BY SoundClosed DEF Ups
<1>2. Reaches(t, n, root) <=> OnChain(t, root, n)
  BY <1>1, ReachBound
<1>3. ~Reaches(t, n, root) => address_of(t, root, n) = None
  BY <1>2 DEF address_of
<1>4. ASSUME Reaches(t, n, root)
      PROVE  address_of(t, root, n) # None
  <2>1. Len(address_of(t, root, n)) > 0
    <3>1. PICK d : d = Links(t, n, root)
      OBVIOUS
    <3>2. d \in Nat /\ Len(address_of(t, root, n)) = d + 1
      BY <1>4, <3>1, AddressForm
    <3>. QED
      BY <3>2
  <2>. QED
    BY <2>1 DEF None
<1>. QED
  BY <1>3, <1>4

(* The root's address, and a child's from its parent's.                    *)
LEMMA AddressRoot ==
  ASSUME NEW t, Sound(t)
  PROVE  root \in DOMAIN t /\ Reaches(t, root, root) /\ address_of(t, root, root) = <<0>>
<1>1. Closed(t) /\ root \in DOMAIN t /\ root \in Ups(t)
  BY SoundClosed DEF Ups, Sound, Shaped
<1>2. Reaches(t, root, root)
  BY <1>1, ReachStep
<1>3. Above(t, root)[0] = root
  <2>1. ChainOf(t, root, Above(t, root))
    BY <1>1, AboveFacts
  <2>. QED
    BY <2>1 DEF ChainOf
<1>4. PICK d : d = Links(t, root, root)
  OBVIOUS
<1>5. d = 0
  BY <1>1, <1>2, <1>3, <1>4, RootPlace
<1>6. PICK a : a = address_of(t, root, root)
  OBVIOUS
<1>7. a \in Seq(Slot) /\ Len(a) = d + 1 /\ a[1] = 0
  BY <1>1, <1>2, <1>4, <1>6, AddressForm
<1>8. a = <<0>>
  BY <1>5, <1>7
<1>. QED
  BY <1>1, <1>2, <1>6, <1>8

LEMMA AddressChild ==
  ASSUME NEW t, Sound(t), NEW n \in DOMAIN t, Reaches(t, n, root), n # root
  PROVE  /\ t[n].parent \in DOMAIN t /\ Reaches(t, t[n].parent, root)
         /\ t[n].slot \in Slot
         /\ address_of(t, root, t[n].parent) \in Seq(Slot)
         /\ address_of(t, root, n) = Append(address_of(t, root, t[n].parent), t[n].slot)
<1>0. Closed(t) /\ n \in Ups(t) /\ Agreed(t) /\ root # NoNode
  BY SoundClosed, FieldFacts DEF Ups, Sound, Shaped
<1>1. PICK q : q = t[n].parent
  OBVIOUS
<1>2. Reaches(t, q, root)
  BY <1>0, <1>1, ReachStep
<1>3. q # NoNode
  BY <1>0, <1>2, AboveNone DEF Reaches
<1>4. q \in DOMAIN t /\ t[n].slot \in Slot
  <2>1. q \in DOMAIN t /\ t[n].slot \in t[q].children
    BY <1>0, <1>1, <1>3 DEF Agreed
  <2>. QED
    BY <2>1, FieldFacts
<1>5. PICK u : u = Above(t, n)
  OBVIOUS
<1>6. PICK v : v = Above(t, q)
  OBVIOUS
<1>7. u[0] = n /\ \A k \in Nat : u[k + 1] = v[k]
  <2>1. ChainOf(t, n, u)
    BY <1>0, <1>5, AboveFacts
  <2>2. PICK i \in Nat : i = 1
    OBVIOUS
  <2>3. \A k \in Nat : u[i + k] = Above(t, u[i])[k]
    BY <1>0, <1>5, AboveAgain
  <2>4. u[0] = n /\ u[0 + 1] = q
    BY <1>0, <1>1, <2>1 DEF ChainOf, Closed
  <2>5. u[1] = q
    BY <2>4
  <2>6. \A k \in Nat : u[1 + k] = v[k] /\ 1 + k = k + 1
    BY <1>6, <2>2, <2>3, <2>5
  <2>. QED
    BY <2>4, <2>6
<1>8. PICK d : d = Links(t, n, root)
  OBVIOUS
<1>9. PICK e : e = Links(t, q, root)
  OBVIOUS
<1>10. e \in Nat /\ v[e] = root
  BY <1>2, <1>4, <1>6, <1>9, RootPlace
<1>11. d = e + 1
  <2>1. e + 1 \in Nat /\ u[e + 1] = root
    BY <1>7, <1>10
  <2>. QED
    BY <1>5, <1>8, <2>1, RootPlace
<1>12. PICK a : a = address_of(t, root, n)
  OBVIOUS
<1>13. PICK b : b = address_of(t, root, q)
  OBVIOUS
<1>14. /\ a \in Seq(Slot) /\ Len(a) = d + 1 /\ a[1] = 0
       /\ \A i \in 1..d : a[i + 1] = t[u[d - i]].slot
  BY <1>5, <1>8, <1>12, AddressForm
<1>15. /\ b \in Seq(Slot) /\ Len(b) = e + 1 /\ b[1] = 0
       /\ \A i \in 1..e : b[i + 1] = t[v[e - i]].slot
  BY <1>2, <1>4, <1>6, <1>9, <1>13, AddressForm
<1>16. PICK x : x = t[n].slot
  OBVIOUS
<1>17. ASSUME NEW i \in 1..e
       PROVE  a[i + 1] = b[i + 1]
  <2>1. i \in 1..d /\ e - i \in Nat /\ d - i = (e - i) + 1
    BY <1>10, <1>11
  <2>2. u[d - i] = v[e - i]
    BY <1>7, <2>1
  <2>. QED
    BY <1>14, <1>15, <2>1, <2>2
<1>18. a[d + 1] = x
  <2>1. d \in 1..d /\ d - d = 0
    BY <1>10, <1>11
  <2>. QED
    BY <1>7, <1>14, <1>16, <2>1
<1>19. ASSUME NEW j \in 1..(d + 1)
       PROVE  a[j] = Append(b, x)[j]
  <2>1. CASE j = 1
    BY <1>10, <1>14, <1>15, <2>1
  <2>2. CASE j = d + 1
    BY <1>10, <1>11, <1>15, <1>18, <2>2
  <2>3. CASE j # 1 /\ j # d + 1
    <3>1. j - 1 \in 1..e /\ (j - 1) + 1 = j
      BY <1>10, <1>11, <2>3
    <3>2. a[j] = b[j]
      BY <1>17, <3>1
    <3>3. Append(b, x)[j] = b[j]
      BY <1>10, <1>11, <1>15, <3>1
    <3>. QED
      BY <3>2, <3>3
  <2>. QED
    BY <2>1, <2>2, <2>3
<1>20. Append(b, x) \in Seq(Slot) /\ Len(Append(b, x)) = d + 1
  BY <1>4, <1>11, <1>15, <1>16
<1>21. a = Append(b, x)
  <2>. DEFINE w == Append(b, x)
  <2>1. w \in Seq(Slot) /\ Len(w) = Len(a) /\ \A j \in 1..Len(a) : a[j] = w[j]
    BY <1>14, <1>19, <1>20
  <2>. HIDE DEF w
  <2>2. a = w
    BY <1>14, <2>1
  <2>. QED
    BY <2>2 DEF w
<1>. QED
  BY <1>1, <1>2, <1>4, <1>12, <1>13, <1>15, <1>16, <1>21

(* No two nodes of the tree of root have one address: the same last digit  *)
(* under parents of one address is the same slot of the same parent.       *)
LEMMA UniqueAddress ==
  ASSUME NEW t, Sound(t), NEW m \in DOMAIN t, NEW n \in DOMAIN t,
         Reaches(t, m, root), address_of(t, root, m) = address_of(t, root, n)
  PROVE  m = n
<1>. DEFINE Addr(x) == address_of(t, root, x)
            T == { k \in Nat : \A x, y \in DOMAIN t :
                     Reaches(t, x, root) /\ Reaches(t, y, root) /\ Addr(x) = Addr(y) /\ Len(Addr(x)) = k
                       => x = y }
<1>0. ASSUME NEW x \in DOMAIN t, Reaches(t, x, root)
      PROVE  Addr(x) \in Seq(Slot) /\ Len(Addr(x)) \in Nat \ {0}
  <2>1. PICK d : d = Links(t, x, root)
    OBVIOUS
  <2>2. d \in Nat /\ Addr(x) \in Seq(Slot) /\ Len(Addr(x)) = d + 1
    BY <1>0, <2>1, AddressForm
  <2>. HIDE DEF Addr
  <2>. QED
    BY <2>2
<1>1. Addr(root) = <<0>>
  BY AddressRoot
<1>2. ASSUME NEW x \in DOMAIN t, Reaches(t, x, root), x # root
      PROVE  /\ t[x].parent \in DOMAIN t /\ Reaches(t, t[x].parent, root)
             /\ Addr(x) = Append(Addr(t[x].parent), t[x].slot)
             /\ Len(Addr(x)) = Len(Addr(t[x].parent)) + 1
             /\ Len(Addr(t[x].parent)) \in Nat \ {0}
             /\ Addr(t[x].parent) \in Seq(Slot) /\ t[x].slot \in Slot
  <2>1. /\ t[x].parent \in DOMAIN t /\ Reaches(t, t[x].parent, root) /\ t[x].slot \in Slot
        /\ Addr(t[x].parent) \in Seq(Slot)
        /\ Addr(x) = Append(Addr(t[x].parent), t[x].slot)
    BY <1>2, AddressChild
  <2>2. Len(Addr(t[x].parent)) \in Nat \ {0}
    BY <1>0, <2>1
  <2>. HIDE DEF Addr
  <2>. QED
    BY <2>1, <2>2
<1>. HIDE DEF Addr
<1>3. 0 \in T
  BY <1>0
<1>4. ASSUME NEW k \in T
      PROVE  k + 1 \in T
  <2>. SUFFICES ASSUME NEW x \in DOMAIN t, NEW y \in DOMAIN t, Reaches(t, x, root),
                       Reaches(t, y, root), Addr(x) = Addr(y), Len(Addr(x)) = k + 1
                PROVE  x = y
    BY DEF T
  <2>0. k \in Nat /\ \A a, b \in DOMAIN t :
          Reaches(t, a, root) /\ Reaches(t, b, root) /\ Addr(a) = Addr(b) /\ Len(Addr(a)) = k => a = b
    BY DEF T
  <2>. HIDE DEF T
  <2>1. CASE x = root \/ y = root
    <3>0. Addr(x) = <<0>> /\ Addr(y) = <<0>>
      BY <1>1, <2>1
    <3>1. Len(Addr(x)) = 1 /\ Len(Addr(y)) = 1
      BY <3>0
    <3>2. ASSUME NEW z \in DOMAIN t, Reaches(t, z, root), Len(Addr(z)) = 1
          PROVE  z = root
      BY <1>2, <3>2
    <3>. QED
      BY <2>1, <3>1, <3>2
  <2>2. CASE x # root /\ y # root
    <3>1. PICK p : p = t[x].parent
      OBVIOUS
    <3>2. PICK q : q = t[y].parent
      OBVIOUS
    <3>3. /\ p \in DOMAIN t /\ Reaches(t, p, root) /\ Addr(x) = Append(Addr(p), t[x].slot)
          /\ Len(Addr(x)) = Len(Addr(p)) + 1 /\ Addr(p) \in Seq(Slot) /\ t[x].slot \in Slot
          /\ Len(Addr(p)) \in Nat
      BY <1>2, <2>2, <3>1
    <3>4. /\ q \in DOMAIN t /\ Reaches(t, q, root) /\ Addr(y) = Append(Addr(q), t[y].slot)
          /\ Addr(q) \in Seq(Slot) /\ t[y].slot \in Slot
      BY <1>2, <2>2, <3>2
    <3>6. Addr(p) = Addr(q) /\ t[x].slot = t[y].slot
      <4>0. PICK a, b, i, j : a = Addr(p) /\ b = Addr(q) /\ i = t[x].slot /\ j = t[y].slot
        OBVIOUS
      <4>1. a \in Seq(Slot) /\ b \in Seq(Slot) /\ Append(a, i) = Append(b, j)
        BY <3>3, <3>4, <4>0
      <4>2. Len(a) = Len(b) /\ Len(a) \in Nat
        BY <4>1
      <4>3. Append(a, i)[Len(a) + 1] = i /\ Append(b, j)[Len(a) + 1] = j
        BY <4>1, <4>2
      <4>4. \A l \in 1..Len(a) : Append(a, i)[l] = a[l] /\ Append(b, j)[l] = b[l]
        BY <4>1, <4>2
      <4>5. \A l \in 1..Len(a) : a[l] = b[l]
        BY <4>1, <4>4
      <4>6. a = b
        BY <4>1, <4>2, <4>5, SeqEqual
      <4>. QED
        BY <4>0, <4>1, <4>3, <4>6
    <3>7. Len(Addr(p)) = k
      BY <2>0, <3>3
    <3>8. p = q
      BY <2>0, <3>3, <3>4, <3>6, <3>7
    <3>9. p # NoNode
      BY <3>3, FieldFacts
    <3>10. Single(t)
      BY DEF Sound
    <3>. QED
      BY <3>1, <3>2, <3>6, <3>8, <3>9, <3>10 DEF Single
  <2>. QED
    BY <2>1, <2>2
<1>5. \A k \in Nat : k \in T
  <2>1. T \in SUBSET Nat
    BY DEF T
  <2>. HIDE DEF T
  <2>. QED
    BY <1>3, <1>4, <2>1, AllNat
<1>6. Reaches(t, n, root)
  BY NoAddress
<1>7. Addr(m) = Addr(n)
  BY DEF Addr
<1>8. Len(Addr(m)) \in Nat
  BY <1>0
<1>. QED
  BY <1>5, <1>6, <1>7, <1>8

(* What the inductive invariant says of a tree is more than validate asks. *)
LEMMA SoundValid ==
  ASSUME TreeInv
  PROVE  Valid
<1>0. PICK t : t = nodes
  OBVIOUS
<1>1. Sound(t)
  BY <1>0 DEF TreeInv
<1>2. Agreed(t) /\ Single(t) /\ Filled(t) /\ root \in DOMAIN t /\ DOMAIN t \subseteq Id
  BY <1>1 DEF Sound, Shaped
<1>3. Closed(t)
  BY <1>1, SoundClosed
<1>4. ASSUME NEW n \in DOMAIN t, NEW s \in t[n].children
      PROVE  Cardinality({ c \in DOMAIN t : t[c].parent = n /\ t[c].slot = s }) <= 1
  <2>1. n # NoNode
    BY <1>1, FieldFacts
  <2>2. PICK c \in DOMAIN t : t[c].parent = n /\ t[c].slot = s
    BY <1>2 DEF Filled
  <2>3. { d \in DOMAIN t : t[d].parent = n /\ t[d].slot = s } = {c}
    BY <1>2, <2>1, <2>2 DEF Single
  <2>4. Cardinality({c}) = 1
    BY FS_Singleton
  <2>. QED
    BY <2>3, <2>4
<1>5. \A n \in DOMAIN t : Acyclic(t, n)
  BY <1>1, <1>3, FallsEnds DEF Sound, Ranked
<1>6. ASSUME NEW m \in DOMAIN t, NEW n \in DOMAIN t, m # n, address_of(t, root, m) # None
      PROVE  address_of(t, root, m) # address_of(t, root, n)
  <2>1. Reaches(t, m, root)
    BY <1>1, <1>6, NoAddress
  <2>. QED
    BY <1>1, <1>6, <2>1, UniqueAddress
<1>7. ValidTree(t, root)
  <2>. DEFINE addr == [ n \in DOMAIN t |-> address_of(t, root, n) ]
  <2>1. \A m, n \in DOMAIN t : m # n /\ addr[m] # None => addr[m] # addr[n]
    BY <1>6
  <2>. QED
    BY <1>2, <1>4, <1>5, <2>1 DEF ValidTree, Agreed
<1>8. TypeOK
  BY <1>0, <1>1, <1>2, FieldFacts DEF TypeOK
<1>. QED
  BY <1>0, <1>2, <1>7, <1>8 DEF Valid, Filled

(* Whatever is added, attached, moved, detached and removed, in any order  *)
(* and under any ids, the topology passes its own validate, and no slot    *)
(* stays taken by a child that left.                                       *)
THEOREM TopologyStaysValid == Spec => []Valid
<1>1. Init => TreeInv
  BY InitSound DEF TreeInv
<1>2. TreeInv /\ [Next]_nodes => TreeInv'
  BY StepSound
<1>3. TreeInv => Valid
  BY SoundValid
<1>. QED
  BY <1>1, <1>2, <1>3, PTL DEF Spec

-----------------------------------------------------------------------------
(***************************************************************************)
(* How one step changes addresses.                                         *)
(***************************************************************************)
(* Two trees with the same links along the chain of n in t.                *)
SameChain(t, r, n) ==
  \A m \in DOMAIN t : Reaches(t, n, m) =>
    m \in DOMAIN r /\ r[m].parent = t[m].parent /\ r[m].slot = t[m].slot

LEMMA SameAbove ==
  ASSUME NEW t, Closed(t), NEW r, Closed(r), NEW n \in DOMAIN t, SameChain(t, r, n)
  PROVE  Above(t, n) = Above(r, n)
<1>1. PICK u : u = Above(t, n)
  OBVIOUS
<1>2. PICK v : v = Above(r, n)
  OBVIOUS
<1>3. n \in DOMAIN r /\ n \in Ups(r) /\ n \in Ups(t)
  <2>1. Reaches(t, n, n)
    BY ReachStep
  <2>. QED
    BY <2>1 DEF SameChain, Ups
<1>4. ChainOf(t, n, u) /\ ChainOf(r, n, v)
  BY <1>1, <1>2, <1>3, AboveFacts
<1>. DEFINE T == { k \in Nat : u[k] = v[k] }
<1>5. 0 \in T
  BY <1>4 DEF ChainOf
<1>6. ASSUME NEW k \in T
      PROVE  k + 1 \in T
  <2>1. k \in Nat /\ u[k] = v[k] /\ u[k] \in Ups(t)
    BY <1>4 DEF ChainOf
  <2>. HIDE DEF T
  <2>2. u[k] # NoNode => r[u[k]].parent = t[u[k]].parent
    BY <1>1, <2>1 DEF SameChain, Reaches, Ups
  <2>3. /\ u[k + 1] = IF u[k] = NoNode THEN NoNode ELSE t[u[k]].parent
        /\ v[k + 1] = IF v[k] = NoNode THEN NoNode ELSE r[v[k]].parent
    BY <1>4, <2>1 DEF ChainOf
  <2>. QED
    BY <2>1, <2>2, <2>3 DEF T
<1>7. \A k \in Nat : k \in T
  <2>1. T \in SUBSET Nat
    BY DEF T
  <2>. HIDE DEF T
  <2>. QED
    BY <1>5, <1>6, <2>1, AllNat
<1>8. \A k \in Nat : u[k] = v[k]
  BY <1>7
<1>. HIDE DEF T
<1>9. u = [ k \in Nat |-> u[k] ] /\ v = [ k \in Nat |-> v[k] ]
  BY <1>4 DEF ChainOf
<1>. QED
  BY <1>1, <1>2, <1>8, <1>9

(* A chain that keeps its links keeps the address at its lower end.        *)
LEMMA SameAddress ==
  ASSUME NEW t, Sound(t), NEW r, Sound(r), NEW n \in DOMAIN t, SameChain(t, r, n)
  PROVE  /\ n \in DOMAIN r
         /\ Above(t, n) = Above(r, n)
         /\ address_of(t, root, n) = address_of(r, root, n)
<1>1. Closed(t) /\ Closed(r)
  BY SoundClosed
<1>2. n \in DOMAIN r
  <2>1. Reaches(t, n, n)
    BY <1>1, ReachStep
  <2>. QED
    BY <2>1 DEF SameChain
<1>3. Above(t, n) = Above(r, n)
  BY <1>1, SameAbove
<1>4. Reaches(t, n, root) <=> Reaches(r, n, root)
  BY <1>3 DEF Reaches
<1>5. CASE ~Reaches(t, n, root)
  BY <1>2, <1>3, <1>4, <1>5, NoAddress
<1>6. CASE Reaches(t, n, root)
  <2>1. PICK d : d = Links(t, n, root)
    OBVIOUS
  <2>2. PICK e : e = Links(r, n, root)
    OBVIOUS
  <2>3. /\ d \in Nat /\ Above(t, n)[d] = root
        /\ \A k \in Nat : k <= d => Above(t, n)[k] \in DOMAIN t
    BY <1>6, <2>1, RootPlace
  <2>4. d = e
    BY <1>2, <1>3, <1>4, <1>6, <2>2, <2>3, RootPlace
  <2>5. PICK a : a = address_of(t, root, n)
    OBVIOUS
  <2>6. PICK b : b = address_of(r, root, n)
    OBVIOUS
  <2>7. /\ a \in Seq(Slot) /\ Len(a) = d + 1 /\ a[1] = 0
        /\ \A i \in 1..d : a[i + 1] = t[Above(t, n)[d - i]].slot
    BY <1>6, <2>1, <2>5, AddressForm
  <2>8. /\ b \in Seq(Slot) /\ Len(b) = e + 1 /\ b[1] = 0
        /\ \A i \in 1..e : b[i + 1] = r[Above(r, n)[e - i]].slot
    BY <1>2, <1>4, <1>6, <2>2, <2>6, AddressForm
  <2>9. ASSUME NEW i \in 1..d
        PROVE  a[i + 1] = b[i + 1]
    <3>1. PICK m : m = Above(t, n)[d - i]
      OBVIOUS
    <3>2. d - i \in Nat /\ d - i <= d
      BY <2>3
    <3>3. m \in DOMAIN t /\ Reaches(t, n, m)
      BY <2>3, <3>1, <3>2 DEF Reaches
    <3>4. r[m].slot = t[m].slot
      BY <3>3 DEF SameChain
    <3>. QED
      BY <1>3, <2>4, <2>7, <2>8, <3>1, <3>4
  <2>10. ASSUME NEW j \in 1..Len(a)
         PROVE  a[j] = b[j]
    <3>1. CASE j = 1
      BY <2>7, <2>8, <3>1
    <3>2. CASE j # 1
      <4>1. j - 1 \in 1..d /\ (j - 1) + 1 = j
        BY <2>3, <2>7, <3>2
      <4>. QED
        BY <2>9, <4>1
    <3>. QED
      BY <3>1, <3>2
  <2>11. Len(a) = Len(b)
    BY <2>4, <2>7, <2>8
  <2>12. a = b
    BY <2>7, <2>8, <2>10, <2>11, SeqEqual
  <2>. QED
    BY <1>2, <1>3, <2>5, <2>6, <2>12
<1>. QED
  BY <1>5, <1>6

(* What n reaches through a.                                               *)
LEMMA ReachVia ==
  ASSUME NEW t, Closed(t), NEW n \in Ups(t), NEW a, Reaches(t, n, a), NEW b, Reaches(t, a, b)
  PROVE  Reaches(t, n, b)
<1>1. PICK i \in Nat : Above(t, n)[i] = a
  BY DEF Reaches
<1>2. PICK j \in Nat : Above(t, a)[j] = b
  BY DEF Reaches
<1>3. \A d \in Nat : Above(t, n)[i + d] = Above(t, Above(t, n)[i])[d]
  BY AboveAgain
<1>4. i + j \in Nat /\ Above(t, n)[i + j] = b
  BY <1>1, <1>2, <1>3
<1>. QED
  BY <1>4 DEF Reaches

(* The address of a node in the tree begins with that of every node above  *)
(* it.                                                                     *)
LEMMA AddressAbove ==
  ASSUME NEW t, Sound(t), NEW n \in DOMAIN t, NEW a \in DOMAIN t, n # a,
         Reaches(t, n, a), Reaches(t, a, root)
  PROVE  is_ancestor_of(address_of(t, root, a), address_of(t, root, n))
<1>1. Closed(t) /\ n \in Ups(t) /\ a \in Ups(t)
  BY SoundClosed DEF Ups
<1>2. Reaches(t, n, root)
  BY <1>1, ReachVia
<1>3. PICK i \in Nat : Above(t, n)[i] = a
  BY DEF Reaches
<1>4. \A k \in Nat : Above(t, n)[i + k] = Above(t, a)[k]
  BY <1>1, <1>3, AboveAgain
<1>5. i # 0
  <2>1. ChainOf(t, n, Above(t, n))
    BY <1>1, AboveFacts
  <2>. QED
    BY <1>3, <2>1 DEF ChainOf
<1>6. PICK d : d = Links(t, n, root)
  OBVIOUS
<1>7. PICK e : e = Links(t, a, root)
  OBVIOUS
<1>8. e \in Nat /\ Above(t, a)[e] = root
  BY <1>7, RootPlace
<1>9. d = i + e
  <2>1. i + e \in Nat /\ Above(t, n)[i + e] = root
    BY <1>4, <1>8
  <2>. QED
    BY <1>2, <1>6, <2>1, RootPlace
<1>10. PICK x : x = address_of(t, root, n)
  OBVIOUS
<1>11. PICK y : y = address_of(t, root, a)
  OBVIOUS
<1>12. /\ x \in Seq(Slot) /\ Len(x) = d + 1 /\ x[1] = 0
       /\ \A k \in 1..d : x[k + 1] = t[Above(t, n)[d - k]].slot
  BY <1>2, <1>6, <1>10, AddressForm
<1>13. /\ y \in Seq(Slot) /\ Len(y) = e + 1 /\ y[1] = 0
       /\ \A k \in 1..e : y[k + 1] = t[Above(t, a)[e - k]].slot
  BY <1>7, <1>11, AddressForm
<1>14. ASSUME NEW k \in 1..e
       PROVE  x[k + 1] = y[k + 1]
  <2>1. k \in 1..d /\ e - k \in Nat /\ d - k = i + (e - k)
    BY <1>8, <1>9
  <2>2. Above(t, n)[d - k] = Above(t, a)[e - k]
    BY <1>4, <2>1
  <2>. QED
    BY <1>12, <1>13, <2>1, <2>2
<1>15. ASSUME NEW j \in 1..Len(y)
       PROVE  x[j] = y[j]
  <2>1. CASE j = 1
    BY <1>12, <1>13, <2>1
  <2>2. CASE j # 1
    <3>1. j - 1 \in 1..e /\ (j - 1) + 1 = j
      BY <1>8, <1>13, <2>2
    <3>. QED
      BY <1>14, <3>1
  <2>. QED
    BY <2>1, <2>2
<1>16. Len(y) < Len(x) /\ Len(y) \in Nat /\ Len(x) \in Nat
  BY <1>5, <1>8, <1>9, <1>12, <1>13
<1>17. SubSeq(x, 1, Len(y)) = y
  <2>1. PICK z : z = SubSeq(x, 1, Len(y))
    OBVIOUS
  <2>2. z \in Seq(Slot) /\ Len(z) = Len(y) /\ \A j \in 1..Len(y) : z[j] = x[j]
    BY <1>12, <1>16, <2>1
  <2>3. z = y
    BY <1>13, <1>15, <2>2, SeqEqual
  <2>. QED
    BY <2>1, <2>3
<1>. QED
  BY <1>10, <1>11, <1>16, <1>17 DEF is_ancestor_of, depth, Prefix

(* A node in the tree is there through every node above it.                *)
LEMMA ReachRoot ==
  ASSUME NEW t, Sound(t), NEW n \in DOMAIN t, NEW a \in DOMAIN t,
         Reaches(t, n, a), Reaches(t, n, root)
  PROVE  Reaches(t, a, root)
<1>1. Closed(t) /\ n \in Ups(t) /\ a # NoNode /\ root \in DOMAIN t /\ t[root].parent = NoNode
  BY SoundClosed, FieldFacts DEF Ups, Sound, Shaped, Agreed
<1>2. PICK i \in Nat : Above(t, n)[i] = a
  BY DEF Reaches
<1>3. PICK j \in Nat : Above(t, n)[j] = root
  BY DEF Reaches
<1>4. \A k, l \in Nat : Above(t, n)[k + l] = Above(t, Above(t, n)[k])[l]
  BY <1>1, AboveAgain
<1>5. CASE i <= j
  <2>1. j - i \in Nat /\ i + (j - i) = j
    BY <1>5
  <2>2. Above(t, a)[j - i] = root
    BY <1>2, <1>3, <1>4, <2>1
  <2>. QED
    BY <2>1, <2>2 DEF Reaches
<1>6. CASE j < i
  <2>1. i - j \in Nat /\ j + (i - j) = i
    BY <1>6
  <2>2. Above(t, root)[i - j] = a
    BY <1>2, <1>3, <1>4, <2>1
  <2>3. Reaches(t, root, a)
    BY <2>1, <2>2 DEF Reaches
  <2>4. root = a \/ Reaches(t, NoNode, a)
    BY <1>1, <2>3, ReachStep
  <2>5. ~Reaches(t, NoNode, a)
    BY <1>1, AboveNone DEF Reaches
  <2>6. Reaches(t, root, root)
    BY AddressRoot
  <2>. QED
    BY <2>4, <2>5, <2>6
<1>. QED
  BY <1>5, <1>6

(* The link that a change of address goes back to.                         *)
Moved(t, r, n) ==
  \E c \in DOMAIN t \cap DOMAIN r :
    /\ <<t[c].parent, t[c].slot>> # <<r[c].parent, r[c].slot>>
    /\ OnChain(t, c, n)
    /\ is_ancestor_of(address_of(t, root, t[c].parent), address_of(r, root, n))

Renumbered(t, r, n) ==
  LET old == address_of(t, root, n)
      new == address_of(r, root, n)
  IN  old # None /\ new # None /\ old # new

(* An operation that takes a link away or adds a node renumbers nothing.   *)
LEMMA KeptAddress ==
  ASSUME NEW t, Sound(t), NEW r, Sound(r), NEW n \in DOMAIN t \cap DOMAIN r,
         SameChain(t, r, n) \/ SameChain(r, t, n)
  PROVE  ~Renumbered(t, r, n)
<1>1. address_of(t, root, n) = address_of(r, root, n)
  BY SameAddress
<1>. QED
  BY <1>1 DEF Renumbered

(* A node at the top of an island is not above a node of the tree.         *)
LEMMA TopOfIsland ==
  ASSUME NEW t, Sound(t), NEW n \in DOMAIN t, NEW c \in DOMAIN t, c # root,
         t[c].parent = NoNode, address_of(t, root, n) # None
  PROVE  ~Reaches(t, n, c)
<1>1. Closed(t) /\ root # NoNode
  BY SoundClosed, FieldFacts DEF Sound, Shaped
<1>2. Reaches(t, n, root)
  BY NoAddress
<1>3. ~Reaches(t, c, root)
  <2>1. ~Reaches(t, NoNode, root)
    BY <1>1, AboveNone DEF Reaches
  <2>. QED
    BY <1>1, <2>1, ReachStep
<1>. QED
  BY <1>2, <1>3, ReachRoot

LEMMA MoveDownward ==
  ASSUME NEW t, Sound(t), NEW p \in DOMAIN t, NEW c \in DOMAIN t, NEW f \in Slot,
         t[c].parent # NoNode, ~OnChain(t, c, p), OnChain(t, t[c].parent, p),
         NEW r, r = Relink(t, c, p, f), Sound(r),
         NEW n \in DOMAIN t, Renumbered(t, r, n)
  PROVE  Moved(t, r, n)
<1>0. Closed(t) /\ p \in Ups(t) /\ n \in Ups(t) /\ Agreed(t)
  BY SoundClosed DEF Ups, Sound
<1>1. ~Reaches(t, p, c) /\ Reaches(t, p, t[c].parent)
  BY <1>0, ReachBound
<1>2. p # c
  BY <1>0, <1>1, ReachStep
<1>3. /\ DOMAIN r = DOMAIN t
      /\ r[c].parent = p /\ r[c].slot = f
      /\ \A m \in DOMAIN t : m # c => r[m].parent = t[m].parent /\ r[m].slot = t[m].slot
  BY <1>2, RelinkFacts
<1>4. Closed(r) /\ n \in Ups(r) /\ p \in Ups(r)
  BY <1>0, <1>3, SoundClosed DEF Ups
<1>5. PICK q : q = t[c].parent
  OBVIOUS
<1>6. q \in DOMAIN t /\ q \in Ups(t)
  BY <1>0, <1>5 DEF Agreed, Ups
<1>7. Reaches(t, n, c)
  <2>1. ASSUME ~Reaches(t, n, c)
        PROVE  SameChain(t, r, n)
    BY <1>3, <2>1 DEF SameChain
  <2>. QED
    BY <1>3, <2>1, KeptAddress
<1>8. Reaches(r, n, c)
  <2>1. ASSUME ~Reaches(r, n, c)
        PROVE  SameChain(r, t, n)
    BY <1>3, <2>1 DEF SameChain
  <2>. QED
    BY <1>3, <2>1, KeptAddress
<1>9. <<t[c].parent, t[c].slot>> # <<r[c].parent, r[c].slot>>
  <2>1. ASSUME <<t[c].parent, t[c].slot>> = <<r[c].parent, r[c].slot>>
        PROVE  SameChain(t, r, n)
    <3>1. t[c].parent = r[c].parent /\ t[c].slot = r[c].slot
      BY <2>1
    <3>. QED
      BY <1>3, <3>1 DEF SameChain
  <2>. QED
    BY <1>3, <2>1, KeptAddress
<1>10. OnChain(t, c, n)
  BY <1>0, <1>7, ReachBound
<1>11. Above(t, p) = Above(r, p)
  <2>1. SameChain(t, r, p)
    BY <1>1, <1>3 DEF SameChain
  <2>. QED
    BY <2>1, SameAddress
<1>12. ~Reaches(t, q, c)
  BY <1>0, <1>1, <1>5, ReachVia
<1>13. address_of(t, root, q) = address_of(r, root, q) /\ Above(t, q) = Above(r, q)
  <2>1. SameChain(t, r, q)
    BY <1>3, <1>12 DEF SameChain
  <2>. QED
    BY <1>6, <2>1, SameAddress
<1>14. Reaches(r, p, q)
  BY <1>1, <1>5, <1>11 DEF Reaches
<1>15. Reaches(r, n, q)
  <2>1. Reaches(r, p, p)
    BY <1>3, <1>4, ReachStep
  <2>2. Reaches(r, c, p)
    BY <1>3, <1>4, <2>1, ReachStep
  <2>3. Reaches(r, n, p)
    BY <1>4, <1>8, <2>2, ReachVia
  <2>. QED
    BY <1>4, <1>14, <2>3, ReachVia
<1>16. n # q
  <2>1. ~Reaches(r, q, c)
    BY <1>12, <1>13 DEF Reaches
  <2>. QED
    BY <1>8, <2>1
<1>17. Reaches(r, q, root)
  <2>1. Reaches(r, n, root)
    BY <1>3, NoAddress DEF Renumbered
  <2>. QED
    BY <1>3, <1>6, <1>15, <2>1, ReachRoot
<1>18. is_ancestor_of(address_of(r, root, q), address_of(r, root, n))
  BY <1>3, <1>6, <1>15, <1>16, <1>17, AddressAbove
<1>. QED
  BY <1>3, <1>5, <1>9, <1>10, <1>13, <1>18 DEF Moved

LEMMA StepDownward ==
  ASSUME TreeInv, Next, NEW n \in DOMAIN nodes \cap DOMAIN nodes',
         Renumbered(nodes, nodes', n)
  PROVE  Moved(nodes, nodes', n)
<1>0. PICK t : t = nodes
  OBVIOUS
<1>1. PICK r : r = nodes'
  OBVIOUS
<1>2. Sound(t) /\ Sound(r)
  <2>1. TreeInv'
    BY StepSound
  <2>. QED
    BY <1>0, <1>1, <2>1 DEF TreeInv
<1>3. n \in DOMAIN t /\ n \in DOMAIN r /\ Renumbered(t, r, n)
  BY <1>0, <1>1
<1>. SUFFICES Moved(t, r, n)
  BY <1>0, <1>1
<1>4. ~SameChain(t, r, n) /\ ~SameChain(r, t, n)
  BY <1>2, <1>3, KeptAddress
<1>5. ASSUME NEW x \in Id, remove_node(x)
      PROVE  FALSE
  <2>1. DOMAIN r = DOMAIN t \ {x}
    BY <1>0, <1>1, <1>5 DEF remove_node
  <2>2. ASSUME NEW m \in DOMAIN r
        PROVE  r[m].parent = t[m].parent /\ r[m].slot = t[m].slot
    <3>1. t[m] \in Rec
      BY <1>2, <2>1, FieldFacts
    <3>2. r[m] = t[m] \/ r[m] = [t[m] EXCEPT !.children = @ \ {t[x].slot}]
      BY <1>0, <1>1, <1>5, <2>1 DEF remove_node
    <3>. QED
      BY <3>1, <3>2 DEF Rec
  <2>. QED
    BY <1>4, <2>1, <2>2 DEF SameChain
<1>6. ASSUME NEW c \in Id, detach(c)
      PROVE  FALSE
  <2>1. c \in DOMAIN t /\ c # root /\ t[c].parent # NoNode /\ r = Unlink(t, c)
    BY <1>0, <1>1, <1>6 DEF detach
  <2>2. t[c].parent # c
    <3>1. PICK h : Falls(t, h)
      BY <1>2 DEF Sound, Ranked
    <3>2. h[t[c].parent] < h[c] /\ h[c] \in Nat
      BY <2>1, <3>1 DEF Falls
    <3>. QED
      BY <3>2
  <2>3. /\ DOMAIN r = DOMAIN t /\ r[c].parent = NoNode
        /\ \A m \in DOMAIN t : m # c => r[m].parent = t[m].parent /\ r[m].slot = t[m].slot
    BY <1>2, <2>1, <2>2, DetachFacts
  <2>4. ~Reaches(r, n, c)
    BY <1>2, <1>3, <2>1, <2>3, TopOfIsland DEF Renumbered
  <2>. QED
    BY <1>4, <2>3, <2>4 DEF SameChain
<1>7. ASSUME NEW x \in Id, NEW k \in Kind, add_node(x, k)
      PROVE  FALSE
  <2>1. x \notin DOMAIN t /\ DOMAIN r = DOMAIN t \cup {x} /\ \A m \in DOMAIN t : r[m] = t[m]
    BY <1>0, <1>1, <1>7 DEF add_node
  <2>. QED
    BY <1>4, <2>1 DEF SameChain
<1>8. ASSUME NEW p \in Id, NEW c \in Id, NEW s, attach(p, c, s)
      PROVE  FALSE
  <2>1. p \in DOMAIN t /\ c \in DOMAIN t /\ c # root /\ t[c].parent = NoNode /\ ~OnChain(t, c, p)
    BY <1>0, <1>8 DEF attach
  <2>2. PICK f \in resolve_slot(t, p, c, s) : r = Relink(t, c, p, f)
    BY <1>0, <1>1, <1>8 DEF attach
  <2>3. f \in Slot
    BY <1>2, <2>1, <2>2, SlotGiven
  <2>4. p # c
    <3>1. Closed(t) /\ p \in Ups(t)
      BY <1>2, <2>1, SoundClosed DEF Ups
    <3>. QED
      BY <2>1, <3>1, ReachBound, ReachStep
  <2>5. /\ DOMAIN r = DOMAIN t
        /\ \A m \in DOMAIN t : m # c => r[m].parent = t[m].parent /\ r[m].slot = t[m].slot
    BY <1>2, <2>1, <2>2, <2>3, <2>4, RelinkFacts
  <2>6. ~Reaches(t, n, c)
    BY <1>2, <1>3, <2>1, TopOfIsland DEF Renumbered
  <2>. QED
    BY <1>4, <2>5, <2>6 DEF SameChain
<1>9. ASSUME NEW p \in Id, NEW c \in Id, NEW s, move_child(c, p, s)
      PROVE  Moved(t, r, n)
  <2>1. /\ p \in DOMAIN t /\ c \in DOMAIN t /\ t[c].parent # NoNode
        /\ ~OnChain(t, c, p) /\ OnChain(t, t[c].parent, p)
    BY <1>0, <1>9 DEF move_child
  <2>2. PICK f \in resolve_slot(t, p, c, s) : r = Relink(t, c, p, f)
    BY <1>0, <1>1, <1>9 DEF move_child
  <2>3. f \in Slot
    BY <1>2, <2>1, <2>2, SlotGiven
  <2>. QED
    BY <1>2, <1>3, <2>1, <2>2, <2>3, MoveDownward
<1>. QED
  BY <1>5, <1>6, <1>7, <1>8, <1>9 DEF Next

(* Renumbering stays within a region, at every node and whatever moves: a  *)
(* changed address begins with that of the old parent of the moved node.   *)
THEOREM RenumberingStaysBelow == Spec => DownwardOnly
<1>. DEFINE Step == \A n \in DOMAIN nodes \cap DOMAIN nodes' :
        LET old == address_of(nodes, root, n)
            new == address_of(nodes', root, n)
        IN  old # None /\ new # None /\ old # new =>
              \E c \in DOMAIN nodes \cap DOMAIN nodes' :
                /\ <<nodes[c].parent, nodes[c].slot>> # <<nodes'[c].parent, nodes'[c].slot>>
                /\ OnChain(nodes, c, n)
                /\ is_ancestor_of(address_of(nodes, root, nodes[c].parent), new)
<1>1. Init => TreeInv
  BY InitSound DEF TreeInv
<1>2. TreeInv /\ [Next]_nodes => TreeInv'
  BY StepSound
<1>3. ASSUME TreeInv, Next
      PROVE  Step
  <2>1. \A n \in DOMAIN nodes \cap DOMAIN nodes' : Renumbered(nodes, nodes', n) => Moved(nodes, nodes', n)
    BY <1>3, StepDownward
  <2>. QED
    BY <2>1, Zenon DEF Renumbered, Moved
<1>4. TreeInv /\ [Next]_nodes => [Step]_nodes
  <2>. HIDE DEF Step
  <2>. QED
    BY <1>3
<1>5. DownwardOnly <=> [][Step]_nodes
  BY DEF DownwardOnly
<1>. HIDE DEF Step
<1>. QED
  BY <1>1, <1>2, <1>4, <1>5, PTL DEF Spec
=============================================================================
