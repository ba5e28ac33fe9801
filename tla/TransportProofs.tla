--------------------------- MODULE TransportProofs ---------------------------
(***************************************************************************)
(* Proofs about the envelope transport, for every tree, every set of       *)
(* envelopes and every bound: no hop ever refuses the chain of an honest   *)
(* predecessor, the origin is told Delivered only for what was delivered,  *)
(* and an envelope is delivered once where the replay windows have room.   *)
(*                                                                         *)
(* First, what a bounded replay window keeps, for any origins, ids and     *)
(* bounds: it stays well formed, it remembers what it is shown, an         *)
(* eviction is the only thing that makes it forget an id, and rolling a    *)
(* mark back touches that mark alone.                                      *)
(***************************************************************************)
EXTENDS Transport, SequenceTheorems, FiniteSetTheorems, WellFoundedInduction, TLAPS

-----------------------------------------------------------------------------
(***************************************************************************)
(* The replay window.                                                      *)
(***************************************************************************)
(* A well-formed window over origins O and ids I: one non-empty list of    *)
(* distinct ids for each origin, within the bounds.                        *)
Window(O, I) ==
  { w \in Seq([origin : O, ids : Seq(I)]) :
      /\ Len(w) <= max_origins
      /\ \A i, j \in 1..Len(w) : w[i].origin = w[j].origin => i = j
      /\ \A i \in 1..Len(w) : Len(w[i].ids) \in 1..max_per_origin /\ IsInjective(w[i].ids) }

(* Nothing is pushed out when id e of origin o comes in.                   *)
Fits(w, o, e) ==
  /\ Tracked(w, o) \/ Len(w) < max_origins
  /\ Remembers(w, o, e) \/ Len(Ids(w, o)) < max_per_origin
-----------------------------------------------------------------------------
LEMMA LeastNat ==
  ASSUME NEW T \in SUBSET Nat, T # {}
  PROVE  \E x \in T : \A y \in T : x <= y
<1>1. \E x \in T : \A y \in T : ~(<<y, x>> \in OpToRel(<, Nat))
  BY NatLessThanWellFounded, WFMin, Zenon
<1>2. \E x \in T : \A y \in T : ~(y < x)
  BY <1>1, Zenon DEF OpToRel
<1>. QED
  BY <1>2

(* The sequence without its k-th element.                                  *)
LEMMA RemoveAtFacts ==
  ASSUME NEW S, NEW s \in Seq(S), NEW k \in 1..Len(s)
  PROVE  /\ RemoveAt(s, k) \in Seq(S)
         /\ Len(RemoveAt(s, k)) = Len(s) - 1
         /\ \A i \in 1..(Len(s) - 1) : RemoveAt(s, k)[i] = IF i < k THEN s[i] ELSE s[i + 1]
<1>. DEFINE n == Len(s)
            a == SubSeq(s, 1, k - 1)
            b == SubSeq(s, k + 1, n)
<1>1. n \in Nat /\ k \in Nat /\ 1 <= k /\ k <= n
  OBVIOUS
<1>2. a \in Seq(S) /\ Len(a) = k - 1 /\ \A i \in 1..(k - 1) : a[i] = s[i]
  BY <1>1
<1>3. b \in Seq(S) /\ Len(b) = n - k /\ \A i \in 1..(n - k) : b[i] = s[i + k]
  BY <1>1
<1>. HIDE DEF a, b
<1>4. /\ a \o b \in Seq(S) /\ Len(a \o b) = Len(a) + Len(b)
      /\ \A i \in 1..(Len(a) + Len(b)) : (a \o b)[i] = IF i <= Len(a) THEN a[i] ELSE b[i - Len(a)]
  BY <1>2, <1>3, ConcatProperties
<1>5. RemoveAt(s, k) = a \o b
  BY DEF RemoveAt, a, b
<1>. HIDE DEF n
<1>6. ASSUME NEW i \in 1..(n - 1)
      PROVE  (a \o b)[i] = IF i < k THEN s[i] ELSE s[i + 1]
  <2>1. CASE i < k
    <3>1. i \in 1..(k - 1) /\ i \in 1..(Len(a) + Len(b)) /\ i <= Len(a)
      BY <1>1, <1>2, <1>3, <2>1
    <3>. QED
      BY <1>2, <1>4, <2>1, <3>1
  <2>2. CASE ~(i < k)
    <3>1. i - (k - 1) \in 1..(n - k) /\ i \in 1..(Len(a) + Len(b)) /\ ~(i <= Len(a)) /\ Len(a) = k - 1
      BY <1>1, <1>2, <1>3, <2>2
    <3>2. (a \o b)[i] = b[i - (k - 1)]
      BY <1>4, <3>1
    <3>3. i - (k - 1) + k = i + 1
      BY <1>1
    <3>4. b[i - (k - 1)] = s[i + 1]
      BY <1>3, <3>1, <3>3
    <3>. QED
      BY <2>2, <3>2, <3>4
  <2>. QED
    BY <2>1, <2>2
<1>7. Len(a \o b) = n - 1
  BY <1>1, <1>2, <1>3, <1>4
<1>. QED
  BY <1>4, <1>5, <1>6, <1>7 DEF n

(* Where the i-th element of what is left was.                             *)
Skip(i, k) == IF i < k THEN i ELSE i + 1

(* Without its k-th element, the others keep their order and their number. *)
LEMMA RemoveAtKeeps ==
  ASSUME NEW S, NEW s \in Seq(S), NEW k \in 1..Len(s)
  PROVE  /\ \A i \in 1..Len(RemoveAt(s, k)) :
              \E j \in 1..Len(s) : j # k /\ RemoveAt(s, k)[i] = s[j] /\ j = Skip(i, k)
         /\ \A j \in 1..Len(s) : j # k => \E i \in 1..Len(RemoveAt(s, k)) : RemoveAt(s, k)[i] = s[j]
<1>. DEFINE r == RemoveAt(s, k)
<1>0. Len(s) \in Nat /\ k \in Nat /\ 1 <= k /\ k <= Len(s)
  OBVIOUS
<1>. HIDE DEF r
<1>a. /\ Len(r) = Len(s) - 1
      /\ \A i \in 1..(Len(s) - 1) : r[i] = IF i < k THEN s[i] ELSE s[i + 1]
  BY RemoveAtFacts, Zenon DEF r
<1>1. /\ Len(s) \in Nat /\ k \in Nat /\ 1 <= k /\ k <= Len(s)
      /\ Len(r) = Len(s) - 1
      /\ \A i \in 1..(Len(s) - 1) : r[i] = IF i < k THEN s[i] ELSE s[i + 1]
  BY <1>0, <1>a
<1>2. ASSUME NEW i \in 1..Len(r)
      PROVE  \E j \in 1..Len(s) : j # k /\ r[i] = s[j] /\ j = Skip(i, k)
  <2>1. CASE i < k
    BY <1>1, <2>1 DEF Skip
  <2>2. CASE ~(i < k)
    <3>1. i + 1 \in 1..Len(s) /\ i + 1 # k /\ r[i] = s[i + 1]
      BY <1>1, <2>2
    <3>. QED
      BY <2>2, <3>1 DEF Skip
  <2>. QED
    BY <2>1, <2>2
<1>3. ASSUME NEW j \in 1..Len(s), j # k
      PROVE  \E i \in 1..Len(r) : r[i] = s[j]
  <2>1. CASE j < k
    BY <1>1, <2>1
  <2>2. CASE j > k
    <3>1. j - 1 \in 1..Len(r) /\ ~(j - 1 < k) /\ (j - 1) + 1 = j
      BY <1>1, <2>2
    <3>. QED
      BY <1>1, <3>1
  <2>. QED
    BY <1>1, <1>3, <2>1, <2>2
<1>. QED
  BY <1>2, <1>3 DEF r

(* Without its k-th element, a sequence of distinct elements has the same  *)
(* elements but one.                                                       *)
LEMMA RemoveAtInjective ==
  ASSUME NEW S, NEW s \in Seq(S), NEW k \in 1..Len(s), IsInjective(s)
  PROVE  IsInjective(RemoveAt(s, k)) /\ \A i \in 1..Len(RemoveAt(s, k)) : RemoveAt(s, k)[i] # s[k]
<1>. DEFINE r == RemoveAt(s, k)
<1>1. r \in Seq(S) /\ DOMAIN r = 1..Len(r) /\ DOMAIN s = 1..Len(s) /\ Len(r) \in Nat
  BY RemoveAtFacts, LenProperties
<1>2. \A i \in 1..Len(r) : \E j \in 1..Len(s) : j # k /\ r[i] = s[j] /\ j = Skip(i, k)
  BY RemoveAtKeeps
<1>. HIDE DEF r
<1>3. ASSUME NEW x \in 1..Len(r), NEW y \in 1..Len(r), r[x] = r[y]
      PROVE  x = y
  <2>1. PICK jx \in 1..Len(s) : r[x] = s[jx] /\ jx = Skip(x, k)
    BY <1>2
  <2>2. PICK jy \in 1..Len(s) : r[y] = s[jy] /\ jy = Skip(y, k)
    BY <1>2
  <2>3. jx = jy
    BY <1>1, <1>3, <2>1, <2>2 DEF IsInjective
  <2>. QED
    BY <1>1, <2>1, <2>2, <2>3 DEF Skip
<1>4. \A i \in 1..Len(r) : r[i] # s[k]
  BY <1>1, <1>2 DEF IsInjective
<1>. QED
  BY <1>1, <1>3, <1>4 DEF IsInjective, r

(* RemoveFirst takes one element out of a sequence of distinct elements.   *)
LEMMA RemoveFirstFacts ==
  ASSUME NEW S, NEW s \in Seq(S), NEW e, IsInjective(s)
  PROVE  LET r == RemoveFirst(s, e)
         IN  /\ r \in Seq(S) /\ Len(r) <= Len(s) /\ IsInjective(r)
             /\ \A x : Contains(r, x) <=> Contains(s, x) /\ x # e
<1>1. CASE \E i \in 1..Len(s) : s[i] = e
  <2>. DEFINE T == { i \in 1..Len(s) : s[i] = e }
              k == Min(T)
              r == RemoveAt(s, k)
  <2>1. T \in SUBSET Nat /\ T # {}
    BY <1>1
  <2>2. \E x \in T : \A y \in T : x <= y
    BY <2>1, LeastNat
  <2>3. k \in T
    BY <2>2 DEF Min
  <2>4. RemoveFirst(s, e) = r
    BY <1>1, <2>1 DEF RemoveFirst, SelectInSeq
  <2>5. k \in 1..Len(s) /\ s[k] = e
    BY <2>3
  <2>. HIDE DEF k, T
  <2>6. r \in Seq(S) /\ Len(r) = Len(s) - 1 /\ Len(s) \in Nat
    BY <2>5, RemoveAtFacts
  <2>7. IsInjective(r) /\ \A i \in 1..Len(r) : r[i] # e
    BY <2>5, RemoveAtInjective
  <2>8. /\ \A i \in 1..Len(r) : \E j \in 1..Len(s) : r[i] = s[j]
        /\ \A j \in 1..Len(s) : j # k => \E i \in 1..Len(r) : r[i] = s[j]
    BY <2>5, RemoveAtKeeps
  <2>. HIDE DEF r
  <2>9. ASSUME NEW x
        PROVE  Contains(r, x) <=> Contains(s, x) /\ x # e
    <3>1. ASSUME Contains(r, x) PROVE Contains(s, x) /\ x # e
      BY <2>7, <2>8, <3>1 DEF Contains
    <3>2. ASSUME Contains(s, x), x # e PROVE Contains(r, x)
      BY <2>5, <2>8, <3>2 DEF Contains
    <3>. QED
      BY <3>1, <3>2
  <2>10. Len(r) <= Len(s)
    BY <2>6
  <2>. QED
    BY <2>4, <2>6, <2>7, <2>9, <2>10
<1>2. CASE ~(\E i \in 1..Len(s) : s[i] = e)
  <2>1. RemoveFirst(s, e) = s
    BY <1>2 DEF RemoveFirst
  <2>2. Len(s) <= Len(s)
    OBVIOUS
  <2>. QED
    BY <1>2, <2>1, <2>2 DEF Contains
<1>. QED
  BY <1>1, <1>2
-----------------------------------------------------------------------------
(***************************************************************************)
(* Windows.                                                                *)
(***************************************************************************)
(* The ids of an origin are those of the one entry it has, if any.         *)
LEMMA IdsFacts ==
  ASSUME NEW O, NEW I, NEW w \in Window(O, I), NEW o
  PROVE  /\ \A i \in 1..Len(w) : w[i].origin = o => Ids(w, o) = w[i].ids /\ Place(w, o) = i
         /\ ~Tracked(w, o) => Ids(w, o) = << >>
         /\ Tracked(w, o) => Place(w, o) \in 1..Len(w) /\ w[Place(w, o)].origin = o /\ Ids(w, o) # << >>
         /\ Ids(w, o) \in Seq(I) /\ Len(Ids(w, o)) <= max_per_origin /\ IsInjective(Ids(w, o))
<1>1. /\ w \in Seq([origin : O, ids : Seq(I)]) /\ Len(w) \in Nat
      /\ \A i, j \in 1..Len(w) : w[i].origin = w[j].origin => i = j
      /\ \A i \in 1..Len(w) : /\ w[i].ids \in Seq(I) /\ Len(w[i].ids) \in 1..max_per_origin
                              /\ IsInjective(w[i].ids)
  <2>1. /\ w \in Seq([origin : O, ids : Seq(I)])
        /\ \A i, j \in 1..Len(w) : w[i].origin = w[j].origin => i = j
        /\ \A i \in 1..Len(w) : Len(w[i].ids) \in 1..max_per_origin /\ IsInjective(w[i].ids)
    BY DEF Window
  <2>2. \A i \in 1..Len(w) : w[i] \in [origin : O, ids : Seq(I)]
    BY <2>1, ElementOfSeq
  <2>3. \A i \in 1..Len(w) : w[i].ids \in Seq(I)
    BY <2>2
  <2>. QED
    BY <2>1, <2>3, LenProperties
<1>2. Tracked(w, o) => Place(w, o) \in 1..Len(w) /\ w[Place(w, o)].origin = o
  BY DEF Tracked, Place
<1>3. \A i \in 1..Len(w) : w[i].origin = o => Tracked(w, o) /\ Place(w, o) = i
  BY <1>1, <1>2 DEF Tracked
<1>4. Tracked(w, o) => Ids(w, o) = w[Place(w, o)].ids
  BY DEF Ids
<1>5. ~Tracked(w, o) => Ids(w, o) = << >>
  BY DEF Ids
<1>6. \A s : Len(s) \in 1..max_per_origin => Len(s) <= max_per_origin /\ s # << >>
  <2>1. \A n \in 1..max_per_origin : n <= max_per_origin /\ n # 0
    BY WindowAssumption
  <2>2. Len(<< >>) = 0
    BY EmptySeq
  <2>. QED
    BY <2>1, <2>2, Zenon
<1>7. << >> \in Seq(I) /\ Len(<< >>) <= max_per_origin /\ IsInjective(<< >>)
  <2>1. Len(<< >>) = 0 /\ << >> \in Seq(I)
    BY EmptySeq
  <2>2. Len(<< >>) <= max_per_origin
    BY <2>1, WindowAssumption
  <2>3. IsInjective(<< >>)
    BY DEF IsInjective
  <2>. QED
    BY <2>1, <2>2, <2>3
<1>8. CASE Tracked(w, o)
  <2>1. Place(w, o) \in 1..Len(w)
    BY <1>2, <1>8
  <2>2. /\ Ids(w, o) \in Seq(I) /\ Len(Ids(w, o)) \in 1..max_per_origin /\ IsInjective(Ids(w, o))
    BY <1>1, <1>4, <1>8, <2>1
  <2>. QED
    BY <1>2, <1>3, <1>4, <1>6, <1>8, <2>2
<1>9. CASE ~Tracked(w, o)
  BY <1>3, <1>5, <1>7, <1>9
<1>. QED
  BY <1>8, <1>9

(* Two windows agree on an origin when they have the same entry for it, or *)
(* neither has one.                                                        *)
LEMMA IdsSame ==
  ASSUME NEW O, NEW I, NEW w \in Window(O, I), NEW v \in Window(O, I), NEW o,
         \A i \in 1..Len(w) : w[i].origin = o => \E j \in 1..Len(v) : v[j] = w[i],
         \A j \in 1..Len(v) : v[j].origin = o => \E i \in 1..Len(w) : v[j] = w[i]
  PROVE  Ids(v, o) = Ids(w, o) /\ (Tracked(v, o) <=> Tracked(w, o))
<1>1. Tracked(v, o) <=> Tracked(w, o)
  BY DEF Tracked
<1>2. CASE Tracked(w, o)
  <2>1. PICK i \in 1..Len(w) : w[i].origin = o
    BY <1>2 DEF Tracked
  <2>2. PICK j \in 1..Len(v) : v[j] = w[i]
    BY <2>1
  <2>3. Ids(w, o) = w[i].ids
    BY <2>1, IdsFacts
  <2>4. Ids(v, o) = v[j].ids
    BY <2>1, <2>2, IdsFacts
  <2>. QED
    BY <1>1, <2>2, <2>3, <2>4
<1>3. CASE ~Tracked(w, o)
  BY <1>1, <1>3, IdsFacts
<1>. QED
  BY <1>2, <1>3

(* A tracked origin leaves the window, the others stay as they are.        *)
LEMMA ForgetFacts ==
  ASSUME NEW O, NEW I, NEW w \in Window(O, I), NEW o
  PROVE  LET f == Forget(w, o)
         IN  /\ f \in Window(O, I) /\ ~Tracked(f, o)
             /\ Len(f) = IF Tracked(w, o) THEN Len(w) - 1 ELSE Len(w)
             /\ \A p : p # o => Ids(f, p) = Ids(w, p)
<1>. DEFINE f == Forget(w, o)
            k == Place(w, o)
            E == [origin : O, ids : Seq(I)]
<1>1. /\ w \in Seq(E) /\ Len(w) \in Nat /\ Len(w) <= max_origins
      /\ \A i, j \in 1..Len(w) : w[i].origin = w[j].origin => i = j
      /\ \A i \in 1..Len(w) : Len(w[i].ids) \in 1..max_per_origin /\ IsInjective(w[i].ids)
  BY DEF Window
<1>2. CASE Tracked(w, o)
  <2>1. k \in 1..Len(w) /\ w[k].origin = o
    BY <1>2, IdsFacts
  <2>2. f = RemoveAt(w, k)
    BY <1>2 DEF Forget
  <2>. HIDE DEF f, k, E
  <2>0. w \in Seq(E)
    BY <1>1
  <2>3. f \in Seq(E) /\ Len(f) = Len(w) - 1
    BY <1>1, <2>1, <2>2, RemoveAtFacts
  <2>4. \A i \in 1..Len(f) : \E j \in 1..Len(w) : j # k /\ f[i] = w[j] /\ j = Skip(i, k)
    BY <2>0, <2>1, <2>2, RemoveAtKeeps, Zenon
  <2>5. \A j \in 1..Len(w) : j # k => \E i \in 1..Len(f) : f[i] = w[j]
    BY <2>0, <2>1, <2>2, RemoveAtKeeps, Zenon
  <2>6. Len(f) \in Nat /\ Len(f) <= max_origins
    BY <1>1, <2>1, <2>3, WindowAssumption
  <2>7. ASSUME NEW x \in 1..Len(f), NEW y \in 1..Len(f), f[x].origin = f[y].origin
        PROVE  x = y
    <3>1. PICK jx \in 1..Len(w) : f[x] = w[jx] /\ jx = Skip(x, k)
      BY <2>4
    <3>2. PICK jy \in 1..Len(w) : f[y] = w[jy] /\ jy = Skip(y, k)
      BY <2>4
    <3>3. jx = jy
      BY <1>1, <2>7, <3>1, <3>2
    <3>. QED
      BY <2>1, <3>1, <3>2, <3>3 DEF Skip
  <2>8. \A i \in 1..Len(f) : Len(f[i].ids) \in 1..max_per_origin /\ IsInjective(f[i].ids)
    BY <1>1, <2>4
  <2>9. f \in Window(O, I)
    BY <2>3, <2>6, <2>7, <2>8 DEF Window, E
  <2>10. \A i \in 1..Len(f) : f[i].origin # o
    BY <1>1, <2>1, <2>4
  <2>11. ASSUME NEW p, p # o PROVE Ids(f, p) = Ids(w, p)
    <3>1. \A j \in 1..Len(w) : w[j].origin = p => \E i \in 1..Len(f) : f[i] = w[j]
      BY <2>1, <2>5, <2>11
    <3>2. \A i \in 1..Len(f) : f[i].origin = p => \E j \in 1..Len(w) : f[i] = w[j]
      BY <2>4
    <3>. QED
      BY <2>9, <3>1, <3>2, IdsSame
  <2>. QED
    BY <1>2, <2>3, <2>9, <2>10, <2>11 DEF Tracked, f
<1>3. CASE ~Tracked(w, o)
  BY <1>3 DEF Forget
<1>. QED
  BY <1>2, <1>3

(* A new origin comes last.                                                *)
LEMMA AppendFacts ==
  ASSUME NEW O, NEW I, NEW w \in Window(O, I), NEW o \in O, NEW l \in Seq(I),
         ~Tracked(w, o), Len(w) < max_origins, Len(l) \in 1..max_per_origin, IsInjective(l)
  PROVE  LET f == Append(w, [origin |-> o, ids |-> l])
         IN  /\ f \in Window(O, I) /\ Ids(f, o) = l /\ Tracked(f, o)
             /\ \A p : p # o => Ids(f, p) = Ids(w, p) /\ (Tracked(f, p) <=> Tracked(w, p))
<1>. DEFINE E == [origin : O, ids : Seq(I)]
            e == [origin |-> o, ids |-> l]
            f == Append(w, e)
<1>1. /\ w \in Seq(E) /\ Len(w) \in Nat /\ Len(w) < max_origins /\ max_origins \in Nat
      /\ \A i, j \in 1..Len(w) : w[i].origin = w[j].origin => i = j
      /\ \A i \in 1..Len(w) : Len(w[i].ids) \in 1..max_per_origin /\ IsInjective(w[i].ids)
  BY WindowAssumption DEF Window
<1>2. e \in E /\ e.origin = o /\ e.ids = l
  OBVIOUS
<1>. HIDE DEF e, E
<1>3. f \in Seq(E) /\ Len(f) = Len(w) + 1 /\ f[Len(w) + 1] = e /\ \A i \in 1..Len(w) : f[i] = w[i]
  BY <1>1, <1>2, AppendProperties
<1>. HIDE DEF f
<1>4. \A i \in 1..Len(f) : i \in 1..Len(w) \/ i = Len(w) + 1
  BY <1>1, <1>3
<1>5. /\ \A i \in 1..Len(w) : i \in 1..Len(f)
      /\ Len(w) + 1 \in 1..Len(f) /\ Len(f) <= max_origins
  BY <1>1, <1>3
<1>6. \A i \in 1..Len(w) : w[i].origin # o
  BY DEF Tracked
<1>7. ASSUME NEW x \in 1..Len(f), NEW y \in 1..Len(f), f[x].origin = f[y].origin
      PROVE  x = y
  BY <1>1, <1>2, <1>3, <1>4, <1>6, <1>7
<1>8. \A i \in 1..Len(f) : Len(f[i].ids) \in 1..max_per_origin /\ IsInjective(f[i].ids)
  BY <1>1, <1>2, <1>3, <1>4
<1>9. f \in Window(O, I)
  BY <1>3, <1>5, <1>7, <1>8 DEF Window, E
<1>10. Ids(f, o) = l /\ Tracked(f, o)
  BY <1>2, <1>3, <1>5, <1>9, IdsFacts DEF Tracked
<1>11. ASSUME NEW p, p # o PROVE Ids(f, p) = Ids(w, p) /\ (Tracked(f, p) <=> Tracked(w, p))
  <2>1. \A i \in 1..Len(w) : w[i].origin = p => \E j \in 1..Len(f) : f[j] = w[i]
    BY <1>3, <1>5
  <2>2. \A j \in 1..Len(f) : f[j].origin = p => \E i \in 1..Len(w) : f[j] = w[i]
    BY <1>2, <1>3, <1>4, <1>11
  <2>. QED
    BY <1>9, <2>1, <2>2, IdsSame
<1>. QED
  BY <1>9, <1>10, <1>11 DEF f, e

(* Without its oldest entry, a window is one, of the other origins.        *)
LEMMA TailFacts ==
  ASSUME NEW O, NEW I, NEW w \in Window(O, I), w # << >>
  PROVE  /\ Tail(w) \in Window(O, I) /\ Len(Tail(w)) = Len(w) - 1
         /\ \A p : Tracked(Tail(w), p) => Tracked(w, p) /\ Ids(Tail(w), p) = Ids(w, p)
<1>. DEFINE E == [origin : O, ids : Seq(I)]
            f == Tail(w)
<1>1. /\ w \in Seq(E) /\ Len(w) \in Nat /\ Len(w) <= max_origins
      /\ \A i, j \in 1..Len(w) : w[i].origin = w[j].origin => i = j
      /\ \A i \in 1..Len(w) : Len(w[i].ids) \in 1..max_per_origin /\ IsInjective(w[i].ids)
  BY DEF Window
<1>. HIDE DEF E
<1>2. f \in Seq(E) /\ Len(f) = Len(w) - 1 /\ \A i \in 1..Len(f) : f[i] = w[i + 1]
  BY <1>1, HeadTailProperties
<1>. HIDE DEF f
<1>3. \A i \in 1..Len(f) : i + 1 \in 1..Len(w)
  BY <1>1, <1>2
<1>4. Len(f) \in Nat /\ Len(f) <= max_origins
  BY <1>1, <1>2, WindowAssumption
<1>5. ASSUME NEW x \in 1..Len(f), NEW y \in 1..Len(f), f[x].origin = f[y].origin
      PROVE  x = y
  <2>1. x + 1 = y + 1
    BY <1>1, <1>2, <1>3, <1>5
  <2>. QED
    BY <2>1
<1>6. \A i \in 1..Len(f) : Len(f[i].ids) \in 1..max_per_origin /\ IsInjective(f[i].ids)
  BY <1>1, <1>2, <1>3
<1>7. f \in Window(O, I)
  BY <1>2, <1>4, <1>5, <1>6 DEF Window, E
<1>8. ASSUME NEW p, Tracked(f, p) PROVE Tracked(w, p) /\ Ids(f, p) = Ids(w, p)
  <2>1. PICK i \in 1..Len(f) : f[i].origin = p
    BY <1>8 DEF Tracked
  <2>2. i + 1 \in 1..Len(w) /\ f[i] = w[i + 1]
    BY <1>2, <1>3
  <2>3. Ids(f, p) = f[i].ids
    BY <1>7, <2>1, IdsFacts
  <2>4. Ids(w, p) = w[i + 1].ids
    BY <2>1, <2>2, IdsFacts
  <2>. QED
    BY <2>1, <2>2, <2>3, <2>4 DEF Tracked
<1>. QED
  BY <1>2, <1>7, <1>8 DEF f

(* The list of an origin after an id is shown.                             *)
Kept(l, e) ==
  LET new == IF Contains(l, e) THEN l ELSE Append(l, e)
  IN  IF Len(new) > max_per_origin THEN Tail(new) ELSE new

LEMMA KeptFacts ==
  ASSUME NEW I, NEW l \in Seq(I), NEW e \in I, Len(l) <= max_per_origin, IsInjective(l)
  PROVE  /\ Kept(l, e) \in Seq(I) /\ Len(Kept(l, e)) \in 1..max_per_origin /\ IsInjective(Kept(l, e))
         /\ Contains(Kept(l, e), e)
         /\ \A x : Contains(Kept(l, e), x) => Contains(l, x) \/ x = e
         /\ Contains(l, e) \/ Len(l) < max_per_origin => \A x : Contains(l, x) => Contains(Kept(l, e), x)
<1>1. Len(l) \in Nat /\ max_per_origin \in Nat \ {0} /\ DOMAIN l = 1..Len(l)
  BY WindowAssumption
<1>2. CASE Contains(l, e)
  <2>0. ~(Len(l) > max_per_origin)
    BY <1>1
  <2>1. Kept(l, e) = l
    BY <1>2, <2>0, Zenon DEF Kept
  <2>2. Len(l) \in 1..max_per_origin
    BY <1>1, <1>2 DEF Contains
  <2>. QED
    BY <1>2, <2>1, <2>2
<1>3. CASE ~Contains(l, e)
  <2>. DEFINE a == Append(l, e)
              n == Len(l)
  <2>1. a \in Seq(I) /\ Len(a) = n + 1 /\ a[n + 1] = e /\ (\A i \in 1..n : a[i] = l[i]) /\ DOMAIN a = 1..(n + 1)
    BY <1>1, AppendProperties
  <2>. HIDE DEF a
  <2>2. \A i \in 1..n : l[i] # e
    BY <1>3 DEF Contains
  <2>. HIDE DEF n
  <2>3. \A i \in 1..(n + 1) : i \in 1..n \/ i = n + 1
    BY <1>1 DEF n
  <2>4. IsInjective(a)
    <3>1. \A i, j \in 1..n : l[i] = l[j] => i = j
      BY <1>1 DEF IsInjective, n
    <3>2. ASSUME NEW i \in 1..(n + 1), NEW j \in 1..(n + 1), a[i] = a[j] PROVE i = j
      BY <2>1, <2>2, <2>3, <3>1, <3>2
    <3>. QED
      BY <2>1, <3>2 DEF IsInjective
  <2>5. CASE n < max_per_origin
    <3>0. ~(Len(a) > max_per_origin) /\ n + 1 \in 1..max_per_origin
      BY <1>1, <2>1, <2>5 DEF n
    <3>1. Kept(l, e) = a
      BY <1>3, <3>0, Zenon DEF Kept, a
    <3>2. \A i \in 1..n : i \in 1..(n + 1)
      BY <1>1 DEF n
    <3>3. n + 1 \in 1..(n + 1)
      BY <1>1 DEF n
    <3>4. \A x : Contains(a, x) <=> Contains(l, x) \/ x = e
      BY <2>1, <2>3, <3>2, <3>3 DEF Contains, n
    <3>. QED
      BY <2>1, <2>4, <3>0, <3>1, <3>4
  <2>6. CASE ~(n < max_per_origin)
    <3>. DEFINE t == Tail(a)
    <3>9. Len(a) = n + 1
      BY <2>1
    <3>10. n \in Nat /\ n <= max_per_origin /\ max_per_origin \in Nat
      BY <1>1 DEF n
    <3>0. Len(a) > max_per_origin /\ n = max_per_origin
      BY <2>6, <3>9, <3>10
    <3>1. Kept(l, e) = t
      BY <1>3, <3>0, Zenon DEF Kept, a
    <3>2. a # << >>
      BY <1>1, <2>1, EmptySeq DEF n
    <3>3. t \in Seq(I) /\ Len(t) = n /\ \A i \in 1..n : t[i] = a[i + 1]
      BY <1>1, <2>1, <3>2, HeadTailProperties DEF n
    <3>. HIDE DEF t
    <3>4. n \in 1..max_per_origin /\ n \in 1..n /\ \A i \in 1..n : i + 1 \in 1..(n + 1)
      BY <1>1, <3>0 DEF n
    <3>5. DOMAIN t = 1..n
      BY <3>3, LenProperties
    <3>6. IsInjective(t)
      <4>1. \A i, j \in 1..(n + 1) : a[i] = a[j] => i = j
        BY <2>1, <2>4 DEF IsInjective
      <4>2. ASSUME NEW i \in 1..n, NEW j \in 1..n, t[i] = t[j] PROVE i = j
        <5>1. i + 1 = j + 1
          BY <3>3, <3>4, <4>1, <4>2
        <5>. QED
          BY <5>1
      <4>. QED
        BY <3>5, <4>2 DEF IsInjective
    <3>7. Contains(t, e)
      BY <2>1, <3>3, <3>4 DEF Contains
    <3>8. \A x : Contains(t, x) => Contains(l, x) \/ x = e
      BY <2>1, <2>3, <3>3, <3>4 DEF Contains, n
    <3>. QED
      BY <1>3, <2>6, <3>1, <3>3, <3>4, <3>6, <3>7, <3>8 DEF n
  <2>. QED
    BY <2>5, <2>6
<1>. QED
  BY <1>2, <1>3

(* SeenSet::observe keeps a window well formed and remembers the id; what  *)
(* it forgets it evicts, and it learns nothing else.                       *)
LEMMA ObserveFacts ==
  ASSUME NEW O, NEW I, NEW w \in Window(O, I), NEW o \in O, NEW e \in I
  PROVE  /\ observe(w, o, e) \in Window(O, I)
         /\ Remembers(observe(w, o, e), o, e)
         /\ \A p, x : Remembers(observe(w, o, e), p, x) => Remembers(w, p, x) \/ (p = o /\ x = e)
         /\ Fits(w, o, e) => \A p, x : Remembers(w, p, x) => Remembers(observe(w, o, e), p, x)
<1>. DEFINE ids  == Ids(w, o)
            kept == Kept(ids, e)
            rest == Forget(w, o)
            room == IF ids = << >> /\ Len(rest) >= max_origins THEN Tail(rest) ELSE rest
            v    == Append(room, [origin |-> o, ids |-> kept])
<1>1. observe(w, o, e) = v
  BY DEF observe, Kept
<1>2. /\ ids \in Seq(I) /\ Len(ids) <= max_per_origin /\ IsInjective(ids)
      /\ Tracked(w, o) <=> ids # << >>
  BY IdsFacts
<1>. HIDE DEF ids
<1>3. /\ kept \in Seq(I) /\ Len(kept) \in 1..max_per_origin /\ IsInjective(kept) /\ Contains(kept, e)
      /\ \A x : Contains(kept, x) => Contains(ids, x) \/ x = e
      /\ Contains(ids, e) \/ Len(ids) < max_per_origin => \A x : Contains(ids, x) => Contains(kept, x)
  BY <1>2, KeptFacts
<1>. HIDE DEF kept
<1>4. /\ rest \in Window(O, I) /\ ~Tracked(rest, o)
      /\ Len(rest) = IF Tracked(w, o) THEN Len(w) - 1 ELSE Len(w)
      /\ \A p : p # o => Ids(rest, p) = Ids(w, p)
  BY ForgetFacts
<1>. HIDE DEF rest
<1>5. /\ Len(w) \in Nat /\ Len(w) <= max_origins /\ max_origins \in Nat \ {0} /\ Len(rest) \in Nat
  BY <1>4, WindowAssumption DEF Window
<1>6. /\ room \in Window(O, I) /\ ~Tracked(room, o) /\ Len(room) < max_origins
      /\ \A p, x : p # o /\ Remembers(room, p, x) => Remembers(w, p, x)
  <2>1. CASE ids = << >> /\ Len(rest) >= max_origins
    <3>1. rest # << >>
      BY <1>5, <2>1, EmptySeq
    <3>2. room = Tail(rest)
      BY <2>1
    <3>. HIDE DEF room
    <3>3. /\ room \in Window(O, I) /\ Len(room) = Len(rest) - 1
          /\ \A p : Tracked(room, p) => Tracked(rest, p) /\ Ids(room, p) = Ids(rest, p)
      BY <1>4, <3>1, <3>2, TailFacts
    <3>4. ~Tracked(room, o)
      BY <1>4, <3>3
    <3>5. Len(room) < max_origins
      BY <1>2, <1>4, <1>5, <2>1, <3>3
    <3>6. ASSUME NEW p, NEW x, p # o, Remembers(room, p, x) PROVE Remembers(w, p, x)
      <4>1. CASE Tracked(room, p)
        BY <1>4, <3>3, <3>6, <4>1 DEF Remembers
      <4>2. CASE ~Tracked(room, p)
        <5>1. Contains(<< >>, x)
          BY <3>6, <4>2 DEF Remembers, Ids
        <5>2. Len(<< >>) = 0
          BY EmptySeq
        <5>. QED
          BY <5>1, <5>2 DEF Contains
      <4>. QED
        BY <4>1, <4>2
    <3>. QED
      BY <3>3, <3>4, <3>5, <3>6
  <2>2. CASE ~(ids = << >> /\ Len(rest) >= max_origins)
    <3>1. room = rest
      BY <2>2
    <3>2. Len(rest) < max_origins
      BY <1>2, <1>4, <1>5, <2>2
    <3>. HIDE DEF room
    <3>3. \A p, x : p # o /\ Remembers(rest, p, x) => Remembers(w, p, x)
      BY <1>4 DEF Remembers
    <3>. QED
      BY <1>4, <3>1, <3>2, <3>3
  <2>. QED
    BY <2>1, <2>2
<1>7. Fits(w, o, e) => room = rest
  BY <1>2, <1>4, <1>5 DEF Fits
<1>. HIDE DEF room
<1>8. /\ v \in Window(O, I) /\ Ids(v, o) = kept
      /\ \A p : p # o => Ids(v, p) = Ids(room, p)
  BY <1>3, <1>6, AppendFacts
<1>. HIDE DEF v
<1>9. ASSUME NEW p, NEW x, Remembers(v, p, x) PROVE Remembers(w, p, x) \/ (p = o /\ x = e)
  <2>1. CASE p = o
    BY <1>3, <1>8, <1>9, <2>1 DEF Remembers, ids
  <2>2. CASE p # o
    BY <1>6, <1>8, <1>9, <2>2 DEF Remembers
  <2>. QED
    BY <2>1, <2>2
<1>10. ASSUME Fits(w, o, e), NEW p, NEW x, Remembers(w, p, x) PROVE Remembers(v, p, x)
  <2>1. CASE p = o
    BY <1>3, <1>8, <1>10, <2>1 DEF Remembers, Fits, ids
  <2>2. CASE p # o
    BY <1>4, <1>7, <1>8, <1>10, <2>2 DEF Remembers
  <2>. QED
    BY <2>1, <2>2
<1>. QED
  BY <1>1, <1>3, <1>8, <1>9, <1>10 DEF Remembers

(* SeenSet::unobserve takes one mark back and no other.                    *)
LEMMA UnobserveFacts ==
  ASSUME NEW O, NEW I, NEW w \in Window(O, I), NEW o \in O, NEW e
  PROVE  /\ unobserve(w, o, e) \in Window(O, I)
         /\ \A p, x : Remembers(unobserve(w, o, e), p, x) <=> Remembers(w, p, x) /\ ~(p = o /\ x = e)
<1>. DEFINE v == unobserve(w, o, e)
            ids == Ids(w, o)
            left == RemoveFirst(ids, e)
            k == Place(w, o)
            E == [origin : O, ids : Seq(I)]
<1>1. /\ ids \in Seq(I) /\ Len(ids) <= max_per_origin /\ IsInjective(ids)
      /\ ~Tracked(w, o) => ids = << >>
      /\ Tracked(w, o) => k \in 1..Len(w) /\ w[k].origin = o
  BY IdsFacts
<1>. HIDE DEF ids
<1>2. /\ left \in Seq(I) /\ Len(left) <= Len(ids) /\ IsInjective(left)
      /\ \A x : Contains(left, x) <=> Contains(ids, x) /\ x # e
  BY <1>1, RemoveFirstFacts
<1>3. Len(<< >>) = 0 /\ \A x : ~Contains(<< >>, x)
  BY EmptySeq DEF Contains
<1>4. CASE ~Tracked(w, o)
  <2>1. v = w
    BY <1>4 DEF unobserve
  <2>. QED
    BY <1>1, <1>3, <1>4, <2>1 DEF Remembers, ids
<1>5. CASE Tracked(w, o) /\ left = << >>
  <2>1. v = Forget(w, o)
    BY <1>5 DEF unobserve, ids
  <2>. HIDE DEF v, left
  <2>2. v \in Window(O, I) /\ ~Tracked(v, o) /\ \A p : p # o => Ids(v, p) = Ids(w, p)
    BY <2>1, ForgetFacts
  <2>3. Ids(v, o) = << >>
    BY <2>2 DEF Ids
  <2>4. \A x : Contains(ids, x) => x = e
    BY <1>2, <1>3, <1>5
  <2>5. ASSUME NEW p, NEW x PROVE Remembers(v, p, x) <=> Remembers(w, p, x) /\ ~(p = o /\ x = e)
    <3>1. CASE p = o
      BY <1>3, <2>3, <2>4, <3>1 DEF Remembers, ids
    <3>2. CASE p # o
      BY <2>2, <3>2 DEF Remembers
    <3>. QED
      BY <3>1, <3>2
  <2>. QED
    BY <2>2, <2>5 DEF v
<1>6. CASE Tracked(w, o) /\ left # << >>
  <2>. DEFINE u == [origin |-> o, ids |-> left]
  <2>1. v = [w EXCEPT ![k] = u]
    BY <1>6 DEF unobserve, ids
  <2>. HIDE DEF left
  <2>2. u \in E /\ u.origin = o /\ u.ids = left
    BY <1>2
  <2>3. /\ w \in Seq(E) /\ Len(w) <= max_origins
        /\ \A i, j \in 1..Len(w) : w[i].origin = w[j].origin => i = j
        /\ \A i \in 1..Len(w) : Len(w[i].ids) \in 1..max_per_origin /\ IsInjective(w[i].ids)
    BY DEF Window
  <2>4. k \in 1..Len(w) /\ w[k].origin = o
    BY <1>1, <1>6
  <2>. HIDE DEF v, u, k, E
  <2>5. v \in Seq(E) /\ Len(v) = Len(w) /\ v[k] = u /\ \A i \in 1..Len(w) : i # k => v[i] = w[i]
    BY <2>1, <2>2, <2>3, <2>4, ExceptSeq
  <2>6. Len(left) \in 1..max_per_origin
    <3>1. Len(left) # 0 /\ Len(left) \in Nat /\ Len(ids) \in Nat
      BY <1>1, <1>2, <1>6, EmptySeq
    <3>. QED
      BY <1>1, <1>2, <3>1, WindowAssumption
  <2>7. /\ \A i, j \in 1..Len(v) : v[i].origin = v[j].origin => i = j
        /\ \A i \in 1..Len(v) : Len(v[i].ids) \in 1..max_per_origin /\ IsInjective(v[i].ids)
    BY <1>2, <2>2, <2>3, <2>4, <2>5, <2>6
  <2>8. v \in Window(O, I)
    BY <2>3, <2>5, <2>7 DEF Window, E
  <2>9. Ids(v, o) = left
    BY <2>2, <2>4, <2>5, <2>8, IdsFacts
  <2>10. ASSUME NEW p, p # o PROVE Ids(v, p) = Ids(w, p)
    <3>1. \A i \in 1..Len(w) : w[i].origin = p => \E j \in 1..Len(v) : v[j] = w[i]
      BY <2>4, <2>5, <2>10
    <3>2. \A j \in 1..Len(v) : v[j].origin = p => \E i \in 1..Len(w) : v[j] = w[i]
      BY <2>2, <2>4, <2>5, <2>10
    <3>. QED
      BY <2>8, <3>1, <3>2, IdsSame
  <2>11. ASSUME NEW p, NEW x PROVE Remembers(v, p, x) <=> Remembers(w, p, x) /\ ~(p = o /\ x = e)
    <3>1. CASE p = o
      BY <1>2, <2>9, <3>1 DEF Remembers, ids
    <3>2. CASE p # o
      BY <2>10, <3>2 DEF Remembers
    <3>. QED
      BY <3>1, <3>2
  <2>. QED
    BY <2>8, <2>11 DEF v
<1>. QED
  BY <1>4, <1>5, <1>6

(* A sequence of distinct members of a finite set that misses one of them  *)
(* is shorter than the set is large.                                       *)
LEMMA MissingOne ==
  ASSUME NEW T, IsFiniteSet(T), NEW x \in T, NEW n \in Nat, NEW f \in [1..n -> T],
         IsInjective(f), \A i \in 1..n : f[i] # x
  PROVE  n < Cardinality(T)
<1>. DEFINE R == T \ {x}
<1>1. IsFiniteSet(R) /\ Cardinality(R) = Cardinality(T) - 1
  BY FS_RemoveElement
<1>2. f \in Injection(1..n, R)
  BY DEF Injection
<1>3. Cardinality(1..n) <= Cardinality(R)
  BY <1>1, <1>2, FS_Injection
<1>4. Cardinality(1..n) = n
  BY FS_Interval
<1>. QED
  BY <1>1, <1>3, <1>4, FS_CardinalityType

(* A window has room for what comes from a set of origins and of ids of an *)
(* origin that are no more than the bounds.                                *)
LEMMA RoomFits ==
  ASSUME NEW O, NEW I, NEW w \in Window(O, I), NEW S, NEW T, NEW o \in S, NEW e \in T,
         IsFiniteSet(S), Cardinality(S) <= max_origins,
         IsFiniteSet(T), Cardinality(T) <= max_per_origin,
         \A i \in 1..Len(w) : w[i].origin \in S,
         \A x : Remembers(w, o, x) => x \in T
  PROVE  Fits(w, o, e)
<1>1. /\ w \in Seq([origin : O, ids : Seq(I)]) /\ Len(w) \in Nat
      /\ \A i, j \in 1..Len(w) : w[i].origin = w[j].origin => i = j
      /\ max_origins \in Nat /\ max_per_origin \in Nat
      /\ Cardinality(S) \in Nat /\ Cardinality(T) \in Nat
  BY WindowAssumption, FS_CardinalityType DEF Window
<1>2. Tracked(w, o) \/ Len(w) < max_origins
  <2>. SUFFICES ASSUME ~Tracked(w, o) PROVE Len(w) < max_origins
    OBVIOUS
  <2>. DEFINE f == [i \in 1..Len(w) |-> w[i].origin]
  <2>1. f \in [1..Len(w) -> S] /\ IsInjective(f)
    BY <1>1 DEF IsInjective
  <2>2. \A i \in 1..Len(w) : f[i] # o
    BY DEF Tracked
  <2>. HIDE DEF f
  <2>3. Len(w) < Cardinality(S)
    BY <1>1, <2>1, <2>2, MissingOne
  <2>. QED
    BY <1>1, <2>3
<1>3. Remembers(w, o, e) \/ Len(Ids(w, o)) < max_per_origin
  <2>. SUFFICES ASSUME ~Remembers(w, o, e) PROVE Len(Ids(w, o)) < max_per_origin
    OBVIOUS
  <2>. DEFINE l == Ids(w, o)
  <2>1. l \in Seq(I) /\ IsInjective(l)
    BY IdsFacts
  <2>2. \A i \in 1..Len(l) : l[i] \in T /\ l[i] # e
    BY DEF Remembers, Contains
  <2>. HIDE DEF l
  <2>3. Len(l) \in Nat /\ l \in [1..Len(l) -> T]
    BY <2>1, <2>2, LenProperties
  <2>4. Len(l) < Cardinality(T)
    BY <2>1, <2>2, <2>3, MissingOne
  <2>. QED
    BY <1>1, <2>3, <2>4 DEF l
<1>. QED
  BY <1>2, <1>3 DEF Fits
-----------------------------------------------------------------------------
Member == Node \cup User
-----------------------------------------------------------------------------
(***************************************************************************)
(* Geometry: every step of a route comes closer to its end. A step below   *)
(* an ancestor of the end shortens the way down; a step up shortens what   *)
(* is left to climb, which counts more than any way down.                  *)
(***************************************************************************)
Away(a, d) == IF a = d \/ is_ancestor_of(a, d) THEN Len(d) - Len(a) ELSE Len(a) + Len(d)

LEMMA AwayNat ==
  ASSUME NEW a \in OctAddr, NEW d \in OctAddr
  PROVE  Away(a, d) \in Nat /\ Away(a, d) <= Len(a) + Len(d) /\ Len(a) \in Nat \ {0}
<1>1. Len(a) \in Nat /\ Len(d) \in Nat /\ Len(a) # 0
  BY EmptySeq DEF OctAddr, None
<1>2. is_ancestor_of(a, d) => Len(a) < Len(d)
  BY DEF is_ancestor_of, depth
<1>. QED
  BY <1>1, <1>2 DEF Away

(* The child on the way down: one level below, and on the way to the end.  *)
LEMMA ChildStep ==
  ASSUME NEW a \in OctAddr, NEW d \in OctAddr, is_ancestor_of(a, d)
  PROVE  LET b == ChildToward(a, d)
         IN  /\ b \in OctAddr /\ Len(b) = Len(a) + 1 /\ b # <<0>> /\ parent(b) = a
             /\ b = d \/ is_ancestor_of(b, d)
<1>. DEFINE b == ChildToward(a, d)
            n == Len(a)
<1>1. /\ a \in Seq(Slot) /\ d \in Seq(Slot) /\ n \in Nat \ {0} /\ Len(d) \in Nat /\ n < Len(d)
      /\ a # << >> /\ a[1] = 0
      /\ SubSeq(d, 1, n) = a
  BY AwayNat DEF OctAddr, is_ancestor_of, depth, Prefix, None
<1>2. \A i \in 1..n : a[i] = d[i]
  BY <1>1
<1>3. b = Append(a, d[n + 1]) /\ d[n + 1] \in Slot
  BY <1>1 DEF ChildToward, child, depth
<1>4. /\ b \in Seq(Slot) /\ Len(b) = n + 1
      /\ \A i \in 1..n : b[i] = a[i]
      /\ b[n + 1] = d[n + 1]
  BY <1>1, <1>3
<1>. HIDE DEF b, n
<1>5. b \in OctAddr
  <2>1. 1 \in 1..n /\ Len(b) # 0
    BY <1>1, <1>4
  <2>2. b[1] = 0
    BY <1>1, <1>4, <2>1
  <2>3. b # << >>
    BY <2>1, EmptySeq
  <2>. QED
    BY <1>4, <2>2, <2>3 DEF OctAddr, None
<1>6. b # <<0>>
  <2>1. Len(<<0>>) = 1
    OBVIOUS
  <2>2. Len(b) # 1
    BY <1>1, <1>4
  <2>. QED
    BY <2>1, <2>2, Zenon
<1>7. parent(b) = a
  <2>1. ~is_root(b)
    BY <1>1, <1>4 DEF is_root, depth
  <2>2. parent(b) = SubSeq(b, 1, n)
    BY <1>1, <1>4, <2>1 DEF parent, Prefix
  <2>3. SubSeq(b, 1, n) \in Seq(Slot) /\ Len(SubSeq(b, 1, n)) = n /\ \A i \in 1..n : SubSeq(b, 1, n)[i] = a[i]
    BY <1>1, <1>4
  <2>. QED
    BY <1>1, <2>2, <2>3, SeqEqual DEF n
<1>8. \A i \in 1..(n + 1) : b[i] = d[i]
  <2>1. \A i \in 1..(n + 1) : i \in 1..n \/ i = n + 1
    BY <1>1
  <2>. QED
    BY <1>2, <1>4, <2>1
<1>9. b = d \/ is_ancestor_of(b, d)
  <2>1. CASE Len(d) = n + 1
    BY <1>1, <1>4, <1>8, <2>1, SeqEqual
  <2>2. CASE Len(d) # n + 1
    <3>1. n + 1 < Len(d)
      BY <1>1, <2>2
    <3>2. /\ SubSeq(d, 1, n + 1) \in Seq(Slot) /\ Len(SubSeq(d, 1, n + 1)) = n + 1
          /\ \A i \in 1..(n + 1) : SubSeq(d, 1, n + 1)[i] = d[i]
      BY <1>1, <3>1
    <3>3. SubSeq(d, 1, n + 1) = b
      BY <1>4, <1>8, <3>2, SeqEqual
    <3>. QED
      BY <1>4, <3>1, <3>3 DEF is_ancestor_of, depth, Prefix
  <2>. QED
    BY <2>1, <2>2
<1>. QED
  BY <1>4, <1>5, <1>6, <1>7, <1>9 DEF b, n

(* next_step goes to a neighbour that is closer.                           *)
LEMMA StepCloser ==
  ASSUME NEW a \in OctAddr, NEW d \in OctAddr, NEW b \in OctAddr, next_step(a, d) = b
  PROVE  /\ Away(b, d) < Away(a, d)
         /\ \/ b # <<0>> /\ parent(b) = a
            \/ a # <<0>> /\ b = parent(a)
<1>0. b # None /\ a # d
  <2>1. b # None
    BY DEF OctAddr
  <2>2. ~is_ancestor_of(a, a)
    BY AwayNat DEF is_ancestor_of, depth
  <2>3. a = d => next_step(a, d) = None
    BY <2>2 DEF next_step
  <2>. QED
    BY <2>1, <2>3
<1>1. /\ Len(a) \in Nat \ {0} /\ Len(b) \in Nat \ {0} /\ Len(d) \in Nat
      /\ Away(a, d) \in Nat /\ Away(b, d) \in Nat /\ Away(b, d) <= Len(b) + Len(d)
  BY AwayNat DEF OctAddr
<1>2. CASE is_ancestor_of(a, d)
  <2>1. b = ChildToward(a, d)
    BY <1>0, <1>2 DEF next_step
  <2>2. /\ Len(b) = Len(a) + 1 /\ b # <<0>> /\ parent(b) = a
        /\ b = d \/ is_ancestor_of(b, d)
    BY <1>2, <2>1, ChildStep
  <2>3. Away(a, d) = Len(d) - Len(a) /\ Away(b, d) = Len(d) - Len(b)
    BY <1>2, <2>2 DEF Away
  <2>. QED
    BY <1>1, <2>2, <2>3
<1>3. CASE ~is_ancestor_of(a, d)
  <2>1. b = parent(a)
    BY <1>0, <1>3 DEF next_step
  <2>2. ~is_root(a) /\ b = SubSeq(a, 1, Len(a) - 1) /\ a \in Seq(Slot)
    BY <1>0, <2>1 DEF parent, Prefix, OctAddr
  <2>3. Len(b) = Len(a) - 1
    BY <1>1, <2>2
  <2>4. a # <<0>>
    <3>1. Len(<<0>>) = 1
      OBVIOUS
    <3>. QED
      BY <2>2, <3>1 DEF is_root, depth
  <2>5. Away(a, d) = Len(a) + Len(d)
    BY <1>0, <1>3 DEF Away
  <2>. QED
    BY <1>1, <2>1, <2>3, <2>4, <2>5
<1>. QED
  BY <1>2, <1>3

Linked == attached \subseteq Member \ {<<0>>}

(* A route decision is no route, or the pure step of an address toward the *)
(* target, and it leads to a node (route, next_step).                      *)
LEMMA RouteIsStep ==
  ASSUME Linked, NEW n \in Member, NEW d \in Node, n # d, route(n, d) # None
  PROVE  route(n, d) = next_step(n, d) /\ route(n, d) \in Node /\ route(n, d) # n
<1>1. n \in OctAddr /\ d \in OctAddr
  BY TreeAssumption DEF Member
<1>2. CASE is_ancestor_of(n, d)
  <2>. DEFINE c == ChildToward(n, d)
  <2>1. c \in attached /\ (c \in User => d = c) /\ route(n, d) = c
    BY <1>2 DEF route
  <2>2. c \in Node
    BY <2>1, TreeAssumption DEF Linked, Member
  <2>3. next_step(n, d) = c
    BY <1>2 DEF next_step
  <2>4. Len(c) = Len(n) + 1 /\ Len(n) \in Nat
    BY <1>1, <1>2, ChildStep, AwayNat
  <2>5. c # n
    BY <2>4
  <2>. QED
    BY <2>1, <2>2, <2>3, <2>5
<1>3. CASE ~is_ancestor_of(n, d)
  <2>1. n \in attached /\ route(n, d) = parent(n)
    BY <1>3 DEF route
  <2>2. parent(n) \in Node
    BY <2>1, TreeAssumption DEF Linked, Member
  <2>3. next_step(n, d) = parent(n)
    BY <1>3 DEF next_step
  <2>4. parent(n) # n
    <3>1. Away(parent(n), d) < Away(n, d) /\ Away(n, d) \in Nat
      BY <1>1, <2>2, <2>3, StepCloser, AwayNat, TreeAssumption
    <3>. QED
      BY <3>1
  <2>. QED
    BY <2>1, <2>2, <2>3, <2>4
<1>. QED
  BY <1>2, <1>3
-----------------------------------------------------------------------------
(***************************************************************************)
(* The path of a call: its chain leads by next_step from the source to the *)
(* hop it was sent to, closer to the target at every hop.                  *)
(***************************************************************************)
OnPath(e, chain, to) ==
  /\ Len(chain) \in 1..MAX_HOPS /\ chain[1] = src[e]
  /\ \A i \in 1..(Len(chain) - 1) : next_step(chain[i], dst[e]) = chain[i + 1]
  /\ next_step(chain[Len(chain)], dst[e]) = to
  /\ \A i, j \in 1..Len(chain) : i < j => Away(chain[j], dst[e]) < Away(chain[i], dst[e])
  /\ \A i \in 1..Len(chain) : Away(to, dst[e]) < Away(chain[i], dst[e])

LEMMA EndsFacts ==
  ASSUME NEW e \in Env
  PROVE  src[e] \in Member /\ dst[e] \in Node /\ dst[e] \in Member /\ src[e] # dst[e] /\ Member \subseteq OctAddr
BY TreeAssumption DEF Member

LEMMA MemberAway ==
  ASSUME NEW a \in Member, NEW e \in Env
  PROVE  Away(a, dst[e]) \in Nat
BY EndsFacts, AwayNat

(* The first call goes one step from the source (send_envelope).           *)
LEMMA PathStarts ==
  ASSUME Linked, NEW e \in Env, NEW to, to = route(src[e], dst[e]), to # None
  PROVE  OnPath(e, <<src[e]>>, to) /\ <<src[e]>> \in Seq(Member) /\ to \in Node
<1>. DEFINE ch == <<src[e]>>
<1>1. to \in Node /\ to = next_step(src[e], dst[e])
  BY EndsFacts, RouteIsStep
<1>2. ch \in Seq(Member) /\ Len(ch) = 1 /\ ch[1] = src[e]
  BY EndsFacts
<1>3. Away(to, dst[e]) < Away(src[e], dst[e])
  BY <1>1, EndsFacts, StepCloser, TreeAssumption
<1>. HIDE DEF ch
<1>4. 1 \in 1..MAX_HOPS /\ (\A i \in 1..1 : i = 1) /\ 1..(1 - 1) = {}
  BY BoundAssumption
<1>. QED
  BY <1>1, <1>2, <1>3, <1>4 DEF OnPath, ch

(* A forward extends the path by the hop that makes it.                    *)
LEMMA PathGrows ==
  ASSUME Linked, NEW e \in Env, NEW chain \in Seq(Member), NEW to \in Node, OnPath(e, chain, to),
         to # dst[e], Len(chain) < MAX_HOPS, NEW next, next = route(to, dst[e]), next # None
  PROVE  OnPath(e, Append(chain, to), next) /\ Append(chain, to) \in Seq(Member) /\ next \in Node
<1>. DEFINE ch == Append(chain, to)
            n  == Len(chain)
            D(a) == Away(a, dst[e])
<1>1. to \in Member /\ next \in Node /\ next \in Member /\ next = next_step(to, dst[e])
  BY EndsFacts, RouteIsStep DEF Member
<1>2. /\ n \in Nat /\ n \in 1..MAX_HOPS /\ MAX_HOPS \in Nat /\ chain[1] = src[e]
      /\ \A i \in 1..(n - 1) : next_step(chain[i], dst[e]) = chain[i + 1]
      /\ next_step(chain[n], dst[e]) = to
      /\ \A i, j \in 1..n : i < j => D(chain[j]) < D(chain[i])
      /\ \A i \in 1..n : D(to) < D(chain[i])
  BY BoundAssumption DEF OnPath
<1>3. ch \in Seq(Member) /\ Len(ch) = n + 1 /\ ch[n + 1] = to /\ \A i \in 1..n : ch[i] = chain[i]
  BY <1>1, AppendProperties
<1>4. D(next) < D(to)
  BY <1>1, EndsFacts, StepCloser
<1>5. D(next) \in Nat /\ D(to) \in Nat /\ \A i \in 1..n : D(chain[i]) \in Nat
  <2>1. \A i \in 1..n : chain[i] \in Member
    BY ElementOfSeq
  <2>. QED
    BY <1>1, <2>1, MemberAway
<1>. HIDE DEF ch, n, D
<1>6. \A i \in 1..(n + 1) : i \in 1..n \/ i = n + 1
  BY <1>2
<1>7. n + 1 \in 1..MAX_HOPS /\ ch[1] = src[e]
  BY <1>2, <1>3 DEF n
<1>8. ASSUME NEW i \in 1..n PROVE next_step(ch[i], dst[e]) = ch[i + 1]
  <2>1. CASE i = n
    BY <1>2, <1>3, <2>1
  <2>2. CASE i # n
    <3>1. i \in 1..(n - 1) /\ i + 1 \in 1..n
      BY <1>2, <2>2
    <3>. QED
      BY <1>2, <1>3, <3>1
  <2>. QED
    BY <2>1, <2>2
<1>9. ASSUME NEW i \in 1..(n + 1), NEW j \in 1..(n + 1), i < j PROVE D(ch[j]) < D(ch[i])
  <2>1. i \in 1..n
    BY <1>2, <1>9
  <2>2. CASE j \in 1..n
    BY <1>2, <1>3, <1>9, <2>1, <2>2
  <2>3. CASE j = n + 1
    BY <1>2, <1>3, <2>1, <2>3
  <2>. QED
    BY <1>6, <2>2, <2>3
<1>10. ASSUME NEW i \in 1..(n + 1) PROVE D(next) < D(ch[i])
  <2>1. CASE i \in 1..n
    <3>1. D(to) < D(chain[i]) /\ ch[i] = chain[i] /\ D(chain[i]) \in Nat
      BY <1>2, <1>3, <1>5, <2>1
    <3>. QED
      BY <1>4, <1>5, <3>1
  <2>2. CASE i = n + 1
    BY <1>3, <1>4, <2>2
  <2>. QED
    BY <1>6, <2>1, <2>2
<1>11. (n + 1) - 1 = n
  BY <1>2
<1>12. next_step(ch[n + 1], dst[e]) = next
  BY <1>1, <1>3
<1>. QED
  BY <1>1, <1>3, <1>7, <1>8, <1>9, <1>10, <1>11, <1>12 DEF OnPath, ch, D

(* The checks of a hop pass on such a chain (Envelope::validate,           *)
(* validate_hop_chain).                                                    *)
LEMMA PathValid ==
  ASSUME NEW e \in Env, NEW chain \in Seq(Member), NEW to \in Node, OnPath(e, chain, to)
  PROVE  validate(e, chain) /\ validate_hop_chain(e, chain) /\ ~Contains(chain, to)
<1>1. \A i \in 1..Len(chain) : chain[i] \in Member /\ Away(chain[i], dst[e]) \in Nat
  BY ElementOfSeq, MemberAway
<1>2. Len(chain) \in Nat /\ DOMAIN chain = 1..Len(chain)
  BY LenProperties
<1>3. ASSUME NEW i \in 1..Len(chain), NEW j \in 1..Len(chain), chain[i] = chain[j]
      PROVE  i = j
  <2>1. i < j => Away(chain[j], dst[e]) < Away(chain[i], dst[e])
    BY DEF OnPath
  <2>2. j < i => Away(chain[i], dst[e]) < Away(chain[j], dst[e])
    BY DEF OnPath
  <2>. QED
    BY <1>1, <1>2, <1>3, <2>1, <2>2
<1>4. IsInjective(chain)
  BY <1>2, <1>3 DEF IsInjective
<1>5. \A i \in 1..Len(chain) : chain[i] # to
  BY <1>1 DEF OnPath
<1>. QED
  BY <1>4, <1>5 DEF OnPath, validate, validate_hop_chain, Contains

(* While nobody has left, the hop before is a neighbour.                   *)
LEMMA PathNeighbor ==
  ASSUME NEW e \in Env, NEW chain \in Seq(Member), NEW to \in Node, OnPath(e, chain, to)
  PROVE  attached = Member \ {<<0>>} => is_neighbor(to, Last(chain))
<1>. DEFINE l == chain[Len(chain)]
<1>1. Len(chain) \in 1..Len(chain) /\ next_step(l, dst[e]) = to
  BY BoundAssumption DEF OnPath
<1>2. l \in Member /\ to \in Member
  BY <1>1, ElementOfSeq DEF Member
<1>. HIDE DEF l
<1>3. \/ to # <<0>> /\ parent(to) = l
      \/ l # <<0>> /\ to = parent(l)
  BY <1>1, <1>2, EndsFacts, StepCloser
<1>. QED
  BY <1>2, <1>3 DEF is_neighbor, Last, l
-----------------------------------------------------------------------------
(***************************************************************************)
(* The invariant of the calls. Shape does not depend on the state; Told is *)
(* what an answer on its way back claims.                                  *)
(***************************************************************************)
CallSet == [env : Env, att : Nat, chain : Seq(Member), to : Node, st : Status \cup {"sent", "waiting"}]

Shape(c) ==
  /\ c \in CallSet
  /\ OnPath(c.env, c.chain, c.to)
  /\ c.st = "waiting" => c.to # dst[c.env]

Told(c) ==
  /\ c.st = "Delivered" => delivered[c.env] > 0
  /\ c.st \in {"BadHopChain", "NotNeighbor"} => detaches > 0

Counts ==
  /\ Linked /\ detaches \in Nat /\ (detaches = 0 => attached = Member \ {<<0>>})
  /\ delivered \in [Env -> Nat] /\ attempt \in [Env -> Nat]

Calls == \A c \in calls : Shape(c) /\ Told(c)

Outcomes ==
  /\ outcome \in [Env -> Status \cup {"idle", "waiting", "forgotten"}]
  /\ DeliveredIsTrue

Stores ==
  /\ seen \in [Node -> Window(Member, Env)]
  /\ sink \in [Node -> Seq(Env)]
  /\ \A n \in Node : Len(sink[n]) <= SINK_CAPACITY

TransportInv == Counts /\ Calls /\ Outcomes /\ Stores

(* The windows hold the marks of the envelopes of their origin, and every  *)
(* delivery of an envelope but those its target has forgotten is marked.   *)
Marks ==
  /\ \A n \in Node, p \in Member, e \in Env : Remembers(seen[n], p, e) => src[e] = p
  /\ \A e \in Env :
       delivered[e] <= (IF dst[e] \in restarted THEN 1 ELSE 0)
                         + (IF Remembers(seen[dst[e]], src[e], e) THEN 1 ELSE 0)
-----------------------------------------------------------------------------
LEMMA ReturnFacts ==
  ASSUME NEW c, Shape(c), NEW st \in Status \cup {"sent", "waiting"},
         st = "waiting" => c.to # dst[c.env]
  PROVE  /\ Shape(Return(c, st))
         /\ Return(c, st).st = st /\ Return(c, st).env = c.env /\ Return(c, st).to = c.to
<1>. DEFINE r == Return(c, st)
<1>1. c \in CallSet
  BY DEF Shape
<1>2. r \in CallSet /\ r.st = st /\ r.env = c.env /\ r.to = c.to /\ r.chain = c.chain
  BY <1>1 DEF CallSet, Return
<1>. HIDE DEF r
<1>. QED
  BY <1>2 DEF Shape, r

(* What a hop answers to a call (MsgHandler::handle).                      *)
Answer(c) == IF Refused(c) # "none" THEN Refused(c) ELSE Decision(c, route(c.to, dst[c.env]))

LEMMA AnswerFacts ==
  ASSUME Counts, NEW c, Shape(c)
  PROVE  LET n    == c.to
             next == route(n, dst[c.env])
         IN  /\ Answer(c) \in Status \cup {"forward"}
             /\ Answer(c) \in {"BadHopChain", "NotNeighbor"} => detaches > 0
             /\ Answer(c) \in {"Delivered", "Busy"} =>
                  n = dst[c.env] /\ ~Remembers(seen[n], src[c.env], c.env)
             /\ Answer(c) = "Delivered" => Len(sink[n]) < SINK_CAPACITY /\ Refused(c) = "none"
             /\ Answer(c) \in Transient => Answer(c) = "Busy"
             /\ Answer(c) = "forward" =>
                  /\ n # dst[c.env] /\ next \in Node
                  /\ Append(c.chain, n) \in Seq(Member) /\ OnPath(c.env, Append(c.chain, n), next)
<1>. DEFINE n    == c.to
            d    == dst[c.env]
            next == route(n, d)
<1>1. c \in CallSet /\ OnPath(c.env, c.chain, n)
  BY DEF Shape
<1>2. c.env \in Env /\ c.chain \in Seq(Member) /\ n \in Node /\ n \in Member /\ d \in Node
  BY <1>1, EndsFacts DEF CallSet, Member
<1>3. Linked /\ detaches \in Nat /\ (detaches = 0 => attached = Member \ {<<0>>})
  BY DEF Counts
<1>4. validate(c.env, c.chain) /\ validate_hop_chain(c.env, c.chain) /\ ~Contains(c.chain, n)
  BY <1>1, <1>2, PathValid
<1>5. detaches = 0 => is_neighbor(n, Last(c.chain))
  BY <1>1, <1>2, <1>3, PathNeighbor
<1>6. Refused(c) \in {"NotNeighbor", "none"} /\ (Refused(c) = "NotNeighbor" => detaches > 0)
  BY <1>3, <1>4, <1>5 DEF Refused
<1>7. CASE Refused(c) # "none"
  <2>1. Answer(c) = "NotNeighbor" /\ detaches > 0
    BY <1>6, <1>7 DEF Answer
  <2>. QED
    BY <2>1 DEF Status, Transient
<1>8. CASE Refused(c) = "none"
  <2>1. Answer(c) = Decision(c, next)
    BY <1>8 DEF Answer
  <2>2. CASE Remembers(seen[n], src[c.env], c.env)
    <3>1. Answer(c) = "Duplicate"
      BY <2>1, <2>2 DEF Decision
    <3>. QED
      BY <3>1 DEF Status, Transient
  <2>3. CASE ~Remembers(seen[n], src[c.env], c.env) /\ next = None
    <3>1. next # n
      <4>1. n \in OctAddr
        BY <1>2, EndsFacts
      <4>. QED
        BY <2>3, <4>1 DEF OctAddr
    <3>2. Answer(c) = "NoRoute"
      BY <2>1, <2>3, <3>1 DEF Decision
    <3>. QED
      BY <3>2 DEF Status, Transient
  <2>4. CASE ~Remembers(seen[n], src[c.env], c.env) /\ next # None /\ next = n
    <3>1. n = d
      BY <1>2, <1>3, <2>4, RouteIsStep
    <3>2. Answer(c) = IF Len(sink[n]) < SINK_CAPACITY THEN "Delivered" ELSE "Busy"
      BY <2>1, <2>4 DEF Decision
    <3>. QED
      BY <1>8, <2>4, <3>1, <3>2 DEF Status, Transient
  <2>5. CASE ~Remembers(seen[n], src[c.env], c.env) /\ next # None /\ next # n
    <3>1. n # d
      BY <2>5 DEF route
    <3>2. Answer(c) = IF ttl(c.chain) = 0 \/ Len(c.chain) >= MAX_HOPS THEN "TtlExpired" ELSE "forward"
      BY <2>1, <2>5 DEF Decision
    <3>3. CASE ttl(c.chain) = 0 \/ Len(c.chain) >= MAX_HOPS
      BY <3>2, <3>3 DEF Status, Transient
    <3>4. CASE ~(ttl(c.chain) = 0 \/ Len(c.chain) >= MAX_HOPS)
      <4>1. Len(c.chain) < MAX_HOPS
        BY <1>2, <3>4, BoundAssumption
      <4>2. Answer(c) = "forward"
        BY <3>2, <3>4
      <4>3. next \in Node /\ Append(c.chain, n) \in Seq(Member) /\ OnPath(c.env, Append(c.chain, n), next)
        BY <1>1, <1>2, <1>3, <2>5, <3>1, <4>1, PathGrows
      <4>. QED
        BY <3>1, <4>2, <4>3 DEF Status, Transient
    <3>. QED
      BY <3>3, <3>4
  <2>. QED
    BY <2>2, <2>3, <2>4, <2>5
<1>. QED
  BY <1>6, <1>7, <1>8

(* Calls stay sound when what they claim stays true.                       *)
LEMMA CallsStay ==
  ASSUME Calls, Counts, Counts', detaches' >= detaches,
         \A e \in Env : delivered'[e] >= delivered[e],
         \A c \in calls' : c \in calls \/ (Shape(c) /\ Told(c)')
  PROVE  Calls'
<1>1. ASSUME NEW c \in calls PROVE Shape(c) /\ Told(c)'
  <2>1. Shape(c) /\ Told(c)
    BY DEF Calls
  <2>2. c.env \in Env
    BY <2>1 DEF Shape, CallSet
  <2>3. detaches \in Nat /\ detaches' \in Nat /\ delivered[c.env] \in Nat /\ delivered'[c.env] \in Nat
    BY <2>2 DEF Counts
  <2>. QED
    BY <2>1, <2>2, <2>3 DEF Told
<1>. QED
  BY <1>1 DEF Calls, Shape

LEMMA SettleWindow ==
  ASSUME NEW w \in Window(Member, Env), NEW e \in Env, NEW st
  PROVE  settle(w, e, st) \in Window(Member, Env)
BY EndsFacts, UnobserveFacts DEF settle

LEMMA InitTransport == Init => TransportInv /\ Marks
<1>. SUFFICES ASSUME Init PROVE TransportInv /\ Marks
  OBVIOUS
<1>. USE DEF Init
<1>1. Counts
  BY DEF Counts, Linked, Member
<1>2. Calls
  BY DEF Calls
<1>3. Outcomes
  BY DEF Outcomes, DeliveredIsTrue
<1>4. << >> \in Window(Member, Env) /\ Len(<< >>) = 0 /\ << >> \in Seq(Env)
  <2>1. Len(<< >>) = 0 /\ << >> \in Seq([origin : Member, ids : Seq(Env)]) /\ << >> \in Seq(Env)
    BY EmptySeq
  <2>2. 1..0 = {} /\ 0 <= max_origins
    BY WindowAssumption
  <2>. QED
    BY <2>1, <2>2 DEF Window
<1>5. Stores
  BY <1>4, BoundAssumption DEF Stores
<1>6. \A p, e : ~Remembers(<< >>, p, e)
  BY <1>4 DEF Remembers, Ids, Tracked, Contains
<1>7. Marks
  BY <1>6, EndsFacts DEF Marks
<1>. QED
  BY <1>1, <1>2, <1>3, <1>5, <1>7 DEF TransportInv
-----------------------------------------------------------------------------
(***************************************************************************)
(* One step of each action.                                                *)
(***************************************************************************)
(* A step of the origin, of the drain task or of a child that leaves: the  *)
(* calls and the windows stay as they are, or one call is added.           *)
LEMMA SendStep ==
  ASSUME TransportInv, NEW e \in Env, Send(e)
  PROVE  TransportInv'
<1>. DEFINE k  == attempt[e] + 1
            to == route(src[e], dst[e])
            c  == Call(e, k, <<src[e]>>, to, "sent")
<1>0. Counts /\ Calls /\ Outcomes /\ Stores
  BY DEF TransportInv
<1>1. k \in Nat /\ attempt' = [attempt EXCEPT ![e] = k]
      /\ UNCHANGED <<seen, sink, delivered, attached, restarted, timeouts, detaches>>
  BY <1>0 DEF Counts, Send, env_vars
<1>2. Counts'
  BY <1>0, <1>1 DEF Counts, Linked
<1>3. Stores'
  BY <1>0, <1>1 DEF Stores
<1>4. Outcomes'
  BY <1>0, <1>1 DEF Send, Outcomes, DeliveredIsTrue, Status, Transient
<1>5. CASE to = None
  <2>1. UNCHANGED calls
    BY <1>5 DEF Send
  <2>. QED
    BY <1>0, <1>1, <1>2, <1>3, <1>4, <2>1 DEF TransportInv, Calls, Shape, Told
<1>6. CASE to # None
  <2>1. calls' = calls \cup {c}
    BY <1>6 DEF Send
  <2>2. OnPath(e, <<src[e]>>, to) /\ <<src[e]>> \in Seq(Member) /\ to \in Node
    BY <1>0, <1>6, PathStarts DEF Counts
  <2>3. c.st = "sent" /\ c.env = e /\ c.chain = <<src[e]>> /\ c.to = to
    BY DEF Call
  <2>7. c \in CallSet
    <3>. DEFINE ch == <<src[e]>>
    <3>1. ch \in Seq(Member)
      BY <2>2
    <3>. HIDE DEF ch, to, k
    <3>2. Call(e, k, ch, to, "sent") \in CallSet
      BY <1>1, <2>2, <3>1 DEF Call, CallSet
    <3>. QED
      BY <3>2 DEF ch
  <2>. HIDE DEF c, to
  <2>8. PICK d : d = c
    OBVIOUS
  <2>4. Shape(d) /\ Told(d)'
    BY <2>2, <2>3, <2>7, <2>8 DEF Shape, Told
  <2>5. detaches' >= detaches /\ \A x \in Env : delivered'[x] >= delivered[x]
    BY <1>0, <1>1 DEF Counts
  <2>6. Calls'
    BY <1>0, <1>2, <2>1, <2>4, <2>5, <2>8, CallsStay
  <2>. QED
    BY <1>2, <1>3, <1>4, <2>6 DEF TransportInv
<1>. QED
  BY <1>5, <1>6

LEMMA TimeoutOriginStep ==
  ASSUME TransportInv, NEW e \in Env, TimeoutOrigin(e)
  PROVE  TransportInv'
<1>1. UNCHANGED <<calls, seen, sink, delivered, attempt, attached, restarted, detaches>>
      /\ outcome' = [outcome EXCEPT ![e] = "Unreachable"]
  BY DEF TimeoutOrigin
<1>2. Outcomes'
  BY <1>1 DEF TransportInv, Outcomes, DeliveredIsTrue, Status, Transient
<1>. QED
  BY <1>1, <1>2 DEF TransportInv, Counts, Linked, Calls, Shape, Told, Stores

LEMMA DrainStep ==
  ASSUME TransportInv, NEW n \in Node, Drain(n)
  PROVE  TransportInv'
<1>1. UNCHANGED <<calls, seen, delivered, attempt, outcome, attached, restarted, timeouts, detaches>>
      /\ sink[n] # << >> /\ sink' = [sink EXCEPT ![n] = Tail(@)]
  BY DEF Drain, env_vars
<1>2. sink \in [Node -> Seq(Env)] /\ (\A m \in Node : Len(sink[m]) <= SINK_CAPACITY) /\ SINK_CAPACITY \in Nat
  BY BoundAssumption DEF TransportInv, Stores
<1>3. Tail(sink[n]) \in Seq(Env) /\ Len(Tail(sink[n])) = Len(sink[n]) - 1 /\ Len(sink[n]) \in Nat
  BY <1>1, <1>2, HeadTailProperties
<1>4. Stores'
  BY <1>1, <1>2, <1>3 DEF TransportInv, Stores
<1>. QED
  BY <1>1, <1>4 DEF TransportInv, Counts, Linked, Calls, Shape, Told, Outcomes, DeliveredIsTrue

LEMMA DetachStep ==
  ASSUME TransportInv, NEW a \in attached, Detach(a)
  PROVE  TransportInv'
<1>1. UNCHANGED <<calls, seen, sink, delivered, attempt, outcome>>
      /\ detaches' = detaches + 1 /\ attached' = attached \ {a}
  BY DEF Detach
<1>2. Counts'
  BY <1>1 DEF TransportInv, Counts, Linked
<1>3. detaches' >= detaches /\ \A x \in Env : delivered'[x] >= delivered[x]
  BY <1>1 DEF TransportInv, Counts
<1>4. Calls'
  BY <1>1, <1>2, <1>3, CallsStay DEF TransportInv
<1>. QED
  BY <1>1, <1>2, <1>4 DEF TransportInv, Outcomes, DeliveredIsTrue, Stores

(* A call goes, or answers that it could not be made.                      *)
LEMMA EndStep ==
  ASSUME TransportInv, NEW c \in calls, Acknowledge(c) \/ DropAck(c) \/ ConnectFails(c)
  PROVE  TransportInv'
<1>1. UNCHANGED <<seen, sink, delivered, attempt, attached, detaches>>
  BY DEF Acknowledge, DropAck, ConnectFails, env_vars
<1>2. Counts' /\ Stores'
  BY <1>1 DEF TransportInv, Counts, Linked, Stores
<1>3. Shape(c) /\ Told(c) /\ c.env \in Env /\ c.st \in Status \cup {"sent", "waiting"}
  BY DEF TransportInv, Calls, Shape, CallSet
<1>4. detaches' >= detaches /\ \A x \in Env : delivered'[x] >= delivered[x]
  BY <1>1 DEF TransportInv, Counts
<1>5. ASSUME NEW d \in calls', d \notin calls PROVE Shape(d) /\ Told(d)'
  <2>1. d = Return(c, "Unreachable")
    BY <1>5 DEF Acknowledge, DropAck, ConnectFails
  <2>2. Shape(d) /\ d.st = "Unreachable"
    BY <1>3, <2>1, ReturnFacts DEF Status, Transient
  <2>. QED
    BY <2>2 DEF Told
<1>6. Calls'
  BY <1>2, <1>4, <1>5, CallsStay DEF TransportInv
<1>7. Outcomes'
  <2>1. CASE outcome' = outcome
    BY <1>1, <2>1 DEF TransportInv, Outcomes, DeliveredIsTrue
  <2>2. CASE Acknowledge(c) /\ outcome' = [outcome EXCEPT ![c.env] = c.st]
    <3>1. c.st \in Status
      BY <2>2 DEF Acknowledge
    <3>. QED
      BY <1>1, <1>3, <2>2, <3>1 DEF TransportInv, Outcomes, DeliveredIsTrue, Told
  <2>. QED
    BY <2>1, <2>2 DEF Acknowledge, DropAck, ConnectFails
<1>. QED
  BY <1>2, <1>6, <1>7 DEF TransportInv

(* A hop stops waiting, on an acknowledgement or without one.              *)
LEMMA SettleStep ==
  ASSUME TransportInv, NEW c \in calls, c.st = "waiting",
         NEW st \in Status, Told(Return(c, st)),
         seen' = [seen EXCEPT ![c.to] = settle(@, c.env, st)],
         \A d \in calls' : d \in calls \/ d = Return(c, st),
         UNCHANGED <<sink, delivered, attempt, outcome, attached, detaches>>
  PROVE  TransportInv'
<1>1. Counts'
  BY DEF TransportInv, Counts, Linked
<1>2. Shape(c) /\ c.env \in Env /\ c.to \in Node /\ c.to # dst[c.env]
  BY DEF TransportInv, Calls, Shape, CallSet
<1>3. seen \in [Node -> Window(Member, Env)]
  BY DEF TransportInv, Stores
<1>4. settle(seen[c.to], c.env, st) \in Window(Member, Env)
  BY <1>2, <1>3, SettleWindow
<1>5. Stores'
  BY <1>2, <1>3, <1>4 DEF TransportInv, Stores
<1>6. detaches' >= detaches /\ \A x \in Env : delivered'[x] >= delivered[x]
  BY DEF TransportInv, Counts
<1>7. Shape(Return(c, st)) /\ Told(Return(c, st))'
  BY <1>2, ReturnFacts DEF Told
<1>8. Calls'
  BY <1>1, <1>6, <1>7, CallsStay DEF TransportInv
<1>. QED
  BY <1>1, <1>5, <1>8 DEF TransportInv, Outcomes, DeliveredIsTrue

LEMMA WaitingStep ==
  ASSUME TransportInv, NEW c \in calls, TimeoutHop(c) \/ \E d \in CalleeOf(c) : PassBack(c, d)
  PROVE  TransportInv'
<1>1. Shape(c)
  BY DEF TransportInv, Calls
<1>2. CASE TimeoutHop(c)
  <2>1. Return(c, "Unreachable").st = "Unreachable" /\ "Unreachable" \in Status
    BY <1>1, ReturnFacts DEF Status, Transient
  <2>2. Told(Return(c, "Unreachable"))
    BY <2>1 DEF Told
  <2>. QED
    BY <1>2, <2>1, <2>2, SettleStep DEF TimeoutHop
<1>3. ASSUME NEW d \in CalleeOf(c), PassBack(c, d) PROVE TransportInv'
  <2>1. d \in calls /\ d.env = c.env /\ d.st \in Status /\ Told(d)
    BY <1>3 DEF PassBack, CalleeOf, TransportInv, Calls
  <2>2. Return(c, d.st).st = d.st /\ Return(c, d.st).env = c.env
    BY <1>1, <2>1, ReturnFacts DEF Status, Transient
  <2>3. Told(Return(c, d.st))
    BY <2>1, <2>2 DEF Told
  <2>. QED
    BY <1>3, <2>1, <2>3, SettleStep DEF PassBack, env_vars
<1>. QED
  BY <1>2, <1>3

(* What Handle does to each variable, by its answer r and its next hop.    *)
Mark(c, r) == settle(observe(seen[c.to], src[c.env], c.env), c.env, r)

LEMMA HandleEffect ==
  ASSUME NEW c, Handle(c), NEW r, r = Answer(c), NEW next, next = route(c.to, dst[c.env])
  PROVE  /\ c.st = "sent"
         /\ seen' = IF Refused(c) # "none" THEN seen ELSE [seen EXCEPT ![c.to] = Mark(c, r)]
         /\ r = "forward" => calls' = (calls \ {c}) \cup {Return(c, "waiting"),
                                        Call(c.env, c.att, Append(c.chain, c.to), next, "sent")}
         /\ r # "forward" => calls' = (calls \ {c}) \cup {Return(c, r)}
         /\ r = "Delivered" => /\ sink' = [sink EXCEPT ![c.to] = Append(@, c.env)]
                               /\ delivered' = [delivered EXCEPT ![c.env] = @ + 1]
         /\ r # "Delivered" => UNCHANGED <<sink, delivered>>
         /\ UNCHANGED <<attempt, outcome, attached, restarted, timeouts, detaches>>
BY DEF Handle, Answer, Mark, env_vars

LEMMA HandleStep ==
  ASSUME TransportInv, NEW c \in calls, Handle(c)
  PROVE  TransportInv'
<1>. PICK r : r = Answer(c)
  OBVIOUS
<1>. PICK next : next = route(c.to, dst[c.env])
  OBVIOUS
<1>1. Counts /\ Calls /\ Outcomes /\ Stores /\ Shape(c)
  BY DEF TransportInv, Calls
<1>2. /\ c.env \in Env /\ c.to \in Node /\ c.att \in Nat /\ c.chain \in Seq(Member) /\ src[c.env] \in Member
  BY <1>1, EndsFacts DEF Shape, CallSet
<1>3. /\ r \in Status \cup {"forward"}
      /\ r \in {"BadHopChain", "NotNeighbor"} => detaches > 0
      /\ r = "Delivered" => Len(sink[c.to]) < SINK_CAPACITY
      /\ r = "forward" => /\ c.to # dst[c.env] /\ next \in Node
                          /\ Append(c.chain, c.to) \in Seq(Member)
                          /\ OnPath(c.env, Append(c.chain, c.to), next)
  BY <1>1, AnswerFacts
<1>4. /\ seen' = IF Refused(c) # "none" THEN seen ELSE [seen EXCEPT ![c.to] = Mark(c, r)]
      /\ r = "forward" => calls' = (calls \ {c}) \cup {Return(c, "waiting"),
                                     Call(c.env, c.att, Append(c.chain, c.to), next, "sent")}
      /\ r # "forward" => calls' = (calls \ {c}) \cup {Return(c, r)}
      /\ r = "Delivered" => /\ sink' = [sink EXCEPT ![c.to] = Append(@, c.env)]
                            /\ delivered' = [delivered EXCEPT ![c.env] = @ + 1]
      /\ r # "Delivered" => UNCHANGED <<sink, delivered>>
      /\ UNCHANGED <<attempt, outcome, attached, restarted, timeouts, detaches>>
  BY HandleEffect, Zenon
<1>5. /\ delivered' \in [Env -> Nat] /\ \A x \in Env : delivered'[x] >= delivered[x]
      /\ r = "Delivered" => delivered'[c.env] > 0
  <2>1. delivered \in [Env -> Nat]
    BY <1>1 DEF Counts
  <2>. QED
    BY <1>2, <1>4, <2>1
<1>6. Counts' /\ detaches' >= detaches
  BY <1>1, <1>4, <1>5 DEF Counts, Linked
<1>7. Stores'
  <2>1. /\ seen \in [Node -> Window(Member, Env)] /\ sink \in [Node -> Seq(Env)]
        /\ \A n \in Node : Len(sink[n]) <= SINK_CAPACITY
    BY <1>1 DEF Stores
  <2>2. seen[c.to] \in Window(Member, Env)
    BY <1>2, <2>1
  <2>3. observe(seen[c.to], src[c.env], c.env) \in Window(Member, Env)
    BY <1>2, <2>2, ObserveFacts
  <2>4. Mark(c, r) \in Window(Member, Env)
    BY <1>2, <2>3, SettleWindow DEF Mark
  <2>5. seen' \in [Node -> Window(Member, Env)]
    BY <1>2, <1>4, <2>1, <2>4
  <2>6. sink' \in [Node -> Seq(Env)] /\ \A n \in Node : Len(sink'[n]) <= SINK_CAPACITY
    <3>1. CASE r = "Delivered"
      <4>1. /\ Append(sink[c.to], c.env) \in Seq(Env) /\ Len(sink[c.to]) \in Nat
            /\ Len(Append(sink[c.to], c.env)) = Len(sink[c.to]) + 1
        BY <1>2, <2>1, AppendProperties
      <4>2. Len(Append(sink[c.to], c.env)) <= SINK_CAPACITY
        BY <1>3, <3>1, <4>1, BoundAssumption
      <4>. QED
        BY <1>2, <1>4, <2>1, <3>1, <4>1, <4>2
    <3>2. CASE r # "Delivered"
      BY <1>4, <2>1, <3>2
    <3>. QED
      BY <3>1, <3>2
  <2>. QED
    BY <2>5, <2>6 DEF Stores
<1>8. Outcomes'
  BY <1>1, <1>4, <1>5 DEF Outcomes, DeliveredIsTrue, Counts
<1>9. CASE r = "forward"
  <2>. DEFINE d == Call(c.env, c.att, Append(c.chain, c.to), next, "sent")
              w == Return(c, "waiting")
  <2>1. d \in CallSet /\ d.st = "sent" /\ d.env = c.env /\ d.to = next /\ d.chain = Append(c.chain, c.to)
    BY <1>2, <1>3, <1>9 DEF Call, CallSet
  <2>. HIDE DEF d
  <2>2. Shape(d) /\ Told(d)'
    BY <1>3, <1>9, <2>1 DEF Shape, Told
  <2>3. Shape(w) /\ w.st = "waiting"
    BY <1>1, <1>3, <1>9, ReturnFacts
  <2>4. Told(w)'
    BY <2>3 DEF Told
  <2>5. calls' = (calls \ {c}) \cup {w, d}
    BY <1>4, <1>9 DEF d
  <2>. HIDE DEF w
  <2>6. Calls'
    BY <1>1, <1>5, <1>6, <2>2, <2>3, <2>4, <2>5, CallsStay
  <2>. QED
    BY <1>6, <1>7, <1>8, <2>6 DEF TransportInv
<1>10. CASE r # "forward"
  <2>. DEFINE w == Return(c, r)
  <2>1. r \in Status \cup {"sent", "waiting"} /\ r # "waiting"
    BY <1>3, <1>10 DEF Status, Transient
  <2>2. Shape(w) /\ w.st = r /\ w.env = c.env
    BY <1>1, <2>1, ReturnFacts
  <2>. HIDE DEF w
  <2>3. Told(w)'
    BY <1>3, <1>4, <1>5, <2>2 DEF Told
  <2>4. calls' = (calls \ {c}) \cup {w}
    BY <1>4, <1>10 DEF w
  <2>5. Calls'
    BY <1>1, <1>5, <1>6, <2>2, <2>3, <2>4, CallsStay
  <2>. QED
    BY <1>6, <1>7, <1>8, <2>5 DEF TransportInv
<1>. QED
  BY <1>9, <1>10

(* A restart answers the calls the node was waiting in, and forgets.       *)
LEMMA RestartStep ==
  ASSUME TransportInv, NEW n \in Node, Restart(n)
  PROVE  TransportInv'
<1>1. /\ seen' = [seen EXCEPT ![n] = << >>] /\ sink' = [sink EXCEPT ![n] = << >>]
      /\ calls' = { IF c.to = n /\ c.st = "waiting" THEN Return(c, "Unreachable") ELSE c : c \in calls }
      /\ outcome' = [ e \in Env |-> IF src[e] = n /\ outcome[e] = "waiting" THEN "forgotten" ELSE outcome[e] ]
      /\ UNCHANGED <<delivered, attempt, attached, detaches>>
  BY DEF Restart
<1>2. Counts' /\ detaches' >= detaches /\ \A x \in Env : delivered'[x] >= delivered[x]
  BY <1>1 DEF TransportInv, Counts, Linked
<1>3. << >> \in Window(Member, Env) /\ << >> \in Seq(Env) /\ Len(<< >>) = 0
  <2>1. Len(<< >>) = 0 /\ << >> \in Seq([origin : Member, ids : Seq(Env)]) /\ << >> \in Seq(Env)
    BY EmptySeq
  <2>2. 1..0 = {} /\ 0 <= max_origins
    BY WindowAssumption
  <2>. QED
    BY <2>1, <2>2 DEF Window
<1>4. Stores'
  BY <1>1, <1>3, BoundAssumption DEF TransportInv, Stores
<1>5. Outcomes'
  BY <1>1 DEF TransportInv, Outcomes, DeliveredIsTrue
<1>6. ASSUME NEW d \in calls', d \notin calls PROVE Shape(d) /\ Told(d)'
  <2>1. PICK c \in calls : d = Return(c, "Unreachable")
    BY <1>1, <1>6
  <2>2. Shape(c)
    BY DEF TransportInv, Calls
  <2>3. Shape(d) /\ d.st = "Unreachable"
    BY <2>1, <2>2, ReturnFacts DEF Status, Transient
  <2>. QED
    BY <2>3 DEF Told
<1>7. Calls'
  BY <1>2, <1>6, CallsStay DEF TransportInv
<1>. QED
  BY <1>2, <1>4, <1>5, <1>7 DEF TransportInv

LEMMA StepTransport ==
  ASSUME TransportInv, [Next]_vars
  PROVE  TransportInv'
<1>1. CASE UNCHANGED vars
  BY <1>1 DEF vars, env_vars, TransportInv, Counts, Linked, Calls, Shape, Told, Outcomes, DeliveredIsTrue, Stores
<1>2. CASE Next
  BY <1>2, SendStep, TimeoutOriginStep, HandleStep, EndStep, WaitingStep, DrainStep, RestartStep, DetachStep
     DEF Next
<1>. QED
  BY <1>1, <1>2
-----------------------------------------------------------------------------
(* No hop refuses the chain of an honest predecessor, unless a child left: *)
(* HonestNeverRefused, for every tree, envelope and bound.                 *)
THEOREM HonestChainsAccepted == Spec => []HonestNeverRefused
<1>1. Init => TransportInv
  BY InitTransport
<1>2. TransportInv /\ [Next]_vars => TransportInv'
  BY StepTransport
<1>3. TransportInv => HonestNeverRefused
  BY DEF TransportInv, Calls, Told, HonestNeverRefused
<1>. QED
  BY <1>1, <1>2, <1>3, PTL DEF Spec

(* An origin that is told Delivered can rely on it, whatever hops time out *)
(* on, however often it retries and whichever node restarts.               *)
THEOREM DeliveredTruthfully == Spec => []DeliveredIsTrue
<1>1. Init => TransportInv
  BY InitTransport
<1>2. TransportInv /\ [Next]_vars => TransportInv'
  BY StepTransport
<1>3. TransportInv => DeliveredIsTrue
  BY DEF TransportInv, Outcomes
<1>. QED
  BY <1>1, <1>2, <1>3, PTL DEF Spec
-----------------------------------------------------------------------------
(***************************************************************************)
(* Delivery once. A window that must evict forgets a delivery, so this     *)
(* rests on windows that have room for the envelopes that are out (Roomy), *)
(* as DeliveredOnce says; without room a retry may be delivered again.     *)
(***************************************************************************)
Sources == { src[e] : e \in Env }
From(o) == { e \in Env : src[e] = o }

Roomy ==
  /\ IsFiniteSet(Env)
  /\ Cardinality(Sources) <= max_origins
  /\ \A o \in Sources : Cardinality(From(o)) <= max_per_origin

LEMMA NothingEvicted ==
  ASSUME Roomy, Stores, Marks, NEW n \in Node, NEW e \in Env
  PROVE  Fits(seen[n], src[e], e)
<1>. DEFINE w == seen[n]
            S == Sources
            T == From(src[e])
<1>1. w \in Window(Member, Env)
  BY DEF Stores
<1>2. src[e] \in S /\ e \in T /\ T \in SUBSET Env
  BY DEF Sources, From
<1>3. IsFiniteSet(S)
  <2>. DEFINE f == [x \in Env |-> src[x]]
  <2>1. f \in Surjection(Env, S)
    BY DEF Surjection, Sources
  <2>. QED
    BY <2>1, FS_Surjection DEF Roomy
<1>4. IsFiniteSet(T)
  BY <1>2, FS_Subset DEF Roomy
<1>5. Cardinality(S) <= max_origins /\ Cardinality(T) <= max_per_origin
  BY <1>2 DEF Roomy
<1>6. ASSUME NEW i \in 1..Len(w) PROVE w[i].origin \in S
  <2>1. w[i].origin \in Member /\ w[i].ids \in Seq(Env) /\ Len(w[i].ids) \in 1..max_per_origin
    <3>1. w \in Seq([origin : Member, ids : Seq(Env)]) /\ Len(w[i].ids) \in 1..max_per_origin
      BY <1>1, <1>6 DEF Window
    <3>2. w[i] \in [origin : Member, ids : Seq(Env)]
      BY <1>6, <3>1, ElementOfSeq
    <3>. QED
      BY <3>1, <3>2
  <2>2. 1 \in 1..Len(w[i].ids)
    BY <2>1, WindowAssumption
  <2>3. w[i].ids[1] \in Env
    BY <2>1, <2>2, ElementOfSeq
  <2>4. Ids(w, w[i].origin) = w[i].ids
    BY <1>1, <1>6, IdsFacts
  <2>5. Remembers(w, w[i].origin, w[i].ids[1])
    BY <2>2, <2>4 DEF Remembers, Contains
  <2>6. src[w[i].ids[1]] = w[i].origin
    BY <2>1, <2>3, <2>5 DEF Marks
  <2>. QED
    BY <2>3, <2>6 DEF Sources
<1>7. ASSUME NEW x, Remembers(w, src[e], x) PROVE x \in T
  <2>1. x \in Env
    <3>1. Ids(w, src[e]) \in Seq(Env)
      BY <1>1, IdsFacts
    <3>. QED
      BY <1>7, <3>1, ElementOfSeq DEF Remembers, Contains
  <2>2. src[x] = src[e]
    BY <1>7, <2>1, EndsFacts DEF Marks
  <2>. QED
    BY <2>1, <2>2 DEF From
<1>. HIDE DEF w, S, T
<1>8. Fits(w, src[e], e)
  BY <1>1, <1>2, <1>3, <1>4, <1>5, <1>6, <1>7, RoomFits
<1>. QED
  BY <1>8 DEF w

Restarts(e) == IF dst[e] \in restarted THEN 1 ELSE 0
Marked(e) == IF Remembers(seen[dst[e]], src[e], e) THEN 1 ELSE 0

LEMMA SettleMarks ==
  ASSUME NEW w \in Window(Member, Env), NEW e \in Env, NEW st
  PROVE  /\ \A p, x : Remembers(settle(w, e, st), p, x) => Remembers(w, p, x)
         /\ \A p, x : Remembers(w, p, x) /\ ~(p = src[e] /\ x = e) => Remembers(settle(w, e, st), p, x)
         /\ st \notin Transient => settle(w, e, st) = w
BY EndsFacts, UnobserveFacts DEF settle

LEMMA WaitingMarks ==
  ASSUME TransportInv, Marks, NEW c \in calls, c.st = "waiting", NEW st,
         seen' = [seen EXCEPT ![c.to] = settle(@, c.env, st)],
         UNCHANGED <<delivered, restarted>>
  PROVE  Marks'
<1>1. c.env \in Env /\ c.to \in Node /\ c.to # dst[c.env]
  BY DEF TransportInv, Calls, Shape, CallSet
<1>2. seen \in [Node -> Window(Member, Env)]
  BY DEF TransportInv, Stores
<1>3. /\ \A n \in Node : \A p, x : Remembers(seen'[n], p, x) => Remembers(seen[n], p, x)
      /\ \A n \in Node : \A p, x : Remembers(seen[n], p, x) /\ ~(n = c.to /\ p = src[c.env] /\ x = c.env)
                                 => Remembers(seen'[n], p, x)
  BY <1>1, <1>2, SettleMarks
<1>4. \A x \in Env : Remembers(seen[dst[x]], src[x], x) <=> Remembers(seen'[dst[x]], src[x], x)
  BY <1>1, <1>3, EndsFacts
<1>. QED
  BY <1>3, <1>4 DEF Marks

LEMMA HandleMarks ==
  ASSUME Roomy, TransportInv, Marks, NEW c \in calls, Handle(c)
  PROVE  Marks'
<1>. PICK r : r = Answer(c)
  OBVIOUS
<1>. PICK next : next = route(c.to, dst[c.env])
  OBVIOUS
<1>. DEFINE n == c.to
            e == c.env
            w == seen[n]
            v == observe(w, src[e], e)
<1>1. Counts /\ Stores /\ Shape(c)
  BY DEF TransportInv, Calls
<1>2. e \in Env /\ n \in Node /\ src[e] \in Member
  BY <1>1, EndsFacts DEF Shape, CallSet
<1>3. /\ r \in {"Delivered", "Busy"} => n = dst[e] /\ ~Remembers(w, src[e], e)
      /\ r = "Delivered" => Refused(c) = "none"
      /\ r \in Transient => r = "Busy"
  BY <1>1, AnswerFacts
<1>4. /\ seen' = IF Refused(c) # "none" THEN seen ELSE [seen EXCEPT ![n] = settle(v, e, r)]
      /\ r = "Delivered" => delivered' = [delivered EXCEPT ![e] = @ + 1]
      /\ r # "Delivered" => delivered' = delivered
      /\ restarted' = restarted
  BY HandleEffect DEF Mark
<1>5. seen \in [Node -> Window(Member, Env)] /\ w \in Window(Member, Env) /\ delivered \in [Env -> Nat]
  BY <1>1, <1>2 DEF Stores, Counts
<1>6. Fits(w, src[e], e)
  BY <1>1, <1>2, NothingEvicted
<1>7. /\ v \in Window(Member, Env) /\ Remembers(v, src[e], e)
      /\ \A p, x : Remembers(v, p, x) => Remembers(w, p, x) \/ (p = src[e] /\ x = e)
      /\ \A p, x : Remembers(w, p, x) => Remembers(v, p, x)
  BY <1>2, <1>5, <1>6, ObserveFacts
<1>. DEFINE u == settle(v, e, r)
<1>8. /\ \A p, x : Remembers(u, p, x) => Remembers(w, p, x) \/ (p = src[e] /\ x = e)
      /\ \A p, x : Remembers(w, p, x) /\ ~(p = src[e] /\ x = e) => Remembers(u, p, x)
      /\ r \notin Transient => Remembers(u, src[e], e)
  <2>1. /\ \A p, x : Remembers(u, p, x) => Remembers(v, p, x)
        /\ \A p, x : Remembers(v, p, x) /\ ~(p = src[e] /\ x = e) => Remembers(u, p, x)
        /\ r \notin Transient => u = v
    BY <1>2, <1>7, SettleMarks
  <2>. QED
    BY <1>7, <2>1
<1>. HIDE DEF u, v, w
<1>9. /\ \A m \in Node : \A p, x : Remembers(seen'[m], p, x) => Remembers(seen[m], p, x) \/ (p = src[e] /\ x = e)
      /\ \A m \in Node : \A p, x : Remembers(seen[m], p, x) /\ ~(p = src[e] /\ x = e) => Remembers(seen'[m], p, x)
  <2>1. CASE Refused(c) # "none"
    BY <1>4, <2>1
  <2>2. CASE Refused(c) = "none"
    <3>1. seen' = [seen EXCEPT ![n] = u]
      BY <1>4, <2>2 DEF u
    <3>. QED
      BY <1>2, <1>5, <1>8, <3>1 DEF w
  <2>. QED
    BY <2>1, <2>2
<1>10. \A m \in Node, p \in Member, x \in Env : Remembers(seen'[m], p, x) => src[x] = p
  BY <1>9 DEF Marks
<1>11. ASSUME NEW x \in Env
       PROVE  delivered'[x] <= Restarts(x)' + Marked(x)'
  <2>1. /\ delivered[x] <= Restarts(x) + Marked(x) /\ delivered[x] \in Nat /\ Restarts(x)' = Restarts(x)
        /\ Restarts(x) \in {0, 1}
    BY <1>4, <1>5 DEF Marks, Restarts, Marked
  <2>2. CASE x # e
    <3>1. delivered'[x] = delivered[x]
      BY <1>2, <1>4, <1>5, <2>2
    <3>2. Remembers(seen[dst[x]], src[x], x) => Remembers(seen'[dst[x]], src[x], x)
      BY <1>9, <2>2, EndsFacts
    <3>. QED
      BY <2>1, <3>1, <3>2 DEF Marked
  <2>3. CASE x = e /\ r = "Delivered"
    <3>1. n = dst[x] /\ ~Remembers(seen[n], src[x], x) /\ Refused(c) = "none" /\ r \notin Transient
      BY <1>3, <2>3 DEF Transient, w
    <3>2. seen'[n] = u
      BY <1>2, <1>4, <1>5, <3>1 DEF u
    <3>3. Marked(x)' = 1 /\ Marked(x) = 0
      BY <1>8, <2>3, <3>1, <3>2 DEF Marked
    <3>4. delivered'[x] = delivered[x] + 1
      BY <1>4, <1>5, <2>3
    <3>. QED
      BY <2>1, <3>3, <3>4
  <2>4. CASE x = e /\ r \in Transient
    <3>1. n = dst[x] /\ ~Remembers(seen[n], src[x], x) /\ delivered'[x] = delivered[x]
      BY <1>3, <1>4, <2>4 DEF Transient, w
    <3>2. Marked(x) = 0
      BY <3>1 DEF Marked
    <3>3. Marked(x)' \in {0, 1}
      BY DEF Marked
    <3>. QED
      BY <2>1, <3>1, <3>2, <3>3
  <2>5. CASE x = e /\ r # "Delivered" /\ r \notin Transient
    <3>1. delivered'[x] = delivered[x]
      BY <1>4, <2>5
    <3>2. Remembers(seen[dst[x]], src[x], x) => Remembers(seen'[dst[x]], src[x], x)
      <4>1. CASE Refused(c) # "none" \/ dst[x] # n
        BY <1>2, <1>4, <1>5, <4>1, EndsFacts
      <4>2. CASE Refused(c) = "none" /\ dst[x] = n
        BY <1>2, <1>4, <1>5, <1>8, <2>5, <4>2 DEF u
      <4>. QED
        BY <4>1, <4>2
    <3>. QED
      BY <2>1, <3>1, <3>2 DEF Marked
  <2>. QED
    BY <2>2, <2>3, <2>4, <2>5
<1>. QED
  BY <1>10, <1>11 DEF Marks, Restarts, Marked

LEMMA RestartMarks ==
  ASSUME TransportInv, Marks, NEW n \in Node, Restart(n)
  PROVE  Marks'
<1>1. seen' = [seen EXCEPT ![n] = << >>] /\ delivered' = delivered /\ restarted' = restarted \cup {n}
      /\ n \notin restarted
  BY DEF Restart
<1>2. seen \in [Node -> Window(Member, Env)] /\ delivered \in [Env -> Nat]
  BY DEF TransportInv, Stores, Counts
<1>3. \A p, x : ~Remembers(<< >>, p, x)
  <2>1. Len(<< >>) = 0
    BY EmptySeq
  <2>. QED
    BY <2>1 DEF Remembers, Ids, Tracked, Contains
<1>4. \A m \in Node, p \in Member, x \in Env : Remembers(seen'[m], p, x) => src[x] = p
  BY <1>1, <1>2, <1>3 DEF Marks
<1>5. ASSUME NEW x \in Env PROVE delivered'[x] <= Restarts(x)' + Marked(x)'
  <2>1. delivered[x] <= Restarts(x) + Marked(x) /\ delivered[x] \in Nat
    BY <1>2 DEF Marks, Restarts, Marked
  <2>2. CASE dst[x] = n
    BY <1>1, <2>1, <2>2 DEF Restarts, Marked
  <2>3. CASE dst[x] # n
    BY <1>1, <1>2, <2>1, <2>3, EndsFacts DEF Restarts, Marked
  <2>. QED
    BY <2>2, <2>3
<1>. QED
  BY <1>4, <1>5 DEF Marks, Restarts, Marked

LEMMA StepMarks ==
  ASSUME Roomy, TransportInv, Marks, [Next]_vars
  PROVE  Marks'
<1>1. CASE UNCHANGED <<seen, delivered, restarted>>
  BY <1>1 DEF Marks
<1>2. ASSUME NEW c \in calls, Handle(c) PROVE Marks'
  BY <1>2, HandleMarks
<1>3. ASSUME NEW c \in calls, TimeoutHop(c) PROVE Marks'
  BY <1>3, WaitingMarks DEF TimeoutHop
<1>4. ASSUME NEW c \in calls, NEW d, PassBack(c, d) PROVE Marks'
  BY <1>4, WaitingMarks DEF PassBack, env_vars
<1>5. ASSUME NEW n \in Node, Restart(n) PROVE Marks'
  BY <1>5, RestartMarks
<1>6. CASE UNCHANGED vars
  BY <1>1, <1>6 DEF vars, env_vars
<1>7. ASSUME NEW e \in Env, Send(e) \/ TimeoutOrigin(e) PROVE Marks'
  BY <1>1, <1>7 DEF Send, TimeoutOrigin, env_vars
<1>8. ASSUME NEW c \in calls, ConnectFails(c) \/ Acknowledge(c) \/ DropAck(c) PROVE Marks'
  BY <1>1, <1>8 DEF ConnectFails, Acknowledge, DropAck, env_vars
<1>9. ASSUME NEW n, Drain(n) \/ Detach(n) PROVE Marks'
  BY <1>1, <1>9 DEF Drain, Detach, env_vars
<1>. QED
  BY <1>2, <1>3, <1>4, <1>5, <1>6, <1>7, <1>8, <1>9 DEF Next

LEMMA InvTypes == TransportInv => TypeOK
<1>. SUFFICES ASSUME TransportInv PROVE TypeOK
  OBVIOUS
<1>1. \A c \in calls : c.env \in Env /\ c.to \in Node /\ c.st \in Status \cup {"sent", "waiting"}
  BY DEF TransportInv, Calls, Shape, CallSet
<1>2. ASSUME NEW n \in Node
      PROVE  /\ Len(seen[n]) <= max_origins
             /\ \A i \in DOMAIN seen[n] : Len(seen[n][i].ids) \in 1..max_per_origin
             /\ Len(sink[n]) <= SINK_CAPACITY
  <2>1. seen[n] \in Window(Member, Env) /\ Len(sink[n]) <= SINK_CAPACITY
    BY DEF TransportInv, Stores
  <2>2. DOMAIN seen[n] = 1..Len(seen[n])
    BY <2>1, LenProperties DEF Window
  <2>. QED
    BY <2>1, <2>2 DEF Window
<1>. QED
  BY <1>1, <1>2 DEF TypeOK, TransportInv, Outcomes, Counts, Linked, Member

(* Types, and the bounds of the replay windows and of the sinks, with room *)
(* or without.                                                             *)
THEOREM StoresBounded == Spec => []TypeOK
<1>1. Init => TransportInv
  BY InitTransport
<1>2. TransportInv /\ [Next]_vars => TransportInv'
  BY StepTransport
<1>. QED
  BY <1>1, <1>2, InvTypes, PTL DEF Spec

(* An envelope reaches its target's drain task at most once, and once more *)
(* when the target restarts, while the windows and sinks keep within their *)
(* bounds: DeliveredOnce, for windows with room for the envelopes.         *)
THEOREM DeliveredAtMostOnce == ASSUME Roomy PROVE Spec => []DeliveredOnce
<1>1. Init => TransportInv /\ Marks
  BY InitTransport
<1>2. TransportInv /\ Marks /\ [Next]_vars => TransportInv' /\ Marks'
  BY StepTransport, StepMarks
<1>3. TransportInv /\ Marks => DeliveredOnce
  <2>. SUFFICES ASSUME TransportInv, Marks PROVE DeliveredOnce
    OBVIOUS
  <2>1. ASSUME NEW e \in Env PROVE delivered[e] <= IF dst[e] \in restarted THEN 2 ELSE 1
    <3>1. delivered[e] <= Restarts(e) + Marked(e) /\ delivered[e] \in Nat /\ Marked(e) \in {0, 1}
      BY DEF Marks, Restarts, Marked, TransportInv, Counts
    <3>. QED
      BY <3>1 DEF Restarts
  <2>. QED
    BY <2>1, InvTypes DEF DeliveredOnce
<1>. QED
  BY <1>1, <1>2, <1>3, PTL DEF Spec
=============================================================================
