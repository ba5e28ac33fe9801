---------------------------- MODULE FileLogProofs ----------------------------
(***************************************************************************)
(* Proofs about the ledger's frame log, for any number of processes, of    *)
(* requests and of crashes, with failing writes or without. What the open  *)
(* promises holds under the discipline that the unlocked open is done by a *)
(* process that is alone (SoloOpens); without it TLC shows the loss.       *)
(***************************************************************************)
EXTENDS FileLog, SequenceTheorems, TLAPS

-----------------------------------------------------------------------------
(***************************************************************************)
(* The shape of the file: the frames of a chain, then nothing or one torn  *)
(* append.                                                                 *)
(***************************************************************************)
Chunks == [kind : {"len", "body", "part", "zeros"}, chain : Seq(Id)]

UpTo(ch, j) == SubSeq(ch, 1, j)

Frames(f, ch) ==
  /\ f \in Seq(Chunks) /\ ch \in Seq(Id)
  /\ 2 * Len(ch) <= Len(f)
  /\ \A j \in 1..Len(ch) : /\ f[2 * j - 1] = Chunk("len", UpTo(ch, j))
                           /\ f[2 * j] = Chunk("body", UpTo(ch, j))

Tail1(f, n) == Len(f) = 2 * n + 1 /\ f[2 * n + 1].kind = "len"
Tail2(f, n) == Len(f) = 2 * n + 2 /\ f[2 * n + 1].kind = "len" /\ f[2 * n + 2].kind = "part"

Holds(f, ch) == Frames(f, ch) /\ (Len(f) = 2 * Len(ch) \/ Tail1(f, Len(ch)) \/ Tail2(f, Len(ch)))

(* The first levels of a chain, and what Front makes of them.              *)
LEMMA UpToFacts ==
  ASSUME NEW ch \in Seq(Id), NEW j \in 0..Len(ch)
  PROVE  /\ UpTo(ch, j) \in Seq(Id) /\ Len(UpTo(ch, j)) = j
         /\ \A i \in 1..j : UpTo(ch, j)[i] = ch[i]
         /\ j > 0 => UpTo(ch, j) # << >> /\ Front(UpTo(ch, j)) = UpTo(ch, j - 1)
         /\ UpTo(ch, 0) = << >> /\ UpTo(ch, Len(ch)) = ch
<1>1. Len(ch) \in Nat /\ j \in Nat
  OBVIOUS
<1>2. \A k \in 0..Len(ch) : /\ UpTo(ch, k) \in Seq(Id) /\ Len(UpTo(ch, k)) = k
                            /\ \A i \in 1..k : UpTo(ch, k)[i] = ch[i]
  BY <1>1 DEF UpTo
<1>3. ASSUME j > 0
      PROVE  UpTo(ch, j) # << >> /\ Front(UpTo(ch, j)) = UpTo(ch, j - 1)
  <2>1. UpTo(ch, j) # << >>
    BY <1>1, <1>2, <1>3
  <2>2. j - 1 \in 0..Len(ch) /\ j - 1 \in 0..Len(UpTo(ch, j))
    BY <1>1, <1>2, <1>3
  <2>3. /\ Front(UpTo(ch, j)) \in Seq(Id) /\ Len(Front(UpTo(ch, j))) = j - 1
        /\ \A i \in 1..(j - 1) : Front(UpTo(ch, j))[i] = UpTo(ch, j)[i]
    BY <1>1, <1>2, <1>3 DEF Front
  <2>4. \A i \in 1..(j - 1) : Front(UpTo(ch, j))[i] = UpTo(ch, j - 1)[i]
    <3>1. \A i \in 1..(j - 1) : i \in 1..j
      BY <1>1
    <3>. QED
      BY <1>2, <2>2, <2>3, <3>1
  <2>. QED
    BY <2>1, <2>2, <2>3, <2>4, <1>2, SeqEqual
<1>4. UpTo(ch, 0) = << >>
  BY <1>1, <1>2, EmptySeq
<1>5. UpTo(ch, Len(ch)) = ch
  BY <1>1, <1>2, SeqEqual
<1>. QED
  BY <1>1, <1>2, <1>3, <1>4, <1>5

(* parse_frames finds exactly the chain the file holds, and takes what     *)
(* follows it for a torn append.                                           *)
LEMMA ParseFrames ==
  ASSUME NEW f, NEW ch, Holds(f, ch)
  PROVE  /\ FrameCount(f) = Len(ch)
         /\ Entries(f) = ch
         /\ Verdicts(f) = IF Len(f) = 2 * Len(ch) THEN {"clean"} ELSE {"torn"}
<1>. DEFINE n == Len(ch)
<1>1. /\ f \in Seq(Chunks) /\ ch \in Seq(Id) /\ n \in Nat /\ Len(f) \in Nat
      /\ Len(f) \in (2 * n)..(2 * n + 2)
  BY DEF Holds, Frames, Tail1, Tail2
<1>2. ASSUME NEW k \in 0..n
      PROVE  Complete(f, k)
  <2>. SUFFICES ASSUME NEW j \in 1..k
                PROVE  LET prev == IF j = 1 THEN << >> ELSE f[2 * j - 2].chain
                       IN  /\ f[2 * j - 1].kind = "len" /\ f[2 * j].kind = "body"
                           /\ f[2 * j - 1].chain = f[2 * j].chain
                           /\ f[2 * j].chain # << >> /\ Front(f[2 * j].chain) = prev
    BY DEF Complete
  <2>1. j \in 1..n /\ j \in 0..n /\ j > 0
    BY <1>1
  <2>2. f[2 * j - 1] = Chunk("len", UpTo(ch, j)) /\ f[2 * j] = Chunk("body", UpTo(ch, j))
    BY <2>1 DEF Holds, Frames
  <2>3. UpTo(ch, j) # << >> /\ Front(UpTo(ch, j)) = UpTo(ch, j - 1)
    BY <1>1, <2>1, UpToFacts
  <2>4. (IF j = 1 THEN << >> ELSE f[2 * j - 2].chain) = UpTo(ch, j - 1)
    <3>1. CASE j = 1
      BY <1>1, <3>1, UpToFacts
    <3>2. CASE j # 1
      <4>1. j - 1 \in 1..n /\ 2 * (j - 1) = 2 * j - 2
        BY <1>1, <2>1, <3>2
      <4>2. f[2 * (j - 1)] = Chunk("body", UpTo(ch, j - 1))
        BY <4>1 DEF Holds, Frames
      <4>. QED
        BY <3>2, <4>1, <4>2 DEF Chunk
    <3>. QED
      BY <3>1, <3>2
  <2>. QED
    BY <2>2, <2>3, <2>4 DEF Chunk
<1>3. ASSUME NEW k \in 0..(Len(f) \div 2), Complete(f, k)
      PROVE  k <= n
  <2>. SUFFICES ASSUME ~(k <= n)
                PROVE  FALSE
    OBVIOUS
  <2>1. n + 1 \in 1..k /\ Len(f) >= 2 * n + 2
    BY <1>1, <1>3
  <2>2. f[2 * (n + 1)].kind = "body"
    BY <1>3, <2>1 DEF Complete
  <2>3. Len(f) = 2 * n + 2 /\ 2 * (n + 1) = 2 * n + 2
    BY <1>1, <2>1
  <2>4. f[2 * n + 2].kind = "part"
    BY <1>1, <2>3 DEF Holds, Tail1, Tail2
  <2>. QED
    BY <2>2, <2>3, <2>4
<1>4. n \in 0..(Len(f) \div 2)
  BY <1>1
<1>5. FrameCount(f) = n
  <2>. DEFINE T == { k \in 0..(Len(f) \div 2) : Complete(f, k) }
  <2>1. n \in T /\ \A y \in T : n >= y
    BY <1>1, <1>2, <1>3, <1>4
  <2>2. \A x \in T : (\A y \in T : x >= y) => x = n
    BY <1>1, <2>1
  <2>. HIDE DEF T
  <2>3. Max(T) = n
    BY <2>1, <2>2 DEF Max
  <2>. QED
    BY <2>3 DEF FrameCount, T
<1>6. Entries(f) = ch
  <2>1. CASE n = 0
    BY <1>1, <1>5, <2>1, EmptySeq DEF Entries
  <2>2. CASE n # 0
    <3>1. n \in 1..n
      BY <1>1, <2>2
    <3>2. f[2 * n] = Chunk("body", UpTo(ch, n))
      BY <3>1 DEF Holds, Frames
    <3>3. UpTo(ch, n) = ch
      BY <1>1, UpToFacts
    <3>. QED
      BY <1>5, <2>2, <3>2, <3>3 DEF Entries, Chunk
  <2>. QED
    BY <2>1, <2>2
<1>7. Rest(f) = SubSeq(f, 2 * n + 1, Len(f))
  BY <1>5 DEF Rest
<1>8. Verdicts(f) = IF Len(f) = 2 * n THEN {"clean"} ELSE {"torn"}
  <2>0. \A i \in 1..Len(f) : f[i] \in Chunks
    BY <1>1
  <2>1. /\ Rest(f) \in Seq(Chunks)
        /\ Len(Rest(f)) = Len(f) - 2 * n
        /\ \A i \in 1..(Len(f) - 2 * n) : Rest(f)[i] = f[2 * n + i]
    <3>1. \A i \in (2 * n + 1)..Len(f) : f[i] \in Chunks
      BY <1>1, <2>0
    <3>2. 2 * n + 1 \in Int /\ Len(f) \in Int
      BY <1>1
    <3>. HIDE DEF n
    <3>3. /\ SubSeq(f, 2 * n + 1, Len(f)) \in Seq(Chunks)
          /\ Len(SubSeq(f, 2 * n + 1, Len(f))) = IF 2 * n + 1 <= Len(f) THEN Len(f) - (2 * n + 1) + 1 ELSE 0
          /\ \A i \in 1..(Len(f) - (2 * n + 1) + 1) :
               SubSeq(f, 2 * n + 1, Len(f))[i] = f[2 * n + 1 + i - 1]
      BY <3>1, <3>2, SubSeqProperties
    <3>4. \A a, b \in Nat : a <= b =>
            /\ (IF a + 1 <= b THEN b - (a + 1) + 1 ELSE 0) = b - a
            /\ b - (a + 1) + 1 = b - a
            /\ \A i \in 1..(b - a) : a + 1 + i - 1 = a + i
      OBVIOUS
    <3>5. 2 * n \in Nat /\ 2 * n <= Len(f)
      BY <1>1
    <3>6. /\ (IF 2 * n + 1 <= Len(f) THEN Len(f) - (2 * n + 1) + 1 ELSE 0) = Len(f) - 2 * n
          /\ Len(f) - (2 * n + 1) + 1 = Len(f) - 2 * n
          /\ \A i \in 1..(Len(f) - 2 * n) : 2 * n + 1 + i - 1 = 2 * n + i
      BY <1>1, <3>4, <3>5, Zenon
    <3>. QED
      BY <1>7, <3>3, <3>6
  <2>2. CASE Len(f) = 2 * n
    <3>1. Rest(f) = << >>
      BY <1>1, <2>1, <2>2, EmptySeq
    <3>. QED
      BY <2>2, <3>1 DEF Verdicts
  <2>3. CASE Len(f) # 2 * n
    <3>1. Rest(f) # << >>
      <4>1. Len(f) - 2 * n # 0
        BY <1>1, <2>3
      <4>2. Len(Rest(f)) # 0
        BY <2>1, <4>1, Zenon
      <4>. QED
        BY <4>2, EmptySeq, Zenon
    <3>2. Torn(f)
      <4>1. CASE Tail1(f, n)
        BY <1>1, <2>1, <4>1 DEF Torn, Tail1
      <4>2. CASE Tail2(f, n)
        BY <1>1, <2>1, <4>2 DEF Torn, Tail2
      <4>. QED
        BY <2>3, <4>1, <4>2 DEF Holds
    <3>. QED
      BY <2>3, <3>1, <3>2 DEF Verdicts
  <2>. QED
    BY <2>2, <2>3
<1>. QED
  BY <1>5, <1>6, <1>8

(* A file cut anywhere holds the chain of the frames that are still whole. *)
LEMMA CutHolds ==
  ASSUME NEW f, NEW ch, Holds(f, ch), NEW m \in 0..Len(f)
  PROVE  \E k \in 0..Len(ch) : /\ Holds(SubSeq(f, 1, m), UpTo(ch, k))
                               /\ Len(SubSeq(f, 1, m)) = m
                               /\ m <= 2 * k + 2
                               /\ m < 2 * Len(ch) => m <= 2 * k + 1
                               /\ m >= 2 * Len(ch) => k = Len(ch)
<1>. DEFINE n == Len(ch)
            g == SubSeq(f, 1, m)
            k == IF m >= 2 * n THEN n ELSE m \div 2
<1>1. /\ f \in Seq(Chunks) /\ ch \in Seq(Id) /\ n \in Nat /\ Len(f) \in Nat /\ m \in Nat /\ m <= Len(f)
      /\ 2 * n <= Len(f) /\ Len(f) <= 2 * n + 2
  BY DEF Holds, Frames, Tail1, Tail2
<1>2. g \in Seq(Chunks) /\ Len(g) = m /\ \A i \in 1..m : g[i] = f[i]
  BY <1>1
<1>3. /\ k \in 0..n /\ 2 * k <= m /\ m <= 2 * k + 2
      /\ m < 2 * n => m \in {2 * k, 2 * k + 1} /\ k < n
      /\ m >= 2 * n => k = n
  BY <1>1
<1>4. UpTo(ch, k) \in Seq(Id) /\ Len(UpTo(ch, k)) = k /\ k \in Nat
  BY <1>1, <1>3, UpToFacts
<1>5. ASSUME NEW j \in 1..k
      PROVE  UpTo(UpTo(ch, k), j) = UpTo(ch, j)
  <2>1. j \in 0..n /\ j \in 0..k /\ j \in Nat
    BY <1>1, <1>3, <1>4, <1>5
  <2>2. /\ UpTo(ch, j) \in Seq(Id) /\ Len(UpTo(ch, j)) = j
        /\ \A i \in 1..j : UpTo(ch, j)[i] = ch[i]
    BY <1>1, <2>1, UpToFacts
  <2>3. /\ UpTo(UpTo(ch, k), j) \in Seq(Id) /\ Len(UpTo(UpTo(ch, k), j)) = j
        /\ \A i \in 1..j : UpTo(UpTo(ch, k), j)[i] = UpTo(ch, k)[i]
    BY <1>4, <2>1, UpToFacts
  <2>4. \A i \in 1..j : i \in 1..k
    BY <1>4, <2>1
  <2>5. \A i \in 1..k : UpTo(ch, k)[i] = ch[i]
    BY <1>1, <1>3, UpToFacts
  <2>. QED
    BY <2>2, <2>3, <2>4, <2>5, SeqEqual
<1>. HIDE DEF k, g, n
<1>6. Frames(g, UpTo(ch, k))
  <2>1. ASSUME NEW j \in 1..k
        PROVE  g[2 * j - 1] = Chunk("len", UpTo(ch, j)) /\ g[2 * j] = Chunk("body", UpTo(ch, j))
    <3>1. j \in 1..n /\ 2 * j - 1 \in 1..m /\ 2 * j \in 1..m
      BY <1>1, <1>3, <1>4
    <3>2. f[2 * j - 1] = Chunk("len", UpTo(ch, j)) /\ f[2 * j] = Chunk("body", UpTo(ch, j))
      BY <3>1 DEF Holds, Frames, n
    <3>. QED
      BY <1>2, <3>1, <3>2
  <2>. QED
    BY <1>2, <1>3, <1>4, <1>5, <2>1 DEF Frames
<1>7. Holds(g, UpTo(ch, k))
  <2>1. CASE m < 2 * n
    <3>1. CASE m = 2 * k
      BY <1>2, <1>4, <1>6, <3>1 DEF Holds
    <3>2. CASE m = 2 * k + 1
      <4>1. k + 1 \in 1..n /\ 2 * (k + 1) - 1 = m /\ m \in 1..m
        BY <1>1, <1>3, <1>4, <2>1, <3>2
      <4>2. f[2 * (k + 1) - 1] = Chunk("len", UpTo(ch, k + 1))
        BY <4>1 DEF Holds, Frames, n
      <4>3. g[m].kind = "len"
        BY <1>2, <4>1, <4>2 DEF Chunk
      <4>. QED
        BY <1>2, <1>4, <1>6, <3>2, <4>3 DEF Holds, Tail1
    <3>. QED
      BY <1>3, <2>1, <3>1, <3>2
  <2>2. CASE m >= 2 * n
    <3>1. k = n
      BY <1>3, <2>2
    <3>2. m \in {2 * n, 2 * n + 1, 2 * n + 2}
      BY <1>1, <2>2
    <3>3. CASE m = 2 * n
      BY <1>2, <1>4, <1>6, <3>1, <3>3 DEF Holds
    <3>4. CASE m = 2 * n + 1
      <4>1. f[2 * n + 1].kind = "len"
        BY <1>1, <3>4 DEF Holds, Tail1, Tail2, n
      <4>2. m \in 1..m
        BY <1>1, <3>4
      <4>3. g[2 * n + 1].kind = "len"
        BY <1>2, <3>4, <4>1, <4>2
      <4>. QED
        BY <1>2, <1>4, <1>6, <3>1, <3>4, <4>3 DEF Holds, Tail1
    <3>5. CASE m = 2 * n + 2
      <4>1. f[2 * n + 1].kind = "len" /\ f[2 * n + 2].kind = "part"
        BY <1>1, <3>5 DEF Holds, Tail1, Tail2, n
      <4>2. 2 * n + 1 \in 1..m /\ 2 * n + 2 \in 1..m
        BY <1>1, <3>5
      <4>3. g[2 * n + 1].kind = "len" /\ g[2 * n + 2].kind = "part"
        BY <1>2, <4>1, <4>2
      <4>. QED
        BY <1>2, <1>4, <1>6, <3>1, <3>5, <4>3 DEF Holds, Tail2
    <3>. QED
      BY <3>2, <3>3, <3>4, <3>5
  <2>. QED
    BY <1>1, <2>1, <2>2
<1>8. m < 2 * n => m <= 2 * k + 1
  BY <1>1, <1>3, <1>4
<1>. QED
  BY <1>2, <1>3, <1>7, <1>8 DEF g, n

(* Truncating to the whole frames (set_len) leaves exactly those.          *)
LEMMA TruncateHolds ==
  ASSUME NEW f, NEW ch, Holds(f, ch)
  PROVE  /\ Holds(SetLen(f, 2 * Len(ch)), ch)
         /\ Len(SetLen(f, 2 * Len(ch))) = 2 * Len(ch)
<1>. DEFINE m == 2 * Len(ch)
            g == SetLen(f, m)
<1>1. f \in Seq(Chunks) /\ ch \in Seq(Id) /\ Len(ch) \in Nat /\ Len(f) \in Nat /\ m \in Nat /\ m <= Len(f)
  BY DEF Holds, Frames
<1>2. g = [ i \in 1..m |-> IF i <= Len(f) THEN f[i] ELSE Zeros ]
  BY DEF SetLen
<1>3. \A i \in 1..m : i \in 1..Len(f) /\ i <= Len(f) /\ f[i] \in Chunks
  BY <1>1
<1>. HIDE DEF m, g
<1>4. g \in [1..m -> Chunks] /\ \A i \in 1..m : g[i] = f[i]
  BY <1>2, <1>3
<1>5. g \in Seq(Chunks) /\ Len(g) = m
  BY <1>1, <1>4
<1>6. ASSUME NEW j \in 1..Len(ch)
      PROVE  g[2 * j - 1] = Chunk("len", UpTo(ch, j)) /\ g[2 * j] = Chunk("body", UpTo(ch, j))
  <2>1. 2 * j - 1 \in 1..m /\ 2 * j \in 1..m
    BY <1>1 DEF m
  <2>. QED
    BY <1>4, <2>1 DEF Holds, Frames
<1>. QED
  BY <1>1, <1>5, <1>6 DEF Holds, Frames, m, g

(* The two writes of an append, and a second one that stops in the middle. *)
LEMMA AppendHolds ==
  ASSUME NEW f, NEW ch, Holds(f, ch), NEW x \in Id
  PROVE  /\ Append(ch, x) \in Seq(Id)
         /\ Len(f) = 2 * Len(ch) =>
              LET g == Append(f, Chunk("len", Append(ch, x)))
              IN  /\ Holds(g, ch)
                  /\ Len(g) = 2 * Len(ch) + 1 /\ g[2 * Len(ch) + 1] = Chunk("len", Append(ch, x))
         /\ Len(f) = 2 * Len(ch) + 1 /\ f[2 * Len(ch) + 1] = Chunk("len", Append(ch, x)) =>
              LET g == Append(f, Chunk("body", Append(ch, x)))
              IN  Holds(g, Append(ch, x)) /\ Len(g) = 2 * Len(Append(ch, x))
         /\ Len(f) = 2 * Len(ch) + 1 =>
              Holds(Append(f, Chunk("part", Append(ch, x))), ch)
<1>. DEFINE n == Len(ch)
            new == Append(ch, x)
<1>1. f \in Seq(Chunks) /\ ch \in Seq(Id) /\ n \in Nat /\ Len(f) \in Nat /\ 2 * n <= Len(f)
  BY DEF Holds, Frames
<1>2. /\ new \in Seq(Id) /\ Len(new) = n + 1 /\ new[n + 1] = x
      /\ \A i \in 1..n : new[i] = ch[i]
  BY <1>1
<1>3. ASSUME NEW c \in Chunks
      PROVE  /\ Append(f, c) \in Seq(Chunks) /\ Len(Append(f, c)) = Len(f) + 1
             /\ \A i \in 1..Len(f) : Append(f, c)[i] = f[i]
             /\ Append(f, c)[Len(f) + 1] = c
  BY <1>1, AppendProperties
<1>4. \A k \in {"len", "body", "part"} : Chunk(k, new) \in Chunks /\ Chunk(k, new).kind = k
  BY <1>2 DEF Chunks, Chunk
<1>. HIDE DEF n, new
<1>5. ASSUME NEW c \in Chunks
      PROVE  Frames(Append(f, c), ch)
  <2>1. \A j \in 1..n : 2 * j - 1 \in 1..Len(f) /\ 2 * j \in 1..Len(f)
    BY <1>1
  <2>. QED
    BY <1>1, <1>3, <2>1 DEF Holds, Frames, n
<1>6. ASSUME Len(f) = 2 * n
      PROVE  LET g == Append(f, Chunk("len", new))
             IN  Holds(g, ch) /\ Len(g) = 2 * n + 1 /\ g[2 * n + 1] = Chunk("len", new)
  BY <1>3, <1>4, <1>5, <1>6 DEF Holds, Tail1, n
<1>7. ASSUME Len(f) = 2 * n + 1
      PROVE  Holds(Append(f, Chunk("part", new)), ch)
  <2>1. f[2 * n + 1].kind = "len"
    BY <1>1, <1>7 DEF Holds, Tail1, Tail2, n
  <2>2. 2 * n + 1 \in 1..Len(f) /\ Len(f) + 1 = 2 * n + 2
    BY <1>1, <1>7
  <2>. QED
    BY <1>3, <1>4, <1>5, <2>1, <2>2 DEF Holds, Tail2, n
<1>8. ASSUME Len(f) = 2 * n + 1, f[2 * n + 1] = Chunk("len", new)
      PROVE  LET g == Append(f, Chunk("body", new)) IN Holds(g, new) /\ Len(g) = 2 * Len(new)
  <2>. DEFINE g == Append(f, Chunk("body", new))
  <2>1. /\ g \in Seq(Chunks) /\ Len(g) = 2 * n + 2 /\ 2 * n + 2 = 2 * Len(new)
        /\ \A i \in 1..Len(f) : g[i] = f[i]
        /\ g[2 * n + 2] = Chunk("body", new)
    BY <1>1, <1>2, <1>3, <1>4, <1>8
  <2>2. ASSUME NEW j \in 1..(n + 1)
        PROVE  g[2 * j - 1] = Chunk("len", UpTo(new, j)) /\ g[2 * j] = Chunk("body", UpTo(new, j))
    <3>1. CASE j = n + 1
      <4>1. UpTo(new, j) = new
        BY <1>2, <3>1, UpToFacts
      <4>2. 2 * j - 1 = 2 * n + 1 /\ 2 * j = 2 * n + 2 /\ 2 * n + 1 \in 1..Len(f)
        BY <1>1, <1>8, <3>1
      <4>. QED
        BY <1>8, <2>1, <4>1, <4>2
    <3>2. CASE j # n + 1
      <4>1. j \in 1..n /\ 2 * j - 1 \in 1..Len(f) /\ 2 * j \in 1..Len(f) /\ j \in 0..n /\ j \in 0..(n + 1)
        BY <1>1, <1>8, <3>2
      <4>2. UpTo(new, j) = UpTo(ch, j)
        <5>1. /\ UpTo(ch, j) \in Seq(Id) /\ Len(UpTo(ch, j)) = j
              /\ \A i \in 1..j : UpTo(ch, j)[i] = ch[i]
          BY <1>1, <4>1, UpToFacts DEF n
        <5>2. /\ UpTo(new, j) \in Seq(Id) /\ Len(UpTo(new, j)) = j
              /\ \A i \in 1..j : UpTo(new, j)[i] = new[i]
          BY <1>2, <4>1, UpToFacts
        <5>3. \A i \in 1..j : i \in 1..n
          BY <1>1, <4>1
        <5>. QED
          BY <1>2, <5>1, <5>2, <5>3, SeqEqual
      <4>3. f[2 * j - 1] = Chunk("len", UpTo(ch, j)) /\ f[2 * j] = Chunk("body", UpTo(ch, j))
        BY <4>1 DEF Holds, Frames, n
      <4>. QED
        BY <2>1, <4>1, <4>2, <4>3
    <3>. QED
      BY <3>1, <3>2
  <2>. QED
    BY <1>2, <2>1, <2>2 DEF Holds, Frames
<1>. QED
  BY <1>2, <1>6, <1>7, <1>8 DEF n, new
-----------------------------------------------------------------------------
(***************************************************************************)
(* The inductive invariant: who may be where under the lock, what every    *)
(* process still knows of the file, and what an acknowledgement stands on. *)
(***************************************************************************)
Locked == {"refresh", "cut", "append", "body", "sync"}

Kept == Entries(file)

Types ==
  /\ exclusive \subseteq Proc /\ shared \subseteq Proc
  /\ pc \in [Proc -> {"idle", "open_cut"} \cup Locked]
  /\ want \in [Proc -> Id \cup {Read}]
  /\ seen \in [Proc -> Seq(Id)]
  /\ cut \in [Proc -> Nat]

Locks(p) ==
  /\ pc[p] \in Locked => IF want[p] = Read THEN exclusive = {} /\ p \in shared
                                           ELSE exclusive = {p} /\ shared = {}
  /\ pc[p] = "open_cut" => \A q \in Proc \ {p} : pc[q] = "idle"

Knows(p) ==
  /\ pc[p] \in {"cut", "open_cut"} => cut[p] = 2 * Len(Kept)
  /\ pc[p] \in {"cut", "append", "body"} => seen[p] = Kept
  /\ pc[p] = "append" => Len(file) = 2 * Len(Kept)
  /\ pc[p] \in {"body", "sync"} => want[p] # Read /\ ~Contains(seen[p], want[p])
  /\ pc[p] = "body" => /\ Len(file) = 2 * Len(Kept) + 1
                       /\ file[2 * Len(Kept) + 1] = Chunk("len", Entry(p))
  /\ pc[p] = "sync" => Kept = Entry(p) /\ Len(file) = 2 * Len(Kept)

Acked ==
  /\ acked \in Seq(Id) /\ synced \in 0..Len(file)
  /\ IsPrefix(acked, Kept)
  /\ 2 * Len(acked) <= synced

LogInv ==
  /\ Types
  /\ \A p \in Proc : Locks(p) /\ Knows(p)
  /\ Holds(file, Kept)
  /\ IsInjective(Kept)
  /\ Acked

(* A process that writes is alone: all others are between transactions.    *)
LEMMA WriterAlone ==
  ASSUME Types, \A p \in Proc : Locks(p), NEW p \in Proc, pc[p] \in Locked, want[p] # Read,
         NEW q \in Proc, q # p
  PROVE  pc[q] = "idle"
<1>1. exclusive = {p} /\ shared = {}
  BY DEF Locks
<1>2. pc[q] # "open_cut"
  <2>1. pc[p] # "idle"
    BY DEF Locked
  <2>. QED
    BY <2>1 DEF Locks
<1>3. pc[q] \notin Locked
  BY <1>1 DEF Locks
<1>. QED
  BY <1>2, <1>3 DEF Types

(* While a process reads or truncates, none is in the middle of an append. *)
LEMMA NoWriterBeside ==
  ASSUME Types, \A p \in Proc : Locks(p) /\ Knows(p), NEW p \in Proc, pc[p] \in {"cut", "open_cut"},
         NEW q \in Proc
  PROVE  pc[q] \notin {"body", "sync"}
<1>. SUFFICES ASSUME pc[q] \in {"body", "sync"}
              PROVE  FALSE
  OBVIOUS
<1>1. pc[q] \in Locked /\ want[q] # Read /\ q # p
  BY DEF Knows, Locked
<1>2. pc[p] = "idle"
  BY <1>1, WriterAlone
<1>. QED
  BY <1>2

(* A prefix of the chain stays one while the chain is cut behind it or     *)
(* grows.                                                                  *)
LEMMA PrefixFacts ==
  ASSUME NEW a \in Seq(Id), NEW ch \in Seq(Id), IsPrefix(a, ch)
  PROVE  /\ Len(a) <= Len(ch)
         /\ \A k \in Len(a)..Len(ch) : IsPrefix(a, UpTo(ch, k))
         /\ \A x \in Id : IsPrefix(a, Append(ch, x))
<1>1. Len(a) \in Nat /\ Len(ch) \in Nat /\ Len(a) <= Len(ch)
  BY DEF IsPrefix
<1>2. SubSeq(a, 1, Len(a)) = a /\ SubSeq(ch, 1, Len(a)) = a
  BY SubSeqFull DEF IsPrefix
<1>3. ASSUME NEW t \in Seq(Id), Len(a) <= Len(t), \A i \in 1..Len(a) : t[i] = ch[i]
      PROVE  IsPrefix(a, t)
  <2>1. /\ SubSeq(t, 1, Len(a)) \in Seq(Id) /\ Len(SubSeq(t, 1, Len(a))) = Len(a)
        /\ \A i \in 1..Len(a) : SubSeq(t, 1, Len(a))[i] = t[i]
    BY <1>1, <1>3
  <2>2. /\ Len(SubSeq(ch, 1, Len(a))) = Len(a)
        /\ \A i \in 1..Len(a) : SubSeq(ch, 1, Len(a))[i] = ch[i]
    BY <1>1
  <2>3. SubSeq(t, 1, Len(a)) = a
    BY <1>2, <1>3, <2>1, <2>2, SeqEqual
  <2>. QED
    BY <1>2, <1>3, <2>3 DEF IsPrefix
<1>4. ASSUME NEW k \in Len(a)..Len(ch)
      PROVE  IsPrefix(a, UpTo(ch, k))
  <2>1. k \in 0..Len(ch) /\ Len(a) <= k /\ \A i \in 1..Len(a) : i \in 1..k
    BY <1>1
  <2>2. UpTo(ch, k) \in Seq(Id) /\ Len(UpTo(ch, k)) = k /\ \A i \in 1..k : UpTo(ch, k)[i] = ch[i]
    BY <2>1, UpToFacts
  <2>. QED
    BY <1>3, <2>1, <2>2
<1>5. ASSUME NEW x \in Id
      PROVE  IsPrefix(a, Append(ch, x))
  <2>1. /\ Append(ch, x) \in Seq(Id) /\ Len(Append(ch, x)) = Len(ch) + 1
        /\ \A i \in 1..Len(ch) : Append(ch, x)[i] = ch[i]
    OBVIOUS
  <2>2. Len(a) <= Len(ch) + 1 /\ \A i \in 1..Len(a) : i \in 1..Len(ch)
    BY <1>1
  <2>. QED
    BY <1>3, <2>1, <2>2
<1>. QED
  BY <1>1, <1>4, <1>5

(* No request is on the chain twice after a cut, or after an append under  *)
(* the replay guard.                                                       *)
LEMMA InjectiveFacts ==
  ASSUME NEW ch \in Seq(Id), IsInjective(ch)
  PROVE  /\ \A k \in 0..Len(ch) : IsInjective(UpTo(ch, k))
         /\ \A x \in Id : ~Contains(ch, x) => IsInjective(Append(ch, x))
<1>1. DOMAIN ch = 1..Len(ch) /\ Len(ch) \in Nat
  OBVIOUS
<1>2. ASSUME NEW k \in 0..Len(ch)
      PROVE  IsInjective(UpTo(ch, k))
  <2>1. UpTo(ch, k) \in Seq(Id) /\ Len(UpTo(ch, k)) = k /\ \A i \in 1..k : UpTo(ch, k)[i] = ch[i]
    BY UpToFacts
  <2>2. DOMAIN UpTo(ch, k) = 1..k /\ \A i \in 1..k : i \in 1..Len(ch)
    BY <1>1, <2>1
  <2>. QED
    BY <1>1, <2>1, <2>2 DEF IsInjective
<1>3. ASSUME NEW x \in Id, ~Contains(ch, x)
      PROVE  IsInjective(Append(ch, x))
  <2>. DEFINE t == Append(ch, x)
  <2>1. /\ t \in Seq(Id) /\ DOMAIN t = 1..(Len(ch) + 1) /\ t[Len(ch) + 1] = x
        /\ \A i \in 1..Len(ch) : t[i] = ch[i]
    BY <1>1
  <2>. HIDE DEF t
  <2>2. ASSUME NEW i \in DOMAIN t, NEW j \in DOMAIN t, t[i] = t[j]
        PROVE  i = j
    <3>1. \A u \in 1..(Len(ch) + 1) : u = Len(ch) + 1 \/ u \in 1..Len(ch)
      BY <1>1
    <3>2. \A u \in 1..Len(ch) : ch[u] # x
      BY <1>3 DEF Contains
    <3>. QED
      BY <1>1, <2>1, <2>2, <3>1, <3>2 DEF IsInjective
  <2>. QED
    BY <2>2 DEF IsInjective, t
<1>. QED
  BY <1>2, <1>3
-----------------------------------------------------------------------------
FileSame == file' = file /\ synced' = synced /\ acked' = acked

(* What the file holds is not touched by a step that leaves it alone.      *)
LEMMA SameFile ==
  ASSUME LogInv, FileSame
  PROVE  Kept' = Kept /\ Holds(file, Kept)' /\ IsInjective(Kept)' /\ Acked'
BY DEF FileSame, LogInv, Kept, Acked

(* The state of the processes other than p, when p alone takes a step that *)
(* leaves the chain and the length of the file alone.                      *)
LEMMA OthersKnow ==
  ASSUME LogInv, Kept' = Kept, Len(file') = Len(file), file' = file, NEW p \in Proc,
         \A q \in Proc \ {p} : pc'[q] = pc[q] /\ want'[q] = want[q] /\ seen'[q] = seen[q] /\ cut'[q] = cut[q]
  PROVE  \A q \in Proc \ {p} : Knows(q)'
<1>. SUFFICES ASSUME NEW q \in Proc, q # p
              PROVE  Knows(q)'
  OBVIOUS
<1>1. Knows(q)
  BY DEF LogInv
<1>2. pc'[q] = pc[q] /\ want'[q] = want[q] /\ seen'[q] = seen[q] /\ cut'[q] = cut[q]
  OBVIOUS
<1>. QED
  BY <1>1, <1>2 DEF Knows, Entry

(* The read of the file, with or without the lock.                         *)
LEMMA ReadStep ==
  ASSUME SoloOpens, LogInv, NEW p \in Proc, OpenRead(p) \/ Refresh(p)
  PROVE  LogInv'
<1>. USE DEF LogInv
<1>1. /\ FrameCount(file) = Len(Kept)
      /\ Verdicts(file) = IF Len(file) = 2 * Len(Kept) THEN {"clean"} ELSE {"torn"}
      /\ Kept \in Seq(Id) /\ 2 * Len(Kept) \in Nat
  <2>1. Holds(file, Kept)
    OBVIOUS
  <2>2. Kept \in Seq(Id)
    BY <2>1 DEF Holds, Frames
  <2>3. 2 * Len(Kept) \in Nat
    BY <2>2
  <2>. QED
    BY <2>1, <2>2, <2>3, ParseFrames, Zenon
<1>2. FileSame /\ want' = want
  BY DEF OpenRead, Refresh, FileSame
<1>3. Kept' = Kept /\ Holds(file, Kept)' /\ IsInjective(Kept)' /\ Acked'
  BY <1>2, SameFile
<1>4. seen' = [seen EXCEPT ![p] = Kept] /\ cut' = [cut EXCEPT ![p] = 2 * Len(Kept)]
  BY <1>1 DEF OpenRead, Refresh, ReadFile, Kept
<1>5. CASE OpenRead(p)
  <2>1. /\ pc[p] = "idle" /\ \A q \in Proc \ {p} : pc[q] = "idle"
        /\ exclusive' = exclusive /\ shared' = shared
        /\ \/ pc' = [pc EXCEPT ![p] = "open_cut"]
           \/ pc' = [pc EXCEPT ![p] = "idle"]
    BY <1>5 DEF OpenRead, Goto, lock_vars
  <2>2. Types'
    BY <1>1, <1>2, <1>4, <2>1 DEF Types
  <2>3. \A q \in Proc : Locks(q)'
    BY <1>2, <2>1 DEF Locks, Locked, Types
  <2>4. Knows(p)'
    BY <1>3, <1>4, <2>1 DEF Knows, Types
  <2>5. \A q \in Proc \ {p} : pc'[q] = pc[q] /\ want'[q] = want[q] /\ seen'[q] = seen[q] /\ cut'[q] = cut[q]
    BY <1>2, <1>4, <2>1 DEF Types
  <2>6. \A q \in Proc \ {p} : Knows(q)'
    BY <1>2, <1>3, <2>5, OthersKnow DEF FileSame
  <2>. QED
    BY <1>3, <2>2, <2>3, <2>4, <2>6
<1>6. CASE Refresh(p)
  <2>1. /\ pc[p] = "refresh" /\ exclusive' = exclusive /\ shared' = shared
        /\ \/ Len(file) # 2 * Len(Kept) /\ pc' = [pc EXCEPT ![p] = "cut"]
           \/ Len(file) = 2 * Len(Kept) /\ pc' = [pc EXCEPT ![p] = "append"]
    <3>1. /\ pc[p] = "refresh"
          /\ \E v \in Verdicts(file) :
               IF v = "corrupt" THEN Goto(p, "idle") /\ Unlock(p)
               ELSE Goto(p, IF v = "torn" THEN "cut" ELSE "append") /\ UNCHANGED lock_vars
      BY <1>6 DEF Refresh
    <3>2. CASE Len(file) = 2 * Len(Kept)
      <4>1. \A v \in Verdicts(file) : v = "clean"
        BY <1>1, <3>2
      <4>. QED
        BY <3>1, <3>2, <4>1 DEF Goto, lock_vars
    <3>3. CASE Len(file) # 2 * Len(Kept)
      <4>1. \A v \in Verdicts(file) : v = "torn"
        BY <1>1, <3>3
      <4>. QED
        BY <3>1, <3>3, <4>1 DEF Goto, lock_vars
    <3>. QED
      BY <3>2, <3>3
  <2>2. Types'
    BY <1>1, <1>2, <1>4, <2>1 DEF Types, Locked
  <2>3. ASSUME NEW q \in Proc
        PROVE  Locks(q)'
    <3>1. Locks(q) /\ pc[p] \in Locked /\ pc'[p] \in Locked
      BY <2>1 DEF Types, Locked
    <3>2. \A r \in Proc : r # p => pc'[r] = pc[r]
      BY <2>1 DEF Types
    <3>3. pc'[p] # "open_cut" /\ pc'[p] # "idle" /\ pc[p] # "idle"
      BY <2>1 DEF Types
    <3>. QED
      BY <1>2, <2>1, <3>1, <3>2, <3>3 DEF Locks
  <2>4. Knows(p)'
    BY <1>2, <1>3, <1>4, <2>1 DEF Knows, Types, FileSame
  <2>5. \A q \in Proc \ {p} : pc'[q] = pc[q] /\ want'[q] = want[q] /\ seen'[q] = seen[q] /\ cut'[q] = cut[q]
    BY <1>2, <1>4, <2>1 DEF Types
  <2>6. \A q \in Proc \ {p} : Knows(q)'
    BY <1>2, <1>3, <2>5, OthersKnow DEF FileSame
  <2>. QED
    BY <1>3, <2>2, <2>3, <2>4, <2>6
<1>. QED
  BY <1>5, <1>6

(* The truncation of a torn tail, with or without the lock.                *)
LEMMA TruncateStep ==
  ASSUME SoloOpens, LogInv, NEW p \in Proc, OpenTruncate(p) \/ RefreshTruncate(p)
  PROVE  LogInv' /\ Kept' = Kept /\ cut[p] = 2 * Len(Kept)
<1>. USE DEF LogInv
<1>1. /\ pc[p] \in {"cut", "open_cut"} /\ cut[p] = 2 * Len(Kept)
      /\ exclusive' = exclusive /\ shared' = shared /\ want' = want
      /\ seen' = seen /\ cut' = cut /\ acked' = acked
      /\ file' = SetLen(file, 2 * Len(Kept)) /\ synced' = 2 * Len(Kept)
      /\ pc' = [pc EXCEPT ![p] = IF pc[p] = "cut" THEN "append" ELSE "idle"]
  <2>1. CASE OpenTruncate(p)
    BY <2>1 DEF OpenTruncate, Truncate, Goto, lock_vars, Knows
  <2>2. CASE RefreshTruncate(p)
    BY <2>2 DEF RefreshTruncate, Truncate, Goto, lock_vars, Knows
  <2>. QED
    BY <2>1, <2>2
<1>2. Kept \in Seq(Id) /\ Len(Kept) \in Nat
  BY DEF Holds, Frames
<1>3. Holds(file', Kept) /\ Len(file') = 2 * Len(Kept)
  BY <1>1, TruncateHolds
<1>4. Kept' = Kept
  <2>1. Entries(file') = Kept
    BY <1>3, ParseFrames
  <2>. QED
    BY <2>1 DEF Kept
<1>5. Types'
  BY <1>1 DEF Types, Locked
<1>6. \A q \in Proc : Locks(q)'
  BY <1>1 DEF Locks, Locked, Types
<1>7. ASSUME NEW q \in Proc
      PROVE  Knows(q)'
  <2>1. pc[q] \notin {"body", "sync"} /\ pc'[q] \notin {"body", "sync"}
    BY <1>1, NoWriterBeside DEF Types
  <2>2. CASE q = p
    BY <1>1, <1>3, <1>4, <2>2 DEF Knows, Types
  <2>3. CASE q # p
    BY <1>1, <1>3, <1>4, <2>1, <2>3 DEF Knows, Types
  <2>. QED
    BY <2>2, <2>3
<1>8. Acked'
  <2>1. Len(acked) <= Len(Kept) /\ acked \in Seq(Id)
    BY <1>2, PrefixFacts DEF Acked
  <2>2. 2 * Len(acked) <= 2 * Len(Kept) /\ 2 * Len(Kept) \in 0..(2 * Len(Kept))
    BY <1>2, <2>1
  <2>. QED
    BY <1>1, <1>3, <1>4, <2>2 DEF Acked
<1>. QED
  BY <1>1, <1>3, <1>4, <1>5, <1>6, <1>7, <1>8

(* Taking the lock.                                                        *)
LEMMA BeginStep ==
  ASSUME SoloOpens, LogInv, NEW p \in Proc, BeginRead(p) \/ \E id \in Id : BeginWrite(p, id)
  PROVE  LogInv'
<1>. USE DEF LogInv
<1>1. FileSame /\ seen' = seen /\ cut' = cut
  BY DEF BeginRead, BeginWrite, FileSame
<1>2. Kept' = Kept /\ Holds(file, Kept)' /\ IsInjective(Kept)' /\ Acked'
  BY <1>1, SameFile
<1>3. /\ pc[p] = "idle" /\ pc' = [pc EXCEPT ![p] = "refresh"]
      /\ \A q \in Proc : pc[q] # "open_cut"
      /\ exclusive = {}
      /\ \/ /\ shared = {} /\ shared' = {} /\ exclusive' = {p}
            /\ \E id \in Id : want' = [want EXCEPT ![p] = id]
         \/ exclusive' = {} /\ shared' = shared \cup {p} /\ want' = [want EXCEPT ![p] = Read]
  BY DEF BeginRead, BeginWrite, Goto
<1>4. Types'
  BY <1>1, <1>3 DEF Types, Locked
<1>5. ASSUME NEW q \in Proc
      PROVE  Locks(q)'
  <2>1. CASE q = p
    <3>1. pc'[p] = "refresh"
      BY <1>3 DEF Types
    <3>2. CASE \E id \in Id : want' = [want EXCEPT ![p] = id] /\ exclusive' = {p} /\ shared' = {}
      <4>1. want'[p] # Read
        BY <3>2, RequestAssumption DEF Types
      <4>. QED
        BY <2>1, <3>1, <3>2, <4>1 DEF Locks
    <3>3. CASE exclusive' = {} /\ shared' = shared \cup {p} /\ want' = [want EXCEPT ![p] = Read]
      <4>1. want'[p] = Read
        BY <3>3 DEF Types
      <4>. QED
        BY <2>1, <3>1, <3>3, <4>1 DEF Locks
    <3>. QED
      BY <1>3, <3>2, <3>3
  <2>2. CASE q # p
    <3>1. pc'[q] = pc[q] /\ want'[q] = want[q] /\ pc[q] # "open_cut"
      BY <1>3, <2>2 DEF Types
    <3>2. pc[q] \in Locked => want[q] = Read /\ q \in shared
      BY <1>3 DEF Locks
    <3>. QED
      BY <1>3, <3>1, <3>2 DEF Locks
  <2>. QED
    BY <2>1, <2>2
<1>6. Knows(p)'
  BY <1>3 DEF Knows, Types
<1>7. \A q \in Proc \ {p} : pc'[q] = pc[q] /\ want'[q] = want[q] /\ seen'[q] = seen[q] /\ cut'[q] = cut[q]
  BY <1>1, <1>3 DEF Types
<1>8. \A q \in Proc \ {p} : Knows(q)'
  BY <1>1, <1>2, <1>7, OthersKnow DEF FileSame
<1>. QED
  BY <1>2, <1>4, <1>5, <1>6, <1>8

(* A process that drops its locks and is idle again, the file untouched:   *)
(* the end of a transaction without an append, a failure, a death.         *)
LEMMA ReleaseStep ==
  ASSUME LogInv, NEW p \in Proc, FileSame, Unlock(p), Goto(p, "idle"),
         want' = want, cut' = cut, NEW s \in Seq(Id), seen' = [seen EXCEPT ![p] = s]
  PROVE  LogInv'
<1>. USE DEF LogInv
<1>1. Kept' = Kept /\ Holds(file, Kept)' /\ IsInjective(Kept)' /\ Acked'
  BY SameFile
<1>2. pc' = [pc EXCEPT ![p] = "idle"] /\ exclusive' = exclusive \ {p} /\ shared' = shared \ {p}
  BY DEF Goto, Unlock
<1>3. Types'
  BY <1>2 DEF Types, Locked
<1>4. ASSUME NEW q \in Proc
      PROVE  Locks(q)' /\ (q # p => Knows(q)')
  <2>1. CASE q = p
    BY <1>2, <2>1 DEF Locks, Locked, Types
  <2>2. CASE q # p
    <3>1. pc'[q] = pc[q] /\ want'[q] = want[q] /\ seen'[q] = seen[q] /\ cut'[q] = cut[q]
      BY <1>2, <2>2 DEF Types
    <3>2. Locks(q)'
      <4>1. \A r \in Proc : pc[r] = "idle" => pc'[r] = "idle"
        BY <1>2 DEF Types
      <4>2. Locks(q)
        OBVIOUS
      <4>. QED
        BY <1>2, <2>2, <3>1, <4>1, <4>2 DEF Locks
    <3>3. Knows(q)
      OBVIOUS
    <3>. QED
      BY <1>1, <3>1, <3>2, <3>3 DEF Knows, FileSame, Entry
  <2>. QED
    BY <2>1, <2>2
<1>5. Knows(p)'
  BY <1>2 DEF Knows, Types
<1>. QED
  BY <1>1, <1>3, <1>4, <1>5

(* The length prefix and the body of an append.                            *)
LEMMA WriteStep ==
  ASSUME LogInv, NEW p \in Proc, WriteLen(p) \/ WriteBody(p)
  PROVE  LogInv'
<1>. USE DEF LogInv
<1>1. /\ pc[p] \in Locked /\ want[p] # Read /\ want[p] \in Id /\ ~Contains(seen[p], want[p])
      /\ seen[p] = Kept
      /\ exclusive' = exclusive /\ shared' = shared /\ want' = want
      /\ seen' = seen /\ cut' = cut /\ acked' = acked /\ synced' = synced
  BY DEF WriteLen, WriteBody, lock_vars, Locked, Knows, Types
<1>2. Kept \in Seq(Id) /\ Len(Kept) \in Nat /\ Entry(p) = Append(Kept, want[p]) /\ Entry(p)' = Entry(p)
  BY <1>1 DEF Holds, Frames, Entry
<1>3. \A q \in Proc : q # p => pc[q] = "idle"
  BY <1>1, WriterAlone
<1>4. CASE WriteLen(p)
  <2>1. /\ pc' = [pc EXCEPT ![p] = "body"] /\ file' = Append(file, Chunk("len", Entry(p)))
        /\ Len(file) = 2 * Len(Kept)
    BY <1>4 DEF WriteLen, Goto, Knows
  <2>2. Holds(file', Kept) /\ Len(file') = 2 * Len(Kept) + 1 /\ file'[2 * Len(Kept) + 1] = Chunk("len", Entry(p))
    BY <1>1, <1>2, <2>1, AppendHolds
  <2>3. Kept' = Kept
    <3>1. Entries(file') = Kept
      BY <2>2, ParseFrames
    <3>. QED
      BY <3>1 DEF Kept
  <2>4. Types'
    BY <1>1, <2>1 DEF Types, Locked
  <2>5. \A q \in Proc : Locks(q)'
    BY <1>1, <1>3, <2>1 DEF Locks, Locked, Types
  <2>6. Knows(p)'
    BY <1>1, <1>2, <2>1, <2>2, <2>3 DEF Knows, Types
  <2>7. \A q \in Proc \ {p} : Knows(q)'
    BY <1>3, <2>1 DEF Knows, Types
  <2>8. Acked'
    <3>1. synced \in 0..Len(file')
      BY <1>2, <2>1, <2>2 DEF Acked
    <3>. QED
      BY <1>1, <2>3, <3>1 DEF Acked
  <2>. QED
    BY <2>2, <2>3, <2>4, <2>5, <2>6, <2>7, <2>8
<1>5. CASE WriteBody(p)
  <2>1. /\ pc' = [pc EXCEPT ![p] = "sync"] /\ file' = Append(file, Chunk("body", Entry(p)))
        /\ Len(file) = 2 * Len(Kept) + 1 /\ file[2 * Len(Kept) + 1] = Chunk("len", Entry(p))
    BY <1>5 DEF WriteBody, Goto, Knows
  <2>2. Holds(file', Entry(p)) /\ Len(file') = 2 * Len(Entry(p)) /\ Entry(p) \in Seq(Id)
    BY <1>1, <1>2, <2>1, AppendHolds
  <2>3. Kept' = Entry(p)
    <3>1. Entries(file') = Entry(p)
      BY <2>2, ParseFrames
    <3>. QED
      BY <3>1 DEF Kept
  <2>4. Types'
    BY <1>1, <2>1 DEF Types, Locked
  <2>5. \A q \in Proc : Locks(q)'
    BY <1>1, <1>3, <2>1 DEF Locks, Locked, Types
  <2>6. Knows(p)'
    BY <1>1, <1>2, <2>1, <2>2, <2>3 DEF Knows, Types
  <2>7. \A q \in Proc \ {p} : Knows(q)'
    BY <1>3, <2>1 DEF Knows, Types
  <2>8. IsInjective(Kept)'
    <3>1. IsInjective(Entry(p))
      BY <1>1, <1>2, InjectiveFacts
    <3>. QED
      BY <2>3, <3>1
  <2>9. Acked'
    <3>1. synced \in 0..Len(file')
      <4>1. Len(Entry(p)) = Len(Kept) + 1
        BY <1>1, <1>2
      <4>. QED
        BY <1>2, <2>1, <2>2, <4>1 DEF Acked
    <3>2. IsPrefix(acked, Entry(p))
      BY <1>1, <1>2, PrefixFacts DEF Acked
    <3>. QED
      BY <1>1, <2>3, <3>1, <3>2 DEF Acked
  <2>. QED
    BY <2>2, <2>3, <2>4, <2>5, <2>6, <2>7, <2>8, <2>9
<1>. QED
  BY <1>4, <1>5

(* The fsync behind the acknowledgement.                                   *)
LEMMA SyncStep ==
  ASSUME LogInv, NEW p \in Proc, Sync(p)
  PROVE  LogInv'
<1>. USE DEF LogInv
<1>1. /\ pc[p] = "sync" /\ pc[p] \in Locked /\ want[p] # Read
      /\ pc' = [pc EXCEPT ![p] = "idle"]
      /\ exclusive' = exclusive \ {p} /\ shared' = shared \ {p}
      /\ file' = file /\ synced' = Len(file) /\ acked' = Kept /\ want' = want /\ cut' = cut
      /\ seen' = [seen EXCEPT ![p] = Kept] /\ Len(file) = 2 * Len(Kept)
  BY DEF Sync, Locked, Knows, Goto, Unlock
<1>2. Kept' = Kept /\ Kept \in Seq(Id) /\ Len(Kept) \in Nat
  BY <1>1 DEF Kept, Holds, Frames
<1>3. \A q \in Proc : q # p => pc[q] = "idle"
  BY <1>1, WriterAlone
<1>4. Types'
  BY <1>1, <1>2 DEF Types, Locked
<1>5. \A q \in Proc : pc'[q] = "idle"
  BY <1>1, <1>3 DEF Types
<1>6. \A q \in Proc : Locks(q)' /\ Knows(q)'
  BY <1>5 DEF Locks, Knows, Locked
<1>7. Acked'
  <2>1. IsPrefix(Kept, Kept)
    BY <1>2 DEF IsPrefix
  <2>2. Len(file) \in 0..Len(file) /\ 2 * Len(Kept) <= Len(file)
    BY <1>1, <1>2
  <2>. QED
    BY <1>1, <1>2, <2>1, <2>2 DEF Acked
<1>. QED
  BY <1>1, <1>2, <1>4, <1>6, <1>7

(* A write that stops in the middle of the body.                           *)
LEMMA PartStep ==
  ASSUME LogInv, NEW p \in Proc, pc[p] = "body", file' = Append(file, Chunk("part", Entry(p))),
         Unlock(p), Goto(p, "idle"), want' = want, cut' = cut, synced' = synced, acked' = acked,
         NEW s \in Seq(Id), seen' = [seen EXCEPT ![p] = s]
  PROVE  LogInv'
<1>. USE DEF LogInv
<1>1. /\ pc[p] \in Locked /\ want[p] # Read /\ want[p] \in Id /\ Entry(p) = Append(Kept, want[p])
      /\ Len(file) = 2 * Len(Kept) + 1
  BY DEF Locked, Knows, Types, Entry
<1>2. Kept \in Seq(Id) /\ Len(Kept) \in Nat
  BY DEF Holds, Frames
<1>3. Holds(file', Kept)
  BY <1>1, AppendHolds
<1>4. Kept' = Kept
  <2>1. Entries(file') = Kept
    BY <1>3, ParseFrames
  <2>. QED
    BY <2>1 DEF Kept
<1>5. \A q \in Proc : q # p => pc[q] = "idle"
  BY <1>1, WriterAlone
<1>6. Types'
  BY DEF Types, Locked, Goto, Unlock
<1>7. \A q \in Proc : pc'[q] = "idle"
  BY <1>5 DEF Types, Goto
<1>8. \A q \in Proc : Locks(q)' /\ Knows(q)'
  BY <1>7 DEF Locks, Knows, Locked
<1>9. Acked'
  <2>1. file \in Seq(Chunks) /\ Len(file') = Len(file) + 1
    BY DEF Holds, Frames
  <2>2. synced \in 0..Len(file')
    BY <1>1, <1>2, <2>1 DEF Acked
  <2>. QED
    BY <1>4, <2>2 DEF Acked
<1>. QED
  BY <1>3, <1>4, <1>6, <1>8, <1>9

(* The ways out of a transaction that acknowledge nothing.                 *)
LEMMA EndStep ==
  ASSUME LogInv, NEW p \in Proc, Finish(p) \/ AppendFails(p) \/ Kill(p)
  PROVE  LogInv'
<1>1. /\ Unlock(p) /\ Goto(p, "idle") /\ want' = want /\ cut' = cut /\ synced' = synced /\ acked' = acked
      /\ FileSame \/ (pc[p] = "body" /\ file' = Append(file, Chunk("part", Entry(p))))
  BY DEF Finish, AppendFails, Kill, Interrupted, FileSame
<1>2. PICK s \in Seq(Id) : seen' = [seen EXCEPT ![p] = s]
  <2>1. CASE seen' = seen
    <3>1. seen[p] \in Seq(Id) /\ seen' = [seen EXCEPT ![p] = seen[p]]
      BY <2>1 DEF LogInv, Types
    <3>. QED
      BY <3>1
  <2>2. CASE seen' = [seen EXCEPT ![p] = << >>]
    <3>1. << >> \in Seq(Id)
      OBVIOUS
    <3>. QED
      BY <2>2, <3>1
  <2>. QED
    BY <2>1, <2>2 DEF Finish, AppendFails, Kill
<1>3. CASE FileSame
  BY <1>1, <1>2, <1>3, ReleaseStep
<1>4. CASE pc[p] = "body" /\ file' = Append(file, Chunk("part", Entry(p)))
  BY <1>1, <1>2, <1>4, PartStep
<1>. QED
  BY <1>1, <1>3, <1>4

(* The machine stops: what was acknowledged is synced, so it stays.        *)
LEMMA PowerLossStep ==
  ASSUME LogInv, PowerLoss
  PROVE  LogInv'
<1>. USE DEF LogInv
<1>1. Kept \in Seq(Id) /\ Len(Kept) \in Nat /\ file \in Seq(Chunks) /\ Len(file) \in Nat
      /\ acked \in Seq(Id) /\ Len(acked) \in Nat /\ synced \in Nat /\ synced <= Len(file)
  BY DEF Holds, Frames, Acked
<1>2. PICK m \in synced..Len(file) : file' = SubSeq(file, 1, m)
  BY DEF PowerLoss
<1>3. m \in 0..Len(file) /\ m \in Nat /\ synced <= m
  BY <1>1
<1>4. PICK k \in 0..Len(Kept) : /\ Holds(SubSeq(file, 1, m), UpTo(Kept, k))
                                /\ Len(SubSeq(file, 1, m)) = m
                                /\ m < 2 * Len(Kept) => m <= 2 * k + 1
                                /\ m >= 2 * Len(Kept) => k = Len(Kept)
  BY <1>3, CutHolds
<1>5. Kept' = UpTo(Kept, k) /\ Len(file') = m /\ synced' = m
  <2>1. Entries(file') = UpTo(Kept, k)
    BY <1>2, <1>4, ParseFrames
  <2>. QED
    BY <1>2, <1>4, <2>1 DEF Kept, PowerLoss
<1>6. Len(acked) <= k
  <2>1. Len(acked) <= Len(Kept) /\ 2 * Len(acked) <= m
    BY <1>1, <1>3, PrefixFacts DEF Acked
  <2>2. CASE m < 2 * Len(Kept)
    BY <1>1, <1>3, <1>4, <2>1, <2>2
  <2>3. CASE m >= 2 * Len(Kept)
    BY <1>4, <2>1, <2>3
  <2>. QED
    BY <1>1, <1>3, <2>2, <2>3
<1>7. Types'
  BY DEF PowerLoss, Types, Locked
<1>8. \A q \in Proc : pc'[q] = "idle"
  BY DEF PowerLoss
<1>9. \A q \in Proc : Locks(q)' /\ Knows(q)'
  BY <1>8 DEF Locks, Knows, Locked
<1>10. Holds(file, Kept)'
  BY <1>2, <1>4, <1>5
<1>11. IsInjective(Kept)'
  BY <1>1, <1>5, InjectiveFacts
<1>12. Acked'
  <2>1. k \in Len(acked)..Len(Kept)
    BY <1>1, <1>6
  <2>2. IsPrefix(acked, UpTo(Kept, k))
    BY <1>1, <2>1, PrefixFacts DEF Acked
  <2>3. 2 * Len(acked) <= m /\ m \in 0..m
    BY <1>1, <1>3 DEF Acked
  <2>4. acked' = acked
    BY DEF PowerLoss
  <2>. QED
    BY <1>1, <1>5, <2>2, <2>3, <2>4 DEF Acked
<1>. QED
  BY <1>7, <1>9, <1>10, <1>11, <1>12
-----------------------------------------------------------------------------
(* The log starts empty.                                                   *)
LEMMA InitLog == Init => LogInv
<1>. SUFFICES ASSUME Init
              PROVE  LogInv
  OBVIOUS
<1>1. << >> \in Seq(Id) /\ << >> \in Seq(Chunks) /\ Len(<< >>) = 0
  OBVIOUS
<1>2. Holds(<< >>, << >>)
  BY <1>1 DEF Holds, Frames
<1>3. Kept = << >>
  BY <1>2, ParseFrames DEF Kept, Init
<1>4. Types /\ \A p \in Proc : Locks(p) /\ Knows(p)
  BY <1>1 DEF Init, Types, Locks, Knows, Locked
<1>5. IsInjective(Kept)
  BY <1>3 DEF IsInjective
<1>6. Acked
  BY <1>1, <1>3 DEF Acked, Init, IsPrefix
<1>. QED
  BY <1>2, <1>3, <1>4, <1>5, <1>6 DEF LogInv, Init

(* Every step keeps the invariant.                                         *)
LEMMA NextLog ==
  ASSUME SoloOpens, LogInv, [Next]_vars
  PROVE  LogInv'
<1>1. CASE UNCHANGED vars
  BY <1>1 DEF vars, lock_vars, LogInv, Types, Locks, Knows, Kept, Acked, Entry
<1>2. CASE PowerLoss
  BY <1>2, PowerLossStep
<1>3. ASSUME NEW p \in Proc,
             \/ OpenRead(p) \/ OpenTruncate(p)
             \/ (\E id \in Id : BeginWrite(p, id)) \/ BeginRead(p)
             \/ Refresh(p) \/ RefreshTruncate(p) \/ Finish(p)
             \/ WriteLen(p) \/ WriteBody(p) \/ Sync(p)
             \/ AppendFails(p) \/ Kill(p)
      PROVE  LogInv'
  BY <1>3, ReadStep, TruncateStep, BeginStep, WriteStep, SyncStep, EndStep
<1>. QED
  BY <1>1, <1>2, <1>3 DEF Next

(* The inductive invariant holds throughout.                               *)
LEMMA LogInvariant == ASSUME SoloOpens PROVE Spec => []LogInv
<1>1. LogInv /\ [Next]_vars => LogInv'
  BY NextLog
<1>. QED
  BY InitLog, <1>1, PTL DEF Spec

(* An acknowledged entry stays on file, at its place, through every kill,  *)
(* power loss, failed write and truncation (FileLog::append,               *)
(* FileLog::open_with), however many processes share the directory.        *)
THEOREM AcknowledgedSurvives == ASSUME SoloOpens PROVE Spec => []AckedSurvives
<1>1. LogInv => AckedSurvives
  BY DEF LogInv, Acked, AckedSurvives, Kept
<1>. QED
  BY LogInvariant, <1>1, PTL

(* No request is on file twice, also when its first attempt died after the *)
(* append and it was sent again (the replay guard under the lock).         *)
THEOREM NoDoubleAppend == ASSUME SoloOpens PROVE Spec => []AppendedOnce
<1>1. LogInv => AppendedOnce
  BY DEF LogInv, AppendedOnce, Kept
<1>. QED
  BY LogInvariant, <1>1, PTL

(* parse_frames never meets bytes it has to refuse: every state a crash    *)
(* leaves behind can be opened.                                            *)
THEOREM OpensAfterCrash == ASSUME SoloOpens PROVE Spec => []AlwaysOpens
<1>1. LogInv => AlwaysOpens
  <2>. SUFFICES ASSUME LogInv
                PROVE  AlwaysOpens
    OBVIOUS
  <2>1. Verdicts(file) \subseteq {"clean", "torn"}
    BY ParseFrames DEF LogInv
  <2>2. TypeOK
    <3>1. \A i \in 1..Len(file) : file[i].kind \in {"len", "body", "part", "zeros"}
      <4>1. file \in Seq(Chunks)
        BY DEF LogInv, Holds, Frames
      <4>2. \A i \in 1..Len(file) : file[i] \in Chunks
        BY <4>1
      <4>. QED
        BY <4>2 DEF Chunks
    <3>. QED
      BY <3>1 DEF LogInv, Types, Acked, TypeOK, Locked
  <2>. QED
    BY <2>1, <2>2 DEF AlwaysOpens
<1>. QED
  BY LogInvariant, <1>1, PTL

(* A truncation removes a torn final append and nothing else: no complete  *)
(* frame, and no byte of an append that is still running. This is what the *)
(* run without the discipline shows to fail.                               *)
THEOREM TornOnlyDiscarded == ASSUME SoloOpens PROVE Spec => OnlyTornDiscarded
<1>. DEFINE A == \A p \in Proc :
                   pc[p] \in {"open_cut", "cut"} /\ pc'[p] # pc[p] /\ Len(file') < Len(file)
                     => /\ cut[p] = 2 * FrameCount(file)
                        /\ \A q \in Proc : pc[q] \notin {"body", "sync"}
<1>1. LogInv /\ [Next]_vars => [A]_vars
  <2>. SUFFICES ASSUME LogInv, NEW p \in Proc, pc[p] \in {"open_cut", "cut"}
                PROVE  /\ cut[p] = 2 * FrameCount(file)
                       /\ \A q \in Proc : pc[q] \notin {"body", "sync"}
    OBVIOUS
  <2>1. FrameCount(file) = Len(Kept)
    BY ParseFrames DEF LogInv
  <2>2. cut[p] = 2 * Len(Kept)
    BY DEF LogInv, Knows
  <2>. QED
    BY <2>1, <2>2, NoWriterBeside DEF LogInv
<1>. QED
  BY LogInvariant, <1>1, PTL DEF Spec, OnlyTornDiscarded
=============================================================================
