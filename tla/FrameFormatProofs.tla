------------------------- MODULE FrameFormatProofs -------------------------
(***************************************************************************)
(* What escaping does to a frame of any length and content: it hides the   *)
(* delimiters, and unescaping undoes it.                                   *)
(***************************************************************************)
EXTENDS FrameFormat, SequenceTheorems, WellFoundedInduction, TLAPS

(***************************************************************************)
(* Where an induction would be in order, the proofs look at a least        *)
(* counterexample.                                                         *)
(***************************************************************************)
LEMMA LeastElement ==
  ASSUME NEW S, S \subseteq Nat, S # {}
  PROVE  \E m \in S : \A n \in S : m <= n
<1> DEFINE Less == OpToRel(<, Nat)
<1>1. IsWellFoundedOn(Less, Nat)
  BY NatLessThanWellFounded
<1>2. \A x, y \in Nat : x < y => <<x, y>> \in Less
  BY Zenon DEF OpToRel
<1> HIDE DEF Less
<1>3. PICK m \in S : \A n \in S : ~(<<n, m>> \in Less)
  BY <1>1, WFMin
<1>4. ASSUME NEW n \in S PROVE m <= n
  <2>1. n \in Nat /\ m \in Nat
    OBVIOUS
  <2>2. ~(n < m)
    BY <1>2, <1>3, <2>1
  <2> QED
    BY <2>1, <2>2
<1> QED
  BY <1>4
-----------------------------------------------------------------------------
(* The recursion of unescape.                                              *)

\* One turn: what index k stands for, if the bytes behind it stand for f.
Turn(bytes, f, k) ==
  IF k > Len(bytes) THEN <<>>
  ELSE IF bytes[k] = FRAME_ESCAPE_BYTE /\ k < Len(bytes)
       THEN <<SetMask(bytes[k + 1])>> \o f[k + 2]
       ELSE <<bytes[k]>> \o f[k + 1]

Turns(bytes, f) == f = [k \in 1..(Len(bytes) + 2) |-> Turn(bytes, f, k)]

LEMMA OneFixpoint ==
  ASSUME NEW bytes \in Seq(Byte), NEW f, NEW h, Turns(bytes, f), Turns(bytes, h)
  PROVE  f[1] = h[1]
<1> DEFINE n == Len(bytes)
           S == {m \in 0..(n + 1) : f[n + 2 - m] # h[n + 2 - m]}
<1>1. n \in Nat
  OBVIOUS
<1>2. \A k \in 1..(n + 2) : f[k] = Turn(bytes, f, k) /\ h[k] = Turn(bytes, h, k)
  BY Zenon DEF Turns
<1>3. S = {}
  <2> SUFFICES ASSUME S # {} PROVE FALSE
    OBVIOUS
  <2>1. S \subseteq Nat
    BY <1>1
  <2>2. PICK m \in S : \A l \in S : m <= l
    BY <2>1, LeastElement
  <2>3. PICK k : k = n + 2 - m
    OBVIOUS
  <2>4. /\ m \in 0..(n + 1) /\ k \in 1..(n + 2) /\ f[k] # h[k]
        /\ m = n + 2 - k
    BY <1>1, <2>2, <2>3
  <2>5. ASSUME NEW l \in 1..(n + 2), l > k PROVE f[l] = h[l]
    <3>1. n + 2 - l \in 0..(n + 1) /\ n + 2 - l < m /\ n + 2 - (n + 2 - l) = l
      BY <1>1, <2>4, <2>5
    <3> QED
      BY <1>1, <2>2, <2>4, <3>1
  <2>6. CASE k > n
    BY <1>2, <2>4, <2>6 DEF Turn
  <2>7. CASE k <= n
    <3>1. f[k + 1] = h[k + 1] /\ (k < n => f[k + 2] = h[k + 2])
      BY <1>1, <2>4, <2>5, <2>7
    <3>2. Turn(bytes, f, k) = Turn(bytes, h, k)
      BY <3>1 DEF Turn
    <3> QED
      BY <1>2, <2>4, <3>2
  <2> QED
    BY <1>1, <2>4, <2>6, <2>7
<1>4. n + 1 \in 0..(n + 1) /\ n + 2 - (n + 1) = 1
  BY <1>1
<1> QED
  BY <1>3, <1>4

LEMMA UnescapeTurns ==
  ASSUME NEW bytes \in Seq(Byte), NEW h, Turns(bytes, h)
  PROVE  unescape(bytes) = h[1]
<1> DEFINE f == CHOOSE g : Turns(bytes, g)
<1>1. Turns(bytes, f)
  BY Zenon
<1>2. unescape(bytes) = f[1]
  BY Zenon DEF unescape, Turns, Turn
<1> HIDE DEF f
<1> QED
  BY <1>1, <1>2, OneFixpoint
-----------------------------------------------------------------------------
(* The recursion of FlattenSeq.                                            *)

Sums(seqs, g) ==
  g = [k \in 1..Len(seqs) |-> IF k = 1 THEN seqs[k] ELSE g[k - 1] \o seqs[k]]

LEMMA OneSum ==
  ASSUME NEW seqs, Len(seqs) \in Nat, NEW f, NEW g, Sums(seqs, f), Sums(seqs, g)
  PROVE  f = g
<1> DEFINE n == Len(seqs)
           S == {m \in 1..n : f[m] # g[m]}
<1>1. /\ f = [k \in 1..n |-> f[k]] /\ g = [k \in 1..n |-> g[k]]
      /\ \A k \in 1..n : f[k] = IF k = 1 THEN seqs[k] ELSE f[k - 1] \o seqs[k]
      /\ \A k \in 1..n : g[k] = IF k = 1 THEN seqs[k] ELSE g[k - 1] \o seqs[k]
  BY Zenon DEF Sums
<1>2. S = {}
  <2> SUFFICES ASSUME S # {} PROVE FALSE
    OBVIOUS
  <2>1. S \subseteq Nat
    OBVIOUS
  <2>2. PICK m \in S : \A l \in S : m <= l
    BY <2>1, LeastElement
  <2>3. m \in 1..n /\ f[m] # g[m] /\ m \in Nat
    BY <2>2
  <2>4. m = 1 \/ f[m - 1] = g[m - 1]
    <3> SUFFICES ASSUME m # 1 PROVE f[m - 1] = g[m - 1]
      OBVIOUS
    <3>1. m - 1 \in 1..n /\ ~(m <= m - 1)
      BY <2>3
    <3> QED
      BY <2>2, <3>1
  <2> QED
    BY <1>1, <2>3, <2>4
<1>3. \A k \in 1..n : f[k] = g[k]
  BY <1>2
<1> QED
  BY <1>1, <1>3

LEMMA FlattenSums ==
  ASSUME NEW seqs, Len(seqs) \in Nat \ {0}, NEW g, Sums(seqs, g)
  PROVE  FlattenSeq(seqs) = g[Len(seqs)]
<1> DEFINE f == CHOOSE h : Sums(seqs, h)
<1>1. Sums(seqs, f)
  BY Zenon
<1>2. FlattenSeq(seqs) = f[Len(seqs)]
  <2>1. Len(seqs) # 0
    OBVIOUS
  <2> QED
    BY <2>1, Zenon DEF FlattenSeq, Sums
<1> HIDE DEF f
<1> QED
  BY <1>1, <1>2, OneSum

\* Every sequence of sequences has its sums.
LEMMA SumsExist ==
  ASSUME NEW S, NEW seqs \in Seq(Seq(S))
  PROVE  \E g \in Seq(Seq(S)) : Len(g) = Len(seqs) /\ Sums(seqs, g)
<1> DEFINE n == Len(seqs)
           SumsTo(m, g) == /\ g \in Seq(Seq(S)) /\ Len(g) = m
                           /\ \A k \in 1..m :
                                g[k] = IF k = 1 THEN seqs[k] ELSE g[k - 1] \o seqs[k]
           Without == {m \in 0..n : ~ \E g : SumsTo(m, g)}
<1>1. n \in Nat /\ DOMAIN seqs = 1..n
  OBVIOUS
<1>2. Without = {}
  <2> SUFFICES ASSUME Without # {} PROVE FALSE
    OBVIOUS
  <2>1. Without \subseteq Nat
    BY <1>1
  <2>2. PICK m \in Without : \A l \in Without : m <= l
    BY <2>1, LeastElement
  <2>3. m \in 0..n /\ m \in Nat /\ ~ \E g : SumsTo(m, g)
    BY <2>2
  <2>4. SumsTo(0, <<>>)
    OBVIOUS
  <2>5. m # 0
    BY <2>3, <2>4
  <2>6. m - 1 \in 0..n /\ ~(m <= m - 1)
    BY <1>1, <2>3, <2>5
  <2>7. PICK g : SumsTo(m - 1, g)
    BY <2>2, <2>6
  <2> DEFINE x == IF m = 1 THEN seqs[m] ELSE g[m - 1] \o seqs[m]
             h == Append(g, x)
  <2>8. x \in Seq(S)
    <3>1. seqs[m] \in Seq(S)
      BY <1>1, <2>3, <2>5
    <3>2. m # 1 => g[m - 1] \in Seq(S)
      BY <1>1, <2>3, <2>5, <2>7
    <3> QED
      BY <3>1, <3>2
  <2> HIDE DEF x
  <2>9. /\ h \in Seq(Seq(S)) /\ Len(h) = m /\ h[m] = x
        /\ \A k \in 1..(m - 1) : h[k] = g[k]
    BY <2>3, <2>5, <2>7, <2>8
  <2>10. ASSUME NEW k \in 1..m
         PROVE  h[k] = IF k = 1 THEN seqs[k] ELSE h[k - 1] \o seqs[k]
    <3>1. CASE k = m
      <4>1. k # 1 => h[k - 1] = g[k - 1]
        BY <2>3, <2>9, <3>1
      <4> QED
        BY <2>9, <3>1, <4>1 DEF x
    <3>2. CASE k # m
      <4>1. k \in 1..(m - 1) /\ (k # 1 => k - 1 \in 1..(m - 1))
        BY <2>3, <3>2
      <4> HIDE DEF h
      <4> QED
        BY <2>7, <2>9, <4>1
    <3> QED
      BY <3>1, <3>2
  <2>11. SumsTo(m, h)
    BY <2>9, <2>10
  <2> QED
    BY <2>3, <2>11
<1>3. n \in 0..n
  BY <1>1
<1>4. PICK g : SumsTo(n, g)
  BY <1>2, <1>3
<1>5. g = [k \in 1..n |-> g[k]]
  BY <1>4
<1> QED
  BY <1>4, <1>5 DEF Sums

LEMMA FlattenAppend ==
  ASSUME NEW S, NEW seqs \in Seq(Seq(S)), NEW x \in Seq(S)
  PROVE  /\ FlattenSeq(seqs) \in Seq(S)
         /\ FlattenSeq(Append(seqs, x)) = FlattenSeq(seqs) \o x
<1> DEFINE n == Len(seqs)
           longer == Append(seqs, x)
<1>1. n \in Nat /\ DOMAIN seqs = 1..n
  OBVIOUS
<1>2. /\ longer \in Seq(Seq(S)) /\ Len(longer) = n + 1 /\ longer[n + 1] = x
      /\ \A k \in 1..n : longer[k] = seqs[k]
  OBVIOUS
<1>3. PICK g \in Seq(Seq(S)) : Len(g) = n /\ Sums(seqs, g)
  BY SumsExist
<1>4. PICK h \in Seq(Seq(S)) : Len(h) = n + 1 /\ Sums(longer, h)
  BY <1>2, SumsExist
<1> HIDE DEF longer
<1>5. FlattenSeq(longer) = h[n + 1]
  BY <1>1, <1>2, <1>4, FlattenSums
<1>6. /\ \A k \in 1..n : g[k] = IF k = 1 THEN seqs[k] ELSE g[k - 1] \o seqs[k]
      /\ \A k \in 1..(n + 1) : h[k] = IF k = 1 THEN longer[k] ELSE h[k - 1] \o longer[k]
  BY <1>2, <1>3, <1>4, Zenon DEF Sums
<1>7. CASE n = 0
  <2>1. FlattenSeq(seqs) = <<>> /\ seqs = <<>>
    BY <1>7 DEF FlattenSeq
  <2>2. h[1] = x
    BY <1>2, <1>6, <1>7
  <2> QED
    BY <1>5, <1>7, <2>1, <2>2 DEF longer
<1>8. CASE n # 0
  <2>1. FlattenSeq(seqs) = g[n]
    BY <1>1, <1>3, <1>8, FlattenSums
  <2> DEFINE front == [k \in 1..n |-> h[k]]
  <2>2. \A k \in 1..n : k \in 1..(n + 1) /\ (k # 1 => k - 1 \in 1..n)
    BY <1>1
  <2>3. \A k \in 1..n : front[k] = IF k = 1 THEN seqs[k] ELSE front[k - 1] \o seqs[k]
    BY <1>2, <1>6, <2>2
  <2>4. Sums(seqs, front)
    BY <2>3, Zenon DEF Sums
  <2>5. front = g
    BY <1>1, <1>3, <2>4, OneSum
  <2>6. h[n + 1] = h[n] \o x /\ h[n] = g[n] /\ g[n] \in Seq(S)
    <3>1. n + 1 \in 1..(n + 1) /\ n + 1 # 1 /\ n \in 1..n /\ (n + 1) - 1 = n
      BY <1>1, <1>8
    <3>2. h[n + 1] = h[n] \o x
      BY <1>2, <1>6, <3>1
    <3>3. h[n] = g[n]
      BY <2>5, <3>1
    <3>4. g[n] \in Seq(S)
      BY <1>3, <3>1
    <3> QED
      BY <3>2, <3>3, <3>4
  <2> QED
    BY <1>5, <2>1, <2>6 DEF longer
<1> QED
  BY <1>7, <1>8
-----------------------------------------------------------------------------
(* Bytes escaped one by one.                                               *)

\* Which byte of the frame a byte on the wire stands for, and whether it is
\* the second of the two that stand for it.
Mark == [of : Nat, second : BOOLEAN]

\* What follows the last byte that stands for the k-th of r bytes.
Follows(marks, r, j, k) ==
  IF j = Len(marks) THEN k = r
  ELSE marks[j + 1].of = k + 1 /\ ~marks[j + 1].second

MarkOK(f, r, body, marks, j) ==
  LET k == marks[j].of IN
  /\ k \in 1..r
  /\ \/ /\ f[k] \notin Escaped /\ ~marks[j].second
        /\ body[j] = f[k]
        /\ Follows(marks, r, j, k)
     \/ /\ f[k] \in Escaped /\ ~marks[j].second
        /\ body[j] = FRAME_ESCAPE_BYTE
        /\ j < Len(marks) /\ marks[j + 1] = [of |-> k, second |-> TRUE]
     \/ /\ f[k] \in Escaped /\ marks[j].second
        /\ body[j] = ClearMask(f[k])
        /\ Follows(marks, r, j, k)

\* The marks of body, which stands for the first r bytes of f.
Marked(f, r, body, marks) ==
  /\ body \in Seq(Byte) /\ marks \in Seq(Mark)
  /\ Len(marks) = Len(body)
  /\ IF Len(marks) = 0 THEN r = 0 ELSE marks[1] = [of |-> 1, second |-> FALSE]
  /\ \A j \in 1..Len(marks) : MarkOK(f, r, body, marks, j)

\* The three bytes that are escaped lose the mask, are bytes that are not
\* escaped themselves, and get the mask back.
LEMMA MaskComesBack ==
  ASSUME NEW b \in Escaped
  PROVE  /\ ClearMask(b) \in Byte \ Escaped
         /\ SetMask(ClearMask(b)) = b
BY DEF Escaped, ClearMask, SetMask, MaskIsSet, FRAME_START_BYTE, FRAME_ESCAPE_BYTE,
       FRAME_END_BYTE, FRAME_ESCAPE_MASK, Byte

LEMMA MaskKeepsByte ==
  ASSUME NEW b \in Byte
  PROVE  SetMask(b) \in Byte
<1>1. CASE MaskIsSet(b)
  BY <1>1 DEF SetMask
<1>2. CASE ~MaskIsSet(b)
  <2>1. (b \div 16) % 2 = 0 /\ b \in 0..255
    BY <1>2 DEF MaskIsSet, FRAME_ESCAPE_MASK, Byte
  <2>2. b < 240
    BY <2>1
  <2> QED
    BY <1>2, <2>1, <2>2 DEF SetMask, FRAME_ESCAPE_MASK, Byte
<1> QED
  BY <1>1, <1>2

LEMMA MarkedEmpty ==
  ASSUME NEW f \in Seq(Byte)
  PROVE  Marked(f, 0, <<>>, <<>>)
BY DEF Marked

LEMMA ConcatAt ==
  ASSUME NEW S, NEW s \in Seq(S), NEW t \in Seq(S)
  PROVE  /\ s \o t \in Seq(S) /\ Len(s \o t) = Len(s) + Len(t)
         /\ \A j \in 1..Len(s) : (s \o t)[j] = s[j]
         /\ \A j \in 1..Len(t) : (s \o t)[Len(s) + j] = t[j]
<1>1. Len(s) \in Nat /\ Len(t) \in Nat
  OBVIOUS
<1>2. s \o t \in Seq(S) /\ Len(s \o t) = Len(s) + Len(t)
  OBVIOUS
<1>3. \A j \in 1..Len(s) : (s \o t)[j] = s[j]
  BY <1>1
<1>4. \A j \in 1..Len(t) : (s \o t)[Len(s) + j] = t[j]
  BY <1>1
<1> QED
  BY <1>2, <1>3, <1>4

LEMMA SubSeqAt ==
  ASSUME NEW S, NEW s \in Seq(S), NEW m \in Nat, NEW l \in Nat, m + l <= Len(s)
  PROVE  /\ SubSeq(s, m + 1, m + l) \in Seq(S)
         /\ Len(SubSeq(s, m + 1, m + l)) = l
         /\ \A j \in 1..l : SubSeq(s, m + 1, m + l)[j] = s[m + j]
<1>1. \A j \in (m + 1)..(m + l) : s[j] \in S
  <2>1. \A j \in (m + 1)..(m + l) : j \in 1..Len(s)
    OBVIOUS
  <2> QED
    BY <2>1
<1>2. m + 1 \in Int /\ m + l \in Int
  OBVIOUS
<1>3. /\ SubSeq(s, m + 1, m + l) \in Seq(S)
      /\ Len(SubSeq(s, m + 1, m + l)) =
           IF m + 1 <= m + l THEN (m + l) - (m + 1) + 1 ELSE 0
      /\ \A j \in 1..((m + l) - (m + 1) + 1) :
           SubSeq(s, m + 1, m + l)[j] = s[(m + 1) + j - 1]
  BY <1>1, <1>2, SubSeqProperties
<1>4. (IF m + 1 <= m + l THEN (m + l) - (m + 1) + 1 ELSE 0) = l
  OBVIOUS
<1>5. \A j \in 1..l : j \in 1..((m + l) - (m + 1) + 1) /\ (m + 1) + j - 1 = m + j
  OBVIOUS
<1> QED
  BY <1>3, <1>4, <1>5

\* Nothing changes for the marks there are when a byte is escaped.
LEMMA MarksStay ==
  ASSUME NEW f \in Seq(Byte), NEW r \in Nat, NEW body, NEW marks, Marked(f, r, body, marks),
         NEW more \in Seq(Byte), NEW mores \in Seq(Mark), Len(mores) \in Nat \ {0},
         mores[1] = [of |-> r + 1, second |-> FALSE], Len(more) = Len(mores)
  PROVE  /\ body \o more \in Seq(Byte) /\ marks \o mores \in Seq(Mark)
         /\ Len(marks \o mores) = Len(body \o more)
         /\ Len(marks \o mores) = Len(marks) + Len(mores)
         /\ (marks \o mores)[1] = [of |-> 1, second |-> FALSE]
         /\ \A j \in 1..Len(marks) : MarkOK(f, r + 1, body \o more, marks \o mores, j)
         /\ \A j \in 1..Len(mores) :
              /\ (marks \o mores)[Len(marks) + j] = mores[j]
              /\ (body \o more)[Len(marks) + j] = more[j]
<1> DEFINE m == Len(marks)
           all == marks \o mores
           out == body \o more
<1>1. /\ body \in Seq(Byte) /\ marks \in Seq(Mark) /\ m = Len(body) /\ m \in Nat
  BY DEF Marked
<1>2. /\ all \in Seq(Mark) /\ out \in Seq(Byte)
      /\ Len(all) = m + Len(mores) /\ Len(out) = m + Len(mores)
      /\ \A j \in 1..m : all[j] = marks[j] /\ out[j] = body[j]
      /\ \A j \in 1..Len(mores) : all[m + j] = mores[j] /\ out[m + j] = more[j]
  <2>1. all \in Seq(Mark) /\ Len(all) = m + Len(mores)
    BY <1>1, ConcatAt
  <2>2. \A j \in 1..m : all[j] = marks[j]
    BY <1>1, ConcatAt
  <2>3. \A j \in 1..Len(mores) : all[m + j] = mores[j]
    BY <1>1, ConcatAt
  <2>4. out \in Seq(Byte) /\ Len(out) = m + Len(mores)
    <3>1. out \in Seq(Byte)
      BY <1>1
    <3>2. Len(out) = Len(body) + Len(more)
      BY <1>1, ConcatProperties
    <3> QED
      BY <1>1, <3>1, <3>2
  <2>5. \A j \in 1..m : out[j] = body[j]
    BY <1>1, ConcatAt
  <2>6. \A j \in 1..Len(mores) : out[m + j] = more[j]
    BY <1>1, ConcatAt
  <2> QED
    BY <2>1, <2>2, <2>3, <2>4, <2>5, <2>6
<1>3. all[m + 1] = mores[1] /\ m + 1 \in 1..Len(all)
  BY <1>1, <1>2
<1> HIDE DEF all, out
<1>4. all[1] = [of |-> 1, second |-> FALSE]
  <2>1. CASE m = 0
    BY <1>3, <2>1 DEF Marked
  <2>2. CASE m # 0
    BY <1>1, <1>2, <2>2 DEF Marked
  <2> QED
    BY <2>1, <2>2
<1>5. ASSUME NEW j \in 1..m PROVE MarkOK(f, r + 1, out, all, j)
  <2> DEFINE k == marks[j].of
  <2>1. MarkOK(f, r, body, marks, j)
    BY DEF Marked
  <2>2. all[j] = marks[j] /\ out[j] = body[j]
    BY <1>2
  <2>3. k \in 1..r /\ k \in 1..(r + 1)
    BY <2>1 DEF MarkOK
  <2>4. Follows(marks, r, j, k) => Follows(all, r + 1, j, k)
    <3> SUFFICES ASSUME Follows(marks, r, j, k) PROVE Follows(all, r + 1, j, k)
      OBVIOUS
    <3>1. j # Len(all)
      BY <1>1, <1>2
    <3>2. CASE j = m
      <4>1. k = r
        BY <3>2 DEF Follows
      <4>2. all[j + 1] = [of |-> r + 1, second |-> FALSE]
        BY <1>3, <3>2
      <4> QED
        BY <3>1, <4>1, <4>2 DEF Follows
    <3>3. CASE j # m
      <4>1. all[j + 1] = marks[j + 1]
        <5>1. j + 1 \in 1..m
          BY <1>1, <3>3
        <5> QED
          BY <1>2, <5>1
      <4> QED
        BY <3>1, <3>3, <4>1 DEF Follows
    <3> QED
      BY <3>2, <3>3
  <2>5. j < m => j < Len(all) /\ all[j + 1] = marks[j + 1]
    <3>1. j < m => j + 1 \in 1..m /\ j < m + Len(mores)
      BY <1>1
    <3> QED
      BY <1>2, <3>1
  <2> HIDE DEF k
  <2> QED
    BY <2>1, <2>2, <2>3, <2>4, <2>5, Zenon DEF MarkOK, k
<1> QED
  BY <1>2, <1>4, <1>5 DEF all, out

\* One more byte is escaped.
LEMMA MarkedStep ==
  ASSUME NEW f \in Seq(Byte), NEW r \in 0..(Len(f) - 1), NEW body, NEW marks,
         Marked(f, r, body, marks)
  PROVE  \E longer : Marked(f, r + 1, body \o escape_byte(f[r + 1]), longer)
<1> DEFINE b == f[r + 1]
<1>1. b \in Byte /\ r \in Nat /\ r + 1 \in 1..(r + 1)
  <2>1. r + 1 \in 1..Len(f) /\ r \in Nat
    OBVIOUS
  <2> QED
    BY <2>1, ElementOfSeq
<1>2. Len(marks) \in Nat
  BY DEF Marked
<1>3. CASE b \in Escaped
  <2> DEFINE more == <<FRAME_ESCAPE_BYTE, ClearMask(b)>>
             mores == <<[of |-> r + 1, second |-> FALSE], [of |-> r + 1, second |-> TRUE]>>
  <2>1. /\ more \in Seq(Byte) /\ Len(more) = 2
        /\ more[1] = FRAME_ESCAPE_BYTE /\ more[2] = ClearMask(b)
    <3>1. ClearMask(b) \in Byte
      BY <1>3, MaskComesBack
    <3>2. FRAME_ESCAPE_BYTE \in Byte
      BY DEF FRAME_ESCAPE_BYTE, Byte
    <3> QED
      BY <3>1, <3>2
  <2>2. /\ mores \in Seq(Mark) /\ Len(mores) = 2
        /\ mores[1] = [of |-> r + 1, second |-> FALSE]
        /\ mores[2] = [of |-> r + 1, second |-> TRUE]
    <3>1. [of |-> r + 1, second |-> FALSE] \in Mark /\ [of |-> r + 1, second |-> TRUE] \in Mark
      BY <1>1 DEF Mark
    <3> QED
      BY <3>1
  <2>3. escape_byte(b) = more
    BY <1>3 DEF escape_byte
  <2> HIDE DEF more, mores
  <2>a. /\ more \in Seq(Byte) /\ mores \in Seq(Mark) /\ Len(mores) \in Nat \ {0}
        /\ mores[1] = [of |-> r + 1, second |-> FALSE] /\ Len(more) = Len(mores)
    BY <2>1, <2>2
  <2>4. /\ body \o more \in Seq(Byte) /\ marks \o mores \in Seq(Mark)
        /\ Len(marks \o mores) = Len(body \o more)
        /\ Len(marks \o mores) = Len(marks) + Len(mores)
        /\ (marks \o mores)[1] = [of |-> 1, second |-> FALSE]
        /\ \A j \in 1..Len(marks) : MarkOK(f, r + 1, body \o more, marks \o mores, j)
        /\ \A j \in 1..Len(mores) :
             /\ (marks \o mores)[Len(marks) + j] = mores[j]
             /\ (body \o more)[Len(marks) + j] = more[j]
    BY <1>1, <2>a, MarksStay
  <2> DEFINE all == marks \o mores
             out == body \o more
             m == Len(marks)
  <2> HIDE DEF all, out, m
  <2>5. /\ Len(all) = m + 2 /\ m \in Nat
        /\ all[m + 1] = [of |-> r + 1, second |-> FALSE]
        /\ all[m + 2] = [of |-> r + 1, second |-> TRUE]
        /\ out[m + 1] = FRAME_ESCAPE_BYTE
        /\ out[m + 2] = ClearMask(b)
    <3>1. Len(mores) = 2 /\ 1 \in 1..Len(mores) /\ 2 \in 1..Len(mores)
      BY <2>2
    <3> QED
      BY <1>2, <2>1, <2>2, <2>4, <3>1 DEF all, out, m
  <2>6. MarkOK(f, r + 1, out, all, m + 1)
    <3>1. (m + 1) + 1 = m + 2 /\ m + 1 < Len(all)
      BY <2>5
    <3> QED
      BY <1>1, <1>3, <2>5, <3>1 DEF MarkOK
  <2>7. MarkOK(f, r + 1, out, all, m + 2)
    <3>1. Follows(all, r + 1, m + 2, r + 1)
      BY <2>5 DEF Follows
    <3> QED
      BY <1>1, <1>3, <2>5, <3>1 DEF MarkOK
  <2>8. \A j \in 1..Len(all) : MarkOK(f, r + 1, out, all, j)
    <3> SUFFICES ASSUME NEW j \in 1..Len(all) PROVE MarkOK(f, r + 1, out, all, j)
      OBVIOUS
    <3>1. j \in 1..m \/ j = m + 1 \/ j = m + 2
      BY <2>5
    <3>2. j \in 1..m => MarkOK(f, r + 1, out, all, j)
      BY <2>4 DEF all, out, m
    <3> QED
      BY <2>6, <2>7, <3>1, <3>2
  <2>9. Len(all) # 0
    BY <2>5
  <2>10. Marked(f, r + 1, out, all)
    BY <2>4, <2>8, <2>9 DEF Marked, all, out
  <2> QED
    BY <2>3, <2>10 DEF out
<1>4. CASE b \notin Escaped
  <2> DEFINE more == <<b>>
             mores == <<[of |-> r + 1, second |-> FALSE]>>
  <2>1. more \in Seq(Byte) /\ Len(more) = 1 /\ more[1] = b
    BY <1>1
  <2>2. /\ mores \in Seq(Mark) /\ Len(mores) = 1
        /\ mores[1] = [of |-> r + 1, second |-> FALSE]
    <3>1. [of |-> r + 1, second |-> FALSE] \in Mark
      BY <1>1 DEF Mark
    <3> QED
      BY <3>1
  <2>3. escape_byte(b) = more
    BY <1>4 DEF escape_byte
  <2> HIDE DEF more, mores
  <2>a. /\ more \in Seq(Byte) /\ mores \in Seq(Mark) /\ Len(mores) \in Nat \ {0}
        /\ mores[1] = [of |-> r + 1, second |-> FALSE] /\ Len(more) = Len(mores)
    BY <2>1, <2>2
  <2>4. /\ body \o more \in Seq(Byte) /\ marks \o mores \in Seq(Mark)
        /\ Len(marks \o mores) = Len(body \o more)
        /\ Len(marks \o mores) = Len(marks) + Len(mores)
        /\ (marks \o mores)[1] = [of |-> 1, second |-> FALSE]
        /\ \A j \in 1..Len(marks) : MarkOK(f, r + 1, body \o more, marks \o mores, j)
        /\ \A j \in 1..Len(mores) :
             /\ (marks \o mores)[Len(marks) + j] = mores[j]
             /\ (body \o more)[Len(marks) + j] = more[j]
    BY <1>1, <2>a, MarksStay
  <2> DEFINE all == marks \o mores
             out == body \o more
             m == Len(marks)
  <2> HIDE DEF all, out, m
  <2>5. /\ Len(all) = m + 1 /\ m \in Nat
        /\ all[m + 1] = [of |-> r + 1, second |-> FALSE]
        /\ out[m + 1] = b
    <3>1. Len(mores) = 1 /\ 1 \in 1..Len(mores)
      BY <2>2
    <3> QED
      BY <1>2, <2>1, <2>2, <2>4, <3>1 DEF all, out, m
  <2>6. MarkOK(f, r + 1, out, all, m + 1)
    <3>1. Follows(all, r + 1, m + 1, r + 1)
      BY <2>5 DEF Follows
    <3> QED
      BY <1>1, <1>4, <2>5, <3>1 DEF MarkOK
  <2>7. \A j \in 1..Len(all) : MarkOK(f, r + 1, out, all, j)
    <3> SUFFICES ASSUME NEW j \in 1..Len(all) PROVE MarkOK(f, r + 1, out, all, j)
      OBVIOUS
    <3>1. j \in 1..m \/ j = m + 1
      BY <2>5
    <3>2. j \in 1..m => MarkOK(f, r + 1, out, all, j)
      BY <2>4 DEF all, out, m
    <3> QED
      BY <2>6, <3>1, <3>2
  <2>8. Len(all) # 0
    BY <2>5
  <2>9. Marked(f, r + 1, out, all)
    BY <2>4, <2>7, <2>8 DEF Marked, all, out
  <2> QED
    BY <2>3, <2>9 DEF out
<1> QED
  BY <1>3, <1>4

\* The first r bytes of a frame, escaped.
EscapedTo(f, r) == FlattenSeq([k \in 1..r |-> escape_byte(f[k])])

LEMMA EscapedBytes ==
  ASSUME NEW b \in Byte
  PROVE  escape_byte(b) \in Seq(Byte)
<1>1. CASE b \in Escaped
  <2>1. ClearMask(b) \in Byte /\ FRAME_ESCAPE_BYTE \in Byte
    BY <1>1, MaskComesBack DEF FRAME_ESCAPE_BYTE, Byte
  <2> QED
    BY <1>1, <2>1 DEF escape_byte
<1>2. CASE b \notin Escaped
  BY <1>2 DEF escape_byte
<1> QED
  BY <1>1, <1>2

LEMMA EscapedToStep ==
  ASSUME NEW f \in Seq(Byte), NEW r \in 0..(Len(f) - 1)
  PROVE  EscapedTo(f, r + 1) = EscapedTo(f, r) \o escape_byte(f[r + 1])
<1> DEFINE seqs == [k \in 1..r |-> escape_byte(f[k])]
           x == escape_byte(f[r + 1])
<1>1. r \in Nat /\ r + 1 \in 1..Len(f) /\ 1..r \subseteq 1..Len(f)
  OBVIOUS
<1>2. \A k \in 1..Len(f) : escape_byte(f[k]) \in Seq(Byte)
  BY EscapedBytes, ElementOfSeq
<1>3. seqs \in Seq(Seq(Byte)) /\ Len(seqs) = r
  BY <1>1, <1>2
<1>4. Append(seqs, x) = [k \in 1..(r + 1) |-> escape_byte(f[k])]
  <2>1. Append(seqs, x) = [k \in 1..(r + 1) |-> IF k = r + 1 THEN x ELSE seqs[k]]
    BY <1>1, <1>3
  <2>2. \A k \in 1..(r + 1) : (IF k = r + 1 THEN x ELSE seqs[k]) = escape_byte(f[k])
    BY <1>1
  <2> QED
    BY <2>1, <2>2
<1>5. x \in Seq(Byte)
  BY <1>1, <1>2
<1> HIDE DEF seqs, x
<1>6. FlattenSeq(Append(seqs, x)) = FlattenSeq(seqs) \o x
  BY <1>3, <1>5, FlattenAppend
<1> QED
  BY <1>4, <1>6 DEF EscapedTo, seqs, x

LEMMA MarksExist ==
  ASSUME NEW f \in Seq(Byte), NEW r \in 0..Len(f)
  PROVE  \E marks : Marked(f, r, EscapedTo(f, r), marks)
<1> DEFINE Without == {m \in 0..Len(f) : ~ \E marks : Marked(f, m, EscapedTo(f, m), marks)}
<1>1. Without = {}
  <2> SUFFICES ASSUME Without # {} PROVE FALSE
    OBVIOUS
  <2>1. Without \subseteq Nat
    OBVIOUS
  <2>2. PICK m \in Without : \A l \in Without : m <= l
    BY <2>1, LeastElement
  <2>3. m \in 0..Len(f) /\ ~ \E marks : Marked(f, m, EscapedTo(f, m), marks)
    BY <2>2
  <2>4. m # 0
    <3>1. EscapedTo(f, 0) = <<>>
      BY DEF EscapedTo, FlattenSeq
    <3> QED
      BY <2>3, <3>1, MarkedEmpty
  <2>5. m - 1 \in 0..Len(f) /\ m - 1 \in 0..(Len(f) - 1) /\ ~(m <= m - 1) /\ (m - 1) + 1 = m
    BY <2>3, <2>4
  <2>6. PICK marks : Marked(f, m - 1, EscapedTo(f, m - 1), marks)
    BY <2>2, <2>5
  <2>7. \E longer : Marked(f, m, EscapedTo(f, m - 1) \o escape_byte(f[m]), longer)
    BY <2>5, <2>6, MarkedStep
  <2>8. EscapedTo(f, m) = EscapedTo(f, m - 1) \o escape_byte(f[m])
    BY <2>5, EscapedToStep
  <2> QED
    BY <2>3, <2>7, <2>8
<1> QED
  BY <1>1

\* What a whole frame was escaped to is unescaped to the frame.
LEMMA MarkedUnescapes ==
  ASSUME NEW f \in Seq(Byte), NEW body, NEW marks, Marked(f, Len(f), body, marks)
  PROVE  unescape(body) = f
<1> DEFINE n == Len(f)
           m == Len(body)
           Rest(k) == SubSeq(f, k, n)
           h == [j \in 1..(m + 2) |->
                   IF j > m THEN <<>>
                   ELSE IF marks[j].second THEN <<body[j]>> \o Rest(marks[j].of + 1)
                   ELSE Rest(marks[j].of)]
<1>1. n \in Nat /\ m \in Nat /\ body \in Seq(Byte) /\ Len(marks) = m
  BY DEF Marked
<1>2. \A k \in 1..n : Rest(k) = <<f[k]>> \o Rest(k + 1)
  BY <1>1, SubSeqRecursiveFirst
<1>3. Rest(n + 1) = <<>>
  BY <1>1
<1> HIDE DEF Rest
<1>4. ASSUME NEW j \in 1..m, NEW k, Follows(marks, n, j, k), k \in 1..n
      PROVE  h[j + 1] = Rest(k + 1)
  <2>1. j + 1 \in 1..(m + 2)
    BY <1>1
  <2>2. CASE j = m
    BY <1>1, <1>3, <1>4, <2>1, <2>2 DEF Follows
  <2>3. CASE j # m
    <3>1. j + 1 <= m /\ marks[j + 1].of = k + 1 /\ ~marks[j + 1].second
      BY <1>1, <1>4, <2>3 DEF Follows
    <3> QED
      BY <1>1, <2>1, <3>1
  <2> QED
    BY <2>2, <2>3
<1>5. ASSUME NEW j \in 1..(m + 2)
      PROVE  h[j] = Turn(body, h, j)
  <2>1. CASE j > m
    BY <1>1, <2>1 DEF Turn
  <2>2. CASE j <= m
    <3> DEFINE k == marks[j].of
    <3>1. j \in 1..m /\ MarkOK(f, n, body, marks, j) /\ k \in 1..n
      BY <1>1, <2>2 DEF Marked, MarkOK
    <3>2. CASE f[k] \notin Escaped /\ ~marks[j].second /\ body[j] = f[k]
                 /\ Follows(marks, n, j, k)
      <4>1. body[j] # FRAME_ESCAPE_BYTE
        BY <3>2 DEF Escaped
      <4>2. h[j] = Rest(k)
        BY <1>1, <3>1, <3>2
      <4>3. h[j + 1] = Rest(k + 1)
        BY <1>4, <3>1, <3>2
      <4> HIDE DEF h
      <4>4. Turn(body, h, j) = <<f[k]>> \o Rest(k + 1)
        BY <1>1, <2>2, <3>2, <4>1, <4>3 DEF Turn
      <4> QED
        BY <1>2, <3>1, <4>2, <4>4
    <3>3. CASE f[k] \in Escaped /\ ~marks[j].second /\ body[j] = FRAME_ESCAPE_BYTE
                 /\ j < Len(marks) /\ marks[j + 1] = [of |-> k, second |-> TRUE]
      <4>1. j + 1 \in 1..m /\ (j + 1) + 1 = j + 2 /\ marks[j + 1].of = k /\ marks[j + 1].second
        BY <1>1, <3>1, <3>3
      <4>2. MarkOK(f, n, body, marks, j + 1)
        BY <1>1, <4>1 DEF Marked
      <4>3. body[j + 1] = ClearMask(f[k]) /\ Follows(marks, n, j + 1, k)
        BY <4>1, <4>2 DEF MarkOK
      <4>4. h[j + 2] = Rest(k + 1)
        <5>1. h[(j + 1) + 1] = Rest(k + 1)
          BY <1>4, <3>1, <4>1, <4>3
        <5> QED
          BY <4>1, <5>1
      <4>5. h[j] = Rest(k)
        BY <1>1, <3>1, <3>3
      <4>6. SetMask(body[j + 1]) = f[k]
        BY <3>3, <4>3, MaskComesBack
      <4> HIDE DEF h
      <4>7. Turn(body, h, j) = <<f[k]>> \o Rest(k + 1)
        BY <1>1, <2>2, <3>3, <4>4, <4>6 DEF Turn
      <4> QED
        BY <1>2, <3>1, <4>5, <4>7
    <3>4. CASE f[k] \in Escaped /\ marks[j].second /\ body[j] = ClearMask(f[k])
                 /\ Follows(marks, n, j, k)
      <4>1. body[j] # FRAME_ESCAPE_BYTE
        BY <3>4, MaskComesBack DEF Escaped
      <4>2. h[j] = <<body[j]>> \o Rest(k + 1)
        BY <1>1, <3>1, <3>4
      <4>3. h[j + 1] = Rest(k + 1)
        BY <1>4, <3>1, <3>4
      <4> HIDE DEF h
      <4> QED
        BY <1>1, <2>2, <4>1, <4>2, <4>3 DEF Turn
    <3> QED
      BY <3>1, <3>2, <3>3, <3>4 DEF MarkOK
  <2> QED
    BY <1>1, <2>1, <2>2
<1>6. Turns(body, h)
  <2>1. h = [j \in 1..(m + 2) |-> h[j]]
    OBVIOUS
  <2> HIDE DEF h
  <2> QED
    BY <1>5, <2>1 DEF Turns
<1>7. unescape(body) = h[1]
  <2> HIDE DEF h
  <2> QED
    BY <1>1, <1>6, UnescapeTurns
<1>8. h[1] = f
  <2>1. CASE m = 0
    BY <1>1, <2>1 DEF Marked
  <2>2. CASE m # 0
    <3>1. marks[1] = [of |-> 1, second |-> FALSE] /\ 1 <= m /\ 1 \in 1..(m + 2)
      BY <1>1, <2>2 DEF Marked
    <3>2. h[1] = Rest(1)
      BY <1>1, <3>1
    <3>3. Rest(1) = f
      BY <1>1, SubSeqFull DEF Rest
    <3> QED
      BY <3>2, <3>3
  <2> QED
    BY <2>1, <2>2
<1> QED
  BY <1>7, <1>8

LEMMA MarkedHides ==
  ASSUME NEW f \in Seq(Byte), NEW r \in Nat, NEW body, NEW marks, Marked(f, r, body, marks),
         NEW j \in 1..Len(body)
  PROVE  body[j] \notin {FRAME_START_BYTE, FRAME_END_BYTE}
<1>1. MarkOK(f, r, body, marks, j)
  BY DEF Marked
<1>2. FRAME_ESCAPE_BYTE \notin {FRAME_START_BYTE, FRAME_END_BYTE}
  BY DEF FRAME_START_BYTE, FRAME_ESCAPE_BYTE, FRAME_END_BYTE
<1> QED
  BY <1>1, <1>2, MaskComesBack DEF MarkOK, Escaped

\* The bytes of a frame on the wire, from the first to the last.
LEMMA OnWireBytes ==
  ASSUME NEW f \in Seq(Byte)
  PROVE  LET wire == OnWire(f)
             body == EscapedTo(f, Len(f)) IN
         /\ wire = <<FRAME_START_BYTE>> \o body \o <<FRAME_END_BYTE>>
         /\ body \in Seq(Byte) /\ wire \in Seq(Byte)
         /\ Len(wire) = Len(body) + 2
         /\ wire[1] = FRAME_START_BYTE /\ wire[Len(wire)] = FRAME_END_BYTE
         /\ \A j \in 1..Len(body) : wire[j + 1] = body[j]
         /\ SubSeq(wire, 2, Len(wire) - 1) = body
<1> DEFINE wire == OnWire(f)
           body == EscapedTo(f, Len(f))
<1>1. Len(f) \in Nat /\ Len(f) \in 0..Len(f)
  OBVIOUS
<1>2. body \in Seq(Byte)
  BY <1>1, MarksExist DEF Marked
<1>3. wire = <<FRAME_START_BYTE>> \o body \o <<FRAME_END_BYTE>>
  <2>1. DOMAIN f = 1..Len(f)
    OBVIOUS
  <2> QED
    BY <2>1, Zenon DEF OnWire, EscapedTo
<1> HIDE DEF body
<1>4. <<FRAME_START_BYTE>> \in Seq(Byte) /\ <<FRAME_END_BYTE>> \in Seq(Byte)
  BY DEF FRAME_START_BYTE, FRAME_END_BYTE, Byte
<1> DEFINE front == <<FRAME_START_BYTE>> \o body
<1>5. /\ front \in Seq(Byte) /\ Len(front) = Len(body) + 1
      /\ front[1] = FRAME_START_BYTE
      /\ \A j \in 1..Len(body) : front[j + 1] = body[j]
  BY <1>2, <1>4
<1> HIDE DEF front
<1>6. wire = front \o <<FRAME_END_BYTE>>
  BY <1>3 DEF front
<1> HIDE DEF wire
<1>7. /\ wire \in Seq(Byte) /\ Len(wire) = Len(front) + 1
      /\ \A j \in 1..Len(front) : wire[j] = front[j]
      /\ wire[Len(front) + 1] = FRAME_END_BYTE
  BY <1>4, <1>5, <1>6
<1>8. Len(body) \in Nat /\ Len(front) \in Nat
  BY <1>2, <1>5
<1>9. /\ Len(wire) = Len(body) + 2 /\ wire[Len(wire)] = FRAME_END_BYTE
      /\ wire[1] = FRAME_START_BYTE
  BY <1>5, <1>7, <1>8
<1>10. \A j \in 1..Len(body) : wire[j + 1] = body[j]
  <2> SUFFICES ASSUME NEW j \in 1..Len(body) PROVE wire[j + 1] = body[j]
    OBVIOUS
  <2>1. j + 1 \in 1..Len(front)
    BY <1>5, <1>8
  <2> QED
    BY <1>5, <1>7, <2>1
<1>11. SubSeq(wire, 2, Len(wire) - 1) = body
  <2>1. /\ SubSeq(wire, 2, Len(wire) - 1) \in Seq(Byte)
        /\ Len(SubSeq(wire, 2, Len(wire) - 1)) = Len(body)
        /\ \A j \in 1..Len(body) : SubSeq(wire, 2, Len(wire) - 1)[j] = wire[j + 1]
    BY <1>7, <1>8, <1>9
  <2> QED
    BY <1>2, <1>10, <2>1, SeqEqual
<1> QED
  BY <1>2, <1>3, <1>7, <1>9, <1>10, <1>11 DEF wire, body

(***************************************************************************)
(* What mdr_frameconn_write_frame puts between the start and the end byte  *)
(* holds neither of them, and unescaping it gives the frame: for frames of *)
(* any length and content.                                                 *)
(***************************************************************************)
THEOREM EscapingIsUndone ==
  ASSUME NEW f \in Seq(Byte)
  PROVE  LET body == SubSeq(OnWire(f), 2, Len(OnWire(f)) - 1) IN
         /\ unescape(body) = f
         /\ \A j \in DOMAIN body : body[j] \notin {FRAME_START_BYTE, FRAME_END_BYTE}
<1> DEFINE body == EscapedTo(f, Len(f))
<1>1. Len(f) \in Nat /\ Len(f) \in 0..Len(f)
  OBVIOUS
<1>2. PICK marks : Marked(f, Len(f), body, marks)
  BY <1>1, MarksExist
<1>3. unescape(body) = f
  BY <1>2, MarkedUnescapes
<1>4. body \in Seq(Byte)
  BY <1>2 DEF Marked
<1>5. \A j \in DOMAIN body : body[j] \notin {FRAME_START_BYTE, FRAME_END_BYTE}
  BY <1>1, <1>2, <1>4, MarkedHides
<1>6. SubSeq(OnWire(f), 2, Len(OnWire(f)) - 1) = body
  BY OnWireBytes
<1> QED
  BY <1>3, <1>5, <1>6

-----------------------------------------------------------------------------
(* The length of a frame.                                                  *)

LEMMA LengthBytes ==
  ASSUME NEW bytes \in Seq(Byte), Len(bytes) >= MDR_FRAME_EMPTY_LEN
  PROVE  bytes[3] \in 0..255 /\ bytes[4] \in 0..255 /\ bytes[5] \in 0..255 /\ bytes[6] \in 0..255
<1>1. 3 \in 1..Len(bytes) /\ 4 \in 1..Len(bytes) /\ 5 \in 1..Len(bytes) /\ 6 \in 1..Len(bytes)
  BY DEF MDR_FRAME_EMPTY_LEN
<1>2. bytes[3] \in Byte /\ bytes[4] \in Byte /\ bytes[5] \in Byte /\ bytes[6] \in Byte
  BY <1>1
<1> QED
  BY <1>2, Zenon DEF Byte

Ones16 == 65535
Ones24 == 16777215           \* the largest number of three bytes

Number(a, b, c) == (a * 256 + b) * 256 + c

\* The largest number of three bytes is that of the three largest bytes.
LEMMA ThreeBytes ==
  \A a, b, c \in 0..255 :
    /\ Number(a, b, c) \in Nat /\ Number(a, b, c) <= Ones24
    /\ Number(a, b, c) = Ones24 <=> a = 255 /\ b = 255 /\ c = 255
<1> TAKE a, b, c \in 0..255
<1> DEFINE h == Number(a, b, c)
<1>1. a \in Nat /\ a <= 255
  OBVIOUS
<1>2. PICK x : x = a * 256 + b
  OBVIOUS
<1>3. /\ x \in Nat /\ x <= Ones16
      /\ x = Ones16 <=> a = 255 /\ b = 255
  BY <1>1, <1>2, SMT DEF Ones16
<1>4. h = x * 256 + c
  BY <1>2, Zenon DEF Number
<1> HIDE DEF h
<1>5. /\ h \in Nat /\ h <= Ones24
      /\ h = Ones24 <=> x = Ones16 /\ c = 255
  BY <1>3, <1>4, SMT DEF Ones16, Ones24
<1> QED
  BY <1>3, <1>5, Zenon DEF h

LEMMA UpperBytes ==
  ASSUME NEW bytes \in Seq(Byte), Len(bytes) >= MDR_FRAME_EMPTY_LEN
  PROVE  \E h \in Nat :
           /\ h <= Ones24
           /\ h = Ones24 <=> bytes[3] = 255 /\ bytes[4] = 255 /\ bytes[5] = 255
           /\ payload_length(bytes) = h * 256 + bytes[6]
<1> DEFINE h == Number(bytes[3], bytes[4], bytes[5])
<1>1. payload_length(bytes) = h * 256 + bytes[6]
  BY Zenon DEF payload_length, Number
<1>2. /\ h \in Nat /\ h <= Ones24
      /\ h = Ones24 <=> bytes[3] = 255 /\ bytes[4] = 255 /\ bytes[5] = 255
  <2>1. bytes[3] \in 0..255 /\ bytes[4] \in 0..255 /\ bytes[5] \in 0..255
    BY LengthBytes
  <2>2. PICK a, b, c : a = bytes[3] /\ b = bytes[4] /\ c = bytes[5]
    OBVIOUS
  <2>3. a \in 0..255 /\ b \in 0..255 /\ c \in 0..255
    BY <2>1, <2>2
  <2>4. /\ Number(a, b, c) \in Nat /\ Number(a, b, c) <= Ones24
        /\ Number(a, b, c) = Ones24 <=> a = 255 /\ b = 255 /\ c = 255
    BY <2>3, ThreeBytes
  <2> QED
    BY <2>2, <2>3, <2>4
<1> HIDE DEF h
<1> QED
  BY <1>1, <1>2

\* A length that wraps is shorter than any frame.
LEMMA FrameLength ==
  ASSUME NEW bytes \in Seq(Byte), Len(bytes) >= MDR_FRAME_EMPTY_LEN
  PROVE  /\ frame_len(bytes) \in Nat
         /\ LengthWraps(bytes) <=> frame_len(bytes) < MDR_FRAME_EMPTY_LEN
         /\ ~LengthWraps(bytes) => frame_len(bytes) = MDR_FRAME_EMPTY_LEN + payload_length(bytes)
<1>1. bytes[3] \in 0..255 /\ bytes[4] \in 0..255 /\ bytes[5] \in 0..255 /\ bytes[6] \in 0..255
  BY LengthBytes
<1>2. PICK h \in Nat : payload_length(bytes) = h * 256 + bytes[6]
  BY UpperBytes
<1>3. h \in Nat
  OBVIOUS
<1>4. PICK d : d = bytes[6]
  OBVIOUS
<1>5. payload_length(bytes) = h * 256 + d
  BY <1>2, <1>4, Zenon
<1>6. d \in 0..255
  BY <1>1, <1>4
<1>7. CASE LengthWraps(bytes)
  <2>1. d + 7 >= 256 /\ frame_len(bytes) = d + 7 - 256
    BY <1>4, <1>7 DEF LengthWraps, frame_len, MDR_FRAME_EMPTY_LEN
  <2> QED
    BY <1>6, <1>7, <2>1 DEF MDR_FRAME_EMPTY_LEN
<1>8. CASE ~LengthWraps(bytes)
  <2>1. frame_len(bytes) = MDR_FRAME_EMPTY_LEN + payload_length(bytes)
    BY <1>8 DEF frame_len
  <2>2. h * 256 + d \in Nat
    BY <1>3, <1>6
  <2> QED
    BY <1>5, <1>8, <2>1, <2>2 DEF MDR_FRAME_EMPTY_LEN
<1> QED
  BY <1>7, <1>8

Modulus32 == 4294967296       \* 2^32

LEMMA Modulo ==
  ASSUME NEW m \in Nat \ {0}, NEW n \in 0..(m - 1)
  PROVE  n % m = n /\ (m + n) % m = n
BY SMT

\* Seven more than a number of four bytes.
LEMMA SevenMore ==
  ASSUME NEW h \in Nat, h <= Ones24, NEW d \in 0..255
  PROVE  /\ Modulus32 \in Nat \ {0}
         /\ h = Ones24 /\ d + 7 >= 256 =>
              /\ 7 + (h * 256 + d) = Modulus32 + (d + 7 - 256)
              /\ d + 7 - 256 \in 0..(Modulus32 - 1)
         /\ ~(h = Ones24 /\ d + 7 >= 256) => 7 + (h * 256 + d) \in 0..(Modulus32 - 1)
<1>1. Modulus32 \in Nat \ {0} /\ Modulus32 > 255
  BY SMT DEF Modulus32, Ones24
<1>2. ASSUME h = Ones24, d + 7 >= 256
      PROVE  7 + (h * 256 + d) = Modulus32 + (d + 7 - 256)
  BY <1>2, SMT DEF Modulus32, Ones24
<1>3. ASSUME ~(h = Ones24 /\ d + 7 >= 256)
      PROVE  7 + (h * 256 + d) \in Nat /\ 7 + (h * 256 + d) <= Modulus32 - 1
  BY <1>3, SMT DEF Modulus32, Ones24
<1>4. d + 7 >= 256 => d + 7 - 256 \in 0..(Modulus32 - 1)
  BY <1>1
<1>5. ASSUME ~(h = Ones24 /\ d + 7 >= 256)
      PROVE  7 + (h * 256 + d) \in 0..(Modulus32 - 1)
  <2>1. PICK y : y = 7 + (h * 256 + d)
    OBVIOUS
  <2>2. y \in Nat /\ y <= Modulus32 - 1
    BY <1>3, <1>5, <2>1, Zenon
  <2>3. y \in 0..(Modulus32 - 1)
    BY <1>1, <2>2
  <2> QED
    BY <2>1, <2>3, Zenon
<1> QED
  BY <1>1, <1>2, <1>4, <1>5, Zenon
(***************************************************************************)
(* frame_len is what adding MDR_FRAME_EMPTY_LEN to a payload length gives  *)
(* in 32 bits (frameconn.c:186): the sum modulo 2^32.                      *)
(***************************************************************************)
THEOREM FrameLengthIsModular ==
  ASSUME NEW bytes \in Seq(Byte), Len(bytes) >= MDR_FRAME_EMPTY_LEN
  PROVE  frame_len(bytes) = (MDR_FRAME_EMPTY_LEN + payload_length(bytes)) % Modulus32
<1>1. bytes[3] \in 0..255 /\ bytes[4] \in 0..255 /\ bytes[5] \in 0..255 /\ bytes[6] \in 0..255
  BY LengthBytes
<1>2. PICK h \in Nat :
        /\ h <= Ones24
        /\ h = Ones24 <=> bytes[3] = 255 /\ bytes[4] = 255 /\ bytes[5] = 255
        /\ payload_length(bytes) = h * 256 + bytes[6]
  BY UpperBytes, Zenon
<1>3. /\ h \in Nat /\ h <= Ones24
      /\ h = Ones24 <=> bytes[3] = 255 /\ bytes[4] = 255 /\ bytes[5] = 255
  BY <1>2, Zenon
<1>4. PICK d : d = bytes[6]
  OBVIOUS
<1>5. payload_length(bytes) = h * 256 + d
  BY <1>2, <1>4, Zenon
<1>6. d \in 0..255
  BY <1>1, <1>4, SMT
<1>7. LengthWraps(bytes) <=> h = Ones24 /\ d + 7 >= 256
  <2>1. (\A k \in 3..5 : bytes[k] = 255) <=> bytes[3] = 255 /\ bytes[4] = 255 /\ bytes[5] = 255
    BY SMT
  <2> QED
    BY <1>3, <1>4, <2>1, SMT DEF LengthWraps, MDR_FRAME_EMPTY_LEN
<1>8. Modulus32 \in Nat \ {0}
  BY <1>3, <1>6, SevenMore, Zenon
<1>9. CASE LengthWraps(bytes)
  <2>1. /\ 7 + (h * 256 + d) = Modulus32 + (d + 7 - 256)
        /\ d + 7 - 256 \in 0..(Modulus32 - 1)
    BY <1>3, <1>6, <1>7, <1>9, SevenMore, Zenon
  <2>2. (Modulus32 + (d + 7 - 256)) % Modulus32 = d + 7 - 256
    BY <1>8, <2>1, Modulo
  <2>3. frame_len(bytes) = d + 7 - 256
    BY <1>4, <1>9 DEF frame_len, MDR_FRAME_EMPTY_LEN
  <2> QED
    BY <1>5, <2>1, <2>2, <2>3 DEF MDR_FRAME_EMPTY_LEN
<1>10. CASE ~LengthWraps(bytes)
  <2>1. 7 + (h * 256 + d) \in 0..(Modulus32 - 1)
    BY <1>3, <1>6, <1>7, <1>10, SevenMore, Zenon
  <2>2. (7 + (h * 256 + d)) % Modulus32 = 7 + (h * 256 + d)
    BY <1>8, <2>1, Modulo
  <2>3. frame_len(bytes) = 7 + (h * 256 + d)
    BY <1>5, <1>10 DEF frame_len, MDR_FRAME_EMPTY_LEN
  <2> QED
    BY <1>5, <2>2, <2>3 DEF MDR_FRAME_EMPTY_LEN
<1> QED
  BY <1>9, <1>10
-----------------------------------------------------------------------------
(* What unescaping any bytes at all gives.                                 *)

LEMMA TurnsExist ==
  ASSUME NEW bytes \in Seq(Byte)
  PROVE  \E h \in [1..(Len(bytes) + 2) -> Seq(Byte)] : Turns(bytes, h)
<1> DEFINE n == Len(bytes)
           TurnsFrom(m, h) == /\ h \in [1..(n + 2) -> Seq(Byte)]
                              /\ \A k \in 1..(n + 2) :
                                   n + 2 - m <= k => h[k] = Turn(bytes, h, k)
           Without == {m \in 0..(n + 1) : ~ \E h : TurnsFrom(m, h)}
<1>1. n \in Nat
  OBVIOUS
<1>2. Without = {}
  <2> SUFFICES ASSUME Without # {} PROVE FALSE
    OBVIOUS
  <2>1. Without \subseteq Nat
    BY <1>1
  <2>2. PICK m \in Without : \A l \in Without : m <= l
    BY <2>1, LeastElement
  <2>3. m \in 0..(n + 1) /\ m \in Nat /\ ~ \E h : TurnsFrom(m, h)
    BY <2>2
  <2>4. m # 0
    <3> SUFFICES ASSUME m = 0 PROVE FALSE
      OBVIOUS
    <3> DEFINE h == [k \in 1..(n + 2) |-> <<>>]
    <3>1. h \in [1..(n + 2) -> Seq(Byte)]
      OBVIOUS
    <3>2. ASSUME NEW k \in 1..(n + 2), n + 2 - 0 <= k PROVE h[k] = Turn(bytes, h, k)
      <4>1. k > n
        BY <1>1, <3>2
      <4> QED
        BY <4>1 DEF Turn
    <3>3. TurnsFrom(0, h)
      BY <3>1, <3>2
    <3> QED
      BY <2>3, <3>3
  <2>5. m - 1 \in 0..(n + 1) /\ ~(m <= m - 1)
    BY <1>1, <2>3, <2>4
  <2>6. PICK g : TurnsFrom(m - 1, g)
    BY <2>2, <2>5
  <2>7. PICK r : r = n + 2 - m
    OBVIOUS
  <2>8. r \in 1..(n + 2) /\ r + 1 = n + 2 - (m - 1) /\ r <= n + 1
    BY <1>1, <2>3, <2>4, <2>7
  <2> DEFINE h == [g EXCEPT ![r] = Turn(bytes, g, r)]
  <2>9. Turn(bytes, g, r) \in Seq(Byte)
    <3>1. CASE r > n
      BY <3>1 DEF Turn
    <3>2. CASE r <= n
      <4>1. r \in 1..n /\ r + 1 \in 1..(n + 2) /\ r + 2 \in 1..(n + 2)
        BY <1>1, <2>8, <3>2
      <4>2. bytes[r] \in Byte /\ g[r + 1] \in Seq(Byte) /\ g[r + 2] \in Seq(Byte)
        <5>1. bytes[r] \in Byte
          BY <4>1
        <5>2. g \in [1..(n + 2) -> Seq(Byte)]
          BY <2>6
        <5> HIDE DEF n
        <5> QED
          BY <4>1, <5>1, <5>2
      <4>3. r < n => SetMask(bytes[r + 1]) \in Byte
        <5> SUFFICES ASSUME r < n PROVE SetMask(bytes[r + 1]) \in Byte
          OBVIOUS
        <5>1. bytes[r + 1] \in Byte
          BY <1>1, <4>1
        <5> QED
          BY <5>1, MaskKeepsByte
      <4> QED
        BY <1>1, <3>2, <4>1, <4>2, <4>3 DEF Turn
    <3> QED
      BY <1>1, <2>8, <3>1, <3>2
  <2>10. h \in [1..(n + 2) -> Seq(Byte)]
    BY <2>6, <2>8, <2>9
  <2>11. \A k \in 1..(n + 2) : h[k] = IF k = r THEN Turn(bytes, g, r) ELSE g[k]
    BY <2>6, <2>8
  <2> HIDE DEF h
  <2>12. ASSUME NEW k \in 1..(n + 2), r <= k PROVE h[k] = Turn(bytes, h, k)
    <3>1. Turn(bytes, h, k) = Turn(bytes, g, k)
      <4>1. k <= n => /\ k + 1 \in 1..(n + 2) /\ k + 1 # r
                      /\ k + 2 \in 1..(n + 2) /\ k + 2 # r
        BY <1>1, <2>8, <2>12
      <4>2. k <= n => h[k + 1] = g[k + 1] /\ h[k + 2] = g[k + 2]
        BY <2>11, <4>1
      <4> QED
        BY <1>1, <4>2 DEF Turn
    <3>2. CASE k = r
      BY <2>11, <3>1, <3>2
    <3>3. CASE k # r
      <4>1. n + 2 - (m - 1) <= k
        BY <1>1, <2>8, <2>12, <3>3
      <4> QED
        BY <2>6, <2>11, <3>1, <3>3, <4>1
    <3> QED
      BY <3>2, <3>3
  <2>13. TurnsFrom(m, h)
    BY <2>7, <2>10, <2>12
  <2> QED
    BY <2>3, <2>13
<1>3. n + 1 \in 0..(n + 1)
  BY <1>1
<1>4. PICK h : TurnsFrom(n + 1, h)
  BY <1>2, <1>3
<1>5. \A k \in 1..(n + 2) : n + 2 - (n + 1) <= k
  BY <1>1
<1>6. h \in [1..(n + 2) -> Seq(Byte)] /\ \A k \in 1..(n + 2) : h[k] = Turn(bytes, h, k)
  BY <1>4, <1>5
<1>7. h = [k \in 1..(n + 2) |-> Turn(bytes, h, k)]
  BY <1>6
<1> QED
  BY <1>6, <1>7 DEF Turns

LEMMA UnescapedBytes ==
  ASSUME NEW bytes \in Seq(Byte)
  PROVE  unescape(bytes) \in Seq(Byte)
<1>1. PICK h \in [1..(Len(bytes) + 2) -> Seq(Byte)] : Turns(bytes, h)
  BY TurnsExist
<1>2. unescape(bytes) = h[1]
  BY <1>1, UnescapeTurns
<1>3. 1 \in 1..(Len(bytes) + 2)
  OBVIOUS
<1> QED
  BY <1>2, <1>3

\* A frame whose length is the one its third to sixth byte state.
WholeFrame(f) ==
  /\ f \in Seq(Byte)
  /\ Len(f) >= MDR_FRAME_EMPTY_LEN
  /\ Len(f) = frame_len(f)

(***************************************************************************)
(* What mdr_frameconn_unescape_frame returns, whatever bytes it is given:  *)
(* nothing, or a frame exactly as long as its payload length says, or a    *)
(* block too short for a frame.  Only a length that wraps gives such a     *)
(* block.                                                                  *)
(***************************************************************************)
THEOREM UnescapedFrames ==
  ASSUME NEW escaped \in Seq(Byte)
  PROVE  LET f == unescape_frame(escaped) IN
         /\ f \in Seq(Byte)
         /\ Len(f) >= MDR_FRAME_EMPTY_LEN =>
              /\ WholeFrame(f)
              /\ Len(f) = MDR_FRAME_EMPTY_LEN + payload_length(f)
         /\ f # Invalid /\ Len(f) < MDR_FRAME_EMPTY_LEN => LengthWraps(unescape(escaped))
<1> DEFINE bytes == unescape(escaped)
           f == unescape_frame(escaped)
           n == frame_len(bytes)
<1>1. bytes \in Seq(Byte) /\ Len(bytes) \in Nat
  BY UnescapedBytes
<1> HIDE DEF bytes
<1>2. CASE Len(bytes) < MDR_FRAME_EMPTY_LEN \/ Len(bytes) < n
  <2>1. f = <<>>
    BY <1>2 DEF unescape_frame, Invalid, bytes
  <2> QED
    BY <2>1 DEF Invalid, MDR_FRAME_EMPTY_LEN, f
<1>3. CASE ~(Len(bytes) < MDR_FRAME_EMPTY_LEN) /\ ~(Len(bytes) < n)
  <2>1. f = SubSeq(bytes, 1, n)
    BY <1>3 DEF unescape_frame, bytes
  <2>2. Len(bytes) >= MDR_FRAME_EMPTY_LEN
    BY <1>1, <1>3 DEF MDR_FRAME_EMPTY_LEN
  <2>3. /\ n \in Nat /\ n <= Len(bytes)
        /\ LengthWraps(bytes) <=> n < MDR_FRAME_EMPTY_LEN
    BY <1>1, <1>3, <2>2, FrameLength
  <2> HIDE DEF n, f
  <2>4. f \in Seq(Byte) /\ Len(f) = n /\ \A k \in 1..n : f[k] = bytes[k]
    BY <1>1, <2>1, <2>3
  <2>5. ASSUME Len(f) >= MDR_FRAME_EMPTY_LEN
        PROVE  WholeFrame(f) /\ Len(f) = MDR_FRAME_EMPTY_LEN + payload_length(f)
    <3>1. f[3] = bytes[3] /\ f[4] = bytes[4] /\ f[5] = bytes[5] /\ f[6] = bytes[6]
      BY <2>3, <2>4, <2>5 DEF MDR_FRAME_EMPTY_LEN
    <3>2. frame_len(f) = frame_len(bytes) /\ (LengthWraps(f) <=> LengthWraps(bytes))
      <4>1. \A k \in 3..5 : f[k] = bytes[k]
        BY <2>3, <2>4, <2>5 DEF MDR_FRAME_EMPTY_LEN
      <4>2. LengthWraps(f) <=> LengthWraps(bytes)
        BY <3>1, <4>1 DEF LengthWraps
      <4> QED
        BY <3>1, <4>2 DEF frame_len, payload_length
    <3>3. ~LengthWraps(f)
      BY <2>3, <2>4, <2>5, <3>2 DEF MDR_FRAME_EMPTY_LEN
    <3>4. WholeFrame(f)
      BY <2>4, <2>5, <3>2 DEF WholeFrame, n
    <3> QED
      BY <2>4, <2>5, <3>3, <3>4, FrameLength DEF WholeFrame
  <2>6. Len(f) < MDR_FRAME_EMPTY_LEN => LengthWraps(bytes)
    BY <2>3, <2>4
  <2> QED
    BY <2>4, <2>5, <2>6 DEF f, bytes
<1> QED
  BY <1>2, <1>3

\* A whole frame is what mdr_frameconn_unescape_frame makes of what was sent.
LEMMA WholeFrameComesBack ==
  ASSUME NEW f, WholeFrame(f)
  PROVE  unescape_frame(SubSeq(OnWire(f), 2, Len(OnWire(f)) - 1)) = f
<1>1. f \in Seq(Byte) /\ Len(f) \in Nat
  BY DEF WholeFrame
<1>2. unescape(SubSeq(OnWire(f), 2, Len(OnWire(f)) - 1)) = f
  BY <1>1, EscapingIsUndone
<1>3. SubSeq(f, 1, Len(f)) = f
  BY <1>1, SubSeqFull
<1> QED
  BY <1>1, <1>2, <1>3 DEF unescape_frame, WholeFrame, MDR_FRAME_EMPTY_LEN
=============================================================================
