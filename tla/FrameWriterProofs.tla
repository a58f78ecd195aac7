-------------------------- MODULE FrameWriterProofs --------------------------
(***************************************************************************)
(* What the writing half of a frame connection keeps, for every set of     *)
(* frames, every size of the buffer and every way the socket cuts bytes.   *)
(***************************************************************************)
EXTENDS FrameWriter, SequenceTheorems, TLAPS

\* A suffix by its elements.
LEMMA SuffixByElements ==
  ASSUME NEW S, NEW s \in Seq(S), NEW t \in Seq(S)
  PROVE  IsSuffix(s, t) <=>
           /\ Len(s) <= Len(t)
           /\ \A k \in 1..Len(s) : s[k] = t[Len(t) - Len(s) + k]
<1> DEFINE rs == Reverse(s)
           rt == Reverse(t)
<1>1. Len(s) \in Nat /\ Len(t) \in Nat
  BY LenProperties
<1>2. /\ \A k \in 1..Len(s) : s[k] \in S
      /\ \A k \in 1..Len(t) : t[k] \in S
  BY ElementOfSeq
<1>3. /\ rs \in Seq(S) /\ Len(rs) = Len(s)
      /\ \A k \in 1..Len(s) : rs[k] = s[Len(s) - k + 1]
  <2>1. rs = [k \in 1..Len(s) |-> s[(Len(s) - k) + 1]]
    BY DEF Reverse
  <2>2. \A k \in 1..Len(s) : s[(Len(s) - k) + 1] \in S
    BY <1>1, <1>2
  <2> HIDE DEF rs
  <2> QED
    BY <1>1, <2>1, <2>2, IsASeq
<1>4. /\ rt \in Seq(S) /\ Len(rt) = Len(t)
      /\ \A k \in 1..Len(t) : rt[k] = t[Len(t) - k + 1]
  <2>1. rt = [k \in 1..Len(t) |-> t[(Len(t) - k) + 1]]
    BY DEF Reverse
  <2>2. \A k \in 1..Len(t) : t[(Len(t) - k) + 1] \in S
    BY <1>1, <1>2
  <2> HIDE DEF rt
  <2> QED
    BY <1>1, <2>1, <2>2, IsASeq
<1>5. IsSuffix(s, t) <=>
        Len(rs) <= Len(rt) /\ SubSeq(rs, 1, Len(rs)) = SubSeq(rt, 1, Len(rs))
  BY DEF IsSuffix, IsPrefix
<1> HIDE DEF rs, rt
<1>6. ASSUME Len(s) <= Len(t)
      PROVE  SubSeq(rs, 1, Len(s)) = SubSeq(rt, 1, Len(s)) <=>
               \A k \in 1..Len(s) : rs[k] = rt[k]
  <2>1. /\ SubSeq(rs, 1, Len(s)) = [k \in 1..Len(s) |-> rs[k]]
        /\ SubSeq(rt, 1, Len(s)) = [k \in 1..Len(s) |-> rt[k]]
    BY <1>1, <1>3, <1>4, <1>6
  <2> QED
    BY <2>1
<1>7. ASSUME Len(s) <= Len(t)
      PROVE  (\A k \in 1..Len(s) : rs[k] = rt[k]) <=>
               \A k \in 1..Len(s) : s[k] = t[Len(t) - Len(s) + k]
  <2>1. ASSUME \A k \in 1..Len(s) : rs[k] = rt[k], NEW k \in 1..Len(s)
        PROVE  s[k] = t[Len(t) - Len(s) + k]
    <3>1. Len(s) - k + 1 \in 1..Len(s) /\ Len(s) - k + 1 \in 1..Len(t)
      BY <1>1, <1>7
    <3>2. rs[Len(s) - k + 1] = rt[Len(s) - k + 1]
      BY <2>1, <3>1
    <3>3. /\ rs[Len(s) - k + 1] = s[Len(s) - (Len(s) - k + 1) + 1]
          /\ rt[Len(s) - k + 1] = t[Len(t) - (Len(s) - k + 1) + 1]
      BY <1>3, <1>4, <3>1
    <3>4. /\ Len(s) - (Len(s) - k + 1) + 1 = k
          /\ Len(t) - (Len(s) - k + 1) + 1 = Len(t) - Len(s) + k
      BY <1>1
    <3> QED
      BY <3>2, <3>3, <3>4
  <2>2. ASSUME \A k \in 1..Len(s) : s[k] = t[Len(t) - Len(s) + k], NEW k \in 1..Len(s)
        PROVE  rs[k] = rt[k]
    <3>1. Len(s) - k + 1 \in 1..Len(s) /\ k \in 1..Len(t)
      BY <1>1, <1>7
    <3>2. s[Len(s) - k + 1] = t[Len(t) - Len(s) + (Len(s) - k + 1)]
      BY <2>2, <3>1
    <3>3. Len(t) - Len(s) + (Len(s) - k + 1) = Len(t) - k + 1
      BY <1>1
    <3> QED
      BY <1>3, <1>4, <3>1, <3>2, <3>3
  <2> QED
    BY <2>1, <2>2
<1> QED
  BY <1>1, <1>3, <1>4, <1>5, <1>6, <1>7

\* What follows the end of a sequence and what lies there: sequences of two pieces.
LEMMA Appended ==
  ASSUME NEW S, NEW s \in Seq(S), NEW t \in Seq(S)
  PROVE  /\ s \o t \in Seq(S)
         /\ Len(s \o t) = Len(s) + Len(t)
         /\ \A k \in 1..Len(s) : (s \o t)[k] = s[k]
         /\ \A k \in 1..Len(t) : (s \o t)[Len(s) + k] = t[k]
<1>1. Len(s) \in Nat /\ Len(t) \in Nat
  BY LenProperties
<1>2. s \o t \in Seq(S) /\ Len(s \o t) = Len(s) + Len(t)
  BY ConcatProperties
<1>3. \A k \in 1..(Len(s) + Len(t)) :
        (s \o t)[k] = IF k <= Len(s) THEN s[k] ELSE t[k - Len(s)]
  BY ConcatProperties
<1>4. \A k \in 1..Len(t) : Len(s) + k \in 1..(Len(s) + Len(t)) /\ ~(Len(s) + k <= Len(s))
                           /\ Len(s) + k - Len(s) = k
  BY <1>1
<1>5. \A k \in 1..Len(t) : (s \o t)[Len(s) + k] = t[k]
  BY <1>3, <1>4
<1>6. \A k \in 1..Len(s) : (s \o t)[k] = s[k]
  BY <1>1, <1>3
<1> QED
  BY <1>2, <1>5, <1>6

\* A piece of a frame.
LEMMA Piece ==
  ASSUME NEW f \in Frames, NEW m \in Nat, NEW n \in Nat, 1 <= m, m <= n + 1,
         n <= EscapedLen[f]
  PROVE  /\ SubSeq(Bytes(f), m, n) \in Seq(WireByte)
         /\ Len(SubSeq(Bytes(f), m, n)) = n - m + 1
         /\ \A k \in 1..(n - m + 1) : SubSeq(Bytes(f), m, n)[k] = <<f, m + k - 1>>
<1>1. EscapedLen[f] \in Nat
  BY WriterAssumption
<1>2. /\ Bytes(f) \in Seq(WireByte) /\ Len(Bytes(f)) = EscapedLen[f]
      /\ \A k \in 1..EscapedLen[f] : Bytes(f)[k] = <<f, k>>
  BY <1>1, IsASeq DEF Bytes, WireByte
<1>3. \A k \in m..n : k \in 1..EscapedLen[f]
  BY <1>1
<1>4. \A k \in m..n : Bytes(f)[k] \in WireByte
  <2>1. \A k \in 1..EscapedLen[f] : <<f, k>> \in WireByte
    BY DEF WireByte
  <2> QED
    BY <1>2, <1>3, <2>1
<1>5. /\ SubSeq(Bytes(f), m, n) \in Seq(WireByte)
      /\ Len(SubSeq(Bytes(f), m, n)) = IF m <= n THEN n - m + 1 ELSE 0
      /\ \A k \in 1..(n - m + 1) : SubSeq(Bytes(f), m, n)[k] = Bytes(f)[m + k - 1]
  BY <1>4, SubSeqProperties
<1>6. \A k \in 1..(n - m + 1) : m + k - 1 \in 1..EscapedLen[f]
  BY <1>1
<1> QED
  BY <1>2, <1>5, <1>6

\* The bytes of a frame behind the first w, up to byte e; and the first e.
LEMMA PieceBehind ==
  ASSUME NEW f \in Frames, NEW w \in Nat, NEW e \in Nat, w <= e, e <= EscapedLen[f]
  PROVE  /\ SubSeq(Bytes(f), w + 1, e) \in Seq(WireByte)
         /\ Len(SubSeq(Bytes(f), w + 1, e)) = e - w
         /\ \A k \in 1..(e - w) : SubSeq(Bytes(f), w + 1, e)[k] = <<f, w + k>>
<1> DEFINE q == SubSeq(Bytes(f), w + 1, e)
<1>1. w + 1 \in Nat /\ 1 <= w + 1 /\ w + 1 <= e + 1
  OBVIOUS
<1>2. /\ q \in Seq(WireByte) /\ Len(q) = e - (w + 1) + 1
      /\ \A k \in 1..(e - (w + 1) + 1) : q[k] = <<f, (w + 1) + k - 1>>
  BY <1>1, Piece, Zenon
<1>3. e - (w + 1) + 1 = e - w /\ \A k \in 1..(e - w) : (w + 1) + k - 1 = w + k
  OBVIOUS
<1> HIDE DEF q
<1>4. /\ q \in Seq(WireByte) /\ Len(q) = e - w
      /\ \A k \in 1..(e - w) : q[k] = <<f, w + k>>
  BY <1>2, <1>3
<1> QED
  BY <1>4 DEF q

LEMMA PieceUpTo ==
  ASSUME NEW f \in Frames, NEW e \in Nat, e <= EscapedLen[f]
  PROVE  /\ SubSeq(Bytes(f), 1, e) \in Seq(WireByte)
         /\ Len(SubSeq(Bytes(f), 1, e)) = e
         /\ \A k \in 1..e : SubSeq(Bytes(f), 1, e)[k] = <<f, k>>
<1> DEFINE p == SubSeq(Bytes(f), 1, e)
<1>1. 1 \in Nat /\ 1 <= 1 /\ 1 <= e + 1
  OBVIOUS
<1>2. /\ p \in Seq(WireByte) /\ Len(p) = e - 1 + 1
      /\ \A k \in 1..(e - 1 + 1) : p[k] = <<f, 1 + k - 1>>
  BY <1>1, Piece, Zenon
<1>3. e - 1 + 1 = e /\ \A k \in 1..e : 1 + k - 1 = k
  OBVIOUS
<1> HIDE DEF p
<1>4. p \in Seq(WireByte) /\ Len(p) = e /\ \A k \in 1..e : p[k] = <<f, k>>
  BY <1>2, <1>3
<1> QED
  BY <1>4 DEF p

-----------------------------------------------------------------------------
LEMMA InitWrites == Init => TypeOK /\ SendingIsLast /\ BufferEndsFrame /\ SuccessSendsWhole
                            /\ BlockedIsKept
  BY WriterAssumption DEF Init, TypeOK, SendingIsLast, BufferEndsFrame, SuccessSendsWhole,
                          BlockedIsKept

\* The frame that is being sent, in two pieces.
LEMMA SentPieces ==
  ASSUME TypeOK, pc = "send"
  PROVE  /\ frame \in Frames
         /\ written \in Nat /\ EscapedLen[frame] \in Nat /\ written <= EscapedLen[frame]
         /\ LET p == SubSeq(Bytes(frame), 1, written)
            IN /\ p \in Seq(WireByte) /\ Len(p) = written
               /\ \A k \in 1..written : p[k] = <<frame, k>>
         /\ LET q == SubSeq(Bytes(frame), written + 1, EscapedLen[frame])
            IN /\ q \in Seq(WireByte) /\ Len(q) = EscapedLen[frame] - written
               /\ \A k \in 1..(EscapedLen[frame] - written) : q[k] = <<frame, written + k>>
<1>1. /\ frame \in Frames /\ written \in Nat
      /\ EscapedLen[frame] \in Nat /\ written <= EscapedLen[frame]
  BY WriterAssumption DEF TypeOK
<1>2. EscapedLen[frame] <= EscapedLen[frame]
  BY <1>1
<1>3. LET p == SubSeq(Bytes(frame), 1, written)
      IN p \in Seq(WireByte) /\ Len(p) = written /\ \A k \in 1..written : p[k] = <<frame, k>>
  BY <1>1, PieceUpTo
<1>4. LET q == SubSeq(Bytes(frame), written + 1, EscapedLen[frame])
      IN /\ q \in Seq(WireByte) /\ Len(q) = EscapedLen[frame] - written
         /\ \A k \in 1..(EscapedLen[frame] - written) : q[k] = <<frame, written + k>>
  BY <1>1, <1>2, PieceBehind
<1> QED
  BY <1>1, <1>3, <1>4

LEMMA SendWritesKeeps ==
  ASSUME TypeOK, SendingIsLast, NEW n \in 1..FRAME_BUF_SIZE, SendWrites(n)
  PROVE  TypeOK' /\ SendingIsLast'
<1> DEFINE q == SubSeq(Bytes(frame), written + 1, written + n)
           p == SubSeq(Bytes(frame), 1, written)
           r == SubSeq(Bytes(frame), 1, written + n)
<1>1. /\ pc = "send" /\ pc' = "send" /\ frame' = frame /\ frame \in Frames
      /\ written \in Nat /\ n \in Nat /\ EscapedLen[frame] \in Nat
      /\ written' = written + n /\ written + n <= EscapedLen[frame]
      /\ written <= written + n /\ written + n \in Nat
  BY SentPieces, WriterAssumption DEF SendWrites
<1>2. wire \in Seq(WireByte) /\ Len(wire) \in Nat /\ wire' = wire \o q
  BY LenProperties DEF TypeOK, SendWrites, Take
<1>3. /\ q \in Seq(WireByte) /\ Len(q) = n
      /\ \A k \in 1..n : q[k] = <<frame, written + k>>
  <2>1. PICK e \in Nat : e = written + n
    BY <1>1
  <2>2. /\ SubSeq(Bytes(frame), written + 1, e) \in Seq(WireByte)
        /\ Len(SubSeq(Bytes(frame), written + 1, e)) = e - written
        /\ \A k \in 1..(e - written) :
             SubSeq(Bytes(frame), written + 1, e)[k] = <<frame, written + k>>
    BY <1>1, <2>1, PieceBehind
  <2>3. e - written = n
    BY <1>1, <2>1
  <2> QED
    BY <2>1, <2>2, <2>3
<1>4. /\ r \in Seq(WireByte) /\ Len(r) = written + n
      /\ \A k \in 1..(written + n) : r[k] = <<frame, k>>
  BY <1>1, PieceUpTo
<1>5. /\ p \in Seq(WireByte) /\ Len(p) = written
      /\ \A k \in 1..written : p[k] = <<frame, k>>
  BY <1>1, SentPieces
<1>6. /\ wire' \in Seq(WireByte) /\ Len(wire') = Len(wire) + n
      /\ \A k \in 1..Len(wire) : wire'[k] = wire[k]
      /\ \A k \in 1..n : wire'[Len(wire) + k] = q[k]
  BY <1>2, <1>3, Appended
<1> HIDE DEF p, q, r
<1>7. /\ written <= Len(wire)
      /\ \A k \in 1..written : wire[Len(wire) - written + k] = <<frame, k>>
  <2>1. IsSuffix(p, wire)
    BY <1>1 DEF SendingIsLast, p
  <2> QED
    BY <1>2, <1>5, <2>1, SuffixByElements
<1>8. ASSUME NEW k \in 1..(written + n)
      PROVE  wire'[Len(wire') - (written + n) + k] = <<frame, k>>
  <2>1. Len(wire') - (written + n) + k = Len(wire) - written + k
    BY <1>1, <1>2, <1>6
  <2>2. CASE k <= written
    <3>1. k \in 1..written /\ Len(wire) - written + k \in 1..Len(wire)
      BY <1>1, <1>2, <1>7, <2>2
    <3> QED
      BY <1>6, <1>7, <2>1, <3>1
  <2>3. CASE ~(k <= written)
    <3>1. /\ k - written \in 1..n
          /\ Len(wire) - written + k = Len(wire) + (k - written)
          /\ written + (k - written) = k
      BY <1>1, <1>2, <2>3
    <3> QED
      BY <1>3, <1>6, <2>1, <3>1
  <2> QED
    BY <2>2, <2>3
<1>9. IsSuffix(r, wire')
  <2>1. written + n <= Len(wire')
    BY <1>1, <1>2, <1>6, <1>7
  <2> QED
    BY <1>4, <1>6, <1>8, <2>1, SuffixByElements
<1>10. SendingIsLast'
  <2>1. r = SubSeq(Bytes(frame'), 1, written')
    BY <1>1 DEF r, Bytes
  <2> QED
    BY <1>9, <2>1 DEF SendingIsLast, Bytes
<1>11. TypeOK'
  BY <1>1, <1>6 DEF TypeOK, SendWrites
<1> QED
  BY <1>10, <1>11

\* A blocked frame is split between the wire and the buffer.
LEMMA SendBlocksKeeps ==
  ASSUME TypeOK, SendingIsLast, BufferEndsFrame, SendBlocks
  PROVE  TypeOK' /\ BufferEndsFrame' /\ BlockedIsKept'
<1> DEFINE p == SubSeq(Bytes(frame), 1, written)
           q == SubSeq(Bytes(frame), written + 1, EscapedLen[frame])
           rest == EscapedLen[frame] - written
<1>1. /\ pc = "send" /\ frame' = frame /\ written' = written /\ wire' = wire
      /\ write_buf' = write_buf \o q
      /\ pc' = "idle" /\ result' = "blocked" /\ offered' = offered
  BY DEF SendBlocks, Return
<1>2. /\ frame \in Frames /\ written \in Nat /\ EscapedLen[frame] \in Nat
      /\ rest \in Nat /\ rest > 0 /\ written + rest = EscapedLen[frame]
      /\ q \in Seq(WireByte) /\ Len(q) = rest
      /\ \A k \in 1..rest : q[k] = <<frame, written + k>>
  <2>1. frame \in Frames /\ written \in Nat /\ EscapedLen[frame] \in Nat
    BY <1>1, SentPieces
  <2>2. written < EscapedLen[frame]
    BY DEF SendBlocks
  <2>3. rest \in Nat /\ rest > 0 /\ written + rest = EscapedLen[frame]
    BY <2>1, <2>2
  <2>4. /\ q \in Seq(WireByte) /\ Len(q) = rest
        /\ \A k \in 1..rest : q[k] = <<frame, written + k>>
    BY <1>1, SentPieces
  <2> QED
    BY <2>1, <2>3, <2>4
<1>3. write_buf \in Seq(WireByte) /\ Len(write_buf) \in Nat
  BY LenProperties DEF TypeOK
<1> HIDE DEF p, q, rest
<1>4. /\ write_buf' \in Seq(WireByte) /\ Len(write_buf') = Len(write_buf) + rest
      /\ \A k \in 1..Len(write_buf) : write_buf'[k] = write_buf[k]
      /\ \A k \in 1..rest : write_buf'[Len(write_buf) + k] = q[k]
  <2>1. q \in Seq(WireByte) /\ write_buf \in Seq(WireByte)
    BY <1>2, <1>3
  <2>2. /\ write_buf \o q \in Seq(WireByte)
        /\ Len(write_buf \o q) = Len(write_buf) + Len(q)
        /\ \A k \in 1..Len(write_buf) : (write_buf \o q)[k] = write_buf[k]
        /\ \A k \in 1..Len(q) : (write_buf \o q)[Len(write_buf) + k] = q[k]
    BY <2>1, Appended
  <2> QED
    BY <1>1, <1>2, <2>2
<1>6. TypeOK'
  <2>1. Len(write_buf') <= FRAME_BUF_SIZE
    <3>1. Len(write_buf) + EscapedLen[frame] <= FRAME_BUF_SIZE
      BY <1>1 DEF TypeOK
    <3> QED
      BY <1>2, <1>3, <1>4, <3>1, WriterAssumption
  <2> QED
    BY <1>1, <1>4, <2>1 DEF TypeOK
<1>7. BufferEndsFrame'
  <2>1. /\ Len(write_buf') = Len(write_buf) + rest
        /\ rest \in 1..rest /\ written + rest = EscapedLen[frame]
    BY <1>2, <1>4
  <2>2. write_buf'[Len(write_buf')] = <<frame, EscapedLen[frame]>>
    BY <1>2, <1>4, <2>1
  <2> QED
    BY <1>2, <2>2 DEF BufferEndsFrame
<1>8. IsSuffix(p, wire)
  BY <1>1 DEF SendingIsLast, p
<1>9. IsSuffix(q, write_buf')
  <2>1. \A k \in 1..rest : write_buf'[Len(write_buf') - rest + k] = q[k]
    <3>1. Len(write_buf') - rest = Len(write_buf)
      BY <1>2, <1>3, <1>4
    <3> QED
      BY <1>4, <3>1
  <2>2. rest <= Len(write_buf')
    BY <1>2, <1>3, <1>4
  <2> QED
    BY <1>2, <1>4, <2>1, <2>2, SuffixByElements
<1>10. ASSUME Len(write_buf') - rest > 0
       PROVE  \E f \in Frames : write_buf'[Len(write_buf') - rest] = <<f, EscapedLen[f]>>
  <2>1. Len(write_buf') - rest = Len(write_buf) /\ Len(write_buf) \in 1..Len(write_buf)
    BY <1>2, <1>3, <1>4, <1>10
  <2>2. write_buf # <<>>
    BY <1>3, <2>1, EmptySeq
  <2>3. PICK f \in Frames : write_buf[Len(write_buf)] = <<f, EscapedLen[f]>>
    BY <2>2 DEF BufferEndsFrame
  <2> QED
    BY <1>4, <2>1, <2>3
<1>11. BlockedIsKept'
  <2>1. /\ IsSuffix(SubSeq(Bytes(frame'), 1, written'), wire')
        /\ IsSuffix(SubSeq(Bytes(frame'), written' + 1, EscapedLen[frame']), write_buf')
    BY <1>1, <1>8, <1>9 DEF p, q, Bytes
  <2>2. Len(write_buf') - (EscapedLen[frame'] - written') = Len(write_buf') - rest
    BY <1>1 DEF rest
  <2> QED
    BY <1>10, <2>1, <2>2 DEF BlockedIsKept, Bytes
<1> QED
  BY <1>6, <1>7, <1>11

\* Of a frame that is sent to its end, all is on the wire.
LEMMA SendEndsKeeps ==
  ASSUME TypeOK, SendingIsLast, SendEnds
  PROVE  SuccessSendsWhole'
<1> DEFINE p == SubSeq(Bytes(frame), 1, written)
<1>1. /\ pc = "send" /\ frame' = frame /\ wire' = wire /\ written = EscapedLen[frame]
  BY DEF SendEnds
<1>2. /\ frame \in Frames /\ EscapedLen[frame] \in Nat
      /\ p \in Seq(WireByte) /\ Len(p) = EscapedLen[frame]
      /\ \A k \in 1..EscapedLen[frame] : p[k] = <<frame, k>>
  BY <1>1, SentPieces
<1>3. Bytes(frame) = p
  <2>1. /\ Bytes(frame) \in Seq(WireByte) /\ Len(Bytes(frame)) = EscapedLen[frame]
        /\ \A k \in 1..EscapedLen[frame] : Bytes(frame)[k] = <<frame, k>>
    BY <1>2, IsASeq DEF Bytes, WireByte
  <2> HIDE DEF p
  <2> QED
    BY <1>2, <2>1, SeqEqual
<1>4. IsSuffix(Bytes(frame), wire)
  BY <1>1, <1>3 DEF SendingIsLast
<1> QED
  BY <1>1, <1>4 DEF SuccessSendsWhole, Bytes

-----------------------------------------------------------------------------
(***************************************************************************)
(* A step that ends no call as "written" or "blocked", sends no byte of a  *)
(* frame and leaves the buffer alone disturbs nothing.                     *)
(***************************************************************************)
Harmless ==
  /\ write_buf' = write_buf
  /\ pc' = "send" => wire' = wire /\ frame' = frame /\ written' = written /\ pc = "send"
  /\ pc' = "idle" => result' \notin {"written", "blocked"} \/ (result' # "written" /\ frame' = None)

LEMMA HarmlessKeeps ==
  ASSUME TypeOK, SendingIsLast, BufferEndsFrame, Harmless
  PROVE  SendingIsLast' /\ BufferEndsFrame' /\ SuccessSendsWhole' /\ BlockedIsKept'
<1>1. SendingIsLast'
  BY DEF Harmless, SendingIsLast, Bytes
<1>2. BufferEndsFrame'
  BY DEF Harmless, BufferEndsFrame
<1>3. SuccessSendsWhole'
  BY DEF Harmless, SuccessSendsWhole
<1>4. BlockedIsKept'
  BY DEF Harmless, BlockedIsKept
<1> QED
  BY <1>1, <1>2, <1>3, <1>4

WriterInv ==
  TypeOK /\ SendingIsLast /\ BufferEndsFrame /\ SuccessSendsWhole /\ BlockedIsKept

LEMMA StepWrites ==
  ASSUME WriterInv, [Next]_vars
  PROVE  WriterInv'
<1> USE DEF WriterInv
<1>1. CASE Call
  <2>1. TypeOK'
    BY <1>1 DEF Call, FlushWrite, WriteFrame, TypeOK
  <2>2. Harmless
    BY <1>1 DEF Call, FlushWrite, WriteFrame, Harmless
  <2> QED
    BY <1>1, <2>1, <2>2, HarmlessKeeps DEF Call, FlushWrite, WriteFrame
<1>2. ASSUME NEW n \in 1..FRAME_BUF_SIZE, FlushWrites(n) PROVE WriterInv'
  <2>1. Harmless
    BY <1>2 DEF FlushWrites, Harmless
  <2>2. wire' \in Seq(WireByte)
    <3> DEFINE taken == SubSeq(write_buf, 1, n)
    <3>1. write_buf \in Seq(WireByte) /\ wire \in Seq(WireByte) /\ n <= Len(write_buf)
          /\ wire' = wire \o taken
      BY <1>2 DEF TypeOK, FlushWrites, Take
    <3>2. \A k \in 1..n : write_buf[k] \in WireByte
      <4>1. Len(write_buf) \in Nat /\ \A k \in 1..n : k \in 1..Len(write_buf)
        BY <3>1, LenProperties
      <4> QED
        BY <3>1, <4>1, ElementOfSeq
    <3>3. taken \in Seq(WireByte)
      BY <3>2, SubSeqProperties
    <3> HIDE DEF taken
    <3> QED
      BY <3>1, <3>3, ConcatProperties
  <2>3. TypeOK'
    BY <1>2, <2>2 DEF FlushWrites, TypeOK
  <2> QED
    BY <1>2, <2>1, <2>3, HarmlessKeeps DEF FlushWrites
<1>3. CASE FlushEnds
  <2>1. Harmless
    BY <1>3 DEF FlushEnds, Return, Harmless
  <2>2. TypeOK'
    BY <1>3 DEF FlushEnds, Return, TypeOK
  <2> QED
    BY <2>1, <2>2, HarmlessKeeps
<1>4. CASE FlushBlocks
  <2>1. Harmless
    BY <1>4 DEF FlushBlocks, Return, Harmless
  <2>2. TypeOK'
    BY <1>4 DEF FlushBlocks, Return, TypeOK
  <2> QED
    BY <2>1, <2>2, HarmlessKeeps
<1>5. CASE FlushFails \/ EscapeFails \/ Refused \/ SendFails
  <2>1. Harmless
    BY <1>5 DEF FlushFails, EscapeFails, Refused, SendFails, Return, Harmless
  <2>2. TypeOK'
    BY <1>5 DEF FlushFails, EscapeFails, Refused, SendFails, Return, TypeOK
  <2> QED
    BY <2>1, <2>2, HarmlessKeeps
<1>6. CASE SendStarts
  <2>1. /\ pc' = "send" /\ frame' = frame /\ frame \in Frames /\ written' = 0
        /\ wire' = wire /\ write_buf' = write_buf /\ result' = result
    BY <1>6 DEF SendStarts, TypeOK
  <2>2. TypeOK'
    BY <1>6, <2>1, WriterAssumption, LenProperties DEF SendStarts, HasRoom, TypeOK
  <2>3. SendingIsLast'
    <3> DEFINE none == SubSeq(Bytes(frame), 1, 0)
    <3>1. 0 \in Nat /\ 0 <= EscapedLen[frame]
      BY <2>1, WriterAssumption
    <3>2. none \in Seq(WireByte) /\ Len(none) = 0
      BY <2>1, <3>1, PieceUpTo
    <3> HIDE DEF none
    <3>3. wire \in Seq(WireByte) /\ 0 <= Len(wire) /\ 1..0 = {}
      BY LenProperties DEF TypeOK
    <3>4. IsSuffix(none, wire)
      BY <3>2, <3>3, SuffixByElements
    <3> QED
      BY <2>1, <3>4 DEF SendingIsLast, Bytes, none
  <2>4. BufferEndsFrame' /\ SuccessSendsWhole' /\ BlockedIsKept'
    BY <2>1 DEF BufferEndsFrame, SuccessSendsWhole, BlockedIsKept
  <2> QED
    BY <2>2, <2>3, <2>4
<1>7. ASSUME NEW n \in 1..FRAME_BUF_SIZE, SendWrites(n) PROVE WriterInv'
  <2>1. TypeOK' /\ SendingIsLast'
    BY <1>7, SendWritesKeeps
  <2>2. write_buf' = write_buf /\ pc' = "send" /\ result' = result
    BY <1>7 DEF SendWrites
  <2>3. BufferEndsFrame' /\ SuccessSendsWhole' /\ BlockedIsKept'
    BY <2>2 DEF BufferEndsFrame, SuccessSendsWhole, BlockedIsKept
  <2> QED
    BY <2>1, <2>3
<1>8. CASE SendEnds
  <2>1. /\ write_buf' = write_buf /\ pc' = "idle" /\ result' = "written"
    BY <1>8 DEF SendEnds, Return
  <2>2. TypeOK'
    BY <1>8 DEF SendEnds, Return, TypeOK
  <2>3. SuccessSendsWhole'
    BY <1>8, SendEndsKeeps
  <2>4. SendingIsLast' /\ BufferEndsFrame' /\ BlockedIsKept'
    BY <2>1 DEF SendingIsLast, BufferEndsFrame, BlockedIsKept
  <2> QED
    BY <2>2, <2>3, <2>4
<1>9. CASE SendBlocks
  <2>1. TypeOK' /\ BufferEndsFrame' /\ BlockedIsKept'
    BY <1>9, SendBlocksKeeps
  <2>2. pc' = "idle" /\ result' = "blocked"
    BY <1>9 DEF SendBlocks, Return
  <2>3. SendingIsLast' /\ SuccessSendsWhole'
    BY <2>2 DEF SendingIsLast, SuccessSendsWhole
  <2> QED
    BY <2>1, <2>2, <2>3
<1>10. CASE UNCHANGED vars
  <2>1. TypeOK' /\ SendingIsLast' /\ BufferEndsFrame' /\ SuccessSendsWhole' /\ BlockedIsKept'
    BY <1>10 DEF vars, TypeOK, SendingIsLast, BufferEndsFrame, SuccessSendsWhole,
                 BlockedIsKept, Bytes
  <2> QED
    BY <2>1
<1> QED
  BY <1>1, <1>2, <1>3, <1>4, <1>5, <1>6, <1>7, <1>8, <1>9, <1>10 DEF Next, Flushing, Sending

(***************************************************************************)
(* For every set of frames and every buffer: what is written successfully  *)
(* is on the wire as a whole, what is blocked is split between the wire    *)
(* and the buffer, and the buffer keeps within its size.                   *)
(***************************************************************************)
THEOREM WritesAreKept == Spec => [](TypeOK /\ SuccessSendsWhole /\ BlockedIsKept)
<1>1. Init => WriterInv
  BY InitWrites DEF WriterInv
<1>2. WriterInv /\ [Next]_vars => WriterInv'
  BY StepWrites
<1>3. WriterInv => TypeOK /\ SuccessSendsWhole /\ BlockedIsKept
  BY DEF WriterInv
<1> QED
  BY <1>1, <1>2, <1>3, PTL DEF Spec

\* In particular the write buffer never holds more than its size.
THEOREM WriterTypeCorrect == Spec => []TypeOK
<1>1. TypeOK /\ SuccessSendsWhole /\ BlockedIsKept => TypeOK
  OBVIOUS
<1> QED
  BY <1>1, WritesAreKept, PTL

\* And the rest of a blocked frame is what its buffer ends with.
THEOREM BlockedRestIsKept == Spec => []BlockedIsKept
<1>1. TypeOK /\ SuccessSendsWhole /\ BlockedIsKept => BlockedIsKept
  OBVIOUS
<1> QED
  BY <1>1, WritesAreKept, PTL
=============================================================================
