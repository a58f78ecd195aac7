-------------------------- MODULE PacketRoundProofs -------------------------
(***************************************************************************)
(* That a packet is encoded to the very bytes it was parsed from, in a     *)
(* frame of just their number (EncodesParsed), for every type, payload and *)
(* count, but for the packets that are listed.                             *)
(*                                                                         *)
(* First the tables, by looking at them: each layout that writes spells    *)
(* the one that parses, and its frame has the size of what it writes       *)
(* (Spells, CaseRound, AllRound).  What a writer would do is a set of its  *)
(* stacks, each with the number of bytes written when it is there, closed  *)
(* under its steps (Trace): while a packet is parsed there is such a set   *)
(* for the bytes read so far, which ends with the stack that spells what   *)
(* is still to be parsed (Traces, Stage).  It takes the place of the       *)
(* parser's history, of which the state keeps no record.  When the packet  *)
(* is encoded, the writer is at an element of the set, with as many bytes  *)
(* written as it says (Encodes); the sum for the size of the frame runs    *)
(* through the same set ahead of it (Aligned, Opened, AddsUp), so that     *)
(* nothing need be known of what a sum comes to.  RoundInv is all of this. *)
(***************************************************************************)
EXTENDS PacketLeakProofs, WellFoundedInduction

-----------------------------------------------------------------------------
(***************************************************************************)
(* What a packet is encoded to.  The writer is at a stack st and has       *)
(* written p bytes; with the fields F and the blocks of bytes B it writes  *)
(* what r holds behind them, and is at st2 then, with p2 bytes written.    *)
(***************************************************************************)
CountAt(item) == Append(item.path, item.field.count)

PutSpelled(st, p, st2, p2, F, r) ==
  /\ st[1].field.op = "put"
  /\ Spot(st[1]) \in DOMAIN F /\ p < Len(r) /\ r[p + 1] = F[Spot(st[1])]
  /\ st2 = Tail(st) /\ p2 = p + 1

BytesSpelled(st, p, st2, p2, F, B, r) ==
  LET n     == F[CountAt(st[1])]
      block == B[Spot(st[1])] IN
  /\ st[1].field.op = "putbytes"
  /\ CountAt(st[1]) \in DOMAIN F /\ Spot(st[1]) \in DOMAIN B
  /\ n \in Nat /\ p + n <= Len(r)
  /\ \A i \in 1..n : r[p + i] = IF i <= Len(block) THEN block[i] ELSE Unset
  /\ st2 = Tail(st) /\ p2 = p + n

ArraySpelled(st, p, st2, p2) ==
  st[1].field.op = "each" /\ st2 = LoopOf(st[1]) \o Tail(st) /\ p2 = p

TurnSpelled(st, p, st2, p2, F) ==
  /\ st[1].field.op = "loop" /\ p2 = p
  /\ CountAt(st[1]) \in DOMAIN F
  /\ \/ st[1].field.done = F[CountAt(st[1])] /\ st2 = Tail(st)
     \/ st[1].field.done # F[CountAt(st[1])] /\ st2 = TurnOf(st[1]) \o Tail(st)

Spelled(st, p, st2, p2, F, B, r) ==
  \/ PutSpelled(st, p, st2, p2, F, r) \/ BytesSpelled(st, p, st2, p2, F, B, r)
  \/ ArraySpelled(st, p, st2, p2) \/ TurnSpelled(st, p, st2, p2, F)

\* The stacks a writer comes by: from s0, with the type written, to s, with r.
Trace(H, s0, s, F, B, r) ==
  /\ IsSeq(r)
  /\ <<s0, 1>> \in H /\ <<s, Len(r)>> \in H
  /\ \A st, p : <<st, p>> \in H =>
       /\ IsSeq(st) /\ p \in Nat
       /\ \/ st = s /\ p = Len(r)
          \/ /\ st # <<>>
             /\ \E st2, p2 : <<st2, p2>> \in H /\ Spelled(st, p, st2, p2, F, B, r)

Keeps(F, F2) == \A q \in DOMAIN F : q \in DOMAIN F2 /\ F2[q] = F[q]

Continues(r, r2) ==
  IsSeq(r2) /\ Len(r) <= Len(r2) /\ \A i \in 1..Len(r) : r2[i] = r[i]

\* What has been spelled stays so as the packet and the payload grow.
LEMMA SpelledMore ==
  ASSUME NEW st, NEW p \in Nat, NEW st2, NEW p2, NEW F, NEW B, NEW r, IsSeq(r),
         Spelled(st, p, st2, p2, F, B, r),
         NEW F2, NEW B2, NEW r2, Keeps(F, F2), Keeps(B, B2), Continues(r, r2)
  PROVE  Spelled(st, p, st2, p2, F2, B2, r2)
<1>1. Len(r) \in Nat /\ Len(r2) \in Nat
  BY SeqLen DEF Continues
<1>2. CASE PutSpelled(st, p, st2, p2, F, r)
  <2>1. PutSpelled(st, p, st2, p2, F2, r2)
    BY <1>1, <1>2 DEF PutSpelled, Keeps, Continues
  <2> QED
    BY <2>1 DEF Spelled
<1>3. CASE BytesSpelled(st, p, st2, p2, F, B, r)
  <2> DEFINE c == CountAt(st[1])
             q == Spot(st[1])
  <2>1. /\ st[1].field.op = "putbytes" /\ c \in DOMAIN F /\ q \in DOMAIN B
        /\ F[c] \in Nat /\ p + F[c] <= Len(r)
        /\ \A i \in 1..F[c] : r[p + i] = IF i <= Len(B[q]) THEN B[q][i] ELSE Unset
        /\ st2 = Tail(st) /\ p2 = p + F[c]
    BY <1>3 DEF BytesSpelled
  <2> HIDE DEF c, q
  <2>2. c \in DOMAIN F2 /\ F2[c] = F[c] /\ q \in DOMAIN B2 /\ B2[q] = B[q]
    BY <2>1 DEF Keeps
  <2>3. p + F[c] <= Len(r2)
    BY <1>1, <2>1 DEF Continues
  <2>4. \A i \in 1..F[c] : r2[p + i] = r[p + i]
    <3> SUFFICES ASSUME NEW i \in 1..F[c] PROVE r2[p + i] = r[p + i]
      OBVIOUS
    <3>1. p + i \in 1..Len(r)
      BY <1>1, <2>1
    <3> QED
      BY <3>1 DEF Continues
  <2>5. BytesSpelled(st, p, st2, p2, F2, B2, r2)
    BY <2>1, <2>2, <2>3, <2>4 DEF BytesSpelled, c, q
  <2> QED
    BY <2>5 DEF Spelled
<1>4. CASE ArraySpelled(st, p, st2, p2)
  BY <1>4 DEF Spelled
<1>5. CASE TurnSpelled(st, p, st2, p2, F)
  <2>1. TurnSpelled(st, p, st2, p2, F2)
    BY <1>5 DEF TurnSpelled, Keeps
  <2> QED
    BY <2>1 DEF Spelled
<1> QED
  BY <1>2, <1>3, <1>4, <1>5 DEF Spelled

LEMMA TraceStarts ==
  ASSUME NEW s0, IsSeq(s0), NEW F, NEW B, NEW t
  PROVE  Trace({<<s0, 1>>}, s0, s0, F, B, <<t>>)
<1>1. IsSeq(<<t>>) /\ Len(<<t>>) = 1
  BY Tuple1
<1>2. \A st, p : <<st, p>> \in {<<s0, 1>>} => st = s0 /\ p = 1
  OBVIOUS
<1> QED
  BY <1>1, <1>2 DEF Trace

\* One stack more.
LEMMA TraceStep ==
  ASSUME NEW H, NEW s0, NEW s, NEW F, NEW B, NEW r, Trace(H, s0, s, F, B, r), s # <<>>,
         NEW F2, NEW B2, NEW r2, Keeps(F, F2), Keeps(B, B2), Continues(r, r2),
         NEW s2, IsSeq(s2), Spelled(s, Len(r), s2, Len(r2), F2, B2, r2)
  PROVE  Trace(H \cup {<<s2, Len(r2)>>}, s0, s2, F2, B2, r2)
<1> DEFINE H2 == H \cup {<<s2, Len(r2)>>}
<1>1. IsSeq(r2) /\ Len(r2) \in Nat /\ <<s0, 1>> \in H2 /\ <<s2, Len(r2)>> \in H2
  BY SeqLen DEF Continues, Trace
<1>2. ASSUME NEW st, NEW p, <<st, p>> \in H2
      PROVE  /\ IsSeq(st) /\ p \in Nat
             /\ \/ st = s2 /\ p = Len(r2)
                \/ /\ st # <<>>
                   /\ \E st2, p2 : <<st2, p2>> \in H2 /\ Spelled(st, p, st2, p2, F2, B2, r2)
  <2>1. CASE <<st, p>> \in H
    <3>1. IsSeq(st) /\ p \in Nat /\ IsSeq(r)
      BY <2>1 DEF Trace
    <3>2. CASE st = s /\ p = Len(r)
      BY <1>1, <3>1, <3>2
    <3>3. CASE /\ st # <<>>
               /\ \E st2, p2 : <<st2, p2>> \in H /\ Spelled(st, p, st2, p2, F, B, r)
      <4>1. PICK st2, p2 : <<st2, p2>> \in H /\ Spelled(st, p, st2, p2, F, B, r)
        BY <3>3
      <4>2. Spelled(st, p, st2, p2, F2, B2, r2)
        BY <3>1, <4>1, SpelledMore
      <4> QED
        BY <3>1, <3>3, <4>1, <4>2
    <3> QED
      BY <2>1, <3>2, <3>3 DEF Trace
  <2>2. CASE <<st, p>> = <<s2, Len(r2)>>
    BY <1>1, <2>2
  <2> QED
    BY <1>2, <2>1, <2>2
<1> QED
  BY <1>1, <1>2 DEF Trace

\* Where a complete trace goes on, and where it ends.
LEMMA TraceGoesOn ==
  ASSUME NEW H, NEW s0, NEW F, NEW B, NEW r, Trace(H, s0, <<>>, F, B, r),
         NEW st, NEW p, <<st, p>> \in H
  PROVE  /\ IsSeq(st) /\ p \in Nat /\ IsSeq(r) /\ Len(r) \in Nat
         /\ st = <<>> => p = Len(r)
         /\ st # <<>> => \E st2, p2 : <<st2, p2>> \in H /\ Spelled(st, p, st2, p2, F, B, r)
BY SeqLen DEF Trace

-----------------------------------------------------------------------------
\* The steps of a writer, one macro each.
LEMMA PutStep ==
  ASSUME NEW H, NEW s0, NEW s, NEW F, NEW B, NEW r, Trace(H, s0, s, F, B, r),
         s # <<>>, s[1].field.op = "put",
         NEW F2, NEW B2, Keeps(F, F2), Keeps(B, B2), Spot(s[1]) \in DOMAIN F2,
         NEW r2, r2 = Append(r, F2[Spot(s[1])])
  PROVE  \E H2 : Trace(H2, s0, Tail(s), F2, B2, r2)
<1>1. IsSeq(r) /\ IsSeq(s) /\ Len(r) \in Nat
  BY SeqLen DEF Trace
<1>2. /\ IsSeq(r2) /\ Len(r2) = Len(r) + 1 /\ r2[Len(r) + 1] = F2[Spot(s[1])]
      /\ \A i \in 1..Len(r) : r2[i] = r[i]
  BY <1>1, SpotIs
<1>3. Continues(r, r2)
  BY <1>1, <1>2 DEF Continues
<1>4. PutSpelled(s, Len(r), Tail(s), Len(r2), F2, r2)
  BY <1>1, <1>2 DEF PutSpelled
<1>5. IsSeq(Tail(s))
  BY <1>1, SeqTail
<1> QED
  BY <1>3, <1>4, <1>5, TraceStep DEF Spelled

LEMMA BytesStep ==
  ASSUME NEW H, NEW s0, NEW s, NEW F, NEW B, NEW r, Trace(H, s0, s, F, B, r),
         s # <<>>, s[1].field.op = "putbytes",
         NEW F2, NEW B2, Keeps(F, F2), Keeps(B, B2),
         CountAt(s[1]) \in DOMAIN F2, F2[CountAt(s[1])] \in Nat, Spot(s[1]) \in DOMAIN B2,
         NEW w, w = [i \in 1..F2[CountAt(s[1])] |->
                       IF i <= Len(B2[Spot(s[1])]) THEN B2[Spot(s[1])][i] ELSE Unset],
         NEW r2, r2 = r \o w
  PROVE  \E H2 : Trace(H2, s0, Tail(s), F2, B2, r2)
<1> DEFINE n == F2[CountAt(s[1])]
           b == B2[Spot(s[1])]
<1>1. IsSeq(r) /\ IsSeq(s) /\ Len(r) \in Nat
  BY SeqLen DEF Trace
<1>2. IsSeq(w) /\ Len(w) = n /\ \A i \in 1..n : w[i] = IF i <= Len(b) THEN b[i] ELSE Unset
  <2>1. n \in Nat
    OBVIOUS
  <2> HIDE DEF n, b
  <2>2. w = [i \in 1..n |-> IF i <= Len(b) THEN b[i] ELSE Unset]
    BY DEF n, b
  <2>3. w = [i \in 1..n |-> w[i]]
    BY <2>2
  <2>4. IsSeq(w) /\ Len(w) = n
    BY <2>1, <2>3, SeqMade
  <2> QED
    BY <2>2, <2>4
<1>3. /\ IsSeq(r2) /\ Len(r2) = Len(r) + n
      /\ \A i \in 1..Len(r) : r2[i] = r[i]
      /\ \A i \in 1..n : r2[Len(r) + i] = w[i]
  BY <1>1, <1>2, SeqConcat
<1>4. n \in Nat
  OBVIOUS
<1>5. Continues(r, r2)
  BY <1>1, <1>3, <1>4 DEF Continues
<1>6. BytesSpelled(s, Len(r), Tail(s), Len(r2), F2, B2, r2)
  BY <1>1, <1>2, <1>3, <1>4 DEF BytesSpelled
<1>7. IsSeq(Tail(s))
  BY <1>1, SeqTail
<1> QED
  BY <1>5, <1>6, <1>7, TraceStep DEF Spelled

LEMMA StillSpelled ==
  ASSUME NEW H, NEW s0, NEW s, NEW F, NEW B, NEW r, Trace(H, s0, s, F, B, r), s # <<>>,
         NEW F2, NEW B2, Keeps(F, F2), Keeps(B, B2),
         NEW s2, IsSeq(s2),
         ArraySpelled(s, Len(r), s2, Len(r)) \/ TurnSpelled(s, Len(r), s2, Len(r), F2)
  PROVE  \E H2 : Trace(H2, s0, s2, F2, B2, r)
<1>1. Continues(r, r)
  BY SeqLen DEF Trace, Continues
<1> QED
  BY <1>1, TraceStep DEF Spelled

\* A packet that grows takes nothing back.
LEMMA TraceKeeps ==
  ASSUME NEW H, NEW s0, NEW s, NEW F, NEW B, NEW r, Trace(H, s0, s, F, B, r),
         NEW F2, NEW B2, Keeps(F, F2), Keeps(B, B2)
  PROVE  Trace(H, s0, s, F2, B2, r)
<1>1. Continues(r, r) /\ IsSeq(r)
  BY SeqLen DEF Trace, Continues
<1>2. \A st, p, st2, p2 : p \in Nat /\ Spelled(st, p, st2, p2, F, B, r)
                            => Spelled(st, p, st2, p2, F2, B2, r)
  BY <1>1, SpelledMore
<1>3. ASSUME NEW st, NEW p, <<st, p>> \in H
      PROVE  /\ IsSeq(st) /\ p \in Nat
             /\ \/ st = s /\ p = Len(r)
                \/ /\ st # <<>>
                   /\ \E st2, p2 : <<st2, p2>> \in H /\ Spelled(st, p, st2, p2, F2, B2, r)
  <2>1. /\ IsSeq(st) /\ p \in Nat
        /\ \/ st = s /\ p = Len(r)
           \/ /\ st # <<>>
              /\ \E st2, p2 : <<st2, p2>> \in H /\ Spelled(st, p, st2, p2, F, B, r)
    BY <1>3 DEF Trace
  <2> QED
    BY <1>2, <2>1
<1> QED
  BY <1>1, <1>3 DEF Trace

-----------------------------------------------------------------------------
(***************************************************************************)
(* A layout w spells a layout l: it writes what l parses, field by field   *)
(* and down to the elements of its arrays.                                 *)
(***************************************************************************)
\* A block of bytes comes right behind the number of them.
Measured(l) ==
  \A i \in 1..Len(l) : l[i].op = "bytes" =>
    i > 1 /\ l[i - 1].op \in Readers /\ l[i - 1].name = l[i].count

SpellsStep(l, w, S) ==
  /\ IsSeq(l) /\ IsSeq(w) /\ Len(w) = Len(l) /\ Measured(l)
  /\ \A i \in 1..Len(l) :
       /\ w[i].name = l[i].name
       /\ \/ l[i].op \in {"enum", "plain", "count"} /\ w[i].op = "put"
          \/ l[i].op = "bytes" /\ w[i].op = "putbytes" /\ w[i].count = l[i].count
          \/ /\ l[i].op = "each" /\ w[i].op = "each" /\ w[i].count = l[i].count
             /\ <<l[i].element, w[i].element>> \in S

SpellsSet(S) == \A l, w : <<l, w>> \in S => SpellsStep(l, w, S)

Spells(l, w) == \E S : <<l, w>> \in S /\ SpellsSet(S)

SpellsField(f, g) ==
  /\ g.name = f.name
  /\ \/ f.op \in Readers /\ g.op = "put"
     \/ f.op = "bytes" /\ g.op = "putbytes" /\ g.count = f.count
     \/ f.op = "each" /\ g.op = "each" /\ g.count = f.count /\ Spells(f.element, g.element)
     \/ /\ f.op = "loop" /\ g = LoopField(g, f.done) /\ g.count = f.count
        /\ Spells(f.element, g.element)

SpellsItem(x, y) == y = [path |-> x.path, field |-> y.field] /\ SpellsField(x.field, y.field)

SpellsStack(t, s) ==
  IsSeq(t) /\ IsSeq(s) /\ Len(s) = Len(t) /\ \A i \in 1..Len(t) : SpellsItem(t[i], s[i])

LEMMA SpellsIs ==
  ASSUME NEW l, NEW w, Spells(l, w)
  PROVE  /\ IsSeq(l) /\ IsSeq(w) /\ Len(w) = Len(l) /\ Measured(l)
         /\ \A i \in 1..Len(l) : SpellsField(l[i], w[i])
<1>1. PICK S : <<l, w>> \in S /\ SpellsSet(S)
  BY DEF Spells
<1>2. SpellsStep(l, w, S)
  BY <1>1, Zenon DEF SpellsSet
<1>3. \A k, v : <<k, v>> \in S => Spells(k, v)
  BY <1>1, Zenon DEF Spells
<1>4. ASSUME NEW i \in 1..Len(l) PROVE SpellsField(l[i], w[i])
  <2>1. CASE l[i].op = "each"
    <3>1. /\ w[i].name = l[i].name /\ w[i].op = "each" /\ w[i].count = l[i].count
          /\ <<l[i].element, w[i].element>> \in S
      BY <1>2, <2>1 DEF SpellsStep
    <3>2. Spells(l[i].element, w[i].element)
      BY <1>3, <3>1
    <3> QED
      BY <2>1, <3>1, <3>2 DEF SpellsField
  <2>2. CASE l[i].op # "each"
    BY <1>2, <2>2 DEF SpellsStep, SpellsField, Readers
  <2> QED
    BY <2>1, <2>2
<1> QED
  BY <1>2, <1>4 DEF SpellsStep

LEMMA SpellsMore ==
  ASSUME NEW S, NEW T, S \subseteq T, NEW l, NEW w, SpellsStep(l, w, S)
  PROVE  SpellsStep(l, w, T)
BY DEF SpellsStep

LEMMA SpellsIntro ==
  ASSUME NEW l, NEW w, NEW P, SpellsStep(l, w, P),
         \A m \in P : m = <<m[1], m[2]>> /\ Spells(m[1], m[2])
  PROVE  Spells(l, w)
<1> DEFINE G(m) == CHOOSE S : m \in S /\ SpellsSet(S)
           A == UNION {G(m) : m \in P}
           T == A \cup {<<l, w>>}
<1>1. ASSUME NEW m \in P PROVE m \in G(m) /\ SpellsSet(G(m))
  <2>1. \E S : m \in S /\ SpellsSet(S)
    <3>1. \E S : <<m[1], m[2]>> \in S /\ SpellsSet(S)
      BY Zenon DEF Spells
    <3>2. m = <<m[1], m[2]>>
      OBVIOUS
    <3> QED
      BY <3>1, <3>2
  <2> QED
    BY <2>1, Zenon
<1> HIDE DEF G
<1>2. P \subseteq A
  BY <1>1
<1>3. ASSUME NEW k, NEW v, <<k, v>> \in A PROVE SpellsStep(k, v, T)
  <2>1. PICK m \in P : <<k, v>> \in G(m)
    BY <1>3
  <2>2. SpellsStep(k, v, G(m))
    BY <1>1, <2>1, Zenon DEF SpellsSet
  <2>3. G(m) \subseteq T
    OBVIOUS
  <2> HIDE DEF T
  <2> QED
    BY <2>2, <2>3, SpellsMore
<1>4. SpellsStep(l, w, T)
  <2>1. P \subseteq T
    BY <1>2
  <2> HIDE DEF T
  <2> QED
    BY <2>1, SpellsMore
<1>5. SpellsSet(T)
  <2>1. ASSUME NEW k, NEW v, <<k, v>> \in T PROVE SpellsStep(k, v, T)
    <3>1. <<k, v>> \in A \/ (k = l /\ v = w)
      BY <2>1
    <3> HIDE DEF T, A
    <3> QED
      BY <3>1, <1>3, <1>4
  <2> QED
    BY <2>1, Zenon DEF SpellsSet
<1>6. <<l, w>> \in T
  OBVIOUS
<1> HIDE DEF T
<1> QED
  BY <1>5, <1>6, Zenon DEF Spells

LEMMA SpellsConcat ==
  ASSUME NEW t, NEW s, SpellsStack(t, s), NEW t2, NEW s2, SpellsStack(t2, s2)
  PROVE  SpellsStack(t \o t2, s \o s2)
<1>1. /\ IsSeq(t) /\ IsSeq(s) /\ Len(s) = Len(t) /\ \A i \in 1..Len(t) : SpellsItem(t[i], s[i])
      /\ IsSeq(t2) /\ IsSeq(s2) /\ Len(s2) = Len(t2)
      /\ \A i \in 1..Len(t2) : SpellsItem(t2[i], s2[i])
  BY DEF SpellsStack
<1>2. Len(t) \in Nat /\ Len(t2) \in Nat
  BY <1>1, SeqLen
<1>3. /\ IsSeq(t \o t2) /\ Len(t \o t2) = Len(t) + Len(t2)
      /\ \A i \in 1..Len(t) : (t \o t2)[i] = t[i]
      /\ \A i \in 1..Len(t2) : (t \o t2)[Len(t) + i] = t2[i]
  BY <1>1, SeqConcat
<1>4. /\ IsSeq(s \o s2) /\ Len(s \o s2) = Len(t) + Len(t2)
      /\ \A i \in 1..Len(t) : (s \o s2)[i] = s[i]
      /\ \A i \in 1..Len(t2) : (s \o s2)[Len(t) + i] = s2[i]
  BY <1>1, SeqConcat
<1> DEFINE u == t \o t2
           v == s \o s2
<1> HIDE DEF u, v
<1>5. ASSUME NEW i \in 1..(Len(t) + Len(t2)) PROVE SpellsItem(u[i], v[i])
  <2>1. CASE i <= Len(t)
    <3>1. i \in 1..Len(t)
      BY <1>2, <2>1
    <3>2. u[i] = t[i] /\ v[i] = s[i]
      BY <3>1, <1>3, <1>4 DEF u, v
    <3> QED
      BY <1>1, <3>1, <3>2
  <2>2. CASE i > Len(t)
    <3> DEFINE j == i - Len(t)
    <3>1. j \in 1..Len(t2) /\ i = Len(t) + j
      BY <1>2, <2>2
    <3> HIDE DEF j
    <3>2. u[i] = t2[j] /\ v[i] = s2[j]
      BY <3>1, <1>3, <1>4 DEF u, v
    <3> QED
      BY <1>1, <3>1, <3>2
  <2> QED
    BY <1>2, <2>1, <2>2
<1> QED
  BY <1>3, <1>4, <1>5 DEF SpellsStack, u, v

LEMMA SpellsTail ==
  ASSUME NEW t, NEW s, SpellsStack(t, s), t # <<>>
  PROVE  /\ s # <<>> /\ SpellsItem(t[1], s[1])
         /\ SpellsStack(Tail(t), Tail(s))
         /\ IsSeq(s) /\ IsSeq(t)
<1>1. /\ IsSeq(t) /\ IsSeq(s) /\ Len(s) = Len(t) /\ \A i \in 1..Len(t) : SpellsItem(t[i], s[i])
  BY DEF SpellsStack
<1>2. /\ Len(t) \in Nat /\ Len(t) > 0
      /\ IsSeq(Tail(t)) /\ Len(Tail(t)) = Len(t) - 1
      /\ \A i \in 1..(Len(t) - 1) : Tail(t)[i] = t[i + 1]
  BY <1>1, SeqLen, SeqTail
<1>3. s # <<>>
  BY <1>1, <1>2
<1>4. /\ IsSeq(Tail(s)) /\ Len(Tail(s)) = Len(t) - 1
      /\ \A i \in 1..(Len(t) - 1) : Tail(s)[i] = s[i + 1]
  BY <1>1, <1>3, SeqTail
<1>5. \A i \in 1..(Len(t) - 1) : SpellsItem(Tail(t)[i], Tail(s)[i])
  <2> SUFFICES ASSUME NEW i \in 1..(Len(t) - 1) PROVE SpellsItem(Tail(t)[i], Tail(s)[i])
    OBVIOUS
  <2>1. i + 1 \in 1..Len(t)
    BY <1>2
  <2>2. Tail(t)[i] = t[i + 1] /\ Tail(s)[i] = s[i + 1]
    BY <1>2, <1>4
  <2> QED
    BY <1>1, <2>1, <2>2
<1> QED
  BY <1>1, <1>2, <1>3, <1>4, <1>5 DEF SpellsStack

LEMMA SpellsEnter ==
  ASSUME NEW path, NEW l, NEW w, Spells(l, w)
  PROVE  SpellsStack(Enter(path, l), Enter(path, w))
<1>1. /\ IsSeq(l) /\ IsSeq(w) /\ Len(w) = Len(l)
      /\ \A i \in 1..Len(l) : SpellsField(l[i], w[i])
  BY SpellsIs
<1> DEFINE t == Enter(path, l)
           s == Enter(path, w)
<1>2. /\ IsSeq(t) /\ Len(t) = Len(l)
      /\ \A i \in 1..Len(l) : t[i] = [path |-> path, field |-> l[i]]
  BY <1>1, SeqEnter
<1>3. /\ IsSeq(s) /\ Len(s) = Len(l)
      /\ \A i \in 1..Len(l) : s[i] = [path |-> path, field |-> w[i]]
  BY <1>1, SeqEnter
<1> HIDE DEF t, s
<1>4. ASSUME NEW i \in 1..Len(l) PROVE SpellsItem(t[i], s[i])
  <2>1. t[i] = [path |-> path, field |-> l[i]] /\ s[i] = [path |-> path, field |-> w[i]]
    BY <1>2, <1>3
  <2>2. t[i].path = path /\ t[i].field = l[i] /\ s[i].field = w[i]
    BY <2>1
  <2>3. SpellsField(t[i].field, s[i].field)
    BY <1>1, <2>2
  <2> QED
    BY <2>1, <2>2, <2>3 DEF SpellsItem
<1> QED
  BY <1>2, <1>3, <1>4 DEF SpellsStack, t, s

LEMMA SpellsOne ==
  ASSUME NEW x, NEW y, SpellsItem(x, y)
  PROVE  SpellsStack(<<x>>, <<y>>)
<1>1. /\ IsSeq(<<x>>) /\ Len(<<x>>) = 1 /\ <<x>>[1] = x
      /\ IsSeq(<<y>>) /\ Len(<<y>>) = 1 /\ <<y>>[1] = y
  BY SeqOne
<1>2. \A i \in 1..1 : SpellsItem(<<x>>[i], <<y>>[i])
  BY <1>1
<1> QED
  BY <1>1, <1>2 DEF SpellsStack

LEMMA SpellsLoop ==
  ASSUME NEW x, NEW y, SpellsItem(x, y), x.field.op = "each"
  PROVE  SpellsStack(LoopOf(x), LoopOf(y))
<1> DEFINE a == [path |-> x.path, field |-> LoopField(x.field, 0)]
           b == [path |-> y.path, field |-> LoopField(y.field, 0)]
<1>1. LoopOf(x) = <<a>> /\ LoopOf(y) = <<b>>
  BY DEF LoopOf, LoopField
<1>2. /\ y.path = x.path /\ y.field.name = x.field.name /\ y.field.count = x.field.count
      /\ Spells(x.field.element, y.field.element)
  BY DEF SpellsItem, SpellsField, Readers
<1>3. SpellsItem(a, b)
  BY <1>2 DEF SpellsItem, SpellsField, LoopField
<1> HIDE DEF a, b
<1> QED
  BY <1>1, <1>3, SpellsOne

LEMMA SpellsTurn ==
  ASSUME NEW x, NEW y, SpellsItem(x, y), x.field.op = "loop", TidyItem(x)
  PROVE  SpellsStack(TurnOf(x), TurnOf(y))
<1>1. /\ y = [path |-> x.path, field |-> y.field] /\ y.field = LoopField(y.field, x.field.done)
      /\ y.field.name = x.field.name /\ y.field.count = x.field.count
      /\ Spells(x.field.element, y.field.element)
  BY DEF SpellsItem, SpellsField, Readers
<1>2. /\ y.path = x.path /\ y.field.done = x.field.done
  BY <1>1 DEF LoopField
<1>3. NextElement(y) = NextElement(x)
  BY <1>1, <1>2 DEF NextElement
<1>4. SpellsStack(Enter(NextElement(x), x.field.element), Enter(NextElement(y), y.field.element))
  BY <1>1, <1>3, SpellsEnter
<1>5. SpellsItem(Later(x), Later(y))
  <2>1. /\ Later(x).path = x.path
        /\ Later(x).field = LoopField(x.field, x.field.done + 1)
    BY LaterIs DEF LoopField
  <2>2. Later(y) = [path |-> x.path, field |-> LoopField(y.field, x.field.done + 1)]
    BY <1>1, LaterShape
  <2> QED
    BY <1>1, <2>1, <2>2 DEF SpellsItem, SpellsField, LoopField
<1>6. SpellsStack(<<Later(x)>>, <<Later(y)>>)
  BY <1>5, SpellsOne
<1> QED
  BY <1>4, <1>6, SpellsConcat DEF TurnOf

-----------------------------------------------------------------------------
(***************************************************************************)
(* The layouts a frame is written by.  Its size is known beforehand: it is *)
(* the number of its fields, or that and what a count says of the last of  *)
(* them, or it is added up in a loop over the array that comes last.       *)
(***************************************************************************)
AllPuts(w) == IsSeq(w) /\ \A i \in 1..Len(w) : w[i].op = "put"

\* n fields of one byte, and after them one of as many as there is in `count',
\* or an array of that many elements of `factor' bytes.
PutsAndLast(w, skip, n, factor, count) ==
  /\ IsSeq(w) /\ n \in Nat /\ Len(w) = skip + n + 1
  /\ \A i \in 1..n : w[skip + i].op = "put"
  /\ w[skip + n + 1].count = count /\ count # None
  /\ \/ w[skip + n + 1].op = "putbytes" /\ factor = 1
     \/ /\ w[skip + n + 1].op = "each" /\ factor \in {1, 2}
        /\ AllPuts(w[skip + n + 1].element) /\ Len(w[skip + n + 1].element) = factor

SizedPuts(w) ==
  /\ w[1].op = "start" /\ w[1].count = None /\ w[1].n = Len(w) - 1
  /\ \A i \in 2..Len(w) : w[i].op = "put"

SizedLast(w) == w[1].op = "start" /\ PutsAndLast(w, 1, w[1].n, 1, w[1].count)

SumsOne(a, w) ==
  /\ IsSeq(a) /\ Len(a) = 1 /\ a[1].op = "add"
  /\ PutsAndLast(w, 0, a[1].n, a[1].factor, a[1].count)

SumsMore(a, w) ==
  /\ IsSeq(a) /\ Len(a) = 2 /\ a[1].op = "add" /\ a[1].factor = 0 /\ a[1].count = None
  /\ IsSeq(w) /\ a[1].n \in Nat /\ Len(w) = a[1].n + 1
  /\ \A i \in 1..a[1].n : w[i].op = "put"
  /\ a[2].op = "each" /\ w[a[1].n + 1].op = "each"
  /\ a[2].name = w[a[1].n + 1].name /\ a[2].count = w[a[1].n + 1].count
  /\ SumsOne(a[2].element, w[a[1].n + 1].element)

Sums(a, w) == SumsOne(a, w) \/ SumsMore(a, w)

SizedBefore(w) ==
  /\ w[1].op = "each" /\ w[2].op = "start" /\ w[2].count = None
  /\ w[2].n \in Nat /\ Len(w) = w[2].n + 3
  /\ \A i \in 3..(Len(w) - 1) : w[i].op = "put"
  /\ w[Len(w)].op = "each"
  /\ w[1].name = w[Len(w)].name /\ w[1].count = w[Len(w)].count
  /\ Sums(w[1].element, w[Len(w)].element)

Framable(w) ==
  IsSeq(w) /\ Len(w) > 1 /\ (SizedPuts(w) \/ SizedLast(w) \/ SizedBefore(w))

\* How many of the fields come before the ones that are written.
Ahead(w) == IF w[1].op = "start" THEN 1 ELSE 2

\* Layouts whose last frame is large enough for the bytes written to it.
SpoiltFrame(w) ==
  /\ IsSeq(w) /\ \A i \in 1..Len(w) : w[i].op \in {"start", "put"}
  /\ \E k \in 1..Len(w) :
       /\ w[k].op = "start" /\ w[k].count = None /\ w[k].n \in Nat /\ w[k].n >= Len(w) - k
       /\ \A i \in (k + 1)..Len(w) : w[i].op = "put"

-----------------------------------------------------------------------------
(***************************************************************************)
(* What is parsed by lc, with k fields of l before it, is written by w.    *)
(***************************************************************************)
PlayParams == {"PLAY_RET_PARAM", "PLAY_SET_PARAM", "PLAY_NTFY_PARAM"}
NcasmParams == {"NCASM_RET_PARAM", "NCASM_SET_PARAM", "NCASM_NTFY_PARAM"}
BatteryLevels == {"COMMON_RET_BATTERY_LEVEL", "COMMON_NTFY_BATTERY_LEVEL"}

SpellsFrom(l, w, j) ==
  /\ IsSeq(l) /\ IsSeq(w) /\ Len(w) = Len(l) + j /\ Measured(l)
  /\ \A i \in 1..Len(l) : SpellsField(l[i], w[i + j])

LeadsWith(w, l, k) ==
  \A i \in 1..k : w[Ahead(w) + i].op = "put" /\ w[Ahead(w) + i].name = l[i].name

\* Only the length of a name of the player is clamped.
ClampsName(t, values, k, lc) ==
  \A i \in 1..Len(lc) : lc[i].op = "clamped" =>
    /\ k = 2 /\ i = 2 /\ lc[1].op \in Readers
    /\ t \in PlayParams /\ values \subseteq Names

WritesBack(t, values, l, k, lc, w) ==
  /\ Framable(w) /\ LeadsWith(w, l, k) /\ SpellsFrom(lc, w, Ahead(w) + k)
  /\ ClampsName(t, values, k, lc)

Spoils(t, values) ==
  \/ t \in BatteryLevels
  \/ t \in NcasmParams /\ values \subseteq Asm
  \/ t = Smart /\ values \subseteq SmartTalking

NameWrite == << Start(2, "len"), Put("inquired_type"), Put("len"), PutBytes("string", "len") >>

CaseRound(t, values, l, k, lc, w) ==
  \/ WritesBack(t, values, l, k, lc, w)
  \/ Spoils(t, values) /\ SpoiltFrame(w)
  \/ t = "CONNECT_RET_DEVICE_INFO" /\ values \subseteq Name /\ k = 1 /\ lc = NameParse
       /\ w = NameWrite

FlatRound(t, l, w) == WritesBack(t, {}, l, 0, l, w)

ChoiceRound(t, l, w) ==
  \E k \in {1, 2} :
    /\ IsSeq(l) /\ Len(l) = k + 1
    /\ \A i \in 1..k : l[i].op = "enum"
    /\ l[k + 1].op = "switch" /\ l[k + 1].name = l[k].name
    /\ l[k].name = IF t \in PlayParams THEN "detailed_data_type" ELSE "inquired_type"
    /\ IsSeq(w) /\ Len(w) = 1 /\ w[1].op = "switch" /\ w[1].name = l[k].name
    /\ DOMAIN w[1].cases = DOMAIN l[k + 1].cases
    /\ \A v \in l[k].values : \E c \in DOMAIN w[1].cases : v \in w[1].cases[c].values
    /\ \A c, d \in DOMAIN w[1].cases :
         c # d => w[1].cases[c].values \cap w[1].cases[d].values = {}
    /\ \A c \in DOMAIN w[1].cases :
         /\ l[k + 1].cases[c].values = w[1].cases[c].values
         /\ CaseRound(t, w[1].cases[c].values, l, k, l[k + 1].cases[c].layout,
                      w[1].cases[c].layout)

-----------------------------------------------------------------------------
SimpleParsers == {"enum", "plain", "count"}

FramePuts(n, count, names) == <<Start(n, count)>> \o Puts(names)

LEMMA FramePutsAre ==
  ASSUME NEW n, NEW count, NEW names, IsSeq(names), NEW w, w = FramePuts(n, count, names)
  PROVE  /\ IsSeq(w) /\ Len(w) = Len(names) + 1 /\ Len(names) \in Nat
         /\ w[1].op = "start" /\ w[1].n = n /\ w[1].count = count
         /\ \A i \in 1..Len(names) : w[i + 1].op = "put" /\ w[i + 1].name = names[i]
<1> DEFINE a == <<Start(n, count)>>
           p == Puts(names)
<1>1. Len(names) \in Nat /\ DOMAIN names = 1..Len(names)
  BY SeqLen
<1>2. p = [i \in 1..Len(names) |-> Put(names[i])]
  BY <1>1 DEF Puts
<1>3. IsSeq(p) /\ Len(p) = Len(names)
  <2>1. p = [i \in 1..Len(names) |-> p[i]]
    BY <1>2
  <2> HIDE DEF p
  <2> QED
    BY <1>1, <2>1, SeqMade
<1>4. \A i \in 1..Len(names) : p[i] = Put(names[i])
  BY <1>2
<1>5. IsSeq(a) /\ Len(a) = 1 /\ a[1] = Start(n, count)
  BY SeqOne
<1>6. w = a \o p
  BY DEF FramePuts
<1> HIDE DEF a, p
<1>7. /\ IsSeq(w) /\ Len(w) = 1 + Len(names)
      /\ \A i \in 1..1 : w[i] = a[i]
      /\ \A i \in 1..Len(names) : w[1 + i] = p[i]
  <2>1. /\ IsSeq(a \o p) /\ Len(a \o p) = Len(a) + Len(p)
        /\ \A i \in 1..Len(a) : (a \o p)[i] = a[i]
        /\ \A i \in 1..Len(p) : (a \o p)[Len(a) + i] = p[i]
    <3>1. IsSeq(a) /\ IsSeq(p)
      BY <1>3, <1>5
    <3>2. IsSeq(a \o p)
      BY <3>1, SeqConcat
    <3>3. Len(a \o p) = Len(a) + Len(p)
      BY <3>1, SeqConcat
    <3>4. \A i \in 1..Len(a) : (a \o p)[i] = a[i]
      BY <3>1, SeqConcat
    <3>5. \A i \in 1..Len(p) : (a \o p)[Len(a) + i] = p[i]
      BY <3>1, SeqConcat
    <3> QED
      BY <3>2, <3>3, <3>4, <3>5
  <2> QED
    BY <1>3, <1>5, <1>6, <2>1
<1>8. w[1] = Start(n, count)
  BY <1>5, <1>7
<1>9. \A i \in 1..Len(names) : i + 1 = 1 + i /\ w[i + 1] = Put(names[i])
  BY <1>1, <1>4, <1>7
<1>10. w[1].op = "start" /\ w[1].n = n /\ w[1].count = count
  BY <1>8 DEF Start
<1>11. \A i \in 1..Len(names) : w[i + 1].op = "put" /\ w[i + 1].name = names[i]
  <2>1. \A x : Put(x).op = "put" /\ Put(x).name = x
    BY DEF Put
  <2> QED
    BY <1>9, <2>1
<1> QED
  BY <1>1, <1>7, <1>10, <1>11

LEMMA PutsRound ==
  ASSUME NEW names, IsSeq(names), NEW n, n = Len(names),
         NEW w, w = FramePuts(n, None, names),
         NEW l, NEW k \in {0, 1, 2}, NEW lc, IsSeq(lc), Len(names) = Len(lc) + k, n > 0,
         \A i \in 1..k : l[i].name = names[i],
         \A i \in 1..Len(lc) : lc[i].op \in SimpleParsers /\ lc[i].name = names[i + k]
  PROVE  \A t, values : WritesBack(t, values, l, k, lc, w)
<1>1. /\ IsSeq(w) /\ Len(w) = n + 1 /\ n \in Nat
      /\ w[1].op = "start" /\ w[1].n = n /\ w[1].count = None
      /\ \A i \in 1..n : w[i + 1].op = "put" /\ w[i + 1].name = names[i]
  BY FramePutsAre
<1>2. Len(lc) \in Nat /\ k \in Nat
  BY SeqLen
<1>3. Ahead(w) = 1
  BY <1>1 DEF Ahead
<1>4. Framable(w)
  <2>1. \A i \in 2..Len(w) : w[i].op = "put"
    <3> SUFFICES ASSUME NEW i \in 2..(n + 1) PROVE w[i].op = "put"
      BY <1>1
    <3>1. i - 1 \in 1..n /\ (i - 1) + 1 = i
      BY <1>1
    <3> QED
      BY <1>1, <3>1
  <2> QED
    BY <1>1, <2>1 DEF Framable, SizedPuts
<1>5. LeadsWith(w, l, k)
  <2> SUFFICES ASSUME NEW i \in 1..k
               PROVE  w[1 + i].op = "put" /\ w[1 + i].name = l[i].name
    BY <1>3 DEF LeadsWith
  <2>1. i \in 1..n /\ i + 1 = 1 + i
    BY <1>1, <1>2
  <2> QED
    BY <1>1, <2>1
<1>6. SpellsFrom(lc, w, 1 + k)
  <2>1. ASSUME NEW i \in 1..Len(lc) PROVE SpellsField(lc[i], w[i + (1 + k)])
    <3>1. i + k \in 1..n /\ (i + k) + 1 = i + (1 + k)
      BY <1>1, <1>2
    <3>2. w[i + (1 + k)].op = "put" /\ w[i + (1 + k)].name = lc[i].name
      BY <1>1, <3>1
    <3> QED
      BY <3>2 DEF SpellsField, SimpleParsers, Readers
  <2>2. Len(w) = Len(lc) + (1 + k)
    BY <1>1, <1>2
  <2>3. Measured(lc)
    BY DEF Measured, SimpleParsers
  <2> QED
    BY <1>1, <2>1, <2>2, <2>3 DEF SpellsFrom
<1>7. \A t, values : ClampsName(t, values, k, lc)
  BY DEF ClampsName, SimpleParsers
<1> QED
  BY <1>3, <1>4, <1>5, <1>6, <1>7 DEF WritesBack

LEMMA SpoiltPuts ==
  ASSUME NEW names, IsSeq(names), NEW n \in Nat, n >= Len(names),
         NEW w, w = FramePuts(n, None, names)
  PROVE  SpoiltFrame(w)
<1> DEFINE m == Len(names)
<1>1. /\ IsSeq(w) /\ Len(w) = m + 1 /\ m \in Nat
      /\ w[1].op = "start" /\ w[1].n = n /\ w[1].count = None
      /\ \A i \in 1..m : w[i + 1].op = "put"
  BY FramePutsAre
<1> HIDE DEF m
<1>2. ASSUME NEW i \in 2..(m + 1) PROVE w[i].op = "put"
  <2>1. i - 1 \in 1..m /\ (i - 1) + 1 = i
    BY <1>1
  <2> QED
    BY <1>1, <2>1
<1>3. \A i \in 1..Len(w) : w[i].op \in {"start", "put"}
  BY <1>1, <1>2
<1>4. 1 \in 1..Len(w) /\ w[1].n >= Len(w) - 1 /\ \A i \in (1 + 1)..Len(w) : w[i].op = "put"
  BY <1>1, <1>2 DEF m
<1> QED
  BY <1>1, <1>3, <1>4 DEF SpoiltFrame

\* Elements of one byte each.
LEMMA OneSpells ==
  ASSUME NEW name, NEW values
  PROVE  /\ Spells(<< Enum(name, values) >>, << Put(name) >>)
         /\ AllPuts(<< Put(name) >>) /\ Len(<< Put(name) >>) = 1
<1> DEFINE l == << Enum(name, values) >>
           w == << Put(name) >>
<1>1. /\ IsSeq(l) /\ Len(l) = 1 /\ l[1] = Enum(name, values)
      /\ IsSeq(w) /\ Len(w) = 1 /\ w[1] = Put(name)
  BY SeqOne
<1> HIDE DEF l, w
<1>2. SpellsStep(l, w, {}) /\ AllPuts(w)
  BY <1>1 DEF SpellsStep, Measured, AllPuts, Enum, Put
<1>3. Spells(l, w)
  BY <1>2, SpellsIntro
<1> QED
  BY <1>1, <1>2, <1>3 DEF l, w

\* An array of such elements.
ArrayWrite(p, c, a, e) == << Start(2, c), Put(p), Put(c), Each(a, c, << Put(e) >>) >>
ArrayCase(c, a, e, values) == << Count(c), Each(a, c, << Enum(e, values) >>) >>
ArrayParse(p, also, c, a, e, values) ==
  << Enum(p, also), Count(c), Each(a, c, << Enum(e, values) >>) >>

LEMMA ArrayRound ==
  ASSUME NEW p, NEW c, c # None, NEW a, NEW e, NEW values, NEW w, NEW l, NEW k \in {0, 1}, NEW lc,
         w = ArrayWrite(p, c, a, e),
         k = 1 => l[1].name = p /\ lc = ArrayCase(c, a, e, values),
         k = 0 => \E also : lc = ArrayParse(p, also, c, a, e, values)
  PROVE  \A t, cv : WritesBack(t, cv, l, k, lc, w)
<1> DEFINE we == << Put(e) >>
           le == << Enum(e, values) >>
<1>1. Spells(le, we) /\ AllPuts(we) /\ Len(we) = 1
  BY OneSpells
<1>2. w = << Start(2, c), Put(p), Put(c), Each(a, c, we) >>
  BY Zenon DEF ArrayWrite
<1>3. k = 1 => lc = << Count(c), Each(a, c, le) >>
  BY Zenon DEF ArrayCase
<1>4. k = 0 => \E also : lc = << Enum(p, also), Count(c), Each(a, c, le) >>
  BY Zenon DEF ArrayParse
<1> HIDE DEF we, le
<1>5. /\ IsSeq(w) /\ Len(w) = 4
      /\ w[1] = Start(2, c) /\ w[2] = Put(p) /\ w[3] = Put(c) /\ w[4] = Each(a, c, we)
  BY <1>2, Tuple4
<1>6. Ahead(w) = 1 /\ Framable(w)
  <2>1. w[1].op = "start" /\ w[1].n = 2 /\ w[1].count = c
    BY <1>5 DEF Start
  <2>2. w[2].op = "put" /\ w[3].op = "put"
    BY <1>5 DEF Put
  <2>3. w[4].op = "each" /\ w[4].count = c /\ w[4].element = we
    BY <1>5 DEF Each
  <2>4. PutsAndLast(w, 1, 2, 1, c)
    <3>1. \A i \in 1..2 : w[1 + i].op = "put"
      BY <2>2
    <3>2. 1 + 2 + 1 = 4 /\ 2 \in Nat /\ 1 \in {1, 2}
      OBVIOUS
    <3>3. w[1 + 2 + 1] = w[4]
      BY <3>2
    <3> QED
      BY <1>1, <1>5, <2>3, <3>1, <3>2, <3>3 DEF PutsAndLast
  <2> QED
    BY <1>5, <2>1, <2>4 DEF Framable, SizedLast, Ahead
<1>7. SpellsField(Count(c), w[3]) /\ SpellsField(Each(a, c, le), w[4])
      /\ \A also : SpellsField(Enum(p, also), w[2])
  BY <1>1, <1>5 DEF SpellsField, Readers, Count, Put, Each, Enum
<1>8. CASE k = 1
  <2>1. IsSeq(lc) /\ Len(lc) = 2 /\ lc[1] = Count(c) /\ lc[2] = Each(a, c, le)
    BY <1>3, <1>8, Tuple2
  <2>2. \A i \in 1..2 : SpellsField(lc[i], w[i + 2])
    BY <1>7, <2>1
  <2>3. SpellsFrom(lc, w, Ahead(w) + k)
    BY <1>5, <1>6, <1>8, <2>1, <2>2 DEF SpellsFrom, Measured, Count, Each
  <2>4. LeadsWith(w, l, k)
    <3>1. l[1].name = p
      BY <1>8
    <3> QED
      BY <1>5, <1>6, <1>8, <3>1 DEF LeadsWith, Put
  <2>5. \A t, cv : ClampsName(t, cv, k, lc)
    BY <2>1 DEF ClampsName, Count, Each
  <2> QED
    BY <1>6, <2>3, <2>4, <2>5 DEF WritesBack
<1>9. CASE k = 0
  <2>1. PICK also : lc = << Enum(p, also), Count(c), Each(a, c, le) >>
    BY <1>4, <1>9
  <2>2. IsSeq(lc) /\ Len(lc) = 3 /\ lc[1] = Enum(p, also) /\ lc[2] = Count(c)
          /\ lc[3] = Each(a, c, le)
    BY <2>1, Tuple3
  <2>3. \A i \in 1..3 : SpellsField(lc[i], w[i + 1])
    BY <1>7, <2>2
  <2>4. SpellsFrom(lc, w, Ahead(w) + k)
    BY <1>5, <1>6, <1>9, <2>2, <2>3 DEF SpellsFrom, Measured, Count, Each, Enum
  <2>5. LeadsWith(w, l, k)
    BY <1>9 DEF LeadsWith
  <2>6. \A t, cv : ClampsName(t, cv, k, lc)
    BY <2>2 DEF ClampsName, Count, Each, Enum
  <2> QED
    BY <1>6, <2>4, <2>5, <2>6 DEF WritesBack
<1> QED
  BY <1>8, <1>9

\* Elements that end in bytes, or in an array, of their own; they are added up
\* before the frame is started.
PresetsWrite ==
  << Each("presets", "num_presets", << Add(2, 1, "name_len") >>),
     Start(4, None), Put("inquired_type"), Put("band_count"), Put("level_steps"),
       Put("num_presets"),
     Each("presets", "num_presets",
          << Put("preset_id"), Put("name_len"), PutBytes("name", "name_len") >>) >>
PresetsCase ==
  << Plain("band_count"), Plain("level_steps"), Count("num_presets"),
     Each("presets", "num_presets",
          << Enum("preset_id", EqPresetIds), Count("name_len"), Bytes("name", "name_len") >>) >>

LEMMA PresetsRound ==
  ASSUME NEW l, l[1].name = "inquired_type"
  PROVE  \A t, cv : WritesBack(t, cv, l, 1, PresetsCase, PresetsWrite)
<1> DEFINE a == << Add(2, 1, "name_len") >>
           we == << Put("preset_id"), Put("name_len"), PutBytes("name", "name_len") >>
           le == << Enum("preset_id", EqPresetIds), Count("name_len"), Bytes("name", "name_len") >>
           w == << Each("presets", "num_presets", a),
                   Start(4, None), Put("inquired_type"), Put("band_count"), Put("level_steps"),
                     Put("num_presets"),
                   Each("presets", "num_presets", we) >>
           lc == << Plain("band_count"), Plain("level_steps"), Count("num_presets"),
                    Each("presets", "num_presets", le) >>
<1>1. PresetsWrite = w /\ PresetsCase = lc
  BY Zenon DEF PresetsWrite, PresetsCase, w, lc, a, we, le
<1>2. /\ IsSeq(a) /\ Len(a) = 1 /\ IsSeq(we) /\ Len(we) = 3 /\ IsSeq(le) /\ Len(le) = 3
      /\ a[1] = Add(2, 1, "name_len")
      /\ we[1] = Put("preset_id") /\ we[2] = Put("name_len") /\ we[3] = PutBytes("name", "name_len")
      /\ le[1] = Enum("preset_id", EqPresetIds) /\ le[2] = Count("name_len")
           /\ le[3] = Bytes("name", "name_len")
  BY Tuple1, Tuple3
<1> HIDE DEF a, we, le
<1>3. /\ IsSeq(w) /\ Len(w) = 7 /\ IsSeq(lc) /\ Len(lc) = 4
      /\ w[1] = Each("presets", "num_presets", a) /\ w[2] = Start(4, None)
      /\ w[3] = Put("inquired_type") /\ w[4] = Put("band_count") /\ w[5] = Put("level_steps")
      /\ w[6] = Put("num_presets") /\ w[7] = Each("presets", "num_presets", we)
      /\ lc[1] = Plain("band_count") /\ lc[2] = Plain("level_steps") /\ lc[3] = Count("num_presets")
      /\ lc[4] = Each("presets", "num_presets", le)
  BY Tuple4, Tuple7
<1> HIDE DEF w, lc
<1>4. Spells(le, we)
  <2>1. Measured(le)
    BY <1>2 DEF Measured, Readers, Enum, Count, Bytes
  <2>2. SpellsStep(le, we, {})
    BY <1>2, <2>1 DEF SpellsStep, Put, PutBytes, Enum, Count, Bytes
  <2> QED
    BY <2>2, SpellsIntro
<1>5. SumsOne(a, we)
  <2>1. a[1].op = "add" /\ a[1].n = 2 /\ a[1].factor = 1 /\ a[1].count = "name_len"
    BY <1>2 DEF Add
  <2>2. PutsAndLast(we, 0, 2, 1, "name_len")
    BY <1>2 DEF PutsAndLast, Put, PutBytes, None
  <2> QED
    BY <1>2, <2>1, <2>2 DEF SumsOne
<1>6. /\ w[1].op = "each" /\ w[1].name = "presets" /\ w[1].count = "num_presets" /\ w[1].element = a
      /\ w[7].op = "each" /\ w[7].name = "presets" /\ w[7].count = "num_presets"
           /\ w[7].element = we
      /\ lc[4].op = "each" /\ lc[4].name = "presets" /\ lc[4].count = "num_presets"
           /\ lc[4].element = le
  BY <1>3 DEF Each
<1>7. /\ w[2].op = "start" /\ w[2].n = 4 /\ w[2].count = None
      /\ w[3].op = "put" /\ w[3].name = "inquired_type"
      /\ w[4].op = "put" /\ w[4].name = "band_count" /\ w[5].op = "put" /\ w[5].name = "level_steps"
      /\ w[6].op = "put" /\ w[6].name = "num_presets"
      /\ lc[1].op = "plain" /\ lc[1].name = "band_count" /\ lc[2].op = "plain"
           /\ lc[2].name = "level_steps"
      /\ lc[3].op = "count" /\ lc[3].name = "num_presets"
  BY <1>3 DEF Start, Put, Plain, Count
<1>8. Framable(w) /\ Ahead(w) = 2
  <2>1. \A i \in 3..6 : w[i].op = "put"
    BY <1>7
  <2>2. SizedBefore(w)
    BY <1>3, <1>5, <1>6, <1>7, <2>1 DEF SizedBefore, Sums
  <2> QED
    BY <1>3, <1>6, <2>2 DEF Framable, Ahead
<1>9. LeadsWith(w, l, 1)
  BY <1>7, <1>8 DEF LeadsWith
<1>10. SpellsFrom(lc, w, 2 + 1)
  <2>1. SpellsField(lc[1], w[4]) /\ SpellsField(lc[2], w[5]) /\ SpellsField(lc[3], w[6])
    BY <1>7 DEF SpellsField, Readers
  <2>2. SpellsField(lc[4], w[7])
    BY <1>4, <1>6 DEF SpellsField
  <2>3. \A i \in 1..4 : SpellsField(lc[i], w[i + (2 + 1)])
    BY <2>1, <2>2
  <2> QED
    BY <1>3, <1>6, <1>7, <2>3 DEF SpellsFrom, Measured
<1>11. \A t, cv : ClampsName(t, cv, 1, lc)
  BY <1>3, <1>6, <1>7 DEF ClampsName
<1> QED
  BY <1>1, <1>8, <1>9, <1>10, <1>11 DEF WritesBack

LEMMA KeysRound ==
  ASSUME NEW l, l[1].name = "inquired_type"
  PROVE  \A t, cv : WritesBack(t, cv, l, 1, AssignableCapabilityParse, AssignableCapabilityWrite)
<1> DEFINE e3 == << Enum("action", ButtonActions), Enum("function", ButtonFunctions) >>
           e2 == << Enum("preset", ButtonPresets), Count("num_capability_actions"),
                    Each("capability_actions", "num_capability_actions", e3) >>
           e1 == << Enum("key", {0, 1, 2, 3}), Enum("key_type", {0, 1}),
                    Enum("default_preset", ButtonPresets), Count("num_capability_presets"),
                    Each("capability_presets", "num_capability_presets", e2) >>
           lc == << Count("num_capability_keys"),
                   Each("capability_keys", "num_capability_keys", e1) >>
           a2 == << Add(2, 2, "num_capability_actions") >>
           a1 == << Add(4, 0, None),
                    Each("capability_presets", "num_capability_presets", a2) >>
           w3 == << Put("action"), Put("function") >>
           w2 == << Put("preset"), Put("num_capability_actions"),
                    Each("capability_actions", "num_capability_actions", w3) >>
           ns == <<"key", "key_type", "default_preset", "num_capability_presets">>
           p1 == Puts(ns)
           q1 == << Each("capability_presets", "num_capability_presets", w2) >>
           w1 == p1 \o q1
           w == << Each("capability_keys", "num_capability_keys", a1),
                   Start(2, None), Put("inquired_type"), Put("num_capability_keys"),
                   Each("capability_keys", "num_capability_keys", w1) >>
<1> HIDE DEF e3, e2, e1, lc, a2, a1, w3, w2, ns, p1, q1, w1, w
<1>1. AssignableCapabilityWrite = w /\ AssignableCapabilityParse = lc
  BY Zenon DEF AssignableCapabilityWrite, AssignableCapabilityParse, w, lc, w1, p1, q1, ns, w2, w3,
               a1, a2, e1, e2, e3
<1>2. Spells(e3, w3) /\ AllPuts(w3) /\ Len(w3) = 2
  <2>1. /\ IsSeq(e3) /\ Len(e3) = 2 /\ IsSeq(w3) /\ Len(w3) = 2
        /\ e3[1] = Enum("action", ButtonActions) /\ e3[2] = Enum("function", ButtonFunctions)
        /\ w3[1] = Put("action") /\ w3[2] = Put("function")
    BY Tuple2 DEF e3, w3
  <2>2. SpellsStep(e3, w3, {}) /\ AllPuts(w3)
    BY <2>1 DEF SpellsStep, Measured, AllPuts, Enum, Put
  <2> QED
    BY <2>1, <2>2, SpellsIntro
<1>3. Spells(e2, w2) /\ SumsOne(a2, w2)
  <2>1. /\ IsSeq(e2) /\ Len(e2) = 3 /\ IsSeq(w2) /\ Len(w2) = 3 /\ IsSeq(a2) /\ Len(a2) = 1
        /\ e2[1] = Enum("preset", ButtonPresets) /\ e2[2] = Count("num_capability_actions")
        /\ e2[3] = Each("capability_actions", "num_capability_actions", e3)
        /\ w2[1] = Put("preset") /\ w2[2] = Put("num_capability_actions")
        /\ w2[3] = Each("capability_actions", "num_capability_actions", w3)
        /\ a2[1] = Add(2, 2, "num_capability_actions")
    BY Tuple1, Tuple3 DEF e2, w2, a2
  <2>2. /\ w2[1].op = "put" /\ w2[1].name = "preset" /\ w2[2].op = "put"
             /\ w2[2].name = "num_capability_actions"
        /\ e2[1].op = "enum" /\ e2[1].name = "preset" /\ e2[2].op = "count"
             /\ e2[2].name = "num_capability_actions"
    BY <2>1 DEF Put, Enum, Count
  <2>3. /\ w2[3].op = "each" /\ w2[3].name = "capability_actions"
        /\ w2[3].count = "num_capability_actions" /\ w2[3].element = w3
        /\ e2[3].op = "each" /\ e2[3].name = "capability_actions"
        /\ e2[3].count = "num_capability_actions" /\ e2[3].element = e3
    BY <2>1 DEF Each
  <2>4. a2[1].op = "add" /\ a2[1].n = 2 /\ a2[1].factor = 2
          /\ a2[1].count = "num_capability_actions"
    BY <2>1 DEF Add
  <2>5. PutsAndLast(w2, 0, 2, 2, "num_capability_actions")
    BY <1>2, <2>1, <2>2, <2>3 DEF PutsAndLast, None
  <2>6. SpellsStep(e2, w2, {<<e3, w3>>})
    BY <2>1, <2>2, <2>3 DEF SpellsStep, Measured
  <2> DEFINE S == {<<e3, w3>>}
  <2>7. \A m \in S : m = <<m[1], m[2]>> /\ Spells(m[1], m[2])
    BY <1>2
  <2>8. SpellsStep(e2, w2, S)
    BY <2>6
  <2> HIDE DEF S
  <2> QED
    BY <2>1, <2>4, <2>5, <2>7, <2>8, SpellsIntro DEF SumsOne
<1>4. /\ IsSeq(w1) /\ Len(w1) = 5
      /\ w1[1] = Put("key") /\ w1[2] = Put("key_type") /\ w1[3] = Put("default_preset")
      /\ w1[4] = Put("num_capability_presets")
      /\ w1[5] = Each("capability_presets", "num_capability_presets", w2)
  <2>1. /\ IsSeq(ns) /\ Len(ns) = 4 /\ ns[1] = "key" /\ ns[2] = "key_type"
             /\ ns[3] = "default_preset"
        /\ ns[4] = "num_capability_presets"
    BY Tuple4 DEF ns
  <2>2. p1 = [i \in 1..4 |-> Put(ns[i])]
    <3>1. DOMAIN ns = 1..4
      BY <2>1, SeqLen
    <3> QED
      BY <3>1 DEF p1, Puts
  <2>3. p1 = [i \in 1..4 |-> p1[i]] /\ \A i \in 1..4 : p1[i] = Put(ns[i])
    BY <2>2
  <2>4. IsSeq(p1) /\ Len(p1) = 4
    BY <2>3, SeqMade
  <2>5. IsSeq(q1) /\ Len(q1) = 1 /\ q1[1] = Each("capability_presets", "num_capability_presets", w2)
    BY Tuple1 DEF q1
  <2>6. IsSeq(w1) /\ Len(w1) = 5 /\ w1[5] = q1[1] /\ \A i \in 1..4 : w1[i] = p1[i]
    <3>1. IsSeq(p1) /\ IsSeq(q1)
      BY <2>4, <2>5
    <3>2. Len(p1) = 4 /\ Len(q1) = 1
      BY <2>4, <2>5
    <3>3. IsSeq(p1 \o q1)
      BY <3>1, SeqConcat
    <3>4. Len(p1 \o q1) = Len(p1) + Len(q1)
      BY <3>1, SeqConcat
    <3>5. \A i \in 1..Len(p1) : (p1 \o q1)[i] = p1[i]
      BY <3>1, SeqConcat
    <3>6. \A i \in 1..Len(q1) : (p1 \o q1)[Len(p1) + i] = q1[i]
      BY <3>1, SeqConcat
    <3>7. w1 = p1 \o q1
      BY DEF w1
    <3> QED
      BY <3>2, <3>3, <3>4, <3>5, <3>6, <3>7
  <2> QED
    BY <2>1, <2>3, <2>5, <2>6
<1>5. /\ w1[1].op = "put" /\ w1[1].name = "key" /\ w1[2].op = "put" /\ w1[2].name = "key_type"
      /\ w1[3].op = "put" /\ w1[3].name = "default_preset"
      /\ w1[4].op = "put" /\ w1[4].name = "num_capability_presets"
  BY <1>4 DEF Put
<1>6. /\ w1[5].op = "each" /\ w1[5].name = "capability_presets"
      /\ w1[5].count = "num_capability_presets" /\ w1[5].element = w2
  BY <1>4 DEF Each
<1>7. Spells(e1, w1)
  <2>1. /\ IsSeq(e1) /\ Len(e1) = 5
        /\ e1[1] = Enum("key", {0, 1, 2, 3}) /\ e1[2] = Enum("key_type", {0, 1})
        /\ e1[3] = Enum("default_preset", ButtonPresets) /\ e1[4] = Count("num_capability_presets")
        /\ e1[5] = Each("capability_presets", "num_capability_presets", e2)
    BY Tuple5 DEF e1
  <2>2. /\ e1[1].op = "enum" /\ e1[1].name = "key" /\ e1[2].op = "enum" /\ e1[2].name = "key_type"
        /\ e1[3].op = "enum" /\ e1[3].name = "default_preset"
        /\ e1[4].op = "count" /\ e1[4].name = "num_capability_presets"
    BY <2>1 DEF Enum, Count
  <2>3. /\ e1[5].op = "each" /\ e1[5].name = "capability_presets"
        /\ e1[5].count = "num_capability_presets" /\ e1[5].element = e2
    BY <2>1 DEF Each
  <2> DEFINE S == {<<e2, w2>>}
  <2>4. \A m \in S : m = <<m[1], m[2]>> /\ Spells(m[1], m[2])
    BY <1>3
  <2>5. SpellsStep(e1, w1, S)
    BY <1>4, <1>5, <1>6, <2>1, <2>2, <2>3 DEF SpellsStep, Measured
  <2> HIDE DEF S
  <2> QED
    BY <2>4, <2>5, SpellsIntro
<1>8. SumsMore(a1, w1)
  <2>1. /\ IsSeq(a1) /\ Len(a1) = 2 /\ a1[1] = Add(4, 0, None)
        /\ a1[2] = Each("capability_presets", "num_capability_presets", a2)
    BY Tuple2 DEF a1
  <2>2. a1[1].op = "add" /\ a1[1].n = 4 /\ a1[1].factor = 0 /\ a1[1].count = None
    BY <2>1 DEF Add
  <2>3. /\ a1[2].op = "each" /\ a1[2].name = "capability_presets"
        /\ a1[2].count = "num_capability_presets" /\ a1[2].element = a2
    BY <2>1 DEF Each
  <2>4. \A i \in 1..4 : w1[i].op = "put"
    BY <1>5
  <2> QED
    BY <1>3, <1>4, <1>6, <2>1, <2>2, <2>3, <2>4 DEF SumsMore
<1>9. /\ IsSeq(w) /\ Len(w) = 5 /\ IsSeq(lc) /\ Len(lc) = 2
      /\ w[1] = Each("capability_keys", "num_capability_keys", a1) /\ w[2] = Start(2, None)
      /\ w[3] = Put("inquired_type") /\ w[4] = Put("num_capability_keys")
      /\ w[5] = Each("capability_keys", "num_capability_keys", w1)
      /\ lc[1] = Count("num_capability_keys") /\ lc[2] = Each("capability_keys",
           "num_capability_keys", e1)
  BY Tuple5, Tuple2 DEF w, lc
<1>10. /\ w[1].op = "each" /\ w[1].name = "capability_keys"
       /\ w[1].count = "num_capability_keys" /\ w[1].element = a1
       /\ w[5].op = "each" /\ w[5].name = "capability_keys"
       /\ w[5].count = "num_capability_keys" /\ w[5].element = w1
       /\ lc[2].op = "each" /\ lc[2].name = "capability_keys"
       /\ lc[2].count = "num_capability_keys" /\ lc[2].element = e1
  BY <1>9 DEF Each
<1>11. /\ w[2].op = "start" /\ w[2].n = 2 /\ w[2].count = None
       /\ w[3].op = "put" /\ w[3].name = "inquired_type"
       /\ w[4].op = "put" /\ w[4].name = "num_capability_keys"
       /\ lc[1].op = "count" /\ lc[1].name = "num_capability_keys"
  BY <1>9 DEF Start, Put, Count
<1>12. Framable(w) /\ Ahead(w) = 2
  <2>1. \A i \in 3..4 : w[i].op = "put"
    BY <1>11
  <2>2. SizedBefore(w)
    BY <1>8, <1>9, <1>10, <1>11, <2>1 DEF SizedBefore, Sums
  <2> QED
    BY <1>9, <1>10, <2>2 DEF Framable, Ahead
<1>13. LeadsWith(w, l, 1)
  BY <1>11, <1>12 DEF LeadsWith
<1>14. SpellsFrom(lc, w, 2 + 1)
  <2>1. SpellsField(lc[1], w[4])
    BY <1>11 DEF SpellsField, Readers
  <2>2. SpellsField(lc[2], w[5])
    BY <1>7, <1>10 DEF SpellsField
  <2>3. \A i \in 1..2 : SpellsField(lc[i], w[i + (2 + 1)])
    BY <2>1, <2>2
  <2> QED
    BY <1>9, <1>10, <1>11, <2>3 DEF SpellsFrom, Measured
<1>15. \A t, cv : ClampsName(t, cv, 1, lc)
  BY <1>10, <1>11, <1>9 DEF ClampsName
<1> QED
  BY <1>1, <1>12, <1>13, <1>14, <1>15 DEF WritesBack

\* The levels of an equalizer are bytes at the end of the frame.
LevelsWrite ==
  << Start(3, "num_levels"), Put("inquired_type"), Put("preset_id"), Put("num_levels"),
     PutBytes("levels", "num_levels") >>
LevelsCase ==
  << Enum("preset_id", EqPresetIds), Count("num_levels"), Bytes("levels", "num_levels") >>

LEMMA LevelsRound ==
  ASSUME NEW l, l[1].name = "inquired_type"
  PROVE  \A t, cv : WritesBack(t, cv, l, 1, LevelsCase, LevelsWrite)
<1> DEFINE w == LevelsWrite
           lc == LevelsCase
<1>1. /\ IsSeq(w) /\ Len(w) = 5 /\ IsSeq(lc) /\ Len(lc) = 3
      /\ w[1] = Start(3, "num_levels") /\ w[2] = Put("inquired_type") /\ w[3] = Put("preset_id")
      /\ w[4] = Put("num_levels") /\ w[5] = PutBytes("levels", "num_levels")
      /\ lc[1] = Enum("preset_id", EqPresetIds) /\ lc[2] = Count("num_levels")
      /\ lc[3] = Bytes("levels", "num_levels")
  BY Tuple3, Tuple5 DEF LevelsWrite, LevelsCase
<1> HIDE DEF w, lc
<1>2. /\ w[1].op = "start" /\ w[1].n = 3 /\ w[1].count = "num_levels"
      /\ w[2].op = "put" /\ w[2].name = "inquired_type" /\ w[3].op = "put"
           /\ w[3].name = "preset_id"
      /\ w[4].op = "put" /\ w[4].name = "num_levels"
      /\ w[5].op = "putbytes" /\ w[5].name = "levels" /\ w[5].count = "num_levels"
  BY <1>1 DEF Start, Put, PutBytes
<1>3. /\ lc[1].op = "enum" /\ lc[1].name = "preset_id" /\ lc[2].op = "count"
           /\ lc[2].name = "num_levels"
      /\ lc[3].op = "bytes" /\ lc[3].name = "levels" /\ lc[3].count = "num_levels"
  BY <1>1 DEF Enum, Count, Bytes
<1>4. Framable(w) /\ Ahead(w) = 1
  <2>1. \A i \in 1..3 : w[1 + i].op = "put"
    BY <1>2
  <2>2. 1 + 3 + 1 = 5 /\ 3 \in Nat
    OBVIOUS
  <2>3. PutsAndLast(w, 1, 3, 1, "num_levels")
    BY <1>1, <1>2, <2>1, <2>2 DEF PutsAndLast, None
  <2> QED
    BY <1>1, <1>2, <2>3 DEF Framable, SizedLast, Ahead
<1>5. LeadsWith(w, l, 1)
  BY <1>2, <1>4 DEF LeadsWith
<1>6. SpellsFrom(lc, w, 1 + 1)
  <2>1. SpellsField(lc[1], w[3]) /\ SpellsField(lc[2], w[4]) /\ SpellsField(lc[3], w[5])
    BY <1>2, <1>3 DEF SpellsField, Readers
  <2>2. \A i \in 1..3 : SpellsField(lc[i], w[i + (1 + 1)])
    BY <2>1
  <2> QED
    BY <1>1, <1>3, <2>2 DEF SpellsFrom, Measured, Readers
<1>7. \A t, cv : ClampsName(t, cv, 1, lc)
  BY <1>1, <1>3 DEF ClampsName
<1> QED
  BY <1>4, <1>5, <1>6, <1>7 DEF WritesBack, w, lc

\* The names of the player, which may be longer than what is kept of them.
PlayerWrite ==
  <<Start(4, "len")>> \o Puts(<<"inquired_type", "detailed_data_type", "status", "len">>)
    \o <<PutBytes("data", "len")>>
PlayerCase == << Enum("status", {0, 1, 2}), Clamped("len"), Bytes("data", "len") >>

LEMMA PlayerRound ==
  ASSUME NEW l, l[1].name = "inquired_type", l[2].name = "detailed_data_type"
  PROVE  \A t \in PlayParams : WritesBack(t, Names, l, 2, PlayerCase, PlayerWrite)
<1> DEFINE ns == <<"inquired_type", "detailed_data_type", "status", "len">>
           p == FramePuts(4, "len", ns)
           b == <<PutBytes("data", "len")>>
           w == PlayerWrite
           lc == PlayerCase
<1> HIDE DEF ns, p, b, w, lc
<1>1. w = p \o b
  BY Zenon DEF w, p, b, ns, PlayerWrite, FramePuts
<1>2. /\ IsSeq(ns) /\ Len(ns) = 4 /\ ns[1] = "inquired_type" /\ ns[2] = "detailed_data_type"
      /\ ns[3] = "status" /\ ns[4] = "len"
  BY Tuple4 DEF ns
<1>3. /\ IsSeq(p) /\ Len(p) = 5
      /\ p[1].op = "start" /\ p[1].n = 4 /\ p[1].count = "len"
      /\ \A i \in 1..4 : p[i + 1].op = "put" /\ p[i + 1].name = ns[i]
  <2>1. p = FramePuts(4, "len", ns)
    BY DEF p
  <2>2. /\ IsSeq(p) /\ Len(p) = Len(ns) + 1
        /\ p[1].op = "start" /\ p[1].n = 4 /\ p[1].count = "len"
        /\ \A i \in 1..Len(ns) : p[i + 1].op = "put" /\ p[i + 1].name = ns[i]
    <3>1. IsSeq(ns)
      BY <1>2
    <3> QED
      BY <2>1, <3>1, FramePutsAre
  <2> QED
    BY <1>2, <2>2
<1>4. IsSeq(b) /\ Len(b) = 1 /\ b[1] = PutBytes("data", "len")
  BY Tuple1 DEF b
<1>5. IsSeq(w) /\ Len(w) = 6 /\ w[6] = b[1] /\ \A i \in 1..5 : w[i] = p[i]
  <2>1. IsSeq(p) /\ IsSeq(b)
    BY <1>3, <1>4
  <2>2. Len(p) = 5 /\ Len(b) = 1
    BY <1>3, <1>4
  <2>3. IsSeq(p \o b)
    BY <2>1, SeqConcat
  <2>4. Len(p \o b) = Len(p) + Len(b)
    BY <2>1, SeqConcat
  <2>5. \A i \in 1..Len(p) : (p \o b)[i] = p[i]
    BY <2>1, SeqConcat
  <2>6. \A i \in 1..Len(b) : (p \o b)[Len(p) + i] = b[i]
    BY <2>1, SeqConcat
  <2>7. w = p \o b
    BY <1>1
  <2> QED
    BY <2>2, <2>3, <2>4, <2>5, <2>6, <2>7
<1>6. /\ w[1].op = "start" /\ w[1].n = 4 /\ w[1].count = "len"
      /\ w[2].op = "put" /\ w[2].name = "inquired_type"
      /\ w[3].op = "put" /\ w[3].name = "detailed_data_type"
      /\ w[4].op = "put" /\ w[4].name = "status" /\ w[5].op = "put" /\ w[5].name = "len"
  BY <1>2, <1>3, <1>5
<1>7. w[6].op = "putbytes" /\ w[6].name = "data" /\ w[6].count = "len"
  BY <1>4, <1>5 DEF PutBytes
<1>8. /\ IsSeq(lc) /\ Len(lc) = 3
      /\ lc[1].op = "enum" /\ lc[1].name = "status" /\ lc[2].op = "clamped" /\ lc[2].name = "len"
      /\ lc[3].op = "bytes" /\ lc[3].name = "data" /\ lc[3].count = "len"
  BY Tuple3 DEF lc, PlayerCase, Enum, Clamped, Bytes
<1>9. Framable(w) /\ Ahead(w) = 1
  <2>1. \A i \in 1..4 : w[1 + i].op = "put"
    BY <1>6
  <2>2. 1 + 4 + 1 = 6 /\ 4 \in Nat
    OBVIOUS
  <2>3. PutsAndLast(w, 1, 4, 1, "len")
    BY <1>5, <1>7, <2>1, <2>2 DEF PutsAndLast, None
  <2> QED
    BY <1>5, <1>6, <2>3 DEF Framable, SizedLast, Ahead
<1>10. LeadsWith(w, l, 2)
  BY <1>6, <1>9 DEF LeadsWith
<1>11. SpellsFrom(lc, w, 1 + 2)
  <2>1. SpellsField(lc[1], w[4]) /\ SpellsField(lc[2], w[5]) /\ SpellsField(lc[3], w[6])
    BY <1>6, <1>7, <1>8 DEF SpellsField, Readers
  <2>2. \A i \in 1..3 : SpellsField(lc[i], w[i + (1 + 2)])
    BY <2>1
  <2> QED
    BY <1>5, <1>8, <2>2 DEF SpellsFrom, Measured, Readers
<1>12. \A t \in PlayParams : ClampsName(t, Names, 2, lc)
  BY <1>8 DEF ClampsName, Readers
<1> QED
  BY <1>9, <1>10, <1>11, <1>12 DEF WritesBack, w, lc

\* The capability of smart talking has two frames; the second one holds two bytes.
SmartNames == <<"inquired_type", "setting_type", "preview_type", "detail_setting",
                "detection_sensitivity_type", "voice_focus_type", "mode_out_time_type_t",
                "timeouts[0]", "timeouts[1]", "timeouts[2]", "timeouts[3]">>
SmartWrite ==
  <<Start(11, None)>> \o Puts(SmartNames) \o <<Start(2, None)>>
    \o Puts(<<"inquired_type", "setting_type">>)

LEMMA SmartSpoilt == SpoiltFrame(SmartWrite)
<1> DEFINE ms == <<"inquired_type", "setting_type">>
           s == FramePuts(11, None, SmartNames)
           b == <<Start(2, None)>>
           d == Puts(ms)
           u == s \o b
           w == u \o d
<1> HIDE DEF ms, s, b, d, u, w
<1>1. SmartWrite = w
  BY Zenon DEF SmartWrite, FramePuts, w, u, s, b, d, ms
<1>2. IsSeq(SmartNames) /\ Len(SmartNames) = 11
  <2>1. IsSeq(SmartNames)
    BY Tuple11 DEF SmartNames
  <2>2. Len(SmartNames) = 11
    BY DEF SmartNames
  <2> QED
    BY <2>1, <2>2
<1>3. IsSeq(ms) /\ Len(ms) = 2 /\ DOMAIN ms = 1..2
  BY Tuple2 DEF ms
<1>4. IsSeq(s) /\ Len(s) = 12 /\ s[1].op = "start" /\ \A i \in 1..11 : s[i + 1].op = "put"
  <2>1. s = FramePuts(11, None, SmartNames)
    BY DEF s
  <2>2. /\ IsSeq(s) /\ Len(s) = Len(SmartNames) + 1 /\ s[1].op = "start"
        /\ \A i \in 1..Len(SmartNames) : s[i + 1].op = "put" /\ s[i + 1].name = SmartNames[i]
    <3>1. IsSeq(SmartNames)
      BY <1>2
    <3> QED
      BY <2>1, <3>1, FramePutsAre
  <2> QED
    BY <1>2, <2>2
<1>5. IsSeq(b) /\ Len(b) = 1 /\ b[1] = Start(2, None)
  BY Tuple1 DEF b
<1>6. IsSeq(d) /\ Len(d) = 2 /\ \A i \in 1..2 : d[i].op = "put"
  <2>1. d = [i \in 1..2 |-> Put(ms[i])]
    BY <1>3 DEF d, Puts
  <2>2. d = [i \in 1..2 |-> d[i]] /\ \A i \in 1..2 : d[i] = Put(ms[i])
    BY <2>1
  <2>3. \A x : Put(x).op = "put"
    BY DEF Put
  <2> QED
    BY <2>2, <2>3, SeqMade
<1>7. IsSeq(u) /\ Len(u) = 13 /\ u[13] = b[1] /\ \A i \in 1..12 : u[i] = s[i]
  <2>1. IsSeq(s) /\ IsSeq(b)
    BY <1>4, <1>5
  <2>2. Len(s) = 12 /\ Len(b) = 1
    BY <1>4, <1>5
  <2>3. IsSeq(s \o b)
    BY <2>1, SeqConcat
  <2>4. Len(s \o b) = Len(s) + Len(b)
    BY <2>1, SeqConcat
  <2>5. \A i \in 1..Len(s) : (s \o b)[i] = s[i]
    BY <2>1, SeqConcat
  <2>6. \A i \in 1..Len(b) : (s \o b)[Len(s) + i] = b[i]
    BY <2>1, SeqConcat
  <2>7. u = s \o b
    BY DEF u
  <2> QED
    BY <2>2, <2>3, <2>4, <2>5, <2>6, <2>7
<1>8. IsSeq(w) /\ Len(w) = 15 /\ w[14] = d[1] /\ w[15] = d[2] /\ \A i \in 1..13 : w[i] = u[i]
  <2>1. IsSeq(u) /\ IsSeq(d)
    BY <1>6, <1>7
  <2>2. Len(u) = 13 /\ Len(d) = 2
    BY <1>6, <1>7
  <2>3. IsSeq(u \o d)
    BY <2>1, SeqConcat
  <2>4. Len(u \o d) = Len(u) + Len(d)
    BY <2>1, SeqConcat
  <2>5. \A i \in 1..Len(u) : (u \o d)[i] = u[i]
    BY <2>1, SeqConcat
  <2>6. \A i \in 1..Len(d) : (u \o d)[Len(u) + i] = d[i]
    BY <2>1, SeqConcat
  <2>7. w = u \o d
    BY DEF w
  <2>8. IsSeq(w) /\ Len(w) = 15 /\ \A i \in 1..13 : w[i] = u[i]
    BY <2>2, <2>3, <2>4, <2>5, <2>7
  <2>9. \A i \in 1..2 : w[13 + i] = d[i]
    BY <2>2, <2>6, <2>7
  <2> QED
    BY <2>8, <2>9
<1>9. w[13].op = "start" /\ w[13].count = None /\ w[13].n = 2
  BY <1>5, <1>7, <1>8 DEF Start
<1>10. \A i \in 14..15 : w[i].op = "put"
  BY <1>6, <1>8
<1>11. ASSUME NEW i \in 1..15 PROVE w[i].op \in {"start", "put"}
  <2>1. CASE i \in 2..12
    <3>1. i - 1 \in 1..11 /\ (i - 1) + 1 = i
      BY <2>1
    <3>2. w[i] = s[i]
      BY <1>7, <1>8, <2>1
    <3> QED
      BY <1>4, <3>1, <3>2
  <2>2. CASE i = 1
    BY <1>4, <1>7, <1>8, <2>2
  <2> QED
    BY <1>9, <1>10, <2>1, <2>2
<1>12. SpoiltFrame(w)
  <2>1. 13 \in 1..Len(w) /\ w[13].n \in Nat /\ w[13].n >= Len(w) - 13
          /\ \A i \in (13 + 1)..Len(w) : w[i].op = "put"
    BY <1>8, <1>9, <1>10
  <2> QED
    BY <1>8, <1>9, <1>11, <2>1 DEF SpoiltFrame
<1> QED
  BY <1>1, <1>12

LEMMA ArrayCaseRound ==
  ASSUME NEW p, NEW c, c # None, NEW a, NEW e, NEW values, NEW l, l[1].name = p
  PROVE  \A t, cv : WritesBack(t, cv, l, 1, ArrayCase(c, a, e, values), ArrayWrite(p, c, a, e))
<1> DEFINE lc == ArrayCase(c, a, e, values)
           w == ArrayWrite(p, c, a, e)
<1>1. 1 \in {0, 1} /\ lc = ArrayCase(c, a, e, values) /\ w = ArrayWrite(p, c, a, e)
  OBVIOUS
<1> HIDE DEF lc, w
<1> DEFINE k == 1
<1>3. /\ k = 1 => l[1].name = p /\ lc = ArrayCase(c, a, e, values)
      /\ k = 0 => \E also : lc = ArrayParse(p, also, c, a, e, values)
      /\ k \in {0, 1} /\ c # None /\ w = ArrayWrite(p, c, a, e)
  BY <1>1
<1> HIDE DEF k
<1>4. \A t, cv : WritesBack(t, cv, l, k, lc, w)
  BY <1>3, ArrayRound
<1>2. \A t, cv : WritesBack(t, cv, l, 1, lc, w)
  BY <1>4 DEF k
<1> QED
  BY <1>2 DEF lc, w

-----------------------------------------------------------------------------
(* The tables, one choice after the other.                                 *)

LEMMA ChoiceIntro ==
  ASSUME NEW t, NEW k \in {1, 2}, NEW l, NEW w, NEW ws, NEW cs,
         IsSeq(l), Len(l) = k + 1, \A i \in 1..k : l[i].op = "enum",
         l[k + 1].op = "switch", l[k + 1].name = l[k].name, l[k + 1].cases = cs,
         l[k].name = IF t \in PlayParams THEN "detailed_data_type" ELSE "inquired_type",
         IsSeq(w), Len(w) = 1, w[1].op = "switch", w[1].name = l[k].name, w[1].cases = ws,
         DOMAIN ws = DOMAIN cs,
         \A v \in l[k].values : \E c \in DOMAIN ws : v \in ws[c].values,
         \A c, d \in DOMAIN ws : c # d => ws[c].values \cap ws[d].values = {},
         \A c \in DOMAIN ws : cs[c].values = ws[c].values,
         \A c \in DOMAIN ws : CaseRound(t, ws[c].values, l, k, cs[c].layout, ws[c].layout)
  PROVE  ChoiceRound(t, l, w)
BY DEF ChoiceRound

LEMMA OneRound ==
  ASSUME NEW name, NEW values
  PROVE  \A t : FlatRound(t, << Enum(name, values) >>, WriteOne(name))
<1> DEFINE l == << Enum(name, values) >>
           w == WriteOne(name)
<1>1. /\ IsSeq(l) /\ Len(l) = 1 /\ l[1].op = "enum" /\ l[1].name = name
      /\ IsSeq(w) /\ Len(w) = 2
  BY Tuple1, Tuple2 DEF WriteOne, Enum
<1>2. /\ w[1].op = "start" /\ w[1].n = 1 /\ w[1].count = None
      /\ w[2].op = "put" /\ w[2].name = name
  BY DEF WriteOne, Start, Put
<1> HIDE DEF l, w
<1>3. Framable(w) /\ Ahead(w) = 1 /\ LeadsWith(w, l, 0)
  BY <1>1, <1>2 DEF Framable, SizedPuts, Ahead, LeadsWith
<1>4. SpellsField(l[1], w[2])
  BY <1>1, <1>2 DEF SpellsField, Readers
<1>5. SpellsFrom(l, w, 1 + 0)
  BY <1>1, <1>4 DEF SpellsFrom, Measured
<1>6. \A t : ClampsName(t, {}, 0, l)
  BY <1>1 DEF ClampsName
<1> QED
  BY <1>3, <1>5, <1>6 DEF FlatRound, WritesBack, l, w

LEMMA DeviceInfoRound ==
  ASSUME NEW t, t = "CONNECT_RET_DEVICE_INFO"
  PROVE  ChoiceRound(t, DeviceInfoParse, DeviceInfoWrite)
<1> DEFINE w1 == << Start(2, "len"), Put("inquired_type"), Put("len"), PutBytes("string", "len") >>
           c1 == << Count("len"), Zeros("string"), NameBytes("string", "len") >>
           w2 == <<Start(3, None)>> \o Puts(<<"inquired_type", "series", "color">>)
           c2 == << Enum("series", Series), Enum("color", Colors) >>
           w3 == << Start(2, "num_guidance_categories"), Put("inquired_type"),
               Put("num_guidance_categories"),
               Each("guidance_categories", "num_guidance_categories",
               << Put("guidance_category") >>) >>
           c3 == << Count("num_guidance_categories"), Each("guidance_categories",
               "num_guidance_categories", << Enum("guidance_category", GuidanceCategories) >>) >>
           ws == << Case(Name, w1), Case(SeriesAndColor, w2), Case(InstructionGuide, w3) >>
           cs == << Case(Name, c1), Case(SeriesAndColor, c2), Case(InstructionGuide, c3) >>
           w == << Switch("inquired_type", ws) >>
           l == << Inquired(DeviceInfoInquired), Switch("inquired_type", cs) >>
<1> HIDE DEF w1, c1, w2, c2, w3, c3, ws, cs
<1>1. /\ IsSeq(w) /\ Len(w) = 1 /\ w[1].op = "switch" /\ w[1].name = "inquired_type"
           /\ w[1].cases = ws
      /\ IsSeq(l) /\ Len(l) = 1 + 1 /\ l[1 + 1].op = "switch"
      /\ l[1 + 1].name = "inquired_type" /\ l[1 + 1].cases = cs
      /\ l[1].op = "enum" /\ l[1].name = "inquired_type" /\ l[1].values = DeviceInfoInquired
  BY Tuple1, Tuple2 DEF Switch, Inquired, Enum
<1>2. DeviceInfoWrite = w /\ DeviceInfoParse = l
  BY Zenon DEF DeviceInfoWrite, DeviceInfoParse, l, w, ws, cs, w1, c1, w2, c2, w3, c3
<1> HIDE DEF w, l
<1>3. CaseRound(t, Name, l, 1, c1, w1)
  <2>1. w1 = NameWrite /\ c1 = NameParse
    BY Zenon DEF w1, c1, NameWrite, NameParse
  <2> QED
    BY <2>1 DEF CaseRound
<1>4. CaseRound(t, SeriesAndColor, l, 1, c2, w2)
  <2> DEFINE ns == <<"inquired_type", "series", "color">>
  <2>1. IsSeq(ns) /\ Len(ns) = 3
    BY Tuple3
  <2>2. ns[1] = "inquired_type" /\ ns[2] = "series" /\ ns[3] = "color"
    OBVIOUS
  <2>3. w2 = FramePuts(3, None, ns)
    BY Zenon DEF w2, FramePuts
  <2> HIDE DEF ns
  <2>4. IsSeq(c2) /\ Len(c2) = 2
    BY Tuple2 DEF c2
  <2>5. c2[1].op \in SimpleParsers /\ c2[1].name = ns[1 + 1]
    BY <2>2 DEF c2, Enum, SimpleParsers
  <2>6. c2[2].op \in SimpleParsers /\ c2[2].name = ns[2 + 1]
    BY <2>2 DEF c2, Enum, SimpleParsers
  <2>7. \A i \in 1..2 : c2[i].op \in SimpleParsers /\ c2[i].name = ns[i + 1]
    BY <2>5, <2>6
  <2>8. \A i \in 1..1 : l[i].name = ns[i]
    BY <1>1, <2>2
  <2>9. 3 = Len(ns) /\ Len(ns) = Len(c2) + 1 /\ 3 > 0 /\ 1 \in {0, 1, 2}
    BY <2>1, <2>4
  <2>10. \A i \in 1..Len(c2) : c2[i].op \in SimpleParsers /\ c2[i].name = ns[i + 1]
    BY <2>4, <2>7
  <2>11. \A u, v : WritesBack(u, v, l, 1, c2, w2)
    BY <2>1, <2>3, <2>4, <2>8, <2>9, <2>10, PutsRound
  <2> QED
    BY <2>11, Zenon DEF CaseRound
<1>5. CaseRound(t, InstructionGuide, l, 1, c3, w3)
  <2>1. w3 = ArrayWrite("inquired_type", "num_guidance_categories", "guidance_categories",
          "guidance_category")
    BY Zenon DEF w3, ArrayWrite
  <2>2. c3 = ArrayCase("num_guidance_categories", "guidance_categories", "guidance_category",
          GuidanceCategories)
    BY Zenon DEF c3, ArrayCase
  <2>3. "num_guidance_categories" # None /\ l[1].name = "inquired_type"
    BY <1>1 DEF None
  <2>4. \A u, v : WritesBack(u, v, l, 1, ArrayCase("num_guidance_categories",
          "guidance_categories", "guidance_category", GuidanceCategories),
          ArrayWrite("inquired_type", "num_guidance_categories", "guidance_categories",
          "guidance_category"))
    BY <2>3, ArrayCaseRound
  <2> QED
    BY <2>1, <2>2, <2>4, Zenon DEF CaseRound
<1>6. DOMAIN ws = 1..3 /\ DOMAIN cs = 1..3
      /\ ws[1].layout = w1 /\ ws[1].values = Name
      /\ cs[1].layout = c1 /\ cs[1].values = Name
      /\ ws[2].layout = w2 /\ ws[2].values = SeriesAndColor
      /\ cs[2].layout = c2 /\ cs[2].values = SeriesAndColor
      /\ ws[3].layout = w3 /\ ws[3].values = InstructionGuide
      /\ cs[3].layout = c3 /\ cs[3].values = InstructionGuide
  BY Tuple3 DEF Case, ws, cs
<1>7. \A c \in DOMAIN ws : cs[c].values = ws[c].values
  BY <1>6
<1>8. \A c \in DOMAIN ws : CaseRound(t, ws[c].values, l, 1, cs[c].layout, ws[c].layout)
  BY <1>3, <1>4, <1>5, <1>6
<1>9. \A v \in DeviceInfoInquired : \E c \in DOMAIN ws : v \in ws[c].values
  BY <1>6 DEF DeviceInfoInquired, Name, SeriesAndColor, InstructionGuide
<1>10. \A c, d \in DOMAIN ws : c # d => ws[c].values \cap ws[d].values = {}
  BY <1>6 DEF DeviceInfoInquired, Name, SeriesAndColor, InstructionGuide
<1>11. "inquired_type" = IF t \in PlayParams THEN "detailed_data_type" ELSE "inquired_type"
  BY DEF PlayParams, Smart, BatteryLevels, NcasmParams
<1>12. 1 \in {1, 2} /\ \A i \in 1..1 : l[i].op = "enum"
  BY <1>1
<1>13. ChoiceRound(t, l, w)
  BY <1>1, <1>6, <1>7, <1>8, <1>9, <1>10, <1>11, <1>12, ChoiceIntro, SMTT(60)
<1> QED
  BY <1>2, <1>13

LEMMA BatteryRound ==
  ASSUME NEW t, t \in BatteryLevels
  PROVE  ChoiceRound(t, BatteryParse, BatteryWrite)
<1> DEFINE w1 == <<Start(3, None)>> \o Puts(<<"level", "charging">>)
           c1 == << Plain("level"), Plain("charging") >>
           w2 == <<Start(5, None)>> \o Puts(<<"left.level", "left.charging", "right.level",
               "right.charging">>)
           c2 == << Plain("left.level"), Plain("left.charging"), Plain("right.level"),
               Plain("right.charging") >>
           ws == << Case(OneBattery, w1), Case(LeftRightBattery, w2) >>
           cs == << Case(OneBattery, c1), Case(LeftRightBattery, c2) >>
           w == << Switch("inquired_type", ws) >>
           l == << Inquired(BatteryInquired), Switch("inquired_type", cs) >>
<1> HIDE DEF w1, c1, w2, c2, ws, cs
<1>1. /\ IsSeq(w) /\ Len(w) = 1 /\ w[1].op = "switch" /\ w[1].name = "inquired_type"
           /\ w[1].cases = ws
      /\ IsSeq(l) /\ Len(l) = 1 + 1 /\ l[1 + 1].op = "switch"
      /\ l[1 + 1].name = "inquired_type" /\ l[1 + 1].cases = cs
      /\ l[1].op = "enum" /\ l[1].name = "inquired_type" /\ l[1].values = BatteryInquired
  BY Tuple1, Tuple2 DEF Switch, Inquired, Enum
<1>2. BatteryWrite = w /\ BatteryParse = l
  BY Zenon DEF BatteryWrite, BatteryParse, l, w, ws, cs, w1, c1, w2, c2
<1> HIDE DEF w, l
<1>3. CaseRound(t, OneBattery, l, 1, c1, w1)
  <2> DEFINE ns == <<"level", "charging">>
  <2>1. IsSeq(ns) /\ Len(ns) = 2
    BY Tuple2
  <2>2. w1 = FramePuts(3, None, ns)
    BY Zenon DEF w1, FramePuts
  <2> HIDE DEF ns
  <2>3. 3 \in Nat /\ 3 >= 2
    OBVIOUS
  <2>4. SpoiltFrame(w1)
    BY <2>1, <2>2, <2>3, SpoiltPuts
  <2>5. Spoils(t, OneBattery)
    BY DEF Spoils
  <2> QED
    BY <2>4, <2>5 DEF CaseRound
<1>4. CaseRound(t, LeftRightBattery, l, 1, c2, w2)
  <2> DEFINE ns == <<"left.level", "left.charging", "right.level", "right.charging">>
  <2>1. IsSeq(ns) /\ Len(ns) = 4
    BY Tuple4
  <2>2. w2 = FramePuts(5, None, ns)
    BY Zenon DEF w2, FramePuts
  <2> HIDE DEF ns
  <2>3. 5 \in Nat /\ 5 >= 4
    OBVIOUS
  <2>4. SpoiltFrame(w2)
    BY <2>1, <2>2, <2>3, SpoiltPuts
  <2>5. Spoils(t, LeftRightBattery)
    BY DEF Spoils
  <2> QED
    BY <2>4, <2>5 DEF CaseRound
<1>5. DOMAIN ws = 1..2 /\ DOMAIN cs = 1..2
      /\ ws[1].layout = w1 /\ ws[1].values = OneBattery
      /\ cs[1].layout = c1 /\ cs[1].values = OneBattery
      /\ ws[2].layout = w2 /\ ws[2].values = LeftRightBattery
      /\ cs[2].layout = c2 /\ cs[2].values = LeftRightBattery
  BY Tuple2 DEF Case, ws, cs
<1>6. \A c \in DOMAIN ws : cs[c].values = ws[c].values
  BY <1>5
<1>7. \A c \in DOMAIN ws : CaseRound(t, ws[c].values, l, 1, cs[c].layout, ws[c].layout)
  BY <1>3, <1>4, <1>5
<1>8. \A v \in BatteryInquired : \E c \in DOMAIN ws : v \in ws[c].values
  BY <1>5 DEF BatteryInquired, OneBattery, LeftRightBattery
<1>9. \A c, d \in DOMAIN ws : c # d => ws[c].values \cap ws[d].values = {}
  BY <1>5 DEF BatteryInquired, OneBattery, LeftRightBattery
<1>10. "inquired_type" = IF t \in PlayParams THEN "detailed_data_type" ELSE "inquired_type"
  BY DEF PlayParams, Smart, BatteryLevels, NcasmParams
<1>11. 1 \in {1, 2} /\ \A i \in 1..1 : l[i].op = "enum"
  BY <1>1
<1>12. ChoiceRound(t, l, w)
  BY <1>1, <1>5, <1>6, <1>7, <1>8, <1>9, <1>10, <1>11, ChoiceIntro, SMTT(60)
<1> QED
  BY <1>2, <1>12

LEMMA ConnectionStatusRound ==
  ASSUME NEW t, t \notin PlayParams
  PROVE  ChoiceRound(t, ConnectionStatusParse, ConnectionStatusWrite)
<1> DEFINE w1 == <<Start(3, None)>> \o Puts(<<"inquired_type", "left_status", "right_status">>)
           c1 == << Enum("left_status", OnOff), Enum("right_status", OnOff) >>
           ws == << Case({1}, w1) >>
           cs == << Case({1}, c1) >>
           w == << Switch("inquired_type", ws) >>
           l == << Inquired({1}), Switch("inquired_type", cs) >>
<1> HIDE DEF w1, c1, ws, cs
<1>1. /\ IsSeq(w) /\ Len(w) = 1 /\ w[1].op = "switch" /\ w[1].name = "inquired_type"
           /\ w[1].cases = ws
      /\ IsSeq(l) /\ Len(l) = 1 + 1 /\ l[1 + 1].op = "switch"
      /\ l[1 + 1].name = "inquired_type" /\ l[1 + 1].cases = cs
      /\ l[1].op = "enum" /\ l[1].name = "inquired_type" /\ l[1].values = {1}
  BY Tuple1, Tuple2 DEF Switch, Inquired, Enum
<1>2. ConnectionStatusWrite = w /\ ConnectionStatusParse = l
  BY Zenon DEF ConnectionStatusWrite, ConnectionStatusParse, l, w, ws, cs, w1, c1
<1> HIDE DEF w, l
<1>3. CaseRound(t, {1}, l, 1, c1, w1)
  <2> DEFINE ns == <<"inquired_type", "left_status", "right_status">>
  <2>1. IsSeq(ns) /\ Len(ns) = 3
    BY Tuple3
  <2>2. ns[1] = "inquired_type" /\ ns[2] = "left_status" /\ ns[3] = "right_status"
    OBVIOUS
  <2>3. w1 = FramePuts(3, None, ns)
    BY Zenon DEF w1, FramePuts
  <2> HIDE DEF ns
  <2>4. IsSeq(c1) /\ Len(c1) = 2
    BY Tuple2 DEF c1
  <2>5. c1[1].op \in SimpleParsers /\ c1[1].name = ns[1 + 1]
    BY <2>2 DEF c1, Enum, SimpleParsers
  <2>6. c1[2].op \in SimpleParsers /\ c1[2].name = ns[2 + 1]
    BY <2>2 DEF c1, Enum, SimpleParsers
  <2>7. \A i \in 1..2 : c1[i].op \in SimpleParsers /\ c1[i].name = ns[i + 1]
    BY <2>5, <2>6
  <2>8. \A i \in 1..1 : l[i].name = ns[i]
    BY <1>1, <2>2
  <2>9. 3 = Len(ns) /\ Len(ns) = Len(c1) + 1 /\ 3 > 0 /\ 1 \in {0, 1, 2}
    BY <2>1, <2>4
  <2>10. \A i \in 1..Len(c1) : c1[i].op \in SimpleParsers /\ c1[i].name = ns[i + 1]
    BY <2>4, <2>7
  <2>11. \A u, v : WritesBack(u, v, l, 1, c1, w1)
    BY <2>1, <2>3, <2>4, <2>8, <2>9, <2>10, PutsRound
  <2> QED
    BY <2>11, Zenon DEF CaseRound
<1>4. DOMAIN ws = 1..1 /\ DOMAIN cs = 1..1
      /\ ws[1].layout = w1 /\ ws[1].values = {1}
      /\ cs[1].layout = c1 /\ cs[1].values = {1}
  BY Tuple1 DEF Case, ws, cs
<1>5. \A c \in DOMAIN ws : cs[c].values = ws[c].values
  BY <1>4
<1>6. \A c \in DOMAIN ws : CaseRound(t, ws[c].values, l, 1, cs[c].layout, ws[c].layout)
  BY <1>3, <1>4
<1>7. \A v \in {1} : \E c \in DOMAIN ws : v \in ws[c].values
  BY <1>4
<1>8. \A c, d \in DOMAIN ws : c # d => ws[c].values \cap ws[d].values = {}
  BY <1>4
<1>9. "inquired_type" = IF t \in PlayParams THEN "detailed_data_type" ELSE "inquired_type"
  BY DEF PlayParams, Smart, BatteryLevels, NcasmParams
<1>10. 1 \in {1, 2} /\ \A i \in 1..1 : l[i].op = "enum"
  BY <1>1
<1>11. ChoiceRound(t, l, w)
  BY <1>1, <1>4, <1>5, <1>6, <1>7, <1>8, <1>9, <1>10, ChoiceIntro, SMTT(60)
<1> QED
  BY <1>2, <1>11

LEMMA EqCapabilityRound ==
  ASSUME NEW t, t \notin PlayParams
  PROVE  ChoiceRound(t, EqCapabilityParse, EqCapabilityWrite)
<1> DEFINE w1 == << Each("presets", "num_presets", << Add(2, 1, "name_len") >>),
                  Start(4, None), Put("inquired_type"), Put("band_count"), Put("level_steps"),
                    Put("num_presets"),
                  Each("presets", "num_presets", << Put("preset_id"), Put("name_len"),
                    PutBytes("name", "name_len") >>) >>
           c1 == << Plain("band_count"), Plain("level_steps"), Count("num_presets"),
                  Each("presets", "num_presets", << Enum("preset_id", EqPresetIds),
                    Count("name_len"), Bytes("name", "name_len") >>) >>
           w2 == <<Start(3, None)>> \o Puts(<<"inquired_type", "min_level", "max_level">>)
           c2 == << Plain("min_level"), Plain("max_level") >>
           ws == << Case(PresetEq, w1), Case(Ebb, w2) >>
           cs == << Case(PresetEq, c1), Case(Ebb, c2) >>
           w == << Switch("inquired_type", ws) >>
           l == << Inquired(EqebbInquired), Switch("inquired_type", cs) >>
<1> HIDE DEF w1, c1, w2, c2, ws, cs
<1>1. /\ IsSeq(w) /\ Len(w) = 1 /\ w[1].op = "switch" /\ w[1].name = "inquired_type"
           /\ w[1].cases = ws
      /\ IsSeq(l) /\ Len(l) = 1 + 1 /\ l[1 + 1].op = "switch"
      /\ l[1 + 1].name = "inquired_type" /\ l[1 + 1].cases = cs
      /\ l[1].op = "enum" /\ l[1].name = "inquired_type" /\ l[1].values = EqebbInquired
  BY Tuple1, Tuple2 DEF Switch, Inquired, Enum
<1>2. EqCapabilityWrite = w /\ EqCapabilityParse = l
  BY Zenon DEF EqCapabilityWrite, EqCapabilityParse, l, w, ws, cs, w1, c1, w2, c2
<1> HIDE DEF w, l
<1>3. CaseRound(t, PresetEq, l, 1, c1, w1)
  <2>1. w1 = PresetsWrite /\ c1 = PresetsCase
    BY Zenon DEF w1, c1, PresetsWrite, PresetsCase
  <2>2. l[1].name = "inquired_type"
    BY <1>1
  <2>3. \A u, v : WritesBack(u, v, l, 1, PresetsCase, PresetsWrite)
    BY <2>2, PresetsRound
  <2> QED
    BY <2>1, <2>3, Zenon DEF CaseRound
<1>4. CaseRound(t, Ebb, l, 1, c2, w2)
  <2> DEFINE ns == <<"inquired_type", "min_level", "max_level">>
  <2>1. IsSeq(ns) /\ Len(ns) = 3
    BY Tuple3
  <2>2. ns[1] = "inquired_type" /\ ns[2] = "min_level" /\ ns[3] = "max_level"
    OBVIOUS
  <2>3. w2 = FramePuts(3, None, ns)
    BY Zenon DEF w2, FramePuts
  <2> HIDE DEF ns
  <2>4. IsSeq(c2) /\ Len(c2) = 2
    BY Tuple2 DEF c2
  <2>5. c2[1].op \in SimpleParsers /\ c2[1].name = ns[1 + 1]
    BY <2>2 DEF c2, Plain, SimpleParsers
  <2>6. c2[2].op \in SimpleParsers /\ c2[2].name = ns[2 + 1]
    BY <2>2 DEF c2, Plain, SimpleParsers
  <2>7. \A i \in 1..2 : c2[i].op \in SimpleParsers /\ c2[i].name = ns[i + 1]
    BY <2>5, <2>6
  <2>8. \A i \in 1..1 : l[i].name = ns[i]
    BY <1>1, <2>2
  <2>9. 3 = Len(ns) /\ Len(ns) = Len(c2) + 1 /\ 3 > 0 /\ 1 \in {0, 1, 2}
    BY <2>1, <2>4
  <2>10. \A i \in 1..Len(c2) : c2[i].op \in SimpleParsers /\ c2[i].name = ns[i + 1]
    BY <2>4, <2>7
  <2>11. \A u, v : WritesBack(u, v, l, 1, c2, w2)
    BY <2>1, <2>3, <2>4, <2>8, <2>9, <2>10, PutsRound
  <2> QED
    BY <2>11, Zenon DEF CaseRound
<1>5. DOMAIN ws = 1..2 /\ DOMAIN cs = 1..2
      /\ ws[1].layout = w1 /\ ws[1].values = PresetEq
      /\ cs[1].layout = c1 /\ cs[1].values = PresetEq
      /\ ws[2].layout = w2 /\ ws[2].values = Ebb
      /\ cs[2].layout = c2 /\ cs[2].values = Ebb
  BY Tuple2 DEF Case, ws, cs
<1>6. \A c \in DOMAIN ws : cs[c].values = ws[c].values
  BY <1>5
<1>7. \A c \in DOMAIN ws : CaseRound(t, ws[c].values, l, 1, cs[c].layout, ws[c].layout)
  BY <1>3, <1>4, <1>5
<1>8. \A v \in EqebbInquired : \E c \in DOMAIN ws : v \in ws[c].values
  BY <1>5 DEF EqebbInquired, PresetEq, Ebb
<1>9. \A c, d \in DOMAIN ws : c # d => ws[c].values \cap ws[d].values = {}
  BY <1>5 DEF EqebbInquired, PresetEq, Ebb
<1>10. "inquired_type" = IF t \in PlayParams THEN "detailed_data_type" ELSE "inquired_type"
  BY DEF PlayParams, Smart, BatteryLevels, NcasmParams
<1>11. 1 \in {1, 2} /\ \A i \in 1..1 : l[i].op = "enum"
  BY <1>1
<1>12. ChoiceRound(t, l, w)
  BY <1>1, <1>5, <1>6, <1>7, <1>8, <1>9, <1>10, <1>11, ChoiceIntro, SMTT(60)
<1> QED
  BY <1>2, <1>12

LEMMA EqParamRound ==
  ASSUME NEW t, t \notin PlayParams
  PROVE  ChoiceRound(t, EqParamParse, EqParamWrite)
<1> DEFINE w1 == << Start(3, "num_levels"), Put("inquired_type"), Put("preset_id"),
               Put("num_levels"), PutBytes("levels", "num_levels") >>
           c1 == << Enum("preset_id", EqPresetIds), Count("num_levels"),
               Bytes("levels", "num_levels") >>
           w2 == <<Start(2, None)>> \o Puts(<<"inquired_type", "level">>)
           c2 == << Plain("level") >>
           ws == << Case(PresetEq, w1), Case(Ebb, w2) >>
           cs == << Case(PresetEq, c1), Case(Ebb, c2) >>
           w == << Switch("inquired_type", ws) >>
           l == << Inquired(EqebbInquired), Switch("inquired_type", cs) >>
<1> HIDE DEF w1, c1, w2, c2, ws, cs
<1>1. /\ IsSeq(w) /\ Len(w) = 1 /\ w[1].op = "switch" /\ w[1].name = "inquired_type"
           /\ w[1].cases = ws
      /\ IsSeq(l) /\ Len(l) = 1 + 1 /\ l[1 + 1].op = "switch"
      /\ l[1 + 1].name = "inquired_type" /\ l[1 + 1].cases = cs
      /\ l[1].op = "enum" /\ l[1].name = "inquired_type" /\ l[1].values = EqebbInquired
  BY Tuple1, Tuple2 DEF Switch, Inquired, Enum
<1>2. EqParamWrite = w /\ EqParamParse = l
  BY Zenon DEF EqParamWrite, EqParamParse, l, w, ws, cs, w1, c1, w2, c2
<1> HIDE DEF w, l
<1>3. CaseRound(t, PresetEq, l, 1, c1, w1)
  <2>1. w1 = LevelsWrite /\ c1 = LevelsCase
    BY Zenon DEF w1, c1, LevelsWrite, LevelsCase
  <2>2. l[1].name = "inquired_type"
    BY <1>1
  <2>3. \A u, v : WritesBack(u, v, l, 1, LevelsCase, LevelsWrite)
    BY <2>2, LevelsRound
  <2> QED
    BY <2>1, <2>3, Zenon DEF CaseRound
<1>4. CaseRound(t, Ebb, l, 1, c2, w2)
  <2> DEFINE ns == <<"inquired_type", "level">>
  <2>1. IsSeq(ns) /\ Len(ns) = 2
    BY Tuple2
  <2>2. ns[1] = "inquired_type" /\ ns[2] = "level"
    OBVIOUS
  <2>3. w2 = FramePuts(2, None, ns)
    BY Zenon DEF w2, FramePuts
  <2> HIDE DEF ns
  <2>4. IsSeq(c2) /\ Len(c2) = 1
    BY Tuple1 DEF c2
  <2>5. c2[1].op \in SimpleParsers /\ c2[1].name = ns[1 + 1]
    BY <2>2 DEF c2, Plain, SimpleParsers
  <2>6. \A i \in 1..1 : c2[i].op \in SimpleParsers /\ c2[i].name = ns[i + 1]
    BY <2>5
  <2>7. \A i \in 1..1 : l[i].name = ns[i]
    BY <1>1, <2>2
  <2>8. 2 = Len(ns) /\ Len(ns) = Len(c2) + 1 /\ 2 > 0 /\ 1 \in {0, 1, 2}
    BY <2>1, <2>4
  <2>9. \A i \in 1..Len(c2) : c2[i].op \in SimpleParsers /\ c2[i].name = ns[i + 1]
    BY <2>4, <2>6
  <2>10. \A u, v : WritesBack(u, v, l, 1, c2, w2)
    BY <2>1, <2>3, <2>4, <2>7, <2>8, <2>9, PutsRound
  <2> QED
    BY <2>10, Zenon DEF CaseRound
<1>5. DOMAIN ws = 1..2 /\ DOMAIN cs = 1..2
      /\ ws[1].layout = w1 /\ ws[1].values = PresetEq
      /\ cs[1].layout = c1 /\ cs[1].values = PresetEq
      /\ ws[2].layout = w2 /\ ws[2].values = Ebb
      /\ cs[2].layout = c2 /\ cs[2].values = Ebb
  BY Tuple2 DEF Case, ws, cs
<1>6. \A c \in DOMAIN ws : cs[c].values = ws[c].values
  BY <1>5
<1>7. \A c \in DOMAIN ws : CaseRound(t, ws[c].values, l, 1, cs[c].layout, ws[c].layout)
  BY <1>3, <1>4, <1>5
<1>8. \A v \in EqebbInquired : \E c \in DOMAIN ws : v \in ws[c].values
  BY <1>5 DEF EqebbInquired, PresetEq, Ebb
<1>9. \A c, d \in DOMAIN ws : c # d => ws[c].values \cap ws[d].values = {}
  BY <1>5 DEF EqebbInquired, PresetEq, Ebb
<1>10. "inquired_type" = IF t \in PlayParams THEN "detailed_data_type" ELSE "inquired_type"
  BY DEF PlayParams, Smart, BatteryLevels, NcasmParams
<1>11. 1 \in {1, 2} /\ \A i \in 1..1 : l[i].op = "enum"
  BY <1>1
<1>12. ChoiceRound(t, l, w)
  BY <1>1, <1>5, <1>6, <1>7, <1>8, <1>9, <1>10, <1>11, ChoiceIntro, SMTT(60)
<1> QED
  BY <1>2, <1>12

LEMMA NcasmRound ==
  ASSUME NEW t, t \in NcasmParams
  PROVE  ChoiceRound(t, NcasmParamParse, NcasmParamWrite)
<1> DEFINE w1 == <<Start(3, None)>> \o Puts(<<"inquired_type", "nc_setting_type",
               "nc_setting_value">>)
           c1 == << Enum("nc_setting_type", OnOff), Enum("nc_setting_value", OnOff) >>
           w2 == <<Start(7, None)>> \o Puts(<<"inquired_type", "ncasm_effect",
               "ncasm_setting_type", "ncasm_amount", "asm_setting_type", "asm_id", "asm_amount">>)
           c2 == << Enum("ncasm_effect", NcasmEffects), Enum("ncasm_setting_type", {0, 1, 2}),
               Plain("ncasm_amount"), Enum("asm_setting_type", OnOff), Enum("asm_id", {0, 1}),
               Plain("asm_amount") >>
           w3 == <<Start(5, None)>> \o Puts(<<"inquired_type", "ncasm_effect", "asm_setting_type",
               "asm_id", "asm_id">>)
           c3 == << Enum("ncasm_effect", NcasmEffects), Enum("asm_setting_type", OnOff),
               Enum("asm_id", {0, 1}), Plain("asm_amount") >>
           ws == << Case(Nc, w1), Case(NcAndAsm, w2), Case(Asm, w3) >>
           cs == << Case(Nc, c1), Case(NcAndAsm, c2), Case(Asm, c3) >>
           w == << Switch("inquired_type", ws) >>
           l == << Inquired(NcasmInquired), Switch("inquired_type", cs) >>
<1> HIDE DEF w1, c1, w2, c2, w3, c3, ws, cs
<1>1. /\ IsSeq(w) /\ Len(w) = 1 /\ w[1].op = "switch" /\ w[1].name = "inquired_type"
           /\ w[1].cases = ws
      /\ IsSeq(l) /\ Len(l) = 1 + 1 /\ l[1 + 1].op = "switch"
      /\ l[1 + 1].name = "inquired_type" /\ l[1 + 1].cases = cs
      /\ l[1].op = "enum" /\ l[1].name = "inquired_type" /\ l[1].values = NcasmInquired
  BY Tuple1, Tuple2 DEF Switch, Inquired, Enum
<1>2. NcasmParamWrite = w /\ NcasmParamParse = l
  BY Zenon DEF NcasmParamWrite, NcasmParamParse, l, w, ws, cs, w1, c1, w2, c2, w3, c3
<1> HIDE DEF w, l
<1>3. CaseRound(t, Nc, l, 1, c1, w1)
  <2> DEFINE ns == <<"inquired_type", "nc_setting_type", "nc_setting_value">>
  <2>1. IsSeq(ns) /\ Len(ns) = 3
    BY Tuple3
  <2>2. ns[1] = "inquired_type" /\ ns[2] = "nc_setting_type" /\ ns[3] = "nc_setting_value"
    OBVIOUS
  <2>3. w1 = FramePuts(3, None, ns)
    BY Zenon DEF w1, FramePuts
  <2> HIDE DEF ns
  <2>4. IsSeq(c1) /\ Len(c1) = 2
    BY Tuple2 DEF c1
  <2>5. c1[1].op \in SimpleParsers /\ c1[1].name = ns[1 + 1]
    BY <2>2 DEF c1, Enum, SimpleParsers
  <2>6. c1[2].op \in SimpleParsers /\ c1[2].name = ns[2 + 1]
    BY <2>2 DEF c1, Enum, SimpleParsers
  <2>7. \A i \in 1..2 : c1[i].op \in SimpleParsers /\ c1[i].name = ns[i + 1]
    BY <2>5, <2>6
  <2>8. \A i \in 1..1 : l[i].name = ns[i]
    BY <1>1, <2>2
  <2>9. 3 = Len(ns) /\ Len(ns) = Len(c1) + 1 /\ 3 > 0 /\ 1 \in {0, 1, 2}
    BY <2>1, <2>4
  <2>10. \A i \in 1..Len(c1) : c1[i].op \in SimpleParsers /\ c1[i].name = ns[i + 1]
    BY <2>4, <2>7
  <2>11. \A u, v : WritesBack(u, v, l, 1, c1, w1)
    BY <2>1, <2>3, <2>4, <2>8, <2>9, <2>10, PutsRound
  <2> QED
    BY <2>11, Zenon DEF CaseRound
<1>4. CaseRound(t, NcAndAsm, l, 1, c2, w2)
  <2> DEFINE ns == <<"inquired_type", "ncasm_effect", "ncasm_setting_type", "ncasm_amount",
                 "asm_setting_type", "asm_id", "asm_amount">>
  <2>1. IsSeq(ns) /\ Len(ns) = 7
    BY Tuple7
  <2>2. ns[1] = "inquired_type" /\ ns[2] = "ncasm_effect" /\ ns[3] = "ncasm_setting_type"
          /\ ns[4] = "ncasm_amount" /\ ns[5] = "asm_setting_type" /\ ns[6] = "asm_id"
          /\ ns[7] = "asm_amount"
    OBVIOUS
  <2>3. w2 = FramePuts(7, None, ns)
    BY Zenon DEF w2, FramePuts
  <2> HIDE DEF ns
  <2>4. IsSeq(c2) /\ Len(c2) = 6
    BY Tuple6 DEF c2
  <2>5. c2[1].op \in SimpleParsers /\ c2[1].name = ns[1 + 1]
    BY <2>2 DEF c2, Enum, SimpleParsers
  <2>6. c2[2].op \in SimpleParsers /\ c2[2].name = ns[2 + 1]
    BY <2>2 DEF c2, Enum, SimpleParsers
  <2>7. c2[3].op \in SimpleParsers /\ c2[3].name = ns[3 + 1]
    BY <2>2 DEF c2, Plain, SimpleParsers
  <2>8. c2[4].op \in SimpleParsers /\ c2[4].name = ns[4 + 1]
    BY <2>2 DEF c2, Enum, SimpleParsers
  <2>9. c2[5].op \in SimpleParsers /\ c2[5].name = ns[5 + 1]
    BY <2>2 DEF c2, Enum, SimpleParsers
  <2>10. c2[6].op \in SimpleParsers /\ c2[6].name = ns[6 + 1]
    BY <2>2 DEF c2, Plain, SimpleParsers
  <2>11. \A i \in 1..6 : c2[i].op \in SimpleParsers /\ c2[i].name = ns[i + 1]
    BY <2>5, <2>6, <2>7, <2>8, <2>9, <2>10
  <2>12. \A i \in 1..1 : l[i].name = ns[i]
    BY <1>1, <2>2
  <2>13. 7 = Len(ns) /\ Len(ns) = Len(c2) + 1 /\ 7 > 0 /\ 1 \in {0, 1, 2}
    BY <2>1, <2>4
  <2>14. \A i \in 1..Len(c2) : c2[i].op \in SimpleParsers /\ c2[i].name = ns[i + 1]
    BY <2>4, <2>11
  <2>15. \A u, v : WritesBack(u, v, l, 1, c2, w2)
    BY <2>1, <2>3, <2>4, <2>12, <2>13, <2>14, PutsRound
  <2> QED
    BY <2>15, Zenon DEF CaseRound
<1>5. CaseRound(t, Asm, l, 1, c3, w3)
  <2> DEFINE ns == <<"inquired_type", "ncasm_effect", "asm_setting_type", "asm_id", "asm_id">>
  <2>1. IsSeq(ns) /\ Len(ns) = 5
    BY Tuple5
  <2>2. w3 = FramePuts(5, None, ns)
    BY Zenon DEF w3, FramePuts
  <2> HIDE DEF ns
  <2>3. 5 \in Nat /\ 5 >= 5
    OBVIOUS
  <2>4. SpoiltFrame(w3)
    BY <2>1, <2>2, <2>3, SpoiltPuts
  <2>5. Spoils(t, Asm)
    BY DEF Spoils
  <2> QED
    BY <2>4, <2>5 DEF CaseRound
<1>6. DOMAIN ws = 1..3 /\ DOMAIN cs = 1..3
      /\ ws[1].layout = w1 /\ ws[1].values = Nc
      /\ cs[1].layout = c1 /\ cs[1].values = Nc
      /\ ws[2].layout = w2 /\ ws[2].values = NcAndAsm
      /\ cs[2].layout = c2 /\ cs[2].values = NcAndAsm
      /\ ws[3].layout = w3 /\ ws[3].values = Asm
      /\ cs[3].layout = c3 /\ cs[3].values = Asm
  BY Tuple3 DEF Case, ws, cs
<1>7. \A c \in DOMAIN ws : cs[c].values = ws[c].values
  BY <1>6
<1>8. \A c \in DOMAIN ws : CaseRound(t, ws[c].values, l, 1, cs[c].layout, ws[c].layout)
  BY <1>3, <1>4, <1>5, <1>6
<1>9. \A v \in NcasmInquired : \E c \in DOMAIN ws : v \in ws[c].values
  BY <1>6 DEF NcasmInquired, Nc, NcAndAsm, Asm
<1>10. \A c, d \in DOMAIN ws : c # d => ws[c].values \cap ws[d].values = {}
  BY <1>6 DEF NcasmInquired, Nc, NcAndAsm, Asm
<1>11. "inquired_type" = IF t \in PlayParams THEN "detailed_data_type" ELSE "inquired_type"
  BY DEF PlayParams, Smart, BatteryLevels, NcasmParams
<1>12. 1 \in {1, 2} /\ \A i \in 1..1 : l[i].op = "enum"
  BY <1>1
<1>13. ChoiceRound(t, l, w)
  BY <1>1, <1>6, <1>7, <1>8, <1>9, <1>10, <1>11, <1>12, ChoiceIntro, SMTT(60)
<1> QED
  BY <1>2, <1>13

LEMMA PlayRound ==
  ASSUME NEW t, t \in PlayParams
  PROVE  ChoiceRound(t, PlayParamParse, PlayParamWrite)
<1> DEFINE w1 == <<Start(4, "len")>> \o Puts(<<"inquired_type", "detailed_data_type", "status",
               "len">>) \o <<PutBytes("data", "len")>>
           c1 == << Enum("status", {0, 1, 2}), Clamped("len"), Bytes("data", "len") >>
           w2 == <<Start(3, None)>> \o Puts(<<"inquired_type", "detailed_data_type", "volume">>)
           c2 == << Plain("volume") >>
           ws == << Case(Names, w1), Case({Volume}, w2) >>
           cs == << Case(Names, c1), Case({Volume}, c2) >>
           w == << Switch("detailed_data_type", ws) >>
           l == << Inquired({1}), Enum("detailed_data_type", PlayDetailed),
               Switch("detailed_data_type", cs) >>
<1> HIDE DEF w1, c1, w2, c2, ws, cs
<1>1. /\ IsSeq(w) /\ Len(w) = 1 /\ w[1].op = "switch" /\ w[1].name = "detailed_data_type"
           /\ w[1].cases = ws
      /\ IsSeq(l) /\ Len(l) = 2 + 1 /\ l[2 + 1].op = "switch"
      /\ l[2 + 1].name = "detailed_data_type" /\ l[2 + 1].cases = cs
      /\ l[1].op = "enum" /\ l[1].name = "inquired_type"
      /\ l[2].op = "enum" /\ l[2].name = "detailed_data_type" /\ l[2].values = PlayDetailed
  BY Tuple1, Tuple3 DEF Switch, Inquired, Enum
<1>2. PlayParamWrite = w /\ PlayParamParse = l
  <2> DEFINE x == Inquired({1})
             y == Enum("detailed_data_type", PlayDetailed)
             z == Switch("detailed_data_type", cs)
  <2>1. PlayParamParse = <<x, y>> \o <<z>> /\ l = <<x, y, z>> /\ PlayParamWrite = w
    BY Zenon DEF PlayParamParse, PlayParamWrite, PlayGetParse, l, w, ws, cs, w1, c1, w2, c2
  <2> HIDE DEF x, y, z
  <2>2. <<x, y>> \o <<z>> = <<x, y, z>>
    BY TwoAndOne
  <2> QED
    BY <2>1, <2>2
<1> HIDE DEF w, l
<1>3. CaseRound(t, Names, l, 2, c1, w1)
  <2>1. w1 = PlayerWrite /\ c1 = PlayerCase
    BY Zenon DEF w1, c1, PlayerWrite, PlayerCase
  <2>2. l[1].name = "inquired_type" /\ l[2].name = "detailed_data_type"
    BY <1>1
  <2>3. \A u \in PlayParams : WritesBack(u, Names, l, 2, PlayerCase, PlayerWrite)
    BY <2>2, PlayerRound
  <2> QED
    BY <2>1, <2>3, Zenon DEF CaseRound
<1>4. CaseRound(t, {Volume}, l, 2, c2, w2)
  <2> DEFINE ns == <<"inquired_type", "detailed_data_type", "volume">>
  <2>1. IsSeq(ns) /\ Len(ns) = 3
    BY Tuple3
  <2>2. ns[1] = "inquired_type" /\ ns[2] = "detailed_data_type" /\ ns[3] = "volume"
    OBVIOUS
  <2>3. w2 = FramePuts(3, None, ns)
    BY Zenon DEF w2, FramePuts
  <2> HIDE DEF ns
  <2>4. IsSeq(c2) /\ Len(c2) = 1
    BY Tuple1 DEF c2
  <2>5. c2[1].op \in SimpleParsers /\ c2[1].name = ns[1 + 2]
    BY <2>2 DEF c2, Plain, SimpleParsers
  <2>6. \A i \in 1..1 : c2[i].op \in SimpleParsers /\ c2[i].name = ns[i + 2]
    BY <2>5
  <2>7. \A i \in 1..2 : l[i].name = ns[i]
    BY <1>1, <2>2
  <2>8. 3 = Len(ns) /\ Len(ns) = Len(c2) + 2 /\ 3 > 0 /\ 2 \in {0, 1, 2}
    BY <2>1, <2>4
  <2>9. \A i \in 1..Len(c2) : c2[i].op \in SimpleParsers /\ c2[i].name = ns[i + 2]
    BY <2>4, <2>6
  <2>10. \A u, v : WritesBack(u, v, l, 2, c2, w2)
    BY <2>1, <2>3, <2>4, <2>7, <2>8, <2>9, PutsRound
  <2> QED
    BY <2>10, Zenon DEF CaseRound
<1>5. DOMAIN ws = 1..2 /\ DOMAIN cs = 1..2
      /\ ws[1].layout = w1 /\ ws[1].values = Names
      /\ cs[1].layout = c1 /\ cs[1].values = Names
      /\ ws[2].layout = w2 /\ ws[2].values = {Volume}
      /\ cs[2].layout = c2 /\ cs[2].values = {Volume}
  BY Tuple2 DEF Case, ws, cs
<1>6. \A c \in DOMAIN ws : cs[c].values = ws[c].values
  BY <1>5
<1>7. \A c \in DOMAIN ws : CaseRound(t, ws[c].values, l, 2, cs[c].layout, ws[c].layout)
  BY <1>3, <1>4, <1>5
<1>8. \A v \in PlayDetailed : \E c \in DOMAIN ws : v \in ws[c].values
  BY <1>5 DEF PlayDetailed, Names, Volume
<1>9. \A c, d \in DOMAIN ws : c # d => ws[c].values \cap ws[d].values = {}
  BY <1>5 DEF PlayDetailed, Names, Volume
<1>10. "detailed_data_type" = IF t \in PlayParams THEN "detailed_data_type" ELSE "inquired_type"
  BY DEF PlayParams, Smart, BatteryLevels, NcasmParams
<1>11. 2 \in {1, 2} /\ \A i \in 1..2 : l[i].op = "enum"
  BY <1>1
<1>12. ChoiceRound(t, l, w)
  BY <1>1, <1>5, <1>6, <1>7, <1>8, <1>9, <1>10, <1>11, ChoiceIntro, SMTT(60)
<1> QED
  BY <1>2, <1>12

LEMMA SystemCapabilityRound ==
  ASSUME NEW t, t \notin PlayParams, Spoils(t, SmartTalking)
  PROVE  ChoiceRound(t, SystemCapabilityParse, SystemCapabilityWrite)
<1> DEFINE w1 == <<Start(2, None)>> \o Puts(<<"inquired_type", "setting_type">>)
           c1 == << Enum("setting_type", {0}) >>
           w2 == << Start(2, "element_id_count"), Put("inquired_type"), Put("element_id_count"),
               Each("element_ids", "element_id_count", << Put("element_id") >>) >>
           c2 == << Count("element_id_count"), Each("element_ids", "element_id_count",
               << Enum("element_id", AutoPowerOffIds) >>) >>
           w3 == <<Start(11, None)>> \o
                 Puts(<<"inquired_type", "setting_type", "preview_type",
                        "detail_setting", "detection_sensitivity_type",
                        "voice_focus_type", "mode_out_time_type_t",
                        "timeouts[0]", "timeouts[1]",
                        "timeouts[2]", "timeouts[3]">>) \o
               <<Start(2, None)>> \o Puts(<<"inquired_type", "setting_type">>)
           c3 == << Enum("setting_type", {0}), Enum("preview_type", {0, 1}),
                  Enum("detail_setting", {0}),
                  Enum("detection_sensitivity_type", {0}),
                  Enum("voice_focus_type", {0}),
                  Enum("mode_out_time_type_t", {0}),
                  Plain("timeouts[0]"), Plain("timeouts[1]"),
                  Plain("timeouts[2]"), Plain("timeouts[3]") >>
           w4 == AssignableCapabilityWrite
           c4 == AssignableCapabilityParse
           ws == << Case(OnOffSetting, w1), Case(AutoPowerOff, w2), Case(SmartTalking, w3),
               Case(AssignableKeys, w4) >>
           cs == << Case(OnOffSetting, c1), Case(AutoPowerOff, c2), Case(SmartTalking, c3),
               Case(AssignableKeys, c4) >>
           w == << Switch("inquired_type", ws) >>
           l == << Inquired(SystemInquired), Switch("inquired_type", cs) >>
<1> HIDE DEF w1, c1, w2, c2, w3, c3, w4, c4, ws, cs
<1>1. /\ IsSeq(w) /\ Len(w) = 1 /\ w[1].op = "switch" /\ w[1].name = "inquired_type"
           /\ w[1].cases = ws
      /\ IsSeq(l) /\ Len(l) = 1 + 1 /\ l[1 + 1].op = "switch"
      /\ l[1 + 1].name = "inquired_type" /\ l[1 + 1].cases = cs
      /\ l[1].op = "enum" /\ l[1].name = "inquired_type" /\ l[1].values = SystemInquired
  BY Tuple1, Tuple2 DEF Switch, Inquired, Enum
<1>2. SystemCapabilityWrite = w /\ SystemCapabilityParse = l
  BY Zenon DEF SystemCapabilityWrite, SystemCapabilityParse, l, w, ws, cs, w1, c1, w2, c2, w3, c3,
    w4, c4
<1> HIDE DEF w, l
<1>3. CaseRound(t, OnOffSetting, l, 1, c1, w1)
  <2> DEFINE ns == <<"inquired_type", "setting_type">>
  <2>1. IsSeq(ns) /\ Len(ns) = 2
    BY Tuple2
  <2>2. ns[1] = "inquired_type" /\ ns[2] = "setting_type"
    OBVIOUS
  <2>3. w1 = FramePuts(2, None, ns)
    BY Zenon DEF w1, FramePuts
  <2> HIDE DEF ns
  <2>4. IsSeq(c1) /\ Len(c1) = 1
    BY Tuple1 DEF c1
  <2>5. c1[1].op \in SimpleParsers /\ c1[1].name = ns[1 + 1]
    BY <2>2 DEF c1, Enum, SimpleParsers
  <2>6. \A i \in 1..1 : c1[i].op \in SimpleParsers /\ c1[i].name = ns[i + 1]
    BY <2>5
  <2>7. \A i \in 1..1 : l[i].name = ns[i]
    BY <1>1, <2>2
  <2>8. 2 = Len(ns) /\ Len(ns) = Len(c1) + 1 /\ 2 > 0 /\ 1 \in {0, 1, 2}
    BY <2>1, <2>4
  <2>9. \A i \in 1..Len(c1) : c1[i].op \in SimpleParsers /\ c1[i].name = ns[i + 1]
    BY <2>4, <2>6
  <2>10. \A u, v : WritesBack(u, v, l, 1, c1, w1)
    BY <2>1, <2>3, <2>4, <2>7, <2>8, <2>9, PutsRound
  <2> QED
    BY <2>10, Zenon DEF CaseRound
<1>4. CaseRound(t, AutoPowerOff, l, 1, c2, w2)
  <2>1. w2 = ArrayWrite("inquired_type", "element_id_count", "element_ids", "element_id")
    BY Zenon DEF w2, ArrayWrite
  <2>2. c2 = ArrayCase("element_id_count", "element_ids", "element_id", AutoPowerOffIds)
    BY Zenon DEF c2, ArrayCase
  <2>3. "element_id_count" # None /\ l[1].name = "inquired_type"
    BY <1>1 DEF None
  <2>4. \A u, v : WritesBack(u, v, l, 1, ArrayCase("element_id_count", "element_ids",
          "element_id", AutoPowerOffIds),
          ArrayWrite("inquired_type", "element_id_count", "element_ids", "element_id"))
    BY <2>3, ArrayCaseRound
  <2> QED
    BY <2>1, <2>2, <2>4, Zenon DEF CaseRound
<1>5. CaseRound(t, SmartTalking, l, 1, c3, w3)
  <2>1. w3 = SmartWrite
    BY Zenon DEF w3, SmartWrite, SmartNames
  <2>2. Spoils(t, SmartTalking)
    OBVIOUS
  <2> QED
    BY <2>1, <2>2, SmartSpoilt DEF CaseRound
<1>6. CaseRound(t, AssignableKeys, l, 1, c4, w4)
  <2>1. w4 = AssignableCapabilityWrite /\ c4 = AssignableCapabilityParse
    BY Zenon DEF w4, c4
  <2>2. l[1].name = "inquired_type"
    BY <1>1
  <2>3. \A u, v : WritesBack(u, v, l, 1, AssignableCapabilityParse, AssignableCapabilityWrite)
    BY <2>2, KeysRound
  <2> QED
    BY <2>1, <2>3, Zenon DEF CaseRound
<1>7. DOMAIN ws = 1..4 /\ DOMAIN cs = 1..4
      /\ ws[1].layout = w1 /\ ws[1].values = OnOffSetting
      /\ cs[1].layout = c1 /\ cs[1].values = OnOffSetting
      /\ ws[2].layout = w2 /\ ws[2].values = AutoPowerOff
      /\ cs[2].layout = c2 /\ cs[2].values = AutoPowerOff
      /\ ws[3].layout = w3 /\ ws[3].values = SmartTalking
      /\ cs[3].layout = c3 /\ cs[3].values = SmartTalking
      /\ ws[4].layout = w4 /\ ws[4].values = AssignableKeys
      /\ cs[4].layout = c4 /\ cs[4].values = AssignableKeys
  BY Tuple4 DEF Case, ws, cs
<1>8. \A c \in DOMAIN ws : cs[c].values = ws[c].values
  BY <1>7
<1>9. \A c \in DOMAIN ws : CaseRound(t, ws[c].values, l, 1, cs[c].layout, ws[c].layout)
  BY <1>3, <1>4, <1>5, <1>6, <1>7
<1>10. \A v \in SystemInquired : \E c \in DOMAIN ws : v \in ws[c].values
  BY <1>7 DEF SystemInquired, OnOffSetting, AutoPowerOff, SmartTalking, AssignableKeys
<1>11. \A c, d \in DOMAIN ws : c # d => ws[c].values \cap ws[d].values = {}
  BY <1>7 DEF SystemInquired, OnOffSetting, AutoPowerOff, SmartTalking, AssignableKeys
<1>12. "inquired_type" = IF t \in PlayParams THEN "detailed_data_type" ELSE "inquired_type"
  BY DEF PlayParams, Smart, BatteryLevels, NcasmParams
<1>13. 1 \in {1, 2} /\ \A i \in 1..1 : l[i].op = "enum"
  BY <1>1
<1>14. ChoiceRound(t, l, w)
  BY <1>1, <1>7, <1>8, <1>9, <1>10, <1>11, <1>12, <1>13, ChoiceIntro, SMTT(60)
<1> QED
  BY <1>2, <1>14

LEMMA SystemParamRound ==
  ASSUME NEW t, t \notin PlayParams
  PROVE  ChoiceRound(t, SystemParamParse, SystemParamWrite)
<1> DEFINE w1 == <<Start(3, None)>> \o Puts(<<"inquired_type", "setting_type", "setting_value">>)
           c1 == << Enum("setting_type", {0}), Enum("setting_value", OnOff) >>
           w2 == <<Start(4, None)>> \o Puts(<<"inquired_type", "parameter_type", "element_id",
               "select_time_element_id">>)
           c2 == << Enum("parameter_type", {1}), Enum("element_id", AutoPowerOffIds),
               Enum("select_time_element_id", AutoPowerOffIds) >>
           w3 == << Start(2, "num_presets"), Put("inquired_type"), Put("num_presets"),
               Each("presets", "num_presets", << Put("preset") >>) >>
           c3 == << Count("num_presets"), Each("presets", "num_presets",
               << Enum("preset", ButtonPresets) >>) >>
           ws == << Case(OnOffSetting \cup SmartTalking, w1), Case(AutoPowerOff, w2),
               Case(AssignableKeys, w3) >>
           cs == << Case(OnOffSetting \cup SmartTalking, c1), Case(AutoPowerOff, c2),
               Case(AssignableKeys, c3) >>
           w == << Switch("inquired_type", ws) >>
           l == << Inquired(SystemInquired), Switch("inquired_type", cs) >>
<1> HIDE DEF w1, c1, w2, c2, w3, c3, ws, cs
<1>1. /\ IsSeq(w) /\ Len(w) = 1 /\ w[1].op = "switch" /\ w[1].name = "inquired_type"
           /\ w[1].cases = ws
      /\ IsSeq(l) /\ Len(l) = 1 + 1 /\ l[1 + 1].op = "switch"
      /\ l[1 + 1].name = "inquired_type" /\ l[1 + 1].cases = cs
      /\ l[1].op = "enum" /\ l[1].name = "inquired_type" /\ l[1].values = SystemInquired
  BY Tuple1, Tuple2 DEF Switch, Inquired, Enum
<1>2. SystemParamWrite = w /\ SystemParamParse = l
  BY Zenon DEF SystemParamWrite, SystemParamParse, l, w, ws, cs, w1, c1, w2, c2, w3, c3
<1> HIDE DEF w, l
<1>3. CaseRound(t, OnOffSetting \cup SmartTalking, l, 1, c1, w1)
  <2> DEFINE ns == <<"inquired_type", "setting_type", "setting_value">>
  <2>1. IsSeq(ns) /\ Len(ns) = 3
    BY Tuple3
  <2>2. ns[1] = "inquired_type" /\ ns[2] = "setting_type" /\ ns[3] = "setting_value"
    OBVIOUS
  <2>3. w1 = FramePuts(3, None, ns)
    BY Zenon DEF w1, FramePuts
  <2> HIDE DEF ns
  <2>4. IsSeq(c1) /\ Len(c1) = 2
    BY Tuple2 DEF c1
  <2>5. c1[1].op \in SimpleParsers /\ c1[1].name = ns[1 + 1]
    BY <2>2 DEF c1, Enum, SimpleParsers
  <2>6. c1[2].op \in SimpleParsers /\ c1[2].name = ns[2 + 1]
    BY <2>2 DEF c1, Enum, SimpleParsers
  <2>7. \A i \in 1..2 : c1[i].op \in SimpleParsers /\ c1[i].name = ns[i + 1]
    BY <2>5, <2>6
  <2>8. \A i \in 1..1 : l[i].name = ns[i]
    BY <1>1, <2>2
  <2>9. 3 = Len(ns) /\ Len(ns) = Len(c1) + 1 /\ 3 > 0 /\ 1 \in {0, 1, 2}
    BY <2>1, <2>4
  <2>10. \A i \in 1..Len(c1) : c1[i].op \in SimpleParsers /\ c1[i].name = ns[i + 1]
    BY <2>4, <2>7
  <2>11. \A u, v : WritesBack(u, v, l, 1, c1, w1)
    BY <2>1, <2>3, <2>4, <2>8, <2>9, <2>10, PutsRound
  <2> QED
    BY <2>11, Zenon DEF CaseRound
<1>4. CaseRound(t, AutoPowerOff, l, 1, c2, w2)
  <2> DEFINE ns == <<"inquired_type", "parameter_type", "element_id", "select_time_element_id">>
  <2>1. IsSeq(ns) /\ Len(ns) = 4
    BY Tuple4
  <2>2. ns[1] = "inquired_type" /\ ns[2] = "parameter_type" /\ ns[3] = "element_id"
          /\ ns[4] = "select_time_element_id"
    OBVIOUS
  <2>3. w2 = FramePuts(4, None, ns)
    BY Zenon DEF w2, FramePuts
  <2> HIDE DEF ns
  <2>4. IsSeq(c2) /\ Len(c2) = 3
    BY Tuple3 DEF c2
  <2>5. c2[1].op \in SimpleParsers /\ c2[1].name = ns[1 + 1]
    BY <2>2 DEF c2, Enum, SimpleParsers
  <2>6. c2[2].op \in SimpleParsers /\ c2[2].name = ns[2 + 1]
    BY <2>2 DEF c2, Enum, SimpleParsers
  <2>7. c2[3].op \in SimpleParsers /\ c2[3].name = ns[3 + 1]
    BY <2>2 DEF c2, Enum, SimpleParsers
  <2>8. \A i \in 1..3 : c2[i].op \in SimpleParsers /\ c2[i].name = ns[i + 1]
    BY <2>5, <2>6, <2>7
  <2>9. \A i \in 1..1 : l[i].name = ns[i]
    BY <1>1, <2>2
  <2>10. 4 = Len(ns) /\ Len(ns) = Len(c2) + 1 /\ 4 > 0 /\ 1 \in {0, 1, 2}
    BY <2>1, <2>4
  <2>11. \A i \in 1..Len(c2) : c2[i].op \in SimpleParsers /\ c2[i].name = ns[i + 1]
    BY <2>4, <2>8
  <2>12. \A u, v : WritesBack(u, v, l, 1, c2, w2)
    BY <2>1, <2>3, <2>4, <2>9, <2>10, <2>11, PutsRound
  <2> QED
    BY <2>12, Zenon DEF CaseRound
<1>5. CaseRound(t, AssignableKeys, l, 1, c3, w3)
  <2>1. w3 = ArrayWrite("inquired_type", "num_presets", "presets", "preset")
    BY Zenon DEF w3, ArrayWrite
  <2>2. c3 = ArrayCase("num_presets", "presets", "preset", ButtonPresets)
    BY Zenon DEF c3, ArrayCase
  <2>3. "num_presets" # None /\ l[1].name = "inquired_type"
    BY <1>1 DEF None
  <2>4. \A u, v : WritesBack(u, v, l, 1, ArrayCase("num_presets", "presets", "preset",
          ButtonPresets), ArrayWrite("inquired_type", "num_presets", "presets", "preset"))
    BY <2>3, ArrayCaseRound
  <2> QED
    BY <2>1, <2>2, <2>4, Zenon DEF CaseRound
<1>6. DOMAIN ws = 1..3 /\ DOMAIN cs = 1..3
      /\ ws[1].layout = w1 /\ ws[1].values = OnOffSetting \cup SmartTalking
      /\ cs[1].layout = c1 /\ cs[1].values = OnOffSetting \cup SmartTalking
      /\ ws[2].layout = w2 /\ ws[2].values = AutoPowerOff
      /\ cs[2].layout = c2 /\ cs[2].values = AutoPowerOff
      /\ ws[3].layout = w3 /\ ws[3].values = AssignableKeys
      /\ cs[3].layout = c3 /\ cs[3].values = AssignableKeys
  BY Tuple3 DEF Case, ws, cs
<1>7. \A c \in DOMAIN ws : cs[c].values = ws[c].values
  BY <1>6
<1>8. \A c \in DOMAIN ws : CaseRound(t, ws[c].values, l, 1, cs[c].layout, ws[c].layout)
  BY <1>3, <1>4, <1>5, <1>6
<1>9. \A v \in SystemInquired : \E c \in DOMAIN ws : v \in ws[c].values
  BY <1>6 DEF SystemInquired, OnOffSetting, AutoPowerOff, SmartTalking, AssignableKeys
<1>10. \A c, d \in DOMAIN ws : c # d => ws[c].values \cap ws[d].values = {}
  BY <1>6 DEF SystemInquired, OnOffSetting, AutoPowerOff, SmartTalking, AssignableKeys
<1>11. "inquired_type" = IF t \in PlayParams THEN "detailed_data_type" ELSE "inquired_type"
  BY DEF PlayParams, Smart, BatteryLevels, NcasmParams
<1>12. 1 \in {1, 2} /\ \A i \in 1..1 : l[i].op = "enum"
  BY <1>1
<1>13. ChoiceRound(t, l, w)
  BY <1>1, <1>6, <1>7, <1>8, <1>9, <1>10, <1>11, <1>12, ChoiceIntro, SMTT(60)
<1> QED
  BY <1>2, <1>13

Rounds(t, l, w) == FlatRound(t, l, w) \/ ChoiceRound(t, l, w)

LEMMA ProtocolRound ==
  \A t : FlatRound(t, << Enum("fixed_value", {0}), Plain("version_high"), Plain("version_low") >>,
    <<Start(3, None)>> \o Puts(<<"fixed_value", "version_high", "version_low">>))
<1> DEFINE l == << Enum("fixed_value", {0}), Plain("version_high"), Plain("version_low") >>
           w == <<Start(3, None)>> \o Puts(<<"fixed_value", "version_high", "version_low">>)
           ns == <<"fixed_value", "version_high", "version_low">>
<1>1. IsSeq(ns) /\ 3 = Len(ns)
  BY Tuple3
<1>2. ns[1] = "fixed_value" /\ ns[2] = "version_high" /\ ns[3] = "version_low"
  OBVIOUS
<1>3. w = FramePuts(3, None, ns)
  BY Zenon DEF FramePuts
<1> HIDE DEF ns
<1>4. IsSeq(l) /\ Len(l) = 3
  BY Tuple3
<1>5. l[1].op \in SimpleParsers /\ l[1].name = ns[1 + 0]
  BY <1>2 DEF Enum, Plain, SimpleParsers
<1>6. l[2].op \in SimpleParsers /\ l[2].name = ns[2 + 0]
  BY <1>2 DEF Enum, Plain, SimpleParsers
<1>7. l[3].op \in SimpleParsers /\ l[3].name = ns[3 + 0]
  BY <1>2 DEF Enum, Plain, SimpleParsers
<1> HIDE DEF l, w
<1>8. \A i \in 1..Len(l) : l[i].op \in SimpleParsers /\ l[i].name = ns[i + 0]
  BY <1>4, <1>5, <1>6, <1>7
<1>9. Len(ns) = Len(l) + 0 /\ 3 > 0 /\ 0 \in {0, 1, 2} /\ \A i \in 1..0 : l[i].name = ns[i]
  BY <1>1, <1>4
<1>10. \A u, v : WritesBack(u, v, l, 0, l, w)
  BY <1>1, <1>3, <1>4, <1>8, <1>9, PutsRound
<1> QED
  BY <1>10 DEF FlatRound, l, w

LEMMA PowerOffRound ==
  \A t : FlatRound(t, << Inquired({0}), Enum("setting_value", {1}) >>, <<Start(2, None)>>
    \o Puts(<<"inquired_type", "setting_value">>))
<1> DEFINE l == << Inquired({0}), Enum("setting_value", {1}) >>
           w == <<Start(2, None)>> \o Puts(<<"inquired_type", "setting_value">>)
           ns == <<"inquired_type", "setting_value">>
<1>1. IsSeq(ns) /\ 2 = Len(ns)
  BY Tuple2
<1>2. ns[1] = "inquired_type" /\ ns[2] = "setting_value"
  OBVIOUS
<1>3. w = FramePuts(2, None, ns)
  BY Zenon DEF FramePuts
<1> HIDE DEF ns
<1>4. IsSeq(l) /\ Len(l) = 2
  BY Tuple2
<1>5. l[1].op \in SimpleParsers /\ l[1].name = ns[1 + 0]
  BY <1>2 DEF Inquired, Enum, SimpleParsers
<1>6. l[2].op \in SimpleParsers /\ l[2].name = ns[2 + 0]
  BY <1>2 DEF Inquired, Enum, SimpleParsers
<1> HIDE DEF l, w
<1>7. \A i \in 1..Len(l) : l[i].op \in SimpleParsers /\ l[i].name = ns[i + 0]
  BY <1>4, <1>5, <1>6
<1>8. Len(ns) = Len(l) + 0 /\ 2 > 0 /\ 0 \in {0, 1, 2} /\ \A i \in 1..0 : l[i].name = ns[i]
  BY <1>1, <1>4
<1>9. \A u, v : WritesBack(u, v, l, 0, l, w)
  BY <1>1, <1>3, <1>4, <1>7, <1>8, PutsRound
<1> QED
  BY <1>9 DEF FlatRound, l, w

LEMMA LanguageRound ==
  \A t : FlatRound(t, << Inquired(EqebbInquired), Enum("display_language", DisplayLanguages) >>,
    <<Start(2, None)>> \o Puts(<<"inquired_type", "display_language">>))
<1> DEFINE l == << Inquired(EqebbInquired), Enum("display_language", DisplayLanguages) >>
           w == <<Start(2, None)>> \o Puts(<<"inquired_type", "display_language">>)
           ns == <<"inquired_type", "display_language">>
<1>1. IsSeq(ns) /\ 2 = Len(ns)
  BY Tuple2
<1>2. ns[1] = "inquired_type" /\ ns[2] = "display_language"
  OBVIOUS
<1>3. w = FramePuts(2, None, ns)
  BY Zenon DEF FramePuts
<1> HIDE DEF ns
<1>4. IsSeq(l) /\ Len(l) = 2
  BY Tuple2
<1>5. l[1].op \in SimpleParsers /\ l[1].name = ns[1 + 0]
  BY <1>2 DEF Inquired, Enum, SimpleParsers
<1>6. l[2].op \in SimpleParsers /\ l[2].name = ns[2 + 0]
  BY <1>2 DEF Inquired, Enum, SimpleParsers
<1> HIDE DEF l, w
<1>7. \A i \in 1..Len(l) : l[i].op \in SimpleParsers /\ l[i].name = ns[i + 0]
  BY <1>4, <1>5, <1>6
<1>8. Len(ns) = Len(l) + 0 /\ 2 > 0 /\ 0 \in {0, 1, 2} /\ \A i \in 1..0 : l[i].name = ns[i]
  BY <1>1, <1>4
<1>9. \A u, v : WritesBack(u, v, l, 0, l, w)
  BY <1>1, <1>3, <1>4, <1>7, <1>8, PutsRound
<1> QED
  BY <1>9 DEF FlatRound, l, w

LEMMA PlayGetRound ==
  \A t : FlatRound(t, << Inquired({1}), Enum("detailed_data_type", PlayDetailed) >>,
    <<Start(2, None)>> \o Puts(<<"inquired_type", "detailed_data_type">>))
<1> DEFINE l == << Inquired({1}), Enum("detailed_data_type", PlayDetailed) >>
           w == <<Start(2, None)>> \o Puts(<<"inquired_type", "detailed_data_type">>)
           ns == <<"inquired_type", "detailed_data_type">>
<1>1. IsSeq(ns) /\ 2 = Len(ns)
  BY Tuple2
<1>2. ns[1] = "inquired_type" /\ ns[2] = "detailed_data_type"
  OBVIOUS
<1>3. w = FramePuts(2, None, ns)
  BY Zenon DEF FramePuts
<1> HIDE DEF ns
<1>4. IsSeq(l) /\ Len(l) = 2
  BY Tuple2
<1>5. l[1].op \in SimpleParsers /\ l[1].name = ns[1 + 0]
  BY <1>2 DEF Inquired, Enum, SimpleParsers
<1>6. l[2].op \in SimpleParsers /\ l[2].name = ns[2 + 0]
  BY <1>2 DEF Inquired, Enum, SimpleParsers
<1> HIDE DEF l, w
<1>7. \A i \in 1..Len(l) : l[i].op \in SimpleParsers /\ l[i].name = ns[i + 0]
  BY <1>4, <1>5, <1>6
<1>8. Len(ns) = Len(l) + 0 /\ 2 > 0 /\ 0 \in {0, 1, 2} /\ \A i \in 1..0 : l[i].name = ns[i]
  BY <1>1, <1>4
<1>9. \A u, v : WritesBack(u, v, l, 0, l, w)
  BY <1>1, <1>3, <1>4, <1>7, <1>8, PutsRound
<1> QED
  BY <1>9 DEF FlatRound, l, w

LEMMA SupportFunctionRound == \A t : FlatRound(t, SupportFunctionParse, SupportFunctionWrite)
<1> DEFINE lc == SupportFunctionParse
           w == SupportFunctionWrite
           k == 0
           c == "num_function_types"
<1>1. w = ArrayWrite("fixed_value", "num_function_types", "function_types", "function_type")
  BY Zenon DEF SupportFunctionWrite, ArrayWrite
<1>2. lc = ArrayParse("fixed_value", {0}, "num_function_types", "function_types", "function_type",
        FunctionTypes)
  BY Zenon DEF SupportFunctionParse, ArrayParse
<1>3. "num_function_types" # None
  BY DEF None
<1> HIDE DEF lc, w, k
<1>4. /\ k = 1 => lc[1].name = "fixed_value"
               /\ lc = ArrayCase("num_function_types", "function_types", "function_type",
                    FunctionTypes)
      /\ k = 0 => \E also : lc = ArrayParse("fixed_value", also, "num_function_types",
           "function_types", "function_type", FunctionTypes)
      /\ k \in {0, 1}
  BY <1>2 DEF k
<1>5. \A t, cv : WritesBack(t, cv, lc, k, lc, w)
  BY <1>1, <1>3, <1>4, ArrayRound
<1> QED
  BY <1>5 DEF FlatRound, lc, w, k

LEMMA ConnectRounds == \A t \in DOMAIN ConnectParse : Rounds(t, ConnectParse[t], ConnectWrite[t])
<1> SUFFICES ASSUME NEW t \in DOMAIN ConnectParse PROVE Rounds(t, ConnectParse[t], ConnectWrite[t])
  OBVIOUS
<1> DEFINE l == ConnectParse[t]
           w == ConnectWrite[t]
<1>1. \/ t \in {"CONNECT_GET_PROTOCOL_INFO", "CONNECT_GET_SUPPORT_FUNCTION"}
           /\ l = << Enum("fixed_value", {0}) >> /\ w = WriteOne("fixed_value")
      \/ t = "CONNECT_GET_DEVICE_INFO" /\ l = << Enum("inquired_type", DeviceInfoInquired) >>
           /\ w = WriteOne("inquired_type")
      \/ t = "CONNECT_RET_PROTOCOL_INFO" /\ l = << Enum("fixed_value", {0}),
           Plain("version_high"), Plain("version_low") >>
           /\ w = <<Start(3, None)>> \o Puts(<<"fixed_value", "version_high", "version_low">>)
      \/ t = "CONNECT_RET_DEVICE_INFO" /\ l = DeviceInfoParse /\ w = DeviceInfoWrite
      \/ t = "CONNECT_RET_SUPPORT_FUNCTION" /\ l = SupportFunctionParse /\ w = SupportFunctionWrite
  BY DEF ConnectParse, ConnectWrite, Inquired
<1> HIDE DEF l, w
<1>2. CASE t \in {"CONNECT_GET_PROTOCOL_INFO", "CONNECT_GET_SUPPORT_FUNCTION"}
             /\ l = << Enum("fixed_value", {0}) >> /\ w = WriteOne("fixed_value")
  <2>1. FlatRound(t, << Enum("fixed_value", {0}) >>, WriteOne("fixed_value"))
    BY OneRound
  <2>2. FlatRound(t, l, w)
    BY <1>2, <2>1, Zenon
  <2> QED
    BY <2>2 DEF Rounds, l, w
<1>3. CASE t = "CONNECT_GET_DEVICE_INFO" /\ l = << Enum("inquired_type", DeviceInfoInquired) >>
             /\ w = WriteOne("inquired_type")
  <2>1. FlatRound(t, << Enum("inquired_type", DeviceInfoInquired) >>, WriteOne("inquired_type"))
    BY OneRound
  <2>2. FlatRound(t, l, w)
    BY <1>3, <2>1, Zenon
  <2> QED
    BY <2>2 DEF Rounds, l, w
<1>4. CASE t = "CONNECT_RET_PROTOCOL_INFO" /\ l = << Enum("fixed_value", {0}),
             Plain("version_high"), Plain("version_low") >>
             /\ w = <<Start(3, None)>> \o Puts(<<"fixed_value", "version_high", "version_low">>)
  <2>1. FlatRound(t, << Enum("fixed_value", {0}), Plain("version_high"), Plain("version_low") >>,
          <<Start(3, None)>> \o Puts(<<"fixed_value", "version_high", "version_low">>))
    BY ProtocolRound
  <2>2. FlatRound(t, l, w)
    BY <1>4, <2>1, Zenon
  <2> QED
    BY <2>2 DEF Rounds, l, w
<1>5. CASE t = "CONNECT_RET_DEVICE_INFO" /\ l = DeviceInfoParse /\ w = DeviceInfoWrite
  <2> DEFINE a == DeviceInfoParse
             b == DeviceInfoWrite
  <2>3. TRUE
    BY <1>5 DEF PlayParams
  <2>1. ChoiceRound(t, a, b)
    BY <1>5, DeviceInfoRound
  <2>2. ChoiceRound(t, l, w)
    BY <1>5, <2>1, Zenon
  <2> QED
    BY <2>2 DEF Rounds, l, w
<1>6. CASE t = "CONNECT_RET_SUPPORT_FUNCTION" /\ l = SupportFunctionParse
             /\ w = SupportFunctionWrite
  <2>1. FlatRound(t, SupportFunctionParse, SupportFunctionWrite)
    BY SupportFunctionRound
  <2>2. FlatRound(t, l, w)
    BY <1>6, <2>1, Zenon
  <2> QED
    BY <2>2 DEF Rounds, l, w
<1> QED
  BY <1>1, <1>2, <1>3, <1>4, <1>5, <1>6 DEF l, w

LEMMA CommonRounds == \A t \in DOMAIN CommonParse : Rounds(t, CommonParse[t], CommonWrite[t])
<1> SUFFICES ASSUME NEW t \in DOMAIN CommonParse PROVE Rounds(t, CommonParse[t], CommonWrite[t])
  OBVIOUS
<1> DEFINE l == CommonParse[t]
           w == CommonWrite[t]
<1>1. \/ t = "COMMON_GET_BATTERY_LEVEL" /\ l = << Enum("inquired_type", BatteryInquired) >>
           /\ w = WriteOne("inquired_type")
      \/ t = "COMMON_GET_CONNECTION_STATUS" /\ l = << Enum("inquired_type", {1}) >>
           /\ w = WriteOne("inquired_type")
      \/ t \in {"COMMON_RET_BATTERY_LEVEL", "COMMON_NTFY_BATTERY_LEVEL"} /\ l = BatteryParse
           /\ w = BatteryWrite
      \/ t = "COMMON_SET_POWER_OFF" /\ l = << Inquired({0}), Enum("setting_value", {1}) >>
           /\ w = <<Start(2, None)>> \o Puts(<<"inquired_type", "setting_value">>)
      \/ t \in {"COMMON_RET_CONNECTION_STATUS", "COMMON_NTFY_CONNECTION_STATUS"}
           /\ l = ConnectionStatusParse /\ w = ConnectionStatusWrite
  BY DEF CommonParse, CommonWrite, Inquired
<1> HIDE DEF l, w
<1>2. CASE t = "COMMON_GET_BATTERY_LEVEL" /\ l = << Enum("inquired_type", BatteryInquired) >>
             /\ w = WriteOne("inquired_type")
  <2>1. FlatRound(t, << Enum("inquired_type", BatteryInquired) >>, WriteOne("inquired_type"))
    BY OneRound
  <2>2. FlatRound(t, l, w)
    BY <1>2, <2>1, Zenon
  <2> QED
    BY <2>2 DEF Rounds, l, w
<1>3. CASE t = "COMMON_GET_CONNECTION_STATUS" /\ l = << Enum("inquired_type", {1}) >>
             /\ w = WriteOne("inquired_type")
  <2>1. FlatRound(t, << Enum("inquired_type", {1}) >>, WriteOne("inquired_type"))
    BY OneRound
  <2>2. FlatRound(t, l, w)
    BY <1>3, <2>1, Zenon
  <2> QED
    BY <2>2 DEF Rounds, l, w
<1>4. CASE t \in {"COMMON_RET_BATTERY_LEVEL", "COMMON_NTFY_BATTERY_LEVEL"} /\ l = BatteryParse
             /\ w = BatteryWrite
  <2> DEFINE a == BatteryParse
             b == BatteryWrite
  <2>3. t \in BatteryLevels
    BY <1>4 DEF BatteryLevels
  <2>1. ChoiceRound(t, a, b)
    BY <2>3, BatteryRound
  <2>2. ChoiceRound(t, l, w)
    BY <1>4, <2>1, Zenon
  <2> QED
    BY <2>2 DEF Rounds, l, w
<1>5. CASE t = "COMMON_SET_POWER_OFF" /\ l = << Inquired({0}), Enum("setting_value", {1}) >>
             /\ w = <<Start(2, None)>> \o Puts(<<"inquired_type", "setting_value">>)
  <2>1. FlatRound(t, << Inquired({0}), Enum("setting_value", {1}) >>, <<Start(2, None)>>
          \o Puts(<<"inquired_type", "setting_value">>))
    BY PowerOffRound
  <2>2. FlatRound(t, l, w)
    BY <1>5, <2>1, Zenon
  <2> QED
    BY <2>2 DEF Rounds, l, w
<1>6. CASE t \in {"COMMON_RET_CONNECTION_STATUS", "COMMON_NTFY_CONNECTION_STATUS"}
             /\ l = ConnectionStatusParse /\ w = ConnectionStatusWrite
  <2> DEFINE a == ConnectionStatusParse
             b == ConnectionStatusWrite
  <2>3. t \notin PlayParams
    BY <1>6 DEF PlayParams
  <2>1. ChoiceRound(t, a, b)
    BY <2>3, ConnectionStatusRound
  <2>2. ChoiceRound(t, l, w)
    BY <1>6, <2>1, Zenon
  <2> QED
    BY <2>2 DEF Rounds, l, w
<1> QED
  BY <1>1, <1>2, <1>3, <1>4, <1>5, <1>6 DEF l, w

LEMMA EqebbRounds == \A t \in DOMAIN EqebbParse : Rounds(t, EqebbParse[t], EqebbWrite[t])
<1> SUFFICES ASSUME NEW t \in DOMAIN EqebbParse PROVE Rounds(t, EqebbParse[t], EqebbWrite[t])
  OBVIOUS
<1> DEFINE l == EqebbParse[t]
           w == EqebbWrite[t]
<1>1. \/ t = "EQEBB_GET_PARAM" /\ l = << Enum("inquired_type", EqebbInquired) >>
           /\ w = WriteOne("inquired_type")
      \/ t = "EQEBB_GET_CAPABILITY" /\ l = << Inquired(EqebbInquired),
           Enum("display_language", DisplayLanguages) >>
           /\ w = <<Start(2, None)>> \o Puts(<<"inquired_type", "display_language">>)
      \/ t = "EQEBB_RET_CAPABILITY" /\ l = EqCapabilityParse /\ w = EqCapabilityWrite
      \/ t \in {"EQEBB_RET_PARAM", "EQEBB_SET_PARAM", "EQEBB_NTFY_PARAM"} /\ l = EqParamParse
           /\ w = EqParamWrite
  BY DEF EqebbParse, EqebbWrite, Inquired
<1> HIDE DEF l, w
<1>2. CASE t = "EQEBB_GET_PARAM" /\ l = << Enum("inquired_type", EqebbInquired) >>
             /\ w = WriteOne("inquired_type")
  <2>1. FlatRound(t, << Enum("inquired_type", EqebbInquired) >>, WriteOne("inquired_type"))
    BY OneRound
  <2>2. FlatRound(t, l, w)
    BY <1>2, <2>1, Zenon
  <2> QED
    BY <2>2 DEF Rounds, l, w
<1>3. CASE t = "EQEBB_GET_CAPABILITY" /\ l = << Inquired(EqebbInquired),
             Enum("display_language", DisplayLanguages) >>
             /\ w = <<Start(2, None)>> \o Puts(<<"inquired_type", "display_language">>)
  <2>1. FlatRound(t, << Inquired(EqebbInquired), Enum("display_language", DisplayLanguages) >>,
          <<Start(2, None)>> \o Puts(<<"inquired_type", "display_language">>))
    BY LanguageRound
  <2>2. FlatRound(t, l, w)
    BY <1>3, <2>1, Zenon
  <2> QED
    BY <2>2 DEF Rounds, l, w
<1>4. CASE t = "EQEBB_RET_CAPABILITY" /\ l = EqCapabilityParse /\ w = EqCapabilityWrite
  <2> DEFINE a == EqCapabilityParse
             b == EqCapabilityWrite
  <2>3. t \notin PlayParams
    BY <1>4 DEF PlayParams
  <2>1. ChoiceRound(t, a, b)
    BY <2>3, EqCapabilityRound
  <2>2. ChoiceRound(t, l, w)
    BY <1>4, <2>1, Zenon
  <2> QED
    BY <2>2 DEF Rounds, l, w
<1>5. CASE t \in {"EQEBB_RET_PARAM", "EQEBB_SET_PARAM", "EQEBB_NTFY_PARAM"} /\ l = EqParamParse
             /\ w = EqParamWrite
  <2> DEFINE a == EqParamParse
             b == EqParamWrite
  <2>3. t \notin PlayParams
    BY <1>5 DEF PlayParams
  <2>1. ChoiceRound(t, a, b)
    BY <2>3, EqParamRound
  <2>2. ChoiceRound(t, l, w)
    BY <1>5, <2>1, Zenon
  <2> QED
    BY <2>2 DEF Rounds, l, w
<1> QED
  BY <1>1, <1>2, <1>3, <1>4, <1>5 DEF l, w

LEMMA NcasmRounds == \A t \in DOMAIN NcasmParse : Rounds(t, NcasmParse[t], NcasmWrite[t])
<1> SUFFICES ASSUME NEW t \in DOMAIN NcasmParse PROVE Rounds(t, NcasmParse[t], NcasmWrite[t])
  OBVIOUS
<1> DEFINE l == NcasmParse[t]
           w == NcasmWrite[t]
<1>1. \/ t = "NCASM_GET_PARAM" /\ l = << Enum("inquired_type", NcasmInquired) >>
           /\ w = WriteOne("inquired_type")
      \/ t \in {"NCASM_RET_PARAM", "NCASM_SET_PARAM", "NCASM_NTFY_PARAM"} /\ l = NcasmParamParse
           /\ w = NcasmParamWrite
  BY DEF NcasmParse, NcasmWrite, Inquired
<1> HIDE DEF l, w
<1>2. CASE t = "NCASM_GET_PARAM" /\ l = << Enum("inquired_type", NcasmInquired) >>
             /\ w = WriteOne("inquired_type")
  <2>1. FlatRound(t, << Enum("inquired_type", NcasmInquired) >>, WriteOne("inquired_type"))
    BY OneRound
  <2>2. FlatRound(t, l, w)
    BY <1>2, <2>1, Zenon
  <2> QED
    BY <2>2 DEF Rounds, l, w
<1>3. CASE t \in {"NCASM_RET_PARAM", "NCASM_SET_PARAM", "NCASM_NTFY_PARAM"} /\ l = NcasmParamParse
             /\ w = NcasmParamWrite
  <2> DEFINE a == NcasmParamParse
             b == NcasmParamWrite
  <2>3. t \in NcasmParams
    BY <1>3 DEF NcasmParams
  <2>1. ChoiceRound(t, a, b)
    BY <2>3, NcasmRound
  <2>2. ChoiceRound(t, l, w)
    BY <1>3, <2>1, Zenon
  <2> QED
    BY <2>2 DEF Rounds, l, w
<1> QED
  BY <1>1, <1>2, <1>3 DEF l, w

LEMMA PlayRounds == \A t \in DOMAIN PlayParse : Rounds(t, PlayParse[t], PlayWrite[t])
<1> SUFFICES ASSUME NEW t \in DOMAIN PlayParse PROVE Rounds(t, PlayParse[t], PlayWrite[t])
  OBVIOUS
<1> DEFINE l == PlayParse[t]
           w == PlayWrite[t]
<1>1. \/ t = "PLAY_GET_PARAM" /\ l = << Inquired({1}), Enum("detailed_data_type", PlayDetailed) >>
           /\ w = <<Start(2, None)>> \o Puts(<<"inquired_type", "detailed_data_type">>)
      \/ t \in {"PLAY_RET_PARAM", "PLAY_SET_PARAM", "PLAY_NTFY_PARAM"} /\ l = PlayParamParse
           /\ w = PlayParamWrite
  BY DEF PlayParse, PlayWrite, PlayGetParse
<1> HIDE DEF l, w
<1>2. CASE t = "PLAY_GET_PARAM" /\ l = << Inquired({1}),
             Enum("detailed_data_type", PlayDetailed) >>
             /\ w = <<Start(2, None)>> \o Puts(<<"inquired_type", "detailed_data_type">>)
  <2>1. FlatRound(t, << Inquired({1}), Enum("detailed_data_type", PlayDetailed) >>,
          <<Start(2, None)>> \o Puts(<<"inquired_type", "detailed_data_type">>))
    BY PlayGetRound
  <2>2. FlatRound(t, l, w)
    BY <1>2, <2>1, Zenon
  <2> QED
    BY <2>2 DEF Rounds, l, w
<1>3. CASE t \in {"PLAY_RET_PARAM", "PLAY_SET_PARAM", "PLAY_NTFY_PARAM"} /\ l = PlayParamParse
             /\ w = PlayParamWrite
  <2> DEFINE a == PlayParamParse
             b == PlayParamWrite
  <2>3. t \in PlayParams
    BY <1>3 DEF PlayParams
  <2>1. ChoiceRound(t, a, b)
    BY <2>3, PlayRound
  <2>2. ChoiceRound(t, l, w)
    BY <1>3, <2>1, Zenon
  <2> QED
    BY <2>2 DEF Rounds, l, w
<1> QED
  BY <1>1, <1>2, <1>3 DEF l, w

LEMMA SystemRounds == \A t \in DOMAIN SystemParse : Rounds(t, SystemParse[t], SystemWrite[t])
<1> SUFFICES ASSUME NEW t \in DOMAIN SystemParse PROVE Rounds(t, SystemParse[t], SystemWrite[t])
  OBVIOUS
<1> DEFINE l == SystemParse[t]
           w == SystemWrite[t]
<1>1. \/ t \in {"SYSTEM_GET_CAPABILITY", "SYSTEM_GET_PARAM"}
           /\ l = << Enum("inquired_type", SystemInquired) >> /\ w = WriteOne("inquired_type")
      \/ t = "SYSTEM_RET_CAPABILITY" /\ l = SystemCapabilityParse /\ w = SystemCapabilityWrite
      \/ t \in {"SYSTEM_RET_PARAM", "SYSTEM_SET_PARAM", "SYSTEM_NTFY_PARAM"}
           /\ l = SystemParamParse /\ w = SystemParamWrite
  BY DEF SystemParse, SystemWrite, Inquired
<1> HIDE DEF l, w
<1>2. CASE t \in {"SYSTEM_GET_CAPABILITY", "SYSTEM_GET_PARAM"}
             /\ l = << Enum("inquired_type", SystemInquired) >> /\ w = WriteOne("inquired_type")
  <2>1. FlatRound(t, << Enum("inquired_type", SystemInquired) >>, WriteOne("inquired_type"))
    BY OneRound
  <2>2. FlatRound(t, l, w)
    BY <1>2, <2>1, Zenon
  <2> QED
    BY <2>2 DEF Rounds, l, w
<1>3. CASE t = "SYSTEM_RET_CAPABILITY" /\ l = SystemCapabilityParse /\ w = SystemCapabilityWrite
  <2> DEFINE a == SystemCapabilityParse
             b == SystemCapabilityWrite
  <2>3. t \notin PlayParams /\ Spoils(t, SmartTalking)
    BY <1>3 DEF PlayParams, Spoils, Smart
  <2>1. ChoiceRound(t, a, b)
    BY <2>3, SystemCapabilityRound
  <2>2. ChoiceRound(t, l, w)
    BY <1>3, <2>1, Zenon
  <2> QED
    BY <2>2 DEF Rounds, l, w
<1>4. CASE t \in {"SYSTEM_RET_PARAM", "SYSTEM_SET_PARAM", "SYSTEM_NTFY_PARAM"}
             /\ l = SystemParamParse /\ w = SystemParamWrite
  <2> DEFINE a == SystemParamParse
             b == SystemParamWrite
  <2>3. t \notin PlayParams
    BY <1>4 DEF PlayParams
  <2>1. ChoiceRound(t, a, b)
    BY <2>3, SystemParamRound
  <2>2. ChoiceRound(t, l, w)
    BY <1>4, <2>1, Zenon
  <2> QED
    BY <2>2 DEF Rounds, l, w
<1> QED
  BY <1>1, <1>2, <1>3, <1>4 DEF l, w

LEMMA AllRound ==
  ASSUME NEW t \in PacketTypes
  PROVE  Rounds(t, mdr_packet_from_frame(t), mdr_packet_to_frame(t))
<1>1. \/ t \in DOMAIN ConnectParse \/ t \in DOMAIN CommonParse \/ t \in DOMAIN EqebbParse
      \/ t \in DOMAIN NcasmParse \/ t \in DOMAIN PlayParse \/ t \in DOMAIN SystemParse
  BY DEF PacketTypes
<1> QED
  BY <1>1, LayoutsAre, ConnectRounds, CommonRounds, EqebbRounds, NcasmRounds, PlayRounds,
    SystemRounds

-----------------------------------------------------------------------------
(***************************************************************************)
(* Along a complete trace: how many bytes the fields of a layout take.     *)
(***************************************************************************)
LEMMA LeastNumber ==
  ASSUME NEW S, S \subseteq Nat, S # {}
  PROVE  \E m \in S : \A n \in S : m <= n
<1> DEFINE Less == OpToRel(<, Nat)
<1>1. IsWellFoundedOn(Less, Nat)
  BY NatLessThanWellFounded
<1>2. \A x, y \in Nat : x < y => <<x, y>> \in Less
  BY Zenon DEF OpToRel
<1> HIDE DEF Less
<1>3. PICK m \in S : \A n \in S : ~(<<n, m>> \in Less)
  BY <1>1, WFMin
<1>4. ASSUME NEW n \in S PROVE m <= n
  <2>1. n \in Nat /\ m \in Nat
    OBVIOUS
  <2>2. ~(n < m)
    BY <1>2, <1>3, <2>1
  <2> QED
    BY <2>1, <2>2
<1> QED
  BY <1>4

Past(s, k) == [i \in 1..(Len(s) - k) |-> s[i + k]]

LEMMA PastIs ==
  ASSUME NEW s, IsSeq(s), NEW k \in Nat, k <= Len(s)
  PROVE  /\ IsSeq(Past(s, k)) /\ Len(Past(s, k)) = Len(s) - k
         /\ \A i \in 1..(Len(s) - k) : Past(s, k)[i] = s[i + k]
<1>1. Len(s) \in Nat
  BY SeqLen
<1> DEFINE n == Len(s) - k
           t == [i \in 1..n |-> s[i + k]]
<1>2. n \in Nat
  BY <1>1
<1> HIDE DEF n
<1>3. t = [i \in 1..n |-> t[i]] /\ \A i \in 1..n : t[i] = s[i + k]
  OBVIOUS
<1>4. t = Past(s, k)
  BY DEF Past, n
<1> HIDE DEF t
<1>5. IsSeq(t) /\ Len(t) = n
  BY <1>2, <1>3, SeqMade
<1> QED
  BY <1>3, <1>4, <1>5 DEF n

LEMMA PastNone == ASSUME NEW s, IsSeq(s) PROVE Past(s, 0) = s
<1>1. Len(s) \in Nat /\ 0 <= Len(s) /\ 0 \in Nat
  BY SeqLen
<1>2. /\ IsSeq(Past(s, 0)) /\ Len(Past(s, 0)) = Len(s) - 0
      /\ \A i \in 1..(Len(s) - 0) : Past(s, 0)[i] = s[i + 0]
  BY <1>1, PastIs
<1>3. /\ Len(Past(s, 0)) = Len(s)
      /\ \A i \in 1..Len(s) : Past(s, 0)[i] = s[i]
  BY <1>1, <1>2
<1> QED
  BY <1>2, <1>3, SeqSame

LEMMA PastAll == ASSUME NEW s, IsSeq(s) PROVE Past(s, Len(s)) = <<>>
<1>1. Len(s) \in Nat /\ Len(s) <= Len(s)
  BY SeqLen
<1>2. IsSeq(Past(s, Len(s))) /\ Len(Past(s, Len(s))) = Len(s) - Len(s)
  BY <1>1, PastIs
<1>3. Len(Past(s, Len(s))) = 0
  BY <1>1, <1>2
<1> QED
  BY <1>2, <1>3, SeqTail

LEMMA PastOne ==
  ASSUME NEW s, IsSeq(s), NEW k \in Nat, k < Len(s)
  PROVE  /\ Past(s, k) # <<>> /\ Past(s, k)[1] = s[k + 1]
         /\ Tail(Past(s, k)) = Past(s, k + 1)
<1>1. Len(s) \in Nat /\ k <= Len(s) /\ k + 1 \in Nat /\ k + 1 <= Len(s)
  BY SeqLen
<1> DEFINE a == Past(s, k)
           b == Past(s, k + 1)
<1>2. IsSeq(a) /\ Len(a) = Len(s) - k /\ \A i \in 1..(Len(s) - k) : a[i] = s[i + k]
  BY <1>1, PastIs
<1>3. IsSeq(b) /\ Len(b) = Len(s) - (k + 1)
        /\ \A i \in 1..(Len(s) - (k + 1)) : b[i] = s[i + (k + 1)]
  BY <1>1, PastIs
<1> HIDE DEF a, b
<1>4. a # <<>>
  BY <1>1, <1>2, NoItems
<1>5. a[1] = s[k + 1]
  <2>1. 1 \in 1..(Len(s) - k) /\ 1 + k = k + 1
    BY <1>1
  <2> QED
    BY <1>2, <2>1
<1>6. IsSeq(Tail(a)) /\ Len(Tail(a)) = Len(a) - 1
        /\ \A i \in 1..(Len(a) - 1) : Tail(a)[i] = a[i + 1]
  BY <1>2, <1>4, SeqTail
<1>7. Len(Tail(a)) = Len(b)
  BY <1>1, <1>2, <1>3, <1>6
<1>8. ASSUME NEW i \in 1..Len(b) PROVE Tail(a)[i] = b[i]
  <2>1. /\ i \in 1..(Len(a) - 1) /\ i + 1 \in 1..(Len(s) - k) /\ (i + 1) + k = i + (k + 1)
        /\ i \in 1..(Len(s) - (k + 1))
    BY <1>1, <1>2, <1>3
  <2> QED
    BY <1>2, <1>3, <1>6, <2>1
<1>9. Tail(a) = b
  BY <1>3, <1>6, <1>7, <1>8, SeqSame
<1> QED
  BY <1>4, <1>5, <1>9 DEF a, b

LEMMA ConcatTail ==
  ASSUME NEW s, IsSeq(s), s # <<>>, NEW t, IsSeq(t)
  PROVE  /\ s \o t # <<>> /\ (s \o t)[1] = s[1] /\ Tail(s \o t) = Tail(s) \o t
         /\ IsSeq(s \o t) /\ IsSeq(Tail(s) \o t) /\ IsSeq(Tail(s))
<1> DEFINE a == s \o t
           u == Tail(s)
           b == u \o t
<1>1. Len(s) \in Nat /\ Len(t) \in Nat /\ Len(s) > 0
  BY SeqLen, SeqTail
<1>2. IsSeq(u) /\ Len(u) = Len(s) - 1 /\ \A i \in 1..(Len(s) - 1) : u[i] = s[i + 1]
  BY SeqTail
<1>3. /\ IsSeq(a) /\ Len(a) = Len(s) + Len(t)
      /\ \A i \in 1..(Len(s) + Len(t)) : a[i] = IF i <= Len(s) THEN s[i] ELSE t[i - Len(s)]
  BY SeqConcat
<1> HIDE DEF u
<1>4. /\ IsSeq(b) /\ Len(b) = Len(u) + Len(t)
      /\ \A i \in 1..(Len(u) + Len(t)) : b[i] = IF i <= Len(u) THEN u[i] ELSE t[i - Len(u)]
  BY <1>2, SeqConcat
<1> HIDE DEF a, b
<1>5. a # <<>>
  BY <1>1, <1>3, NoItems
<1>6. a[1] = s[1]
  BY <1>1, <1>3
<1>7. IsSeq(Tail(a)) /\ Len(Tail(a)) = Len(a) - 1
        /\ \A i \in 1..(Len(a) - 1) : Tail(a)[i] = a[i + 1]
  BY <1>3, <1>5, SeqTail
<1>8. Len(Tail(a)) = Len(b)
  BY <1>1, <1>2, <1>3, <1>4, <1>7
<1>9. ASSUME NEW i \in 1..Len(b) PROVE Tail(a)[i] = b[i]
  <2>1. /\ i \in 1..(Len(a) - 1) /\ i + 1 \in 1..(Len(s) + Len(t)) /\ i \in 1..(Len(u) + Len(t))
    BY <1>1, <1>2, <1>3, <1>4
  <2>2. Tail(a)[i] = IF i + 1 <= Len(s) THEN s[i + 1] ELSE t[(i + 1) - Len(s)]
    BY <1>3, <1>7, <2>1
  <2>3. b[i] = IF i <= Len(u) THEN u[i] ELSE t[i - Len(u)]
    BY <1>4, <2>1
  <2>4. CASE i <= Len(u)
    <3>1. i + 1 <= Len(s) /\ i \in 1..(Len(s) - 1)
      BY <1>1, <1>2, <2>4
    <3> QED
      BY <1>2, <2>2, <2>3, <2>4, <3>1
  <2>5. CASE ~(i <= Len(u))
    <3>1. ~(i + 1 <= Len(s)) /\ (i + 1) - Len(s) = i - Len(u)
      BY <1>1, <1>2, <2>5
    <3> QED
      BY <2>2, <2>3, <2>5, <3>1
  <2> QED
    BY <2>4, <2>5
<1>10. Tail(a) = b
  BY <1>4, <1>7, <1>8, <1>9, SeqSame
<1> QED
  BY <1>2, <1>3, <1>4, <1>5, <1>6, <1>10 DEF a, b, u

LEMMA ConcatAssoc ==
  ASSUME NEW s, IsSeq(s), NEW t, IsSeq(t), NEW u, IsSeq(u)
  PROVE  (s \o t) \o u = s \o (t \o u)
<1>1. PICK S : s \in Seq(S)
  BY DEF IsSeq
<1>2. PICK T : t \in Seq(T)
  BY DEF IsSeq
<1>3. PICK U : u \in Seq(U)
  BY DEF IsSeq
<1>4. s \in Seq(S \cup T \cup U) /\ t \in Seq(S \cup T \cup U) /\ u \in Seq(S \cup T \cup U)
  BY <1>1, <1>2, <1>3, SeqMonotonic
<1> QED
  BY <1>4, ConcatAssociative

\* Past the first part of a sequence is the second.
LEMMA PastConcat ==
  ASSUME NEW s, IsSeq(s), NEW t, IsSeq(t)
  PROVE  Past(s \o t, Len(s)) = t
<1> DEFINE a == s \o t
           b == Past(a, Len(s))
<1>1. Len(s) \in Nat /\ Len(t) \in Nat
  BY SeqLen
<1>2. IsSeq(a) /\ Len(a) = Len(s) + Len(t) /\ \A i \in 1..Len(t) : a[Len(s) + i] = t[i]
  <2>1. IsSeq(a) /\ Len(a) = Len(s) + Len(t)
    BY SeqConcat
  <2>2. \A i \in 1..Len(t) : a[Len(s) + i] = t[i]
    BY SeqConcat
  <2> QED
    BY <2>1, <2>2
<1> HIDE DEF a
<1>3. /\ IsSeq(b) /\ Len(b) = Len(a) - Len(s)
      /\ \A i \in 1..(Len(a) - Len(s)) : b[i] = a[i + Len(s)]
  <2>1. Len(s) <= Len(a)
    BY <1>1, <1>2
  <2> QED
    BY <1>1, <1>2, <2>1, PastIs
<1> HIDE DEF b
<1>4. Len(b) = Len(t)
  BY <1>1, <1>2, <1>3
<1>5. ASSUME NEW i \in 1..Len(t) PROVE b[i] = t[i]
  <2>1. i \in 1..(Len(a) - Len(s)) /\ i + Len(s) = Len(s) + i
    BY <1>1, <1>2
  <2> QED
    BY <1>2, <1>3, <2>1
<1>6. b = t
  BY <1>3, <1>4, <1>5, SeqSame
<1> QED
  BY <1>6 DEF b, a

\* What a complete trace does at a field.
LEMMA TraceNext ==
  ASSUME NEW H, NEW s0, NEW F, NEW B, NEW r, Trace(H, s0, <<>>, F, B, r),
         NEW st, NEW p, <<st, p>> \in H, st # <<>>
  PROVE  /\ IsSeq(st) /\ p \in Nat /\ Len(r) \in Nat
         /\ st[1].field.op \in {"put", "putbytes", "each", "loop"}
         /\ st[1].field.op = "put" =>
              /\ <<Tail(st), p + 1>> \in H /\ Spot(st[1]) \in DOMAIN F
              /\ p < Len(r) /\ r[p + 1] = F[Spot(st[1])]
         /\ st[1].field.op = "putbytes" =>
              LET n     == F[CountAt(st[1])]
                  block == B[Spot(st[1])] IN
              /\ <<Tail(st), p + n>> \in H
              /\ CountAt(st[1]) \in DOMAIN F /\ n \in Nat /\ p + n <= Len(r)
              /\ \A i \in 1..n : r[p + i] = IF i <= Len(block) THEN block[i] ELSE Unset
         /\ st[1].field.op = "each" => <<LoopOf(st[1]) \o Tail(st), p>> \in H
         /\ st[1].field.op = "loop" =>
              /\ CountAt(st[1]) \in DOMAIN F
              /\ st[1].field.done = F[CountAt(st[1])] => <<Tail(st), p>> \in H
              /\ st[1].field.done # F[CountAt(st[1])] => <<TurnOf(st[1]) \o Tail(st), p>> \in H
<1>1. IsSeq(st) /\ p \in Nat /\ Len(r) \in Nat
  BY TraceGoesOn
<1>2. PICK st2, p2 : <<st2, p2>> \in H /\ Spelled(st, p, st2, p2, F, B, r)
  BY TraceGoesOn
<1>3. CASE PutSpelled(st, p, st2, p2, F, r)
  BY <1>1, <1>2, <1>3 DEF PutSpelled
<1>4. CASE BytesSpelled(st, p, st2, p2, F, B, r)
  BY <1>1, <1>2, <1>4 DEF BytesSpelled
<1>5. CASE ArraySpelled(st, p, st2, p2)
  BY <1>1, <1>2, <1>5 DEF ArraySpelled
<1>6. CASE TurnSpelled(st, p, st2, p2, F)
  BY <1>1, <1>2, <1>6 DEF TurnSpelled
<1> QED
  BY <1>2, <1>3, <1>4, <1>5, <1>6 DEF Spelled

LEMMA LoopNext ==
  ASSUME NEW H, NEW s0, NEW F, NEW B, NEW r, Trace(H, s0, <<>>, F, B, r),
         NEW st, NEW p, <<st, p>> \in H, st # <<>>, st[1].field.op = "loop"
  PROVE  /\ CountAt(st[1]) \in DOMAIN F
         /\ st[1].field.done = F[CountAt(st[1])] => <<Tail(st), p>> \in H
         /\ st[1].field.done # F[CountAt(st[1])] => <<TurnOf(st[1]) \o Tail(st), p>> \in H
<1>1. PICK st2, p2 : <<st2, p2>> \in H /\ Spelled(st, p, st2, p2, F, B, r)
  BY TraceGoesOn
<1>2. TurnSpelled(st, p, st2, p2, F)
  BY <1>1 DEF Spelled, PutSpelled, BytesSpelled, ArraySpelled
<1> QED
  BY <1>1, <1>2 DEF TurnSpelled

LEMMA PutsWalk ==
  ASSUME NEW H, NEW s0, NEW F, NEW B, NEW r, Trace(H, s0, <<>>, F, B, r),
         NEW st, NEW p, <<st, p>> \in H,
         NEW n \in Nat, n <= Len(st), \A i \in 1..n : st[i].field.op = "put"
  PROVE  <<Past(st, n), p + n>> \in H
<1>1. IsSeq(st) /\ p \in Nat /\ Len(st) \in Nat
  BY TraceGoesOn, SeqLen
<1> DEFINE Off == {j \in Nat : j <= n /\ <<Past(st, j), p + j>> \notin H}
<1>2. Off = {}
  <2> SUFFICES ASSUME Off # {} PROVE FALSE
    OBVIOUS
  <2>1. PICK m \in Off : \A k \in Off : m <= k
    <3>1. Off \subseteq Nat
      OBVIOUS
    <3> HIDE DEF Off
    <3> QED
      BY <3>1, LeastNumber
  <2>2. m \in Nat /\ m <= n /\ <<Past(st, m), p + m>> \notin H
    OBVIOUS
  <2>3. m # 0
    BY <1>1, <2>2, PastNone
  <2> DEFINE k == m - 1
  <2>4. k \in Nat /\ k < m /\ k + 1 = m /\ k < Len(st) /\ k <= n
    BY <1>1, <2>2, <2>3
  <2>5. k \notin Off
    <3> HIDE DEF Off
    <3>1. k \in Off => m <= k
      BY <2>1
    <3>2. m \in Nat /\ k \in Nat
      BY <2>2, <2>4
    <3> HIDE DEF k
    <3> QED
      BY <2>4, <3>1, <3>2
  <2> HIDE DEF k
  <2>6. <<Past(st, k), p + k>> \in H
    BY <2>4, <2>5
  <2>7. /\ Past(st, k) # <<>> /\ Past(st, k)[1] = st[k + 1] /\ Tail(Past(st, k)) = Past(st, k + 1)
    BY <1>1, <2>4, PastOne
  <2>8. st[k + 1].field.op = "put"
    <3>1. k + 1 \in 1..n
      BY <2>4
    <3> QED
      BY <3>1
  <2>9. <<Tail(Past(st, k)), (p + k) + 1>> \in H
    <3>1. Past(st, k)[1].field.op = "put"
      BY <2>7, <2>8
    <3> DEFINE a == Past(st, k)
               q == p + k
    <3>2. <<a, q>> \in H /\ a # <<>> /\ a[1].field.op = "put"
      BY <2>6, <2>7, <3>1
    <3> HIDE DEF a, q
    <3>3. <<Tail(a), q + 1>> \in H
      BY <3>2, TraceNext
    <3> QED
      BY <3>3 DEF a, q
  <2>10. (p + k) + 1 = p + m
    BY <1>1, <2>4
  <2> QED
    BY <2>2, <2>4, <2>7, <2>9, <2>10
<1>3. n \notin Off
  BY <1>2
<1> QED
  BY <1>3

\* An array of elements of as many single bytes each.
LEMMA ArrayWalk ==
  ASSUME NEW H, NEW s0, NEW F, NEW B, NEW r, Trace(H, s0, <<>>, F, B, r),
         NEW st, NEW p, <<st, p>> \in H, st # <<>>, st[1].field.op = "each",
         \A q \in DOMAIN F : F[q] \in Nat,
         NEW factor \in {1, 2}, AllPuts(st[1].field.element), Len(st[1].field.element) = factor
  PROVE  CountAt(st[1]) \in DOMAIN F /\ <<Tail(st), p + factor * F[CountAt(st[1])]>> \in H
<1> DEFINE x == st[1]
           f == x.field
           c == CountAt(x)
           N == F[c]
           t == Tail(st)
           L(d) == [path |-> x.path, field |-> LoopField(f, d)]
<1>1. IsSeq(st) /\ p \in Nat
  BY TraceNext
<1>2. IsSeq(t)
  BY <1>1, SeqTail
<1>3. <<LoopOf(x) \o t, p>> \in H
  BY TraceNext
<1>4. LoopOf(x) = <<L(0)>>
  BY DEF LoopOf, LoopField
<1>5. \A d : /\ L(d).path = x.path /\ L(d).field.op = "loop" /\ L(d).field.done = d
             /\ L(d).field.element = f.element
             /\ CountAt(L(d)) = c
             /\ Later(L(d)) = L(d + 1)
  <2> SUFFICES ASSUME NEW d
               PROVE /\ L(d).path = x.path /\ L(d).field.op = "loop" /\ L(d).field.done = d
                     /\ L(d).field.element = f.element
                     /\ CountAt(L(d)) = c
                     /\ Later(L(d)) = L(d + 1)
    OBVIOUS
  <2>1. /\ L(d).path = x.path /\ L(d).field.op = "loop" /\ L(d).field.done = d
        /\ L(d).field.element = f.element /\ L(d).field.count = f.count
    BY DEF LoopField
  <2>2. CountAt(L(d)) = c
    BY <2>1 DEF CountAt
  <2>3. Later(L(d)) = L(d + 1)
    BY LaterShape
  <2> QED
    BY <2>1, <2>2, <2>3
<1>6. IsSeq(f.element) /\ Len(f.element) = factor /\ factor \in Nat
      /\ \A i \in 1..factor : f.element[i].op = "put"
  BY DEF AllPuts
<1>7. \A d : TurnOf(L(d)) = Enter(NextElement(L(d)), f.element) \o <<L(d + 1)>>
  BY <1>5 DEF TurnOf
<1>8. \A d : IsSeq(<<L(d)>>) /\ Len(<<L(d)>>) = 1 /\ <<L(d)>>[1] = L(d)
  BY SeqOne
<1> HIDE DEF L
<1>9. \A d : /\ <<L(d)>> \o t # <<>> /\ (<<L(d)>> \o t)[1] = L(d) /\ Tail(<<L(d)>> \o t) = t
             /\ IsSeq(<<L(d)>> \o t)
  <2> SUFFICES ASSUME NEW d
               PROVE /\ <<L(d)>> \o t # <<>> /\ (<<L(d)>> \o t)[1] = L(d) /\ Tail(<<L(d)>> \o t) = t
                     /\ IsSeq(<<L(d)>> \o t)
    OBVIOUS
  <2> DEFINE u == <<L(d)>>
  <2>1. IsSeq(u) /\ u # <<>> /\ u[1] = L(d) /\ Len(u) = 1
    BY <1>8
  <2> HIDE DEF u, t
  <2>2. /\ u \o t # <<>> /\ (u \o t)[1] = u[1] /\ Tail(u \o t) = Tail(u) \o t
        /\ IsSeq(u \o t) /\ IsSeq(Tail(u))
    BY <1>2, <2>1, ConcatTail
  <2>3. Tail(u) = <<>>
    <3>1. Len(Tail(u)) = 0
      BY <2>1, SeqTail
    <3> QED
      BY <2>2, <3>1, SeqTail
  <2>4. <<>> \o t = t
    BY <1>2, EmptyEnds
  <2> QED
    BY <2>1, <2>2, <2>3, <2>4 DEF u
<1>10. c \in DOMAIN F /\ N \in Nat
  <2>1. <<<<L(0)>> \o t, p>> \in H
    BY <1>3, <1>4
  <2> DEFINE u == <<L(0)>> \o t
  <2>2. u # <<>> /\ u[1] = L(0) /\ <<u, p>> \in H
    BY <1>9, <2>1
  <2> HIDE DEF u
  <2>3. u[1].field.op = "loop"
    BY <1>5, <2>2
  <2>4. CountAt(u[1]) \in DOMAIN F
    BY <2>2, <2>3, TraceNext
  <2> QED
    BY <1>5, <2>2, <2>4
<1> DEFINE At0(d) == <<<<L(d)>> \o t, p + factor * d>>
<1>11. ASSUME NEW d \in Nat, d < N, At0(d) \in H PROVE At0(d + 1) \in H
  <2> DEFINE u == <<L(d)>> \o t
             e == Enter(NextElement(L(d)), f.element)
             m == <<L(d + 1)>>
             v == (e \o m) \o t
             q == p + factor * d
  <2>1. u # <<>> /\ u[1] = L(d) /\ Tail(u) = t /\ <<u, q>> \in H
    BY <1>9, <1>11
  <2>2. TurnOf(L(d)) = e \o m
    BY <1>7
  <2> HIDE DEF u, e, m, q
  <2>3. /\ u[1].field.op = "loop" /\ u[1].field.done = d /\ CountAt(u[1]) = c
    BY <1>5, <2>1
  <2>4. d # N
    BY <1>10, <1>11
  <2>5. <<TurnOf(u[1]) \o Tail(u), q>> \in H
    <3>1. u[1].field.done # F[CountAt(u[1])]
      BY <2>3, <2>4
    <3> QED
      BY <2>1, <2>3, <3>1, LoopNext
  <2>6. <<v, q>> \in H
    BY <2>1, <2>2, <2>5
  <2>7. /\ IsSeq(e) /\ Len(e) = factor
        /\ \A i \in 1..factor : e[i].field.op = "put"
    <3>1. /\ IsSeq(e) /\ Len(e) = Len(f.element)
          /\ \A i \in 1..Len(f.element) : e[i] = [path |-> NextElement(L(d)),
               field |-> f.element[i]]
      BY <1>6, SeqEnter DEF e
    <3>2. \A i \in 1..Len(f.element) : e[i].field = f.element[i]
      BY <3>1
    <3> QED
      BY <1>6, <3>1, <3>2
  <2>8. IsSeq(m) /\ IsSeq(m \o t)
    BY <1>8, <1>9 DEF m
  <2>9. v = e \o (m \o t)
    BY <1>2, <2>7, <2>8, ConcatAssoc
  <2> HIDE DEF v
  <2>10. Past(v, factor) = m \o t
    <3>1. Past(e \o (m \o t), Len(e)) = m \o t
      BY <2>7, <2>8, PastConcat
    <3> QED
      BY <2>7, <2>9, <3>1
  <2>11. factor <= Len(v) /\ \A i \in 1..factor : v[i].field.op = "put"
    <3> DEFINE w == m \o t
    <3>1. IsSeq(w) /\ Len(w) \in Nat
      BY <2>8, SeqLen
    <3>2. v = e \o w
      BY <2>9
    <3> HIDE DEF w
    <3>3. Len(v) = Len(e) + Len(w)
      BY <2>7, <3>1, <3>2, SeqConcat
    <3>4. \A i \in 1..Len(e) : v[i] = e[i]
      BY <2>7, <3>1, <3>2, SeqConcat
    <3> QED
      BY <1>6, <2>7, <3>1, <3>3, <3>4
  <2>12. <<Past(v, factor), q + factor>> \in H
    <3>1. factor \in Nat
      BY <1>6
    <3> QED
      BY <2>6, <2>11, <3>1, PutsWalk
  <2>13. q + factor = p + factor * (d + 1)
    <3>1. CASE factor = 1
      BY <1>1, <1>11, <3>1 DEF q
    <3>2. CASE factor = 2
      BY <1>1, <1>11, <3>2 DEF q
    <3> QED
      BY <3>1, <3>2
  <2> QED
    BY <2>10, <2>12, <2>13 DEF m
<1> DEFINE Off == {d \in Nat : d <= N /\ At0(d) \notin H}
<1>12. Off = {}
  <2> SUFFICES ASSUME Off # {} PROVE FALSE
    OBVIOUS
  <2>1. PICK m \in Off : \A k \in Off : m <= k
    <3>1. Off \subseteq Nat
      OBVIOUS
    <3> HIDE DEF Off
    <3> QED
      BY <3>1, LeastNumber
  <2>2. m \in Nat /\ m <= N /\ At0(m) \notin H
    OBVIOUS
  <2>3. m # 0
    <3>1. p + factor * 0 = p
      BY <1>1, <1>6
    <3>2. At0(0) \in H
      BY <1>3, <1>4, <3>1
    <3> HIDE DEF At0
    <3> QED
      BY <2>2, <3>2
  <2>4. PICK k \in Nat : k + 1 = m
    <3>1. m - 1 \in Nat /\ (m - 1) + 1 = m
      BY <2>2, <2>3
    <3> QED
      BY <3>1
  <2>5. k < N /\ k <= N /\ k < m
    BY <1>10, <2>2, <2>4
  <2>6. k \notin Off
    <3> HIDE DEF Off, At0, N
    <3>1. k \in Off => m <= k
      BY <2>1
    <3> QED
      BY <2>2, <2>4, <2>5, <3>1
  <2> HIDE DEF At0, N
  <2>7. At0(k) \in H
    BY <2>4, <2>5, <2>6
  <2>8. At0(k + 1) \in H
    BY <1>11, <2>5, <2>7
  <2> QED
    BY <2>2, <2>4, <2>8
<1>13. At0(N) \in H
  <2> HIDE DEF At0, N
  <2>1. N \in Nat /\ N <= N
    BY <1>10
  <2> QED
    BY <1>12, <2>1
<1> DEFINE u == <<L(N)>> \o t
           q == p + factor * N
<1>14. u # <<>> /\ u[1] = L(N) /\ Tail(u) = t /\ <<u, q>> \in H
  BY <1>9, <1>13
<1> HIDE DEF u, q, t
<1>15. u[1].field.op = "loop" /\ u[1].field.done = F[CountAt(u[1])]
  BY <1>5, <1>14
<1>16. <<Tail(u), q>> \in H
  BY <1>14, <1>15, LoopNext
<1> QED
  BY <1>10, <1>14, <1>16 DEF q, t

LEMMA TraceEnds ==
  ASSUME NEW H, NEW s0, NEW e, e = <<>>, NEW F, NEW B, NEW r, Trace(H, s0, e, F, B, r),
         NEW p, <<e, p>> \in H
  PROVE  p = Len(r)
BY Zenon DEF Trace

LEMMA PutNext ==
  ASSUME NEW H, NEW s0, NEW F, NEW B, NEW r, Trace(H, s0, <<>>, F, B, r),
         NEW st, NEW p, <<st, p>> \in H, st # <<>>, st[1].field.op = "put"
  PROVE  /\ <<Tail(st), p + 1>> \in H /\ Spot(st[1]) \in DOMAIN F
         /\ p < Len(r) /\ r[p + 1] = F[Spot(st[1])]
<1>1. PICK st2, p2 : <<st2, p2>> \in H /\ Spelled(st, p, st2, p2, F, B, r)
  BY TraceGoesOn
<1>2. PutSpelled(st, p, st2, p2, F, r)
  BY <1>1 DEF Spelled, TurnSpelled, BytesSpelled, ArraySpelled
<1> QED
  BY <1>1, <1>2 DEF PutSpelled

LEMMA BytesNext ==
  ASSUME NEW H, NEW s0, NEW F, NEW B, NEW r, Trace(H, s0, <<>>, F, B, r),
         NEW st, NEW p, <<st, p>> \in H, st # <<>>, st[1].field.op = "putbytes"
  PROVE  /\ <<Tail(st), p + F[CountAt(st[1])]>> \in H
         /\ CountAt(st[1]) \in DOMAIN F /\ F[CountAt(st[1])] \in Nat
         /\ p + F[CountAt(st[1])] <= Len(r)
         /\ \A i \in 1..F[CountAt(st[1])] :
              r[p + i] = IF i <= Len(B[Spot(st[1])]) THEN B[Spot(st[1])][i] ELSE Unset
<1>1. PICK st2, p2 : <<st2, p2>> \in H /\ Spelled(st, p, st2, p2, F, B, r)
  BY TraceGoesOn
<1>2. BytesSpelled(st, p, st2, p2, F, B, r)
  BY <1>1 DEF Spelled, TurnSpelled, PutSpelled, ArraySpelled
<1> QED
  BY <1>1, <1>2 DEF BytesSpelled

LEMMA EachNext ==
  ASSUME NEW H, NEW s0, NEW F, NEW B, NEW r, Trace(H, s0, <<>>, F, B, r),
         NEW st, NEW p, <<st, p>> \in H, st # <<>>, st[1].field.op = "each"
  PROVE  <<LoopOf(st[1]) \o Tail(st), p>> \in H
<1>1. PICK st2, p2 : <<st2, p2>> \in H /\ Spelled(st, p, st2, p2, F, B, r)
  BY TraceGoesOn
<1>2. ArraySpelled(st, p, st2, p2)
  BY <1>1 DEF Spelled, TurnSpelled, PutSpelled, BytesSpelled
<1> QED
  BY <1>1, <1>2 DEF ArraySpelled

\* The fields of a layout that ends in bytes or in an array.
LEMMA LastWalk ==
  ASSUME NEW H, NEW s0, NEW F, NEW B, NEW r, Trace(H, s0, <<>>, F, B, r),
         \A q \in DOMAIN F : F[q] \in Nat,
         NEW st, NEW p, <<st, p>> \in H,
         NEW w, NEW skip \in Nat, NEW n, NEW factor, NEW count,
         PutsAndLast(w, skip, n, factor, count), n + 1 <= Len(st),
         NEW path, \A i \in 1..(n + 1) : st[i].path = path /\ st[i].field = w[skip + i]
  PROVE  /\ Append(path, count) \in DOMAIN F
         /\ <<Past(st, n + 1), p + n + factor * F[Append(path, count)]>> \in H
<1>1. IsSeq(st) /\ p \in Nat /\ Len(st) \in Nat
  BY TraceGoesOn, SeqLen
<1> DEFINE x == w[skip + n + 1]
           N == F[Append(path, count)]
<1>2. /\ n \in Nat /\ \A i \in 1..n : w[skip + i].op = "put"
      /\ x.count = count
      /\ \/ x.op = "putbytes" /\ factor = 1
         \/ /\ x.op = "each" /\ factor \in {1, 2}
            /\ AllPuts(x.element) /\ Len(x.element) = factor
  BY DEF PutsAndLast
<1>3. skip + n + 1 = skip + (n + 1) /\ n < Len(st) /\ n <= Len(st)
  BY <1>1, <1>2
<1>4. st[n + 1].path = path /\ st[n + 1].field = x
  <2>1. n + 1 \in 1..(n + 1)
    BY <1>2
  <2>2. st[n + 1].path = path /\ st[n + 1].field = w[skip + (n + 1)]
    BY <2>1
  <2>3. w[skip + n + 1] = w[skip + (n + 1)]
    BY <1>3
  <2>4. st[n + 1].path = path
    BY <2>2
  <2>5. st[n + 1].field = w[skip + n + 1]
    BY <2>2, <2>3
  <2> QED
    BY <2>4, <2>5
<1> HIDE DEF x
<1>5. <<Past(st, n), p + n>> \in H
  <2>1. ASSUME NEW i \in 1..n PROVE st[i].field.op = "put"
    <3>1. i \in 1..(n + 1)
      BY <1>2
    <3>2. st[i].field = w[skip + i]
      BY <3>1
    <3> QED
      BY <1>2, <3>2
  <2> QED
    BY <1>2, <1>3, <2>1, PutsWalk
<1> DEFINE a == Past(st, n)
           q == p + n
<1>6. a # <<>> /\ a[1] = st[n + 1] /\ Tail(a) = Past(st, n + 1) /\ <<a, q>> \in H /\ q \in Nat
  BY <1>1, <1>2, <1>3, <1>5, PastOne
<1> HIDE DEF a, q
<1>7. CountAt(a[1]) = Append(path, count) /\ a[1].field = x
  BY <1>2, <1>4, <1>6 DEF CountAt
<1>8. CASE x.op = "putbytes" /\ factor = 1
  <2>3. a[1].field.op = "putbytes"
    BY <1>7, <1>8
  <2>4. /\ <<Tail(a), q + F[CountAt(a[1])]>> \in H /\ CountAt(a[1]) \in DOMAIN F
        /\ F[CountAt(a[1])] \in Nat
    BY <1>6, <2>3, BytesNext
  <2>5. <<Tail(a), q + F[Append(path, count)]>> \in H /\ Append(path, count) \in DOMAIN F
        /\ F[Append(path, count)] \in Nat
    BY <1>7, <2>4
  <2>6. factor * F[Append(path, count)] = F[Append(path, count)]
    BY <1>8, <2>5
  <2> QED
    BY <1>6, <2>5, <2>6 DEF q
<1>9. CASE x.op = "each" /\ factor \in {1, 2} /\ AllPuts(x.element) /\ Len(x.element) = factor
  <2>1. a[1].field.op = "each" /\ AllPuts(a[1].field.element) /\ Len(a[1].field.element) = factor
    BY <1>7, <1>9
  <2>2. CountAt(a[1]) \in DOMAIN F /\ <<Tail(a), q + factor * F[CountAt(a[1])]>> \in H
    BY <1>6, <1>9, <2>1, ArrayWalk
  <2> QED
    BY <1>6, <1>7, <2>2 DEF q
<1> QED
  BY <1>2, <1>8, <1>9

\* The size a frame is started with, when it is not added up.
LEMMA SizeKnown ==
  ASSUME NEW H, NEW s0, NEW F, NEW B, NEW r, Trace(H, s0, <<>>, F, B, r),
         \A q \in DOMAIN F : F[q] \in Nat,
         NEW w, IsSeq(w), Len(w) > 1, SizedPuts(w) \/ SizedLast(w), Suffix(s0, w, 1)
  PROVE  /\ w[1].n \in Nat
         /\ w[1].count = None => 1 + w[1].n = Len(r)
         /\ w[1].count # None => /\ <<w[1].count>> \in DOMAIN F
                                 /\ 1 + w[1].n + F[<<w[1].count>>] = Len(r)
<1>1. /\ Len(w) \in Nat /\ IsSeq(s0) /\ Len(s0) = Len(w) - 1
      /\ \A i \in 1..Len(s0) : s0[i] = [path |-> <<>>, field |-> w[i + 1]]
      /\ <<s0, 1>> \in H /\ Len(r) \in Nat
  BY SeqLen DEF Suffix, Trace
<1>2. ASSUME NEW i \in 1..Len(s0)
      PROVE  s0[i].path = <<>> /\ s0[i].field = w[1 + i] /\ 1 + i = i + 1
  <2>1. 1 + i = i + 1
    BY <1>1
  <2>2. s0[i] = [path |-> <<>>, field |-> w[1 + i]]
    BY <1>1, <2>1
  <2> QED
    BY <2>1, <2>2
<1>3. ASSUME NEW p, <<<<>>, p>> \in H PROVE p = Len(r)
  <2>1. PICK e : e = <<>>
    OBVIOUS
  <2>2. <<e, p>> \in H /\ Trace(H, s0, e, F, B, r)
    BY <1>3, <2>1
  <2> QED
    BY <2>1, <2>2, TraceEnds
<1>4. CASE SizedPuts(w)
  <2>1. w[1].n = Len(s0) /\ w[1].count = None /\ \A i \in 2..Len(w) : w[i].op = "put"
    BY <1>1, <1>4 DEF SizedPuts
  <2>2. ASSUME NEW i \in 1..Len(s0) PROVE s0[i].field.op = "put"
    <3>1. 1 + i \in 2..Len(w)
      BY <1>1
    <3> QED
      BY <1>2, <2>1, <3>1
  <2>3. Len(s0) \in Nat /\ Len(s0) <= Len(s0)
    BY <1>1
  <2>4. <<Past(s0, Len(s0)), 1 + Len(s0)>> \in H
    BY <1>1, <2>2, <2>3, PutsWalk
  <2>5. 1 + Len(s0) = Len(r)
    BY <1>1, <1>3, <2>4, PastAll
  <2> QED
    BY <2>1, <2>3, <2>5
<1>5. CASE SizedLast(w)
  <2> DEFINE n == w[1].n
             count == w[1].count
             N == F[<<count>>]
  <2>1. PutsAndLast(w, 1, n, 1, count)
    BY <1>5 DEF SizedLast
  <2>2. n \in Nat /\ count # None /\ Len(w) = 1 + n + 1
    BY <2>1 DEF PutsAndLast
  <2>3. n + 1 = Len(s0)
    BY <1>1, <2>2
  <2>4. Append(<<>>, count) = <<count>>
    OBVIOUS
  <2> HIDE DEF n, count
  <2>5. /\ Append(<<>>, count) \in DOMAIN F
        /\ <<Past(s0, n + 1), 1 + n + 1 * F[Append(<<>>, count)]>> \in H
    <3>1. n + 1 <= Len(s0) /\ 1 \in Nat
      BY <1>1, <2>3
    <3>2. \A i \in 1..(n + 1) : s0[i].path = <<>> /\ s0[i].field = w[1 + i]
      BY <1>2, <2>3
    <3>3. \A path : (\A i \in 1..(n + 1) : s0[i].path = path /\ s0[i].field = w[1 + i])
            => /\ Append(path, count) \in DOMAIN F
               /\ <<Past(s0, n + 1), 1 + n + 1 * F[Append(path, count)]>> \in H
      BY <1>1, <2>1, <3>1, LastWalk
    <3> QED
      BY <3>2, <3>3
  <2>6. <<count>> \in DOMAIN F /\ N \in Nat
    BY <2>4, <2>5
  <2>7. <<<<>>, 1 + n + 1 * N>> \in H
    BY <1>1, <2>3, <2>4, <2>5, PastAll
  <2> HIDE DEF N
  <2>8. 1 + n + 1 * N = 1 + n + N
    BY <2>2, <2>6
  <2>9. 1 + n + N = Len(r)
    BY <1>3, <2>7, <2>8
  <2> QED
    BY <2>2, <2>6, <2>9 DEF n, count, N
<1> QED
  BY <1>4, <1>5

LEMMA NameFramable ==
  /\ Framable(NameWrite) /\ Ahead(NameWrite) = 1
  /\ IsSeq(NameWrite) /\ Len(NameWrite) = 4
  /\ NameWrite[2].op = "put" /\ NameWrite[2].name = "inquired_type"
  /\ NameWrite[3].op = "put" /\ NameWrite[3].name = "len"
  /\ NameWrite[4].op = "putbytes" /\ NameWrite[4].name = "string" /\ NameWrite[4].count = "len"
<1> DEFINE w == NameWrite
<1>1. /\ IsSeq(w) /\ Len(w) = 4
      /\ w[1] = Start(2, "len") /\ w[2] = Put("inquired_type") /\ w[3] = Put("len")
      /\ w[4] = PutBytes("string", "len")
  BY Tuple4 DEF NameWrite
<1> HIDE DEF w
<1>2. /\ w[1].op = "start" /\ w[1].n = 2 /\ w[1].count = "len" /\ "len" # None
      /\ w[2].op = "put" /\ w[2].name = "inquired_type"
      /\ w[3].op = "put" /\ w[3].name = "len"
      /\ w[4].op = "putbytes" /\ w[4].name = "string" /\ w[4].count = "len"
  BY <1>1 DEF Start, Put, PutBytes, None
<1>3. PutsAndLast(w, 1, 2, 1, "len")
  <2>1. \A i \in 1..2 : w[1 + i].op = "put"
    BY <1>2
  <2>2. 1 + 2 + 1 = 4 /\ 2 \in Nat
    OBVIOUS
  <2>3. w[1 + 2 + 1] = w[4]
    BY <2>2
  <2> QED
    BY <1>1, <1>2, <2>1, <2>2, <2>3 DEF PutsAndLast
<1>4. Framable(w) /\ Ahead(w) = 1
  BY <1>1, <1>2, <1>3 DEF Framable, SizedLast, Ahead
<1> QED
  BY <1>1, <1>2, <1>4 DEF w

-----------------------------------------------------------------------------
(***************************************************************************)
(* The stack of a parser, where it matters what comes behind what: the     *)
(* number of bytes comes right before them, and the length of a name of    *)
(* the player, which is clamped, is the fifth byte of the packet.          *)
(***************************************************************************)
MeasuredStack(s, F) ==
  \A m \in 1..Len(s) : s[m].field.op = "bytes" =>
    \/ m = 1 /\ CountAt(s[1]) \in DOMAIN F
    \/ m > 1 /\ s[m - 1].field.op \in Readers /\ Spot(s[m - 1]) = CountAt(s[m])

OfNames(t, F) ==
  /\ t \in PlayParams
  /\ <<"detailed_data_type">> \in DOMAIN F /\ F[<<"detailed_data_type">>] \in Names

ClampedAt(s, t, F, n) ==
  \A i \in 1..Len(s) : s[i].field.op = "clamped" =>
    /\ i <= 2 /\ i + n = 5 /\ (i = 2 => s[1].field.op \in Readers)
    /\ OfNames(t, F)

Steady(s, t, F, n) == IsSeq(s) /\ MeasuredStack(s, F) /\ ClampedAt(s, t, F, n)

NoClamp(s) == \A i \in 1..Len(s) : s[i].field.op # "clamped"

LEMMA NamesStay ==
  ASSUME NEW t, NEW F, NEW F2, Keeps(F, F2), OfNames(t, F)
  PROVE  OfNames(t, F2)
BY DEF OfNames, Keeps

LEMMA SteadyReads ==
  ASSUME NEW s, NEW t, NEW F, NEW n \in Nat, Steady(s, t, F, n), s # <<>>,
         s[1].field.op \in Readers,
         NEW F2, Keeps(F, F2), Spot(s[1]) \in DOMAIN F2
  PROVE  Steady(Tail(s), t, F2, n + 1)
<1>1. IsSeq(s) /\ Len(s) \in Nat
  BY SeqLen DEF Steady
<1>2. /\ IsSeq(Tail(s)) /\ Len(Tail(s)) = Len(s) - 1 /\ Len(s) > 0
      /\ \A i \in 1..(Len(s) - 1) : Tail(s)[i] = s[i + 1]
  BY <1>1, SeqTail
<1>3. ASSUME NEW m \in 1..(Len(s) - 1), s[m + 1].field.op = "bytes"
      PROVE  \/ m = 1 /\ CountAt(s[2]) \in DOMAIN F2
             \/ m > 1 /\ s[m].field.op \in Readers /\ Spot(s[m]) = CountAt(s[m + 1])
  <2>1. m + 1 \in 1..Len(s) /\ m + 1 > 1 /\ m + 1 - 1 = m
    BY <1>1
  <2>2. \/ m + 1 = 1
        \/ s[m + 1 - 1].field.op \in Readers /\ Spot(s[m + 1 - 1]) = CountAt(s[m + 1])
    BY <1>3, <2>1 DEF Steady, MeasuredStack
  <2>3. s[m].field.op \in Readers /\ Spot(s[m]) = CountAt(s[m + 1])
    BY <2>1, <2>2
  <2>4. CASE m = 1
    BY <2>3, <2>4
  <2>5. CASE m > 1
    BY <2>3, <2>5
  <2> QED
    BY <1>1, <2>4, <2>5
<1>4. MeasuredStack(Tail(s), F2)
  <2> SUFFICES ASSUME NEW m \in 1..(Len(s) - 1), Tail(s)[m].field.op = "bytes"
               PROVE  \/ m = 1 /\ CountAt(Tail(s)[1]) \in DOMAIN F2
                      \/ /\ m > 1 /\ Tail(s)[m - 1].field.op \in Readers
                         /\ Spot(Tail(s)[m - 1]) = CountAt(Tail(s)[m])
    BY <1>2, Zenon DEF MeasuredStack
  <2>1. s[m + 1].field.op = "bytes" /\ Tail(s)[m] = s[m + 1]
    BY <1>2
  <2>2. CASE m = 1
    <3>1. 1 \in 1..(Len(s) - 1) /\ 1 + 1 = 2
      BY <1>1, <2>2
    <3>2. Tail(s)[1] = s[2]
      BY <1>2, <3>1
    <3> QED
      BY <1>3, <2>1, <2>2, <3>2
  <2>3. CASE m > 1
    <3>1. m - 1 \in 1..(Len(s) - 1) /\ (m - 1) + 1 = m
      BY <1>1, <2>3
    <3>2. Tail(s)[m - 1] = s[m]
      BY <1>2, <3>1
    <3>3. s[m].field.op \in Readers /\ Spot(s[m]) = CountAt(s[m + 1])
      BY <1>3, <2>1, <2>3
    <3> QED
      BY <2>1, <2>3, <3>2, <3>3
  <2> QED
    BY <1>1, <2>2, <2>3
<1>5. ClampedAt(Tail(s), t, F2, n + 1)
  <2> SUFFICES ASSUME NEW i \in 1..(Len(s) - 1), Tail(s)[i].field.op = "clamped"
               PROVE  /\ i <= 2 /\ i + (n + 1) = 5 /\ (i = 2 => Tail(s)[1].field.op \in Readers)
                      /\ OfNames(t, F2)
    BY <1>2, Zenon DEF ClampedAt
  <2>1. i + 1 \in 1..Len(s) /\ s[i + 1].field.op = "clamped"
    BY <1>1, <1>2
  <2>2. i + 1 <= 2 /\ (i + 1) + n = 5 /\ OfNames(t, F)
    BY <2>1 DEF Steady, ClampedAt
  <2> QED
    BY <2>2, NamesStay
<1> QED
  BY <1>2, <1>4, <1>5 DEF Steady

\* Behind what is no reader nothing is clamped.
LEMMA SteadyPush ==
  ASSUME NEW s, NEW t, NEW F, NEW n, Steady(s, t, F, n), s # <<>>,
         s[1].field.op \notin Readers \cup {"clamped"},
         NEW new, IsSeq(new), MeasuredStack(new, F), NoClamp(new)
  PROVE  \A n2 : Steady(new \o Tail(s), t, F, n2)
<1>1. IsSeq(s) /\ Len(s) \in Nat /\ Len(new) \in Nat
  BY SeqLen DEF Steady
<1>2. /\ IsSeq(Tail(s)) /\ Len(Tail(s)) = Len(s) - 1 /\ Len(s) > 0
      /\ \A i \in 1..(Len(s) - 1) : Tail(s)[i] = s[i + 1]
  BY <1>1, SeqTail
<1> DEFINE u == new \o Tail(s)
           k == Len(new)
<1>3. IsSeq(new) /\ IsSeq(Tail(s))
  BY <1>2
<1>4. /\ IsSeq(u) /\ Len(u) = k + Len(Tail(s))
      /\ \A i \in 1..k : u[i] = new[i]
      /\ \A i \in 1..Len(Tail(s)) : u[k + i] = Tail(s)[i]
  BY <1>3, SeqConcat
<1>5. k \in Nat /\ Len(u) = k + (Len(s) - 1)
  BY <1>1, <1>2, <1>4
<1> HIDE DEF u, k
<1>6. ASSUME NEW m \in 1..Len(u)
      PROVE  \/ m \in 1..k /\ u[m] = new[m]
             \/ \E j \in 1..(Len(s) - 1) : m = k + j /\ u[m] = s[j + 1]
  <2>1. CASE m <= k
    BY <1>4, <1>5, <2>1
  <2>2. CASE m > k
    <3>1. PICK j : j = m - k
      OBVIOUS
    <3>2. j \in 1..(Len(s) - 1) /\ m = k + j
      BY <1>1, <1>5, <2>2, <3>1
    <3>3. u[k + j] = s[j + 1]
      BY <1>2, <1>4, <3>2
    <3> QED
      BY <3>2, <3>3
  <2> QED
    BY <1>5, <2>1, <2>2
<1>7. ASSUME NEW j \in 1..(Len(s) - 1)
      PROVE  /\ s[j + 1].field.op # "clamped"
             /\ s[j + 1].field.op = "bytes" =>
                  j > 1 /\ s[j].field.op \in Readers /\ Spot(s[j]) = CountAt(s[j + 1])
  <2>1. j + 1 \in 1..Len(s) /\ j + 1 # 1 /\ j + 1 - 1 = j /\ (j + 1 <= 2 => j = 1)
    BY <1>1
  <2>2. s[j + 1].field.op # "clamped"
    BY <2>1 DEF Steady, ClampedAt
  <2>3. ASSUME s[j + 1].field.op = "bytes"
        PROVE  s[j + 1 - 1].field.op \in Readers /\ Spot(s[j + 1 - 1]) = CountAt(s[j + 1])
    BY <2>1, <2>3 DEF Steady, MeasuredStack
  <2>4. ASSUME s[j + 1].field.op = "bytes"
        PROVE  s[j].field.op \in Readers /\ Spot(s[j]) = CountAt(s[j + 1])
    BY <2>1, <2>3, <2>4
  <2>5. ASSUME s[j + 1].field.op = "bytes" PROVE j > 1
    BY <1>1, <2>4, <2>5
  <2> QED
    BY <2>2, <2>4, <2>5
<1>8. NoClamp(u)
  <2>1. \A m \in 1..k : new[m].field.op # "clamped"
    BY DEF NoClamp, k
  <2> QED
    BY <1>6, <1>7, <2>1 DEF NoClamp
<1>9. MeasuredStack(u, F)
  <2> SUFFICES ASSUME NEW m \in 1..Len(u), u[m].field.op = "bytes"
               PROVE  \/ m = 1 /\ CountAt(u[1]) \in DOMAIN F
                      \/ m > 1 /\ u[m - 1].field.op \in Readers /\ Spot(u[m - 1]) = CountAt(u[m])
    BY Zenon DEF MeasuredStack
  <2>1. CASE m \in 1..k /\ u[m] = new[m]
    <3>1. \/ m = 1 /\ CountAt(new[1]) \in DOMAIN F
          \/ m > 1 /\ new[m - 1].field.op \in Readers /\ Spot(new[m - 1]) = CountAt(new[m])
      BY <2>1 DEF MeasuredStack, k
    <3>2. CASE m = 1 /\ CountAt(new[1]) \in DOMAIN F
      BY <2>1, <3>2
    <3>3. CASE m > 1 /\ new[m - 1].field.op \in Readers /\ Spot(new[m - 1]) = CountAt(new[m])
      <4>1. m - 1 \in 1..k
        BY <1>5, <2>1, <3>3
      <4>2. u[m - 1] = new[m - 1]
        BY <1>4, <4>1
      <4> QED
        BY <2>1, <3>3, <4>2
    <3> QED
      BY <3>1, <3>2, <3>3
  <2>2. ASSUME NEW j \in 1..(Len(s) - 1), m = k + j, u[m] = s[j + 1]
        PROVE  m > 1 /\ u[m - 1].field.op \in Readers /\ Spot(u[m - 1]) = CountAt(u[m])
    <3>1. j > 1 /\ s[j].field.op \in Readers /\ Spot(s[j]) = CountAt(s[j + 1])
      BY <1>7, <2>2
    <3>2. j - 1 \in 1..(Len(s) - 1) /\ m - 1 = k + (j - 1) /\ (j - 1) + 1 = j /\ m > 1
      BY <1>1, <1>5, <2>2, <3>1
    <3>3. u[k + (j - 1)] = s[(j - 1) + 1]
      BY <1>2, <1>4, <3>2
    <3>4. u[m - 1] = s[j]
      BY <3>2, <3>3
    <3> QED
      BY <2>2, <3>1, <3>2, <3>4
  <2> QED
    BY <1>6, <2>1, <2>2
<1>10. \A n2 : ClampedAt(u, t, F, n2)
  BY <1>8 DEF ClampedAt, NoClamp
<1> QED
  BY <1>4, <1>9, <1>10 DEF Steady, u

LEMMA SteadySkips ==
  ASSUME NEW s, NEW t, NEW F, NEW n, Steady(s, t, F, n), s # <<>>,
         s[1].field.op \notin Readers \cup {"clamped"}
  PROVE  \A n2 : Steady(Tail(s), t, F, n2)
<1>1. IsSeq(s) /\ IsSeq(Tail(s))
  BY SeqTail DEF Steady
<1>2. <<>> \o Tail(s) = Tail(s)
  BY <1>1, EmptyEnds
<1>3. IsSeq(<<>>) /\ Len(<<>>) = 0
  BY NoItems
<1>4. MeasuredStack(<<>>, F) /\ NoClamp(<<>>)
  BY <1>3 DEF MeasuredStack, NoClamp
<1>5. \A n2 : Steady(<<>> \o Tail(s), t, F, n2)
  BY <1>3, <1>4, SteadyPush
<1> QED
  BY <1>2, <1>5

LEMMA LoopSteady ==
  ASSUME NEW x, NEW F
  PROVE  IsSeq(LoopOf(x)) /\ MeasuredStack(LoopOf(x), F) /\ NoClamp(LoopOf(x))
<1> DEFINE a == [path |-> x.path, field |-> LoopField(x.field, 0)]
<1>1. LoopOf(x) = <<a>>
  BY DEF LoopOf, LoopField
<1>2. a.field.op = "loop"
  BY DEF LoopField
<1> HIDE DEF a
<1>3. IsSeq(<<a>>) /\ Len(<<a>>) = 1 /\ <<a>>[1] = a
  BY SeqOne
<1>4. \A i \in 1..1 : <<a>>[i].field.op = "loop"
  BY <1>2, <1>3
<1> QED
  BY <1>1, <1>3, <1>4 DEF MeasuredStack, NoClamp

LEMMA SpellsNoClamp ==
  ASSUME NEW l, NEW w, Spells(l, w)
  PROVE  \A i \in 1..Len(l) : l[i].op # "clamped"
<1>1. PICK S : <<l, w>> \in S /\ SpellsSet(S)
  BY DEF Spells
<1>2. SpellsStep(l, w, S)
  BY <1>1, Zenon DEF SpellsSet
<1> QED
  BY <1>2 DEF SpellsStep

LEMMA TurnSteady ==
  ASSUME NEW x, x.field.op = "loop", TidyItem(x), NEW w, Spells(x.field.element, w), NEW F
  PROVE  IsSeq(TurnOf(x)) /\ MeasuredStack(TurnOf(x), F) /\ NoClamp(TurnOf(x))
<1> DEFINE l == x.field.element
           p == NextElement(x)
           e == Enter(p, l)
           y == Later(x)
<1>1. /\ IsSeq(l) /\ Measured(l) /\ Len(l) \in Nat
      /\ \A i \in 1..Len(l) : l[i].op # "clamped"
  BY SpellsIs, SpellsNoClamp, SeqLen
<1>2. /\ IsSeq(e) /\ Len(e) = Len(l)
      /\ \A i \in 1..Len(l) : e[i] = [path |-> p, field |-> l[i]]
  BY <1>1, SeqEnter
<1>3. y.field.op = "loop"
  <2>1. y.field = LoopField(x.field, x.field.done + 1)
    BY LaterIs DEF LoopField
  <2> QED
    BY <2>1 DEF LoopField
<1>4. TurnOf(x) = e \o <<y>>
  BY DEF TurnOf
<1>5. IsSeq(<<y>>) /\ Len(<<y>>) = 1 /\ <<y>>[1] = y
  BY SeqOne
<1> HIDE DEF l, p, e, y
<1> DEFINE u == e \o <<y>>
<1>6. IsSeq(e) /\ IsSeq(<<y>>)
  BY <1>2, <1>5, Zenon
<1>7. /\ IsSeq(u) /\ Len(u) = Len(e) + Len(<<y>>)
      /\ \A i \in 1..Len(e) : u[i] = e[i]
      /\ \A i \in 1..Len(<<y>>) : u[Len(e) + i] = <<y>>[i]
  BY <1>6, SeqConcat
<1>8. /\ Len(u) = Len(l) + 1 /\ u[Len(l) + 1] = y
      /\ \A i \in 1..Len(l) : u[i] = [path |-> p, field |-> l[i]]
  <2>1. Len(u) = Len(l) + 1
    BY <1>2, <1>5, <1>7
  <2>2. 1 \in 1..Len(<<y>>)
    BY <1>5
  <2>3. u[Len(e) + 1] = <<y>>[1]
    BY <1>7, <2>2
  <2>4. u[Len(l) + 1] = y
    BY <1>2, <1>5, <2>3
  <2>5. \A i \in 1..Len(l) : u[i] = e[i]
    BY <1>2, <1>7
  <2> QED
    BY <1>2, <2>1, <2>4, <2>5
<1> HIDE DEF u
<1>9. ASSUME NEW m \in 1..Len(u)
      PROVE  /\ u[m].field.op # "clamped"
             /\ u[m].field.op = "bytes" =>
                  m > 1 /\ u[m - 1].field.op \in Readers /\ Spot(u[m - 1]) = CountAt(u[m])
  <2>1. CASE m = Len(l) + 1
    BY <1>3, <1>8, <2>1
  <2>2. CASE m \in 1..Len(l)
    <3>0. u[m] = [path |-> p, field |-> l[m]]
      BY <1>8, <2>2
    <3>1. u[m].field = l[m] /\ u[m].path = p
      BY <3>0
    <3>2. l[m].op # "clamped"
      BY <1>1, <2>2
    <3>3. ASSUME l[m].op = "bytes"
          PROVE  m > 1 /\ u[m - 1].field.op \in Readers /\ Spot(u[m - 1]) = CountAt(u[m])
      <4>1. m > 1 /\ l[m - 1].op \in Readers /\ l[m - 1].name = l[m].count
        BY <1>1, <2>2, <3>3 DEF Measured
      <4>2. m - 1 \in 1..Len(l)
        BY <1>1, <2>2, <4>1
      <4>3. u[m - 1] = [path |-> p, field |-> l[m - 1]]
        BY <1>8, <4>2
      <4>4. u[m - 1].field = l[m - 1] /\ u[m - 1].path = p
        BY <4>3
      <4>5. Spot(u[m - 1]) = Append(p, l[m - 1].name)
        BY <4>4 DEF Spot
      <4>6. CountAt(u[m]) = Append(p, l[m].count)
        <5>1. CountAt(u[m]) = Append(u[m].path, u[m].field.count)
          BY DEF CountAt
        <5> QED
          BY <3>1, <5>1
      <4>7. Spot(u[m - 1]) = CountAt(u[m])
        BY <4>1, <4>5, <4>6
      <4> QED
        BY <4>1, <4>4, <4>7
    <3> QED
      BY <3>1, <3>2, <3>3
  <2> QED
    BY <1>1, <1>8, <2>1, <2>2
<1> QED
  BY <1>4, <1>7, <1>9 DEF MeasuredStack, NoClamp, u

-----------------------------------------------------------------------------
(***************************************************************************)
(* A packet of type t that has been read as far as rd, into the fields F   *)
(* and the blocks B, and of which td is still to be parsed.                *)
(***************************************************************************)
ValueIn(F, q) == IF q \in DOMAIN F THEN F[q] ELSE 0

\* Miscoded.
Miss(t, F, rd) ==
  \/ t \in BatteryLevels
  \/ t \in NcasmParams /\ ValueIn(F, <<"inquired_type">>) \in Asm
  \/ t = Smart /\ ValueIn(F, <<"inquired_type">>) \in SmartTalking
  \/ /\ t = "CONNECT_RET_DEVICE_INFO"
     /\ ValueIn(F, <<"inquired_type">>) \in Name /\ rd[3] > NameMax
  \/ t \in PlayParams
     /\ ValueIn(F, <<"detailed_data_type">>) \in Names /\ rd[5] > NameMax

LEMMA MissIs == Miscoded <=> Miss(type, fields, read)
BY DEF Miscoded, Miss, BatteryLevels, NcasmParams, PlayParams, Smart, ValueIn, FieldAt

\* A name that was longer than what is kept of it.
Cut(t, F, rd) == Len(rd) >= 5 /\ OfNames(t, F) /\ rd[5] > NameMax

\* The layout the frame will be written by.
FrameIs(t, F, wc) ==
  LET w == mdr_packet_to_frame(t) IN
  \/ w = wc /\ w[1].op # "switch"
  \/ /\ IsSeq(w) /\ Len(w) = 1 /\ w[1].op = "switch"
     /\ <<w[1].name>> \in DOMAIN F
     /\ \A c, d \in DOMAIN w[1].cases :
          c # d => w[1].cases[c].values \cap w[1].cases[d].values = {}
     /\ \E c \in DOMAIN w[1].cases :
          F[<<w[1].name>>] \in w[1].cases[c].values /\ w[1].cases[c].layout = wc

Traces(t, td, F, B, rd) ==
  \E wc, H, s0, s, r :
    /\ Framable(wc) /\ FrameIs(t, F, wc) /\ Suffix(s0, wc, Ahead(wc))
    /\ Trace(H, s0, s, F, B, r) /\ Len(r) >= 1 /\ r[1] = t
    /\ SpellsStack(td, s) /\ Steady(td, t, F, Len(rd))
    /\ r = rd \/ Cut(t, F, rd)

\* What a packet is written by, when it has been parsed.
Writer(wc, H, s0, r, t, F, B, rd) ==
  /\ Framable(wc) /\ FrameIs(t, F, wc) /\ Suffix(s0, wc, Ahead(wc))
  /\ Trace(H, s0, <<>>, F, B, r) /\ Len(r) >= 1 /\ r[1] = t
  /\ r = rd \/ Miss(t, F, rd)

CanWrite(t, F, B, rd) == \E wc, H, s0, r : Writer(wc, H, s0, r, t, F, B, rd)

LEMMA FrameStays ==
  ASSUME NEW t, NEW F, NEW wc, FrameIs(t, F, wc), NEW F2, Keeps(F, F2)
  PROVE  FrameIs(t, F2, wc)
BY DEF FrameIs, Keeps

LEMMA CutStays ==
  ASSUME NEW t, NEW F, NEW rd, Cut(t, F, rd), NEW F2, Keeps(F, F2),
         NEW rd2, Continues(rd, rd2), IsSeq(rd)
  PROVE  Cut(t, F2, rd2)
<1>1. Len(rd) \in Nat /\ Len(rd2) \in Nat
  BY SeqLen DEF Continues
<1>2. Len(rd) >= 5 /\ rd[5] > NameMax /\ OfNames(t, F2)
  BY NamesStay DEF Cut
<1>3. rd2[5] = rd[5] /\ Len(rd2) >= 5
  BY <1>1, <1>2 DEF Continues
<1> QED
  BY <1>2, <1>3 DEF Cut

LEMMA KeepsSet ==
  ASSUME NEW F, NEW q, q \notin DOMAIN F, NEW v
  PROVE  Keeps(F, Set(F, q, v)) /\ q \in DOMAIN Set(F, q, v) /\ Set(F, q, v)[q] = v
BY DEF Keeps, Set

LEMMA KeepsSelf == \A F : Keeps(F, F)
BY DEF Keeps

LEMMA ContinuesAppend ==
  ASSUME NEW r, IsSeq(r), NEW b
  PROVE  Continues(r, Append(r, b)) /\ Len(Append(r, b)) = Len(r) + 1
         /\ Append(r, b)[Len(r) + 1] = b
BY SpotIs DEF Continues

LEMMA ContinuesConcat ==
  ASSUME NEW r, IsSeq(r), NEW b, IsSeq(b)
  PROVE  Continues(r, r \o b)
<1>1. Len(r) \in Nat /\ Len(b) \in Nat
  BY SeqLen
<1>2. /\ IsSeq(r \o b) /\ Len(r \o b) = Len(r) + Len(b)
      /\ \A i \in 1..Len(r) : (r \o b)[i] = r[i]
  BY SeqConcat
<1> QED
  BY <1>1, <1>2 DEF Continues

LEMMA SpellsAt ==
  ASSUME NEW x, NEW y, SpellsItem(x, y)
  PROVE  /\ y.path = x.path /\ Spot(y) = Spot(x)
         /\ x.field.op \in Readers \cup {"bytes", "each", "loop"}
         /\ x.field.op \in Readers => y.field.op = "put"
         /\ x.field.op \in {"bytes", "each", "loop"} => CountAt(y) = CountAt(x)
         /\ x.field.op = "bytes" => y.field.op = "putbytes"
         /\ x.field.op = "each" => y.field.op = "each"
         /\ x.field.op = "loop" => /\ y.field.op = "loop" /\ y.field.done = x.field.done
                                   /\ Spells(x.field.element, y.field.element)
<1>1. y = [path |-> x.path, field |-> y.field] /\ SpellsField(x.field, y.field)
  BY DEF SpellsItem
<1>2. y.path = x.path
  BY <1>1
<1>3. y.field.name = x.field.name /\ Spot(y) = Spot(x)
  BY <1>1, <1>2 DEF SpellsField, Spot
<1>4. CASE x.field.op \in Readers /\ y.field.op = "put"
  BY <1>2, <1>3, <1>4 DEF Readers
<1>5. CASE x.field.op \in {"bytes", "each", "loop"} /\ y.field.count = x.field.count
  <2>1. CountAt(y) = CountAt(x)
    BY <1>2, <1>5 DEF CountAt
  <2>2. x.field.op \notin Readers
    BY <1>5 DEF Readers
  <2>3. /\ x.field.op = "bytes" => y.field.op = "putbytes"
        /\ x.field.op = "each" => y.field.op = "each"
    BY <1>1, <2>2 DEF SpellsField
  <2>4. ASSUME x.field.op = "loop"
        PROVE  /\ y.field.op = "loop" /\ y.field.done = x.field.done
               /\ Spells(x.field.element, y.field.element)
    <3>1. y.field = LoopField(y.field, x.field.done) /\ Spells(x.field.element, y.field.element)
      BY <1>1, <2>2, <2>4 DEF SpellsField
    <3>2. LoopField(y.field, x.field.done).op = "loop"
          /\ LoopField(y.field, x.field.done).done = x.field.done
      BY DEF LoopField
    <3> QED
      BY <3>1, <3>2
  <2> QED
    BY <1>2, <1>3, <1>5, <2>1, <2>2, <2>3, <2>4
<1>6. \/ x.field.op \in Readers /\ y.field.op = "put"
      \/ x.field.op \in {"bytes", "each", "loop"} /\ y.field.count = x.field.count
  BY <1>1 DEF SpellsField
<1> QED
  BY <1>4, <1>5, <1>6

LEMMA TracesItem ==
  ASSUME NEW t, NEW td, NEW F, NEW B, NEW rd, Traces(t, td, F, B, rd), td # <<>>
  PROVE  td[1].field.op \in Readers \cup {"bytes", "each", "loop"}
<1>1. PICK s : SpellsStack(td, s)
  BY DEF Traces
<1>2. SpellsItem(td[1], s[1])
  BY <1>1, SpellsTail
<1> QED
  BY <1>2, SpellsAt

\* A byte more has been read.
LEMMA TracesReads ==
  ASSUME NEW t, NEW td, NEW F, NEW B, NEW rd, Traces(t, td, F, B, rd), IsSeq(rd), td # <<>>,
         td[1].field.op \in Readers, Spot(td[1]) \notin DOMAIN F,
         NEW b \in Byte, NEW v,
         v = IF td[1].field.op = "clamped" THEN AtMost(b, NameMax) ELSE b
  PROVE  Traces(t, Tail(td), Set(F, Spot(td[1]), v), B, Append(rd, b))
<1>1. PICK wc, H, s0, s, r :
        /\ Framable(wc) /\ FrameIs(t, F, wc) /\ Suffix(s0, wc, Ahead(wc))
        /\ Trace(H, s0, s, F, B, r) /\ Len(r) >= 1 /\ r[1] = t
        /\ SpellsStack(td, s) /\ Steady(td, t, F, Len(rd))
        /\ r = rd \/ Cut(t, F, rd)
  BY DEF Traces
<1> DEFINE F2 == Set(F, Spot(td[1]), v)
           rd2 == Append(rd, b)
<1>2. Keeps(F, F2) /\ Spot(td[1]) \in DOMAIN F2 /\ F2[Spot(td[1])] = v /\ Keeps(B, B)
  BY KeepsSet, KeepsSelf
<1>3. Continues(rd, rd2) /\ Len(rd2) = Len(rd) + 1 /\ rd2[Len(rd) + 1] = b
  BY ContinuesAppend
<1> HIDE DEF F2, rd2
<1>4. /\ s # <<>> /\ SpellsItem(td[1], s[1]) /\ SpellsStack(Tail(td), Tail(s))
  BY <1>1, SpellsTail
<1>5. s[1].field.op = "put" /\ Spot(s[1]) = Spot(td[1])
  BY <1>4, SpellsAt
<1>6. PICK r2 : r2 = Append(r, v)
  OBVIOUS
<1>7. IsSeq(r) /\ Len(r) \in Nat /\ Len(rd) \in Nat
  BY <1>1, SeqLen DEF Trace
<1>8. \E H2 : Trace(H2, s0, Tail(s), F2, B, r2)
  <2>1. Spot(s[1]) \in DOMAIN F2 /\ r2 = Append(r, F2[Spot(s[1])])
    BY <1>2, <1>5, <1>6
  <2> QED
    BY <1>1, <1>2, <1>4, <1>5, <2>1, PutStep
<1>9. Len(r2) >= 1 /\ r2[1] = t
  <2>1. Continues(r, r2) /\ Len(r2) = Len(r) + 1
    BY <1>6, <1>7, ContinuesAppend
  <2> QED
    BY <1>1, <1>7, <2>1 DEF Continues
<1>10. Steady(Tail(td), t, F2, Len(rd2))
  BY <1>1, <1>2, <1>3, <1>7, SteadyReads
<1>11. r2 = rd2 \/ Cut(t, F2, rd2)
  <2>1. CASE Cut(t, F, rd)
    BY <1>2, <1>3, <2>1, CutStays
  <2>2. CASE r = rd /\ v = b
    BY <1>6, <2>2 DEF rd2
  <2>3. CASE r = rd /\ v # b
    <3>1. td[1].field.op = "clamped" /\ v = AtMost(b, NameMax)
      BY <2>3
    <3>2. b \in Nat /\ NameMax \in Nat /\ b > NameMax
      BY <2>3, <3>1, NameMaxAssumption DEF AtMost, Byte
    <3>3. 1 \in 1..Len(td)
      <4>1. IsSeq(td)
        BY <1>1 DEF Steady
      <4> QED
        BY <4>1, SeqTail, SeqLen
    <3>4. 1 + Len(rd) = 5 /\ OfNames(t, F)
      BY <1>1, <3>1, <3>3 DEF Steady, ClampedAt
    <3>5. OfNames(t, F2)
      BY <1>2, <3>4, NamesStay
    <3>6. Len(rd2) = 5 /\ rd2[5] = b
      BY <1>3, <1>7, <3>4
    <3> QED
      BY <3>2, <3>5, <3>6 DEF Cut
  <2> QED
    BY <1>1, <2>1, <2>2, <2>3
<1>12. FrameIs(t, F2, wc)
  BY <1>1, <1>2, FrameStays
<1> QED
  BY <1>1, <1>4, <1>8, <1>9, <1>10, <1>11, <1>12 DEF Traces, F2, rd2

\* A block more.
LEMMA TracesBytes ==
  ASSUME NEW t, NEW td, NEW F, NEW B, NEW rd, Traces(t, td, F, B, rd), IsSeq(rd), td # <<>>,
         td[1].field.op = "bytes", Spot(td[1]) \notin DOMAIN B,
         \A q \in DOMAIN F : F[q] \in Nat,
         NEW block, IsSeq(block),
         CountAt(td[1]) \in DOMAIN F => Len(block) = F[CountAt(td[1])]
  PROVE  Traces(t, Tail(td), F, Set(B, Spot(td[1]), block), rd \o block)
<1>1. PICK wc, H, s0, s, r :
        /\ Framable(wc) /\ FrameIs(t, F, wc) /\ Suffix(s0, wc, Ahead(wc))
        /\ Trace(H, s0, s, F, B, r) /\ Len(r) >= 1 /\ r[1] = t
        /\ SpellsStack(td, s) /\ Steady(td, t, F, Len(rd))
        /\ r = rd \/ Cut(t, F, rd)
  BY DEF Traces
<1> DEFINE B2 == Set(B, Spot(td[1]), block)
           rd2 == rd \o block
<1>2. Keeps(B, B2) /\ Spot(td[1]) \in DOMAIN B2 /\ B2[Spot(td[1])] = block /\ Keeps(F, F)
  BY KeepsSet, KeepsSelf
<1>3. Continues(rd, rd2)
  BY ContinuesConcat
<1> HIDE DEF B2, rd2
<1>4. /\ s # <<>> /\ SpellsItem(td[1], s[1]) /\ SpellsStack(Tail(td), Tail(s))
  BY <1>1, SpellsTail
<1>5. s[1].field.op = "putbytes" /\ Spot(s[1]) = Spot(td[1]) /\ CountAt(s[1]) = CountAt(td[1])
  BY <1>4, SpellsAt
<1>6. CountAt(td[1]) \in DOMAIN F
  <2>1. 1 \in 1..Len(td)
    <3>1. IsSeq(td)
      BY <1>1 DEF Steady
    <3> QED
      BY <3>1, SeqTail, SeqLen
  <2> QED
    BY <1>1, <2>1 DEF Steady, MeasuredStack
<1>7. Len(block) = F[CountAt(td[1])] /\ F[CountAt(td[1])] \in Nat
  BY <1>6
<1>8. IsSeq(r) /\ Len(r) \in Nat /\ Len(block) \in Nat
  BY <1>1, SeqLen DEF Trace
<1>9. PICK n : n = Len(block)
  OBVIOUS
<1>10. block = [i \in 1..n |-> IF i <= Len(block) THEN block[i] ELSE Unset]
  <2>1. block = [i \in 1..n |-> block[i]]
    BY <1>9, SeqLen
  <2>2. \A i \in 1..n : (IF i <= Len(block) THEN block[i] ELSE Unset) = block[i]
    BY <1>8, <1>9
  <2> QED
    BY <2>1, <2>2
<1>11. PICK r2 : r2 = r \o block
  OBVIOUS
<1>12. \E H2 : Trace(H2, s0, Tail(s), F, B2, r2)
  <2>1. /\ CountAt(s[1]) \in DOMAIN F /\ F[CountAt(s[1])] \in Nat /\ Spot(s[1]) \in DOMAIN B2
        /\ F[CountAt(s[1])] = n /\ B2[Spot(s[1])] = block
    BY <1>2, <1>5, <1>6, <1>7, <1>9
  <2>2. block = [i \in 1..F[CountAt(s[1])] |->
                   IF i <= Len(B2[Spot(s[1])]) THEN B2[Spot(s[1])][i] ELSE Unset]
    BY <1>10, <2>1, Zenon
  <2> QED
    BY <1>1, <1>2, <1>4, <1>5, <1>11, <2>1, <2>2, BytesStep
<1>13. Len(r2) >= 1 /\ r2[1] = t
  <2>1. Continues(r, r2)
    BY <1>8, <1>11, ContinuesConcat
  <2>2. Len(r2) \in Nat
    BY <2>1, SeqLen DEF Continues
  <2> QED
    BY <1>1, <1>8, <2>1, <2>2 DEF Continues
<1>14. Steady(Tail(td), t, F, Len(rd2))
  <2>1. td[1].field.op \notin Readers \cup {"clamped"}
    BY DEF Readers
  <2> QED
    BY <1>1, <2>1, SteadySkips
<1>15. r2 = rd2 \/ Cut(t, F, rd2)
  <2>1. CASE Cut(t, F, rd)
    BY <1>2, <1>3, <2>1, CutStays
  <2>2. CASE r = rd
    BY <1>11, <2>2 DEF rd2
  <2> QED
    BY <1>1, <2>1, <2>2
<1> QED
  BY <1>1, <1>4, <1>12, <1>13, <1>14, <1>15 DEF Traces, B2, rd2

\* Into an array, on to its next element, and past it.
LEMMA TracesEach ==
  ASSUME NEW t, NEW td, NEW F, NEW B, NEW rd, Traces(t, td, F, B, rd), td # <<>>,
         td[1].field.op = "each"
  PROVE  Traces(t, LoopOf(td[1]) \o Tail(td), F, B, rd)
<1>1. PICK wc, H, s0, s, r :
        /\ Framable(wc) /\ FrameIs(t, F, wc) /\ Suffix(s0, wc, Ahead(wc))
        /\ Trace(H, s0, s, F, B, r) /\ Len(r) >= 1 /\ r[1] = t
        /\ SpellsStack(td, s) /\ Steady(td, t, F, Len(rd))
        /\ r = rd \/ Cut(t, F, rd)
  BY DEF Traces
<1>2. Keeps(F, F) /\ Keeps(B, B)
  BY KeepsSelf
<1>3. /\ s # <<>> /\ SpellsItem(td[1], s[1]) /\ SpellsStack(Tail(td), Tail(s))
      /\ IsSeq(s) /\ IsSeq(td)
  BY <1>1, SpellsTail
<1>4. td[1].field.op \notin Readers \cup {"clamped"}
  BY DEF Readers
<1>5. IsSeq(Tail(s)) /\ IsSeq(Tail(td))
  BY <1>3 DEF SpellsStack
<1>6. s[1].field.op = "each"
  BY <1>3, SpellsAt
<1>7. PICK td2, s2 : td2 = LoopOf(td[1]) \o Tail(td) /\ s2 = LoopOf(s[1]) \o Tail(s)
  OBVIOUS
<1>8. SpellsStack(td2, s2) /\ IsSeq(s2)
  <2>1. SpellsStack(LoopOf(td[1]), LoopOf(s[1]))
    BY <1>3, SpellsLoop
  <2>2. SpellsStack(LoopOf(td[1]) \o Tail(td), LoopOf(s[1]) \o Tail(s))
    BY <1>3, <2>1, SpellsConcat
  <2>3. SpellsStack(td2, s2)
    BY <1>7, <2>2
  <2> QED
    BY <2>3 DEF SpellsStack
<1>9. \E H2 : Trace(H2, s0, s2, F, B, r)
  <2>1. ArraySpelled(s, Len(r), s2, Len(r))
    BY <1>6, <1>7 DEF ArraySpelled
  <2> QED
    BY <1>1, <1>2, <1>3, <1>8, <2>1, StillSpelled
<1>10. Steady(td2, t, F, Len(rd))
  <2>1. IsSeq(LoopOf(td[1])) /\ MeasuredStack(LoopOf(td[1]), F) /\ NoClamp(LoopOf(td[1]))
    BY LoopSteady
  <2>2. \A n2 : Steady(LoopOf(td[1]) \o Tail(td), t, F, n2)
    BY <1>1, <1>4, <2>1, SteadyPush
  <2> QED
    BY <1>7, <2>2
<1>11. Traces(t, td2, F, B, rd)
  BY <1>1, <1>8, <1>9, <1>10 DEF Traces
<1> QED
  BY <1>7, <1>11

LEMMA TracesTurn ==
  ASSUME NEW t, NEW td, NEW F, NEW B, NEW rd, Traces(t, td, F, B, rd), td # <<>>,
         td[1].field.op = "loop", TidyItem(td[1]),
         CountAt(td[1]) \in DOMAIN F, td[1].field.done # F[CountAt(td[1])]
  PROVE  Traces(t, TurnOf(td[1]) \o Tail(td), F, B, rd)
<1>1. PICK wc, H, s0, s, r :
        /\ Framable(wc) /\ FrameIs(t, F, wc) /\ Suffix(s0, wc, Ahead(wc))
        /\ Trace(H, s0, s, F, B, r) /\ Len(r) >= 1 /\ r[1] = t
        /\ SpellsStack(td, s) /\ Steady(td, t, F, Len(rd))
        /\ r = rd \/ Cut(t, F, rd)
  BY DEF Traces
<1>2. Keeps(F, F) /\ Keeps(B, B)
  BY KeepsSelf
<1>3. /\ s # <<>> /\ SpellsItem(td[1], s[1]) /\ SpellsStack(Tail(td), Tail(s))
      /\ IsSeq(s) /\ IsSeq(td)
  BY <1>1, SpellsTail
<1>4. td[1].field.op \notin Readers \cup {"clamped"}
  BY DEF Readers
<1>5. IsSeq(Tail(s)) /\ IsSeq(Tail(td))
  BY <1>3 DEF SpellsStack
<1>6. /\ s[1].field.op = "loop" /\ s[1].field.done = td[1].field.done
      /\ CountAt(s[1]) = CountAt(td[1]) /\ Spells(td[1].field.element, s[1].field.element)
  BY <1>3, SpellsAt
<1>7. PICK td2, s2 : td2 = TurnOf(td[1]) \o Tail(td) /\ s2 = TurnOf(s[1]) \o Tail(s)
  OBVIOUS
<1>8. SpellsStack(td2, s2) /\ IsSeq(s2)
  <2>1. SpellsStack(TurnOf(td[1]), TurnOf(s[1]))
    BY <1>3, SpellsTurn
  <2>2. SpellsStack(TurnOf(td[1]) \o Tail(td), TurnOf(s[1]) \o Tail(s))
    BY <1>3, <2>1, SpellsConcat
  <2>3. SpellsStack(td2, s2)
    BY <1>7, <2>2
  <2> QED
    BY <2>3 DEF SpellsStack
<1>9. \E H2 : Trace(H2, s0, s2, F, B, r)
  <2>1. TurnSpelled(s, Len(r), s2, Len(r), F)
    BY <1>6, <1>7 DEF TurnSpelled
  <2> QED
    BY <1>1, <1>2, <1>3, <1>8, <2>1, StillSpelled
<1>10. Steady(td2, t, F, Len(rd))
  <2>1. IsSeq(TurnOf(td[1])) /\ MeasuredStack(TurnOf(td[1]), F) /\ NoClamp(TurnOf(td[1]))
    BY <1>6, TurnSteady
  <2>2. \A n2 : Steady(TurnOf(td[1]) \o Tail(td), t, F, n2)
    BY <1>1, <1>4, <2>1, SteadyPush
  <2> QED
    BY <1>7, <2>2
<1>11. Traces(t, td2, F, B, rd)
  BY <1>1, <1>8, <1>9, <1>10 DEF Traces
<1> QED
  BY <1>7, <1>11

LEMMA TracesLoopEnds ==
  ASSUME NEW t, NEW td, NEW F, NEW B, NEW rd, Traces(t, td, F, B, rd), td # <<>>,
         td[1].field.op = "loop",
         CountAt(td[1]) \in DOMAIN F, td[1].field.done = F[CountAt(td[1])]
  PROVE  Traces(t, Tail(td), F, B, rd)
<1>1. PICK wc, H, s0, s, r :
        /\ Framable(wc) /\ FrameIs(t, F, wc) /\ Suffix(s0, wc, Ahead(wc))
        /\ Trace(H, s0, s, F, B, r) /\ Len(r) >= 1 /\ r[1] = t
        /\ SpellsStack(td, s) /\ Steady(td, t, F, Len(rd))
        /\ r = rd \/ Cut(t, F, rd)
  BY DEF Traces
<1>2. Keeps(F, F) /\ Keeps(B, B)
  BY KeepsSelf
<1>3. /\ s # <<>> /\ SpellsItem(td[1], s[1]) /\ SpellsStack(Tail(td), Tail(s))
      /\ IsSeq(s) /\ IsSeq(td)
  BY <1>1, SpellsTail
<1>4. td[1].field.op \notin Readers \cup {"clamped"}
  BY DEF Readers
<1>5. IsSeq(Tail(s)) /\ IsSeq(Tail(td))
  BY <1>3 DEF SpellsStack
<1>6. /\ s[1].field.op = "loop" /\ s[1].field.done = td[1].field.done
      /\ CountAt(s[1]) = CountAt(td[1])
  BY <1>3, SpellsAt
<1>7. \E H2 : Trace(H2, s0, Tail(s), F, B, r)
  <2>1. TurnSpelled(s, Len(r), Tail(s), Len(r), F)
    BY <1>6 DEF TurnSpelled
  <2> QED
    BY <1>1, <1>2, <1>3, <1>5, <2>1, StillSpelled
<1>8. Steady(Tail(td), t, F, Len(rd))
  BY <1>1, <1>4, SteadySkips
<1> QED
  BY <1>1, <1>3, <1>7, <1>8 DEF Traces

\* A packet that has been parsed can be written.
LEMMA TracesEnd ==
  ASSUME NEW t, NEW F, NEW B, NEW rd, Traces(t, <<>>, F, B, rd)
  PROVE  CanWrite(t, F, B, rd)
<1>1. PICK td : td = <<>>
  OBVIOUS
<1>2. Traces(t, td, F, B, rd)
  BY <1>1, Zenon
<1>3. PICK wc, H, s0, s, r :
        /\ Framable(wc) /\ FrameIs(t, F, wc) /\ Suffix(s0, wc, Ahead(wc))
        /\ Trace(H, s0, s, F, B, r) /\ Len(r) >= 1 /\ r[1] = t
        /\ SpellsStack(td, s) /\ Steady(td, t, F, Len(rd))
        /\ r = rd \/ Cut(t, F, rd)
  BY <1>2 DEF Traces
<1>4. s = <<>>
  <2>1. Len(td) = 0
    BY <1>1, NoItems
  <2>2. IsSeq(s) /\ Len(s) = 0
    BY <1>3, <2>1 DEF SpellsStack
  <2> QED
    BY <2>2, SeqTail
<1>5. Cut(t, F, rd) => Miss(t, F, rd)
  BY DEF Cut, OfNames, Miss, ValueIn
<1>6. Trace(H, s0, <<>>, F, B, r)
  BY <1>3, <1>4, Zenon
<1>7. Writer(wc, H, s0, r, t, F, B, rd)
  BY <1>3, <1>5, <1>6 DEF Writer
<1> QED
  BY <1>7, Zenon DEF CanWrite

-----------------------------------------------------------------------------
(* The first fields of a frame: those that were parsed before a choice.    *)

LEMMA SuffixMade ==
  ASSUME NEW l, IsSeq(l), NEW k \in Nat, k <= Len(l)
  PROVE  \E s : Suffix(s, l, k)
<1> DEFINE e == Enter(<<>>, l)
<1>1. /\ IsSeq(e) /\ Len(e) = Len(l)
      /\ \A i \in 1..Len(l) : e[i] = [path |-> <<>>, field |-> l[i]]
  BY SeqEnter
<1>2. Len(l) \in Nat
  BY SeqLen
<1> HIDE DEF e
<1>3. PICK s : s = Past(e, k)
  OBVIOUS
<1>4. /\ IsSeq(s) /\ Len(s) = Len(l) - k
      /\ \A i \in 1..(Len(l) - k) : s[i] = e[i + k]
  BY <1>1, <1>3, PastIs
<1>5. \A i \in 1..(Len(l) - k) : i + k \in 1..Len(l)
  BY <1>2
<1>6. \A i \in 1..(Len(l) - k) : s[i] = [path |-> <<>>, field |-> l[i + k]]
  BY <1>1, <1>4, <1>5
<1>7. Suffix(s, l, k)
  BY <1>4, <1>6 DEF Suffix
<1> QED
  BY <1>7

LEMMA LeadStep ==
  ASSUME NEW w, IsSeq(w), NEW m \in Nat, m < Len(w), NEW s, Suffix(s, w, m),
         w[m + 1].op = "put",
         NEW H, NEW s0, NEW F, NEW B, NEW r, Trace(H, s0, s, F, B, r),
         <<w[m + 1].name>> \in DOMAIN F
  PROVE  /\ Suffix(Tail(s), w, m + 1)
         /\ \E H2 : Trace(H2, s0, Tail(s), F, B, Append(r, F[<<w[m + 1].name>>]))
<1>1. s # <<>>
  <2>1. s = <<>> => Len(w) = m
    BY SuffixIs
  <2> QED
    BY <2>1
<1>2. s[1].path = <<>> /\ s[1].field = w[m + 1] /\ Suffix(Tail(s), w, m + 1)
  BY <1>1, SuffixIs
<1>3. Spot(s[1]) = <<w[m + 1].name>>
  BY <1>2 DEF Spot
<1>4. PICK r2 : r2 = Append(r, F[Spot(s[1])])
  OBVIOUS
<1>5. s[1].field.op = "put" /\ Spot(s[1]) \in DOMAIN F /\ Keeps(F, F) /\ Keeps(B, B)
  BY <1>2, <1>3, KeepsSelf
<1>6. \E H2 : Trace(H2, s0, Tail(s), F, B, r2)
  BY <1>1, <1>4, <1>5, PutStep
<1> QED
  BY <1>2, <1>3, <1>4, <1>6

\* What was read before the part of the layout that is parsed now.
Begun(t, values, l, k, F, rd) ==
  /\ IsSeq(rd) /\ Len(rd) = k + 1 /\ rd[1] = t
  /\ \A i \in 1..k : <<l[i].name>> \in DOMAIN F /\ rd[i + 1] = F[<<l[i].name>>]
  /\ k = 2 /\ t \in PlayParams =>
       <<"detailed_data_type">> \in DOMAIN F /\ F[<<"detailed_data_type">>] \in values

\* A parser of a case, or of a layout without one, begins.
LEMMA TracesBegin ==
  ASSUME NEW t, NEW values, NEW l, NEW k \in {0, 1, 2}, NEW lc, NEW wc,
         WritesBack(t, values, l, k, lc, wc),
         NEW F, NEW B, NEW rd, FrameIs(t, F, wc), Begun(t, values, l, k, F, rd)
  PROVE  Traces(t, Enter(<<>>, lc), F, B, rd)
<1>20. /\ IsSeq(rd) /\ Len(rd) = k + 1 /\ rd[1] = t
       /\ \A i \in 1..k : <<l[i].name>> \in DOMAIN F /\ rd[i + 1] = F[<<l[i].name>>]
       /\ k = 2 /\ t \in PlayParams =>
            <<"detailed_data_type">> \in DOMAIN F /\ F[<<"detailed_data_type">>] \in values
  BY DEF Begun
<1> USE <1>20
<1> DEFINE a == Ahead(wc)
           R(j) == [i \in 1..(j + 1) |-> rd[i]]
<1>1. /\ Framable(wc) /\ IsSeq(wc) /\ a \in {1, 2} /\ Len(wc) \in Nat
      /\ LeadsWith(wc, l, k) /\ SpellsFrom(lc, wc, a + k) /\ ClampsName(t, values, k, lc)
  BY SeqLen DEF WritesBack, Framable, Ahead
<1>2. /\ IsSeq(lc) /\ Len(wc) = Len(lc) + (a + k) /\ Measured(lc) /\ Len(lc) \in Nat
      /\ \A i \in 1..Len(lc) : SpellsField(lc[i], wc[i + (a + k)])
  BY <1>1, SeqLen DEF SpellsFrom
<1>3. \A i \in 1..k : wc[a + i].op = "put" /\ wc[a + i].name = l[i].name
  BY <1>1 DEF LeadsWith
<1> HIDE DEF a
<1>4. a \in Nat /\ k \in Nat /\ a + k <= Len(wc) /\ a <= Len(wc)
  BY <1>1, <1>2
<1>5. PICK s0 : Suffix(s0, wc, a)
  BY <1>1, <1>4, SuffixMade
<1> DEFINE P(j) == \E H, s : Suffix(s, wc, a + j) /\ Trace(H, s0, s, F, B, R(j))
<1>6. P(0)
  <2>1. R(0) = <<t>>
    <3>1. IsSeq(<<t>>) /\ Len(<<t>>) = 1 /\ <<t>>[1] = t
      BY SeqOne
    <3>2. PICK x : x = R(0)
      OBVIOUS
    <3>3. IsSeq(x) /\ Len(x) = 1
      <4>1. x = [i \in 1..1 |-> x[i]]
        BY <3>2
      <4> QED
        BY <4>1, SeqMade
    <3>4. x[1] = t
      BY <3>2
    <3>5. \A i \in 1..1 : x[i] = <<t>>[i]
      BY <3>1, <3>4
    <3>6. x = <<t>>
      BY <3>1, <3>3, <3>5, SeqSame
    <3> QED
      BY <3>2, <3>6
  <2>2. IsSeq(s0) /\ Suffix(s0, wc, a + 0)
    BY <1>4, <1>5 DEF Suffix
  <2>3. Trace({<<s0, 1>>}, s0, s0, F, B, <<t>>)
    BY <2>2, TraceStarts
  <2> HIDE DEF R
  <2>4. Trace({<<s0, 1>>}, s0, s0, F, B, R(0))
    BY <2>1, <2>3, Zenon
  <2> QED
    BY <2>2, <2>4
<1>7. ASSUME NEW j \in Nat, j < k, P(j) PROVE P(j + 1)
  <2>1. PICK H, s : Suffix(s, wc, a + j) /\ Trace(H, s0, s, F, B, R(j))
    BY <1>7
  <2>2. PICK m : m = a + j
    OBVIOUS
  <2>3. m \in Nat /\ m < Len(wc) /\ Suffix(s, wc, m) /\ m + 1 = a + (j + 1) /\ j + 1 \in 1..k
    BY <1>4, <1>7, <2>1, <2>2
  <2>4. wc[m + 1].op = "put" /\ wc[m + 1].name = l[j + 1].name
    BY <1>3, <2>3
  <2>5. <<wc[m + 1].name>> \in DOMAIN F /\ rd[j + 2] = F[<<wc[m + 1].name>>]
    <3>1. <<l[j + 1].name>> \in DOMAIN F /\ rd[(j + 1) + 1] = F[<<l[j + 1].name>>]
      BY <2>3
    <3>2. (j + 1) + 1 = j + 2
      OBVIOUS
    <3> QED
      BY <2>4, <3>1, <3>2
  <2>6. PICK r : r = R(j)
    OBVIOUS
  <2>7. IsSeq(r) /\ Len(r) = j + 1 /\ \A i \in 1..(j + 1) : r[i] = rd[i]
    <3>1. r = [i \in 1..(j + 1) |-> r[i]] /\ j + 1 \in Nat
      BY <2>6
    <3>2. \A i \in 1..(j + 1) : r[i] = rd[i]
      BY <2>6
    <3> QED
      BY <3>1, <3>2, SeqMade
  <2>8. Append(r, rd[j + 2]) = R(j + 1)
    <3>1. PICK x : x = Append(r, rd[j + 2])
      OBVIOUS
    <3>2. /\ IsSeq(x) /\ Len(x) = j + 2 /\ x[j + 2] = rd[j + 2]
          /\ \A i \in 1..(j + 1) : x[i] = rd[i]
      <4>1. /\ IsSeq(x) /\ Len(x) = Len(r) + 1 /\ x[Len(r) + 1] = rd[j + 2]
            /\ \A i \in 1..Len(r) : x[i] = r[i]
        BY <2>7, <3>1, SpotIs
      <4> QED
        BY <2>7, <4>1
    <3>3. PICK y : y = R(j + 1)
      OBVIOUS
    <3>4. IsSeq(y) /\ Len(y) = j + 2 /\ \A i \in 1..(j + 2) : y[i] = rd[i]
      <4>1. y = [i \in 1..(j + 2) |-> y[i]] /\ j + 2 \in Nat
        BY <3>3
      <4>2. \A i \in 1..(j + 2) : y[i] = rd[i]
        BY <3>3
      <4> QED
        BY <4>1, <4>2, SeqMade
    <3>5. \A i \in 1..(j + 2) : x[i] = y[i]
      BY <3>2, <3>4
    <3>6. x = y
      BY <3>2, <3>4, <3>5, SeqSame
    <3> QED
      BY <3>1, <3>3, <3>6
  <2> HIDE DEF R
  <2>9. Trace(H, s0, s, F, B, r)
    BY <2>1, <2>6
  <2>10. /\ Suffix(Tail(s), wc, m + 1)
         /\ \E H2 : Trace(H2, s0, Tail(s), F, B, Append(r, F[<<wc[m + 1].name>>]))
    BY <1>1, <2>3, <2>4, <2>5, <2>9, LeadStep
  <2>11. PICK H2 : Trace(H2, s0, Tail(s), F, B, Append(r, F[<<wc[m + 1].name>>]))
    BY <2>10
  <2>12. Append(r, F[<<wc[m + 1].name>>]) = R(j + 1)
    BY <2>5, <2>8
  <2>13. Trace(H2, s0, Tail(s), F, B, R(j + 1))
    BY <2>11, <2>12
  <2>14. Suffix(Tail(s), wc, a + (j + 1))
    BY <2>3, <2>10
  <2> QED
    BY <2>13, <2>14
<1>8. P(k)
  <2> HIDE DEF P
  <2>1. k > 0 => P(1)
    <3>1. 0 + 1 = 1
      OBVIOUS
    <3> QED
      BY <1>6, <1>7, <3>1
  <2>2. k > 1 => P(2)
    <3>1. 1 + 1 = 2
      OBVIOUS
    <3> QED
      BY <1>7, <2>1, <3>1
  <2> QED
    BY <1>6, <2>1, <2>2
<1>9. R(k) = rd
  BY <1>4, SeqLen
<1>10. PICK H, s : Suffix(s, wc, a + k) /\ Trace(H, s0, s, F, B, rd)
  <2> HIDE DEF R
  <2> QED
    BY <1>8, <1>9
<1> HIDE DEF R, P
<1> DEFINE td == Enter(<<>>, lc)
<1>11. /\ IsSeq(td) /\ Len(td) = Len(lc)
       /\ \A i \in 1..Len(lc) : td[i] = [path |-> <<>>, field |-> lc[i]]
  BY <1>2, SeqEnter
<1> HIDE DEF td
<1>12. SpellsStack(td, s)
  <2>1. /\ IsSeq(s) /\ Len(s) = Len(lc)
        /\ \A i \in 1..Len(s) : s[i] = [path |-> <<>>, field |-> wc[i + (a + k)]]
    BY <1>2, <1>4, <1>10 DEF Suffix
  <2>2. ASSUME NEW i \in 1..Len(td) PROVE SpellsItem(td[i], s[i])
    <3>1. td[i] = [path |-> <<>>, field |-> lc[i]] /\ s[i] = [path |-> <<>>,
            field |-> wc[i + (a + k)]]
      BY <1>11, <2>1
    <3>2. td[i].path = <<>> /\ td[i].field = lc[i] /\ s[i].field = wc[i + (a + k)]
      BY <3>1
    <3>3. SpellsField(td[i].field, s[i].field)
      BY <1>2, <1>11, <3>2
    <3> QED
      BY <3>1, <3>2, <3>3 DEF SpellsItem
  <2> QED
    BY <1>11, <2>1, <2>2 DEF SpellsStack
<1>13. Steady(td, t, F, Len(rd))
  <2>1. ASSUME NEW m \in 1..Len(td), td[m].field.op = "bytes"
        PROVE  m > 1 /\ td[m - 1].field.op \in Readers /\ Spot(td[m - 1]) = CountAt(td[m])
    <3>1. td[m].field = lc[m] /\ td[m].path = <<>>
      <4>1. td[m] = [path |-> <<>>, field |-> lc[m]]
        BY <1>11
      <4> QED
        BY <4>1
    <3>2. m > 1 /\ lc[m - 1].op \in Readers /\ lc[m - 1].name = lc[m].count
      BY <1>2, <1>11, <2>1, <3>1 DEF Measured
    <3>3. m - 1 \in 1..Len(lc)
      BY <1>2, <1>11, <3>2
    <3>4. td[m - 1] = [path |-> <<>>, field |-> lc[m - 1]]
      BY <1>11, <3>3
    <3>5. td[m - 1].field = lc[m - 1] /\ td[m - 1].path = <<>>
      BY <3>4
    <3>6. Spot(td[m - 1]) = Append(<<>>, lc[m - 1].name)
      BY <3>5 DEF Spot
    <3>7. CountAt(td[m]) = Append(td[m].path, td[m].field.count)
      BY DEF CountAt
    <3>8. Spot(td[m - 1]) = CountAt(td[m])
      BY <3>1, <3>2, <3>6, <3>7
    <3> QED
      BY <3>2, <3>5, <3>8
  <2>2. ASSUME NEW i \in 1..Len(td), td[i].field.op = "clamped"
        PROVE  /\ i <= 2 /\ i + Len(rd) = 5 /\ (i = 2 => td[1].field.op \in Readers)
               /\ OfNames(t, F)
    <3>1. td[i] = [path |-> <<>>, field |-> lc[i]]
      BY <1>11
    <3>2. lc[i].op = "clamped"
      BY <2>2, <3>1
    <3>3. /\ k = 2 /\ i = 2 /\ lc[1].op \in Readers
          /\ t \in PlayParams /\ values \subseteq Names
      BY <1>1, <1>11, <3>2 DEF ClampsName
    <3>4. td[1] = [path |-> <<>>, field |-> lc[1]]
      BY <1>2, <1>11, <3>3
    <3>5. td[1].field.op \in Readers
      BY <3>3, <3>4
    <3> QED
      BY <3>3, <3>5 DEF OfNames
  <2> QED
    BY <1>11, <2>1, <2>2 DEF Steady, MeasuredStack, ClampedAt
<1>14. Suffix(s0, wc, Ahead(wc)) /\ Len(rd) >= 1
  BY <1>4, <1>5 DEF a
<1>15. Traces(t, td, F, B, rd)
  BY <1>1, <1>10, <1>12, <1>13, <1>14 DEF Traces
<1> QED
  BY <1>15 DEF td

LEMMA ByteNumber == (\A b \in Byte : b \in Nat) /\ NameMax \in Nat
BY NameMaxAssumption DEF Byte

\* The name of a device, which is not as long as it says when it was longer than
\* what is kept of it.
LEMMA NameCanWrite ==
  ASSUME NEW t, t = "CONNECT_RET_DEVICE_INFO", NEW F, NEW B, NEW rd, FrameIs(t, F, NameWrite),
         IsSeq(rd), Len(rd) = 3, rd[1] = t,
         <<"inquired_type">> \in DOMAIN F, rd[2] = F[<<"inquired_type">>], rd[2] \in Name,
         <<"len">> \in DOMAIN F, rd[3] = F[<<"len">>], rd[3] \in Byte,
         <<"string">> \in DOMAIN B, IsSeq(B[<<"string">>]),
         Len(B[<<"string">>]) = AtMost(rd[3], NameMax)
  PROVE  CanWrite(t, F, B, rd \o B[<<"string">>])
<1>1. /\ Framable(NameWrite) /\ Ahead(NameWrite) = 1
      /\ IsSeq(NameWrite) /\ Len(NameWrite) = 4
      /\ NameWrite[2].op = "put" /\ NameWrite[2].name = "inquired_type"
      /\ NameWrite[3].op = "put" /\ NameWrite[3].name = "len"
      /\ NameWrite[4].op = "putbytes" /\ NameWrite[4].name = "string" /\ NameWrite[4].count = "len"
  BY NameFramable
<1>2. PICK w : w = NameWrite
  OBVIOUS
<1>3. /\ Framable(w) /\ Ahead(w) = 1 /\ FrameIs(t, F, w)
      /\ IsSeq(w) /\ Len(w) = 4
      /\ w[2].op = "put" /\ w[2].name = "inquired_type"
      /\ w[3].op = "put" /\ w[3].name = "len"
      /\ w[4].op = "putbytes" /\ w[4].name = "string" /\ w[4].count = "len"
  BY <1>1, <1>2
<1>4. PICK s0 : Suffix(s0, w, 1)
  <2>1. 1 \in Nat /\ 1 <= Len(w)
    BY <1>3
  <2> QED
    BY <1>3, <2>1, SuffixMade
<1>5. Trace({<<s0, 1>>}, s0, s0, F, B, <<t>>)
  <2>1. IsSeq(s0)
    BY <1>4, Zenon DEF Suffix
  <2> QED
    BY <2>1, TraceStarts
<1>6. PICK r1 : r1 = Append(<<t>>, rd[2])
  BY Zenon
<1>7. Suffix(Tail(s0), w, 2) /\ \E H : Trace(H, s0, Tail(s0), F, B, r1)
  <2>1. 1 + 1 = 2 /\ 1 \in Nat /\ 1 < Len(w)
    BY <1>3
  <2>2. /\ Suffix(Tail(s0), w, 1 + 1)
        /\ \E H : Trace(H, s0, Tail(s0), F, B, Append(<<t>>, F[<<w[1 + 1].name>>]))
    BY <1>3, <1>4, <1>5, <2>1, LeadStep
  <2>3. Append(<<t>>, F[<<w[1 + 1].name>>]) = r1
    BY <1>3, <1>6, <2>1
  <2> QED
    BY <2>1, <2>2, <2>3
<1>8. PICK s1 : s1 = Tail(s0)
  OBVIOUS
<1>9. PICK r2 : r2 = Append(r1, rd[3])
  OBVIOUS
<1>10. Suffix(Tail(s1), w, 3) /\ \E H : Trace(H, s0, Tail(s1), F, B, r2)
  <2>1. 2 + 1 = 3 /\ 2 \in Nat /\ 2 < Len(w)
    BY <1>3
  <2>2. PICK H : Trace(H, s0, s1, F, B, r1)
    BY <1>7, <1>8
  <2>3. /\ Suffix(Tail(s1), w, 2 + 1)
        /\ \E H2 : Trace(H2, s0, Tail(s1), F, B, Append(r1, F[<<w[2 + 1].name>>]))
    BY <1>3, <1>7, <1>8, <2>1, <2>2, LeadStep
  <2>4. Append(r1, F[<<w[2 + 1].name>>]) = r2
    BY <1>3, <1>9, <2>1
  <2> QED
    BY <2>1, <2>3, <2>4
<1>11. r2 = rd
  <2>1. IsSeq(<<t>>) /\ Len(<<t>>) = 1 /\ <<t>>[1] = t
    BY SeqOne
  <2>2. /\ IsSeq(r1) /\ Len(r1) = 2 /\ r1[2] = rd[2] /\ r1[1] = t
    <3>1. /\ IsSeq(r1) /\ Len(r1) = 1 + 1 /\ r1[1 + 1] = rd[2]
          /\ \A i \in 1..1 : r1[i] = <<t>>[i]
      BY <1>6, <2>1, SpotIs
    <3> QED
      BY <2>1, <3>1
  <2>3. IsSeq(r2) /\ Len(r2) = 3 /\ r2[3] = rd[3] /\ r2[1] = t /\ r2[2] = rd[2]
    <3>1. /\ IsSeq(r2) /\ Len(r2) = Len(r1) + 1 /\ r2[Len(r1) + 1] = rd[3]
          /\ \A i \in 1..Len(r1) : r2[i] = r1[i]
      BY <1>9, <2>2, SpotIs
    <3> QED
      BY <2>2, <3>1
  <2>4. \A i \in 1..3 : r2[i] = rd[i]
    BY <2>3
  <2> QED
    BY <2>3, <2>4, SeqSame
<1>12. PICK s3 : s3 = Tail(s1)
  OBVIOUS
<1>13. /\ s3 # <<>> /\ s3[1].path = <<>> /\ s3[1].field = w[4] /\ Suffix(Tail(s3), w, 4)
  <2>1. 3 + 1 = 4 /\ 3 \in Nat /\ Suffix(s3, w, 3)
    BY <1>10, <1>12
  <2>2. s3 = <<>> => Len(w) = 3
    BY <1>3, <2>1, SuffixIs
  <2>3. s3 # <<>>
    BY <1>3, <2>2
  <2>4. s3[1].path = <<>> /\ s3[1].field = w[3 + 1] /\ Suffix(Tail(s3), w, 3 + 1)
    BY <1>3, <2>1, <2>3, SuffixIs
  <2> QED
    BY <2>1, <2>3, <2>4
<1>14. s3[1].field.op = "putbytes" /\ Spot(s3[1]) = <<"string">> /\ CountAt(s3[1]) = <<"len">>
  <2>1. Spot(s3[1]) = Append(s3[1].path, s3[1].field.name)
        /\ CountAt(s3[1]) = Append(s3[1].path, s3[1].field.count)
    BY DEF Spot, CountAt
  <2>2. Append(<<>>, "string") = <<"string">> /\ Append(<<>>, "len") = <<"len">>
    OBVIOUS
  <2>3. s3[1].field.op = "putbytes" /\ s3[1].field.name = "string" /\ s3[1].field.count = "len"
    BY <1>3, <1>13
  <2> QED
    BY <1>13, <2>1, <2>2, <2>3
<1>15. PICK block : block = B[<<"string">>]
  OBVIOUS
<1>16. PICK n : n = F[<<"len">>]
  OBVIOUS
<1>17. n \in Nat /\ n = rd[3] /\ IsSeq(block) /\ Len(block) = AtMost(n, NameMax) /\ NameMax \in Nat
  <2>1. n = rd[3]
    BY <1>16
  <2>2. n \in Nat /\ NameMax \in Nat
    BY <2>1, ByteNumber, Zenon
  <2>3. IsSeq(block)
    BY <1>15, Zenon
  <2>4. Len(block) = AtMost(rd[3], NameMax)
    BY <1>15, Zenon
  <2>5. Len(block) = AtMost(n, NameMax)
    BY <2>1, <2>4, Zenon
  <2> QED
    BY <2>1, <2>2, <2>3, <2>5
<1>18. PICK b : b = [i \in 1..n |-> IF i <= Len(block) THEN block[i] ELSE Unset]
  OBVIOUS
<1>19. PICK r : r = rd \o b
  OBVIOUS
<1>20. \E H : Trace(H, s0, <<>>, F, B, r)
  <2>1. PICK H : Trace(H, s0, s3, F, B, rd)
    BY <1>10, <1>11, <1>12
  <2>2. /\ CountAt(s3[1]) \in DOMAIN F /\ F[CountAt(s3[1])] \in Nat /\ Spot(s3[1]) \in DOMAIN B
        /\ F[CountAt(s3[1])] = n /\ B[Spot(s3[1])] = block
    BY <1>14, <1>15, <1>16, <1>17
  <2>3. b = [i \in 1..F[CountAt(s3[1])] |->
               IF i <= Len(B[Spot(s3[1])]) THEN B[Spot(s3[1])][i] ELSE Unset]
    BY <1>18, <2>2, Zenon
  <2>4. Keeps(F, F) /\ Keeps(B, B)
    BY KeepsSelf
  <2>5. \E H2 : Trace(H2, s0, Tail(s3), F, B, r)
    BY <1>13, <1>14, <1>19, <2>1, <2>2, <2>3, <2>4, BytesStep
  <2>6. Tail(s3) = <<>>
    BY <1>3, <1>13, SuffixEnds
  <2> QED
    BY <2>5, <2>6
<1>21. IsSeq(b) /\ Len(b) = n
  <2>1. b = [i \in 1..n |-> b[i]]
    BY <1>18
  <2> QED
    BY <1>17, <2>1, SeqMade
<1>22. /\ IsSeq(r) /\ Len(r) >= 1 /\ r[1] = t
  <2>1. Continues(rd, r)
    BY <1>19, <1>21, ContinuesConcat
  <2>2. IsSeq(r) /\ Len(r) \in Nat
    BY <2>1, SeqLen DEF Continues
  <2> QED
    BY <2>1, <2>2 DEF Continues
<1>23. PICK rd2 : rd2 = rd \o block
  OBVIOUS
<1>24. r = rd2 \/ Miss(t, F, rd2)
  <2>1. CASE n <= NameMax
    <3>1. Len(block) = n
      BY <1>17, <2>1 DEF AtMost
    <3>2. \A i \in 1..n : b[i] = block[i]
      BY <1>17, <1>18, <3>1
    <3>3. b = block
      BY <1>17, <1>21, <3>1, <3>2, SeqSame
    <3> QED
      BY <1>19, <1>23, <3>3
  <2>2. CASE n > NameMax
    <3>1. Continues(rd, rd2)
      BY <1>17, <1>23, ContinuesConcat
    <3>2. rd2[3] = rd[3]
      BY <3>1 DEF Continues
    <3> QED
      BY <1>17, <2>2, <3>2 DEF Miss, ValueIn
  <2> QED
    BY <1>17, <2>1, <2>2
<1>25. CanWrite(t, F, B, rd2)
  <2>1. PICK H : Trace(H, s0, <<>>, F, B, r)
    BY <1>20
  <2>2. Suffix(s0, w, Ahead(w))
    BY <1>3, <1>4
  <2>3. Writer(w, H, s0, r, t, F, B, rd2)
    BY <1>3, <1>22, <1>24, <2>1, <2>2 DEF Writer
  <2> QED
    BY <2>3, Zenon DEF CanWrite
<1> QED
  BY <1>15, <1>23, <1>25

-----------------------------------------------------------------------------
(***************************************************************************)
(* The stages of a parser.                                                 *)
(***************************************************************************)

\* No choice has been made yet; what was read is in the fields.
Prefixes(t, td, F, rd) ==
  LET l == mdr_packet_from_frame(t) IN
  \E j \in Nat :
    /\ ChoiceRound(t, l, mdr_packet_to_frame(t))
    /\ j < Len(l) /\ Suffix(td, l, j) /\ Len(rd) = j + 1
    /\ \A i \in 1..j : /\ <<l[i].name>> \in DOMAIN F
                       /\ rd[i + 1] = F[<<l[i].name>>] /\ rd[i + 1] \in l[i].values

\* The name of a device.
Naming(t, td, F, rd) ==
  /\ t = "CONNECT_RET_DEVICE_INFO" /\ FrameIs(t, F, NameWrite)
  /\ <<"inquired_type">> \in DOMAIN F /\ rd[2] = F[<<"inquired_type">>] /\ rd[2] \in Name
  /\ \/ Suffix(td, NameParse, 0) /\ Len(rd) = 2
     \/ /\ Suffix(td, NameParse, 1) \/ Suffix(td, NameParse, 2)
        /\ Len(rd) = 3 /\ rd[3] \in Byte
        /\ <<"len">> \in DOMAIN F /\ rd[3] = F[<<"len">>]

\* A packet that will not be encoded to what was read.
Doomed(t, F) ==
  \/ t \in BatteryLevels
  \/ /\ <<"inquired_type">> \in DOMAIN F
     /\ \/ t \in NcasmParams /\ F[<<"inquired_type">>] \in Asm
        \/ t = Smart /\ F[<<"inquired_type">>] \in SmartTalking

Spoiled(t, F) == \E wc : FrameIs(t, F, wc) /\ SpoiltFrame(wc) /\ Doomed(t, F)

Stage(t, td, F, B, rd) ==
  \/ Prefixes(t, td, F, rd) \/ Naming(t, td, F, rd)
  \/ Traces(t, td, F, B, rd)
  \/ td = <<>> /\ CanWrite(t, F, B, rd)
  \/ Spoiled(t, F)

LEMMA SpoiledStays ==
  ASSUME NEW t, NEW F, Spoiled(t, F), NEW F2, Keeps(F, F2)
  PROVE  Spoiled(t, F2)
<1>1. PICK wc : FrameIs(t, F, wc) /\ SpoiltFrame(wc) /\ Doomed(t, F)
  BY DEF Spoiled
<1>2. FrameIs(t, F2, wc)
  BY <1>1, FrameStays
<1>3. Doomed(t, F2)
  BY <1>1 DEF Doomed, Keeps
<1> QED
  BY <1>1, <1>2, <1>3 DEF Spoiled

LEMMA DoomedMisses ==
  ASSUME NEW t, NEW F, Doomed(t, F)
  PROVE  \A rd : Miss(t, F, rd)
BY DEF Doomed, Miss, ValueIn

LEMMA PrefixItem ==
  ASSUME NEW t, NEW td, NEW F, NEW rd, Prefixes(t, td, F, rd)
  PROVE  td # <<>> /\ td[1].field.op \in {"enum", "switch"}
<1> DEFINE l == mdr_packet_from_frame(t)
<1>1. PICK j \in Nat : ChoiceRound(t, l, mdr_packet_to_frame(t)) /\ j < Len(l) /\ Suffix(td, l, j)
  BY DEF Prefixes
<1> HIDE DEF l
<1>2. PICK k \in {1, 2} : /\ IsSeq(l) /\ Len(l) = k + 1 /\ \A i \in 1..k : l[i].op = "enum"
                          /\ l[k + 1].op = "switch"
  BY <1>1 DEF ChoiceRound
<1>3. td # <<>>
  <2>1. td = <<>> => Len(l) = j
    BY <1>1, <1>2, SuffixIs
  <2> QED
    BY <1>1, <2>1
<1>4. td[1].field = l[j + 1] /\ j + 1 \in 1..Len(l)
  BY <1>1, <1>2, <1>3, SuffixIs
<1>5. j + 1 \in 1..k \/ j + 1 = k + 1
  BY <1>2, <1>4
<1> QED
  BY <1>2, <1>3, <1>4, <1>5

LEMMA PrefixReads ==
  ASSUME NEW t, NEW td, NEW F, NEW rd, Prefixes(t, td, F, rd), IsSeq(rd),
         td[1].field.op = "enum", Spot(td[1]) \notin DOMAIN F,
         NEW b, b \in td[1].field.values
  PROVE  Prefixes(t, Tail(td), Set(F, Spot(td[1]), b), Append(rd, b))
<1> DEFINE l == mdr_packet_from_frame(t)
           w == mdr_packet_to_frame(t)
<1>1. PICK j \in Nat :
        /\ ChoiceRound(t, l, w) /\ j < Len(l) /\ Suffix(td, l, j) /\ Len(rd) = j + 1
        /\ \A i \in 1..j : /\ <<l[i].name>> \in DOMAIN F
                           /\ rd[i + 1] = F[<<l[i].name>>] /\ rd[i + 1] \in l[i].values
  BY DEF Prefixes
<1> HIDE DEF l, w
<1>2. PICK k \in {1, 2} : /\ IsSeq(l) /\ Len(l) = k + 1
                          /\ l[k + 1].op = "switch"
  BY <1>1 DEF ChoiceRound
<1>3. td # <<>>
  BY PrefixItem
<1>4. /\ td[1].path = <<>> /\ td[1].field = l[j + 1] /\ j + 1 \in 1..Len(l)
      /\ Suffix(Tail(td), l, j + 1)
  BY <1>1, <1>2, <1>3, SuffixIs
<1>5. j + 1 < Len(l)
  <2>1. j + 1 # k + 1
    BY <1>2, <1>4
  <2> QED
    BY <1>2, <1>4, <2>1
<1>6. PICK q : q = Spot(td[1])
  OBVIOUS
<1>7. q = <<l[j + 1].name>>
  BY <1>4, <1>6 DEF Spot
<1>8. PICK F2 : F2 = Set(F, q, b)
  OBVIOUS
<1>9. Keeps(F, F2) /\ q \in DOMAIN F2 /\ F2[q] = b
  BY <1>6, <1>8, KeepsSet
<1>10. PICK rd2 : rd2 = Append(rd, b)
  OBVIOUS
<1>11. Continues(rd, rd2) /\ Len(rd2) = (j + 1) + 1 /\ rd2[(j + 1) + 1] = b
  BY <1>1, <1>10, ContinuesAppend
<1>12. ASSUME NEW i \in 1..(j + 1)
       PROVE  /\ <<l[i].name>> \in DOMAIN F2
              /\ rd2[i + 1] = F2[<<l[i].name>>] /\ rd2[i + 1] \in l[i].values
  <2>1. CASE i = j + 1
    BY <1>4, <1>7, <1>9, <1>11, <2>1
  <2>2. CASE i \in 1..j
    <3>1. /\ <<l[i].name>> \in DOMAIN F
          /\ rd[i + 1] = F[<<l[i].name>>] /\ rd[i + 1] \in l[i].values
      BY <1>1, <2>2
    <3>2. i + 1 \in 1..Len(rd)
      BY <1>1, <2>2
    <3>3. rd2[i + 1] = rd[i + 1]
      BY <1>11, <3>2 DEF Continues
    <3>4. <<l[i].name>> \in DOMAIN F2 /\ F2[<<l[i].name>>] = F[<<l[i].name>>]
      BY <1>9, <3>1 DEF Keeps
    <3> QED
      BY <3>1, <3>3, <3>4
  <2> QED
    BY <2>1, <2>2
<1>13. Prefixes(t, Tail(td), F2, rd2)
  BY <1>1, <1>4, <1>5, <1>11, <1>12 DEF Prefixes, l, w
<1> QED
  BY <1>6, <1>8, <1>10, <1>13

LEMMA NamingItem ==
  ASSUME NEW t, NEW td, NEW F, NEW rd, Naming(t, td, F, rd)
  PROVE  /\ td # <<>>
         /\ \/ /\ Suffix(td, NameParse, 0) /\ td[1].field.op = "count"
               /\ Spot(td[1]) = <<"len">> /\ Suffix(Tail(td), NameParse, 1)
            \/ /\ Suffix(td, NameParse, 1) /\ td[1].field.op = "zeros"
               /\ Spot(td[1]) = <<"string">> /\ Suffix(Tail(td), NameParse, 2)
            \/ /\ Suffix(td, NameParse, 2) /\ td[1].field.op = "name"
               /\ Spot(td[1]) = <<"string">> /\ CountAt(td[1]) = <<"len">> /\ Tail(td) = <<>>
<1>1. PICK l : l = NameParse
  OBVIOUS
<1>2. /\ IsSeq(l) /\ Len(l) = 3
      /\ l[1].op = "count" /\ l[1].name = "len"
      /\ l[2].op = "zeros" /\ l[2].name = "string"
      /\ l[3].op = "name" /\ l[3].name = "string"
  BY <1>1, InfoLayouts
<1>3. l[3].count = "len"
  BY <1>1 DEF NameParse, NameBytes
<1>4. ASSUME NEW m \in {0, 1, 2}, Suffix(td, l, m)
      PROVE  /\ td # <<>> /\ td[1].path = <<>> /\ td[1].field = l[m + 1]
             /\ Suffix(Tail(td), l, m + 1)
  <2>1. td = <<>> => Len(l) = m
    BY <1>2, <1>4, SuffixIs
  <2>2. td # <<>>
    BY <1>2, <2>1
  <2> QED
    BY <1>2, <1>4, <2>2, SuffixIs
<1>5. Spot(td[1]) = Append(td[1].path, td[1].field.name)
      /\ CountAt(td[1]) = Append(td[1].path, td[1].field.count)
  BY DEF Spot, CountAt
<1>6. Append(<<>>, "len") = <<"len">> /\ Append(<<>>, "string") = <<"string">>
  OBVIOUS
<1>7. CASE Suffix(td, l, 0)
  <2>1. td # <<>> /\ td[1].path = <<>> /\ td[1].field = l[1] /\ Suffix(Tail(td), l, 1)
    <3>1. 0 + 1 = 1
      OBVIOUS
    <3> QED
      BY <1>4, <1>7, <3>1
  <2>2. Spot(td[1]) = <<"len">>
    BY <1>2, <1>5, <1>6, <2>1
  <2> QED
    BY <1>1, <1>2, <1>7, <2>1, <2>2
<1>8. CASE Suffix(td, l, 1)
  <2>1. td # <<>> /\ td[1].path = <<>> /\ td[1].field = l[2] /\ Suffix(Tail(td), l, 2)
    <3>1. 1 + 1 = 2
      OBVIOUS
    <3> QED
      BY <1>4, <1>8, <3>1
  <2>2. Spot(td[1]) = <<"string">>
    BY <1>2, <1>5, <1>6, <2>1
  <2> QED
    BY <1>1, <1>2, <1>8, <2>1, <2>2
<1>9. CASE Suffix(td, l, 2)
  <2>1. td # <<>> /\ td[1].path = <<>> /\ td[1].field = l[3] /\ Suffix(Tail(td), l, 3)
    <3>1. 2 + 1 = 3
      OBVIOUS
    <3> QED
      BY <1>4, <1>9, <3>1
  <2>2. Spot(td[1]) = <<"string">> /\ CountAt(td[1]) = <<"len">>
    BY <1>2, <1>3, <1>5, <1>6, <2>1
  <2>3. Tail(td) = <<>>
    BY <1>2, <2>1, SuffixEnds
  <2> QED
    BY <1>1, <1>2, <1>9, <2>1, <2>2, <2>3
<1>10. Suffix(td, l, 0) \/ Suffix(td, l, 1) \/ Suffix(td, l, 2)
  BY <1>1 DEF Naming
<1> QED
  BY <1>7, <1>8, <1>9, <1>10

\* The length of a name is read.
LEMMA NamingReads ==
  ASSUME NEW t, NEW td, NEW F, NEW rd, Naming(t, td, F, rd), IsSeq(rd),
         td[1].field.op = "count", Spot(td[1]) \notin DOMAIN F, NEW b \in Byte
  PROVE  Naming(t, Tail(td), Set(F, Spot(td[1]), b), Append(rd, b))
<1>1. /\ Suffix(td, NameParse, 0) /\ Spot(td[1]) = <<"len">> /\ Suffix(Tail(td), NameParse, 1)
  BY NamingItem
<1>2. Len(rd) = 2
  <2>1. CASE Len(rd) = 3 /\ (Suffix(td, NameParse, 1) \/ Suffix(td, NameParse, 2))
    <3>1. IsSeq(NameParse) /\ Len(NameParse) = 3
      BY InfoLayouts
    <3>2. Len(td) = Len(NameParse) - 0
      BY <1>1 DEF Suffix
    <3>3. Len(td) = Len(NameParse) - 1 \/ Len(td) = Len(NameParse) - 2
      BY <2>1 DEF Suffix
    <3> QED
      BY <3>1, <3>2, <3>3
  <2> QED
    BY <2>1 DEF Naming
<1>3. PICK F2 : F2 = Set(F, Spot(td[1]), b)
  OBVIOUS
<1>4. Keeps(F, F2) /\ <<"len">> \in DOMAIN F2 /\ F2[<<"len">>] = b
  BY <1>1, <1>3, KeepsSet
<1>5. PICK rd2 : rd2 = Append(rd, b)
  OBVIOUS
<1>6. Len(rd2) = 3 /\ rd2[3] = b /\ rd2[2] = rd[2]
  <2>1. Continues(rd, rd2) /\ Len(rd2) = 2 + 1 /\ rd2[2 + 1] = b
    BY <1>2, <1>5, ContinuesAppend
  <2>2. 2 \in 1..Len(rd) /\ 2 + 1 = 3
    BY <1>2
  <2> QED
    BY <2>1, <2>2 DEF Continues
<1>7. /\ t = "CONNECT_RET_DEVICE_INFO" /\ FrameIs(t, F, NameWrite)
      /\ <<"inquired_type">> \in DOMAIN F /\ rd[2] = F[<<"inquired_type">>] /\ rd[2] \in Name
  BY DEF Naming
<1>8. FrameIs(t, F2, NameWrite)
  BY <1>4, <1>7, FrameStays
<1>9. <<"inquired_type">> \in DOMAIN F2 /\ F2[<<"inquired_type">>] = F[<<"inquired_type">>]
  BY <1>4, <1>7 DEF Keeps
<1>10. Naming(t, Tail(td), F2, rd2)
  BY <1>1, <1>4, <1>6, <1>7, <1>8, <1>9 DEF Naming
<1> QED
  BY <1>3, <1>5, <1>10, Zenon

\* A byte is read, whatever the stage.
LEMMA StageReads ==
  ASSUME NEW t, NEW td, NEW F, NEW B, NEW rd, Stage(t, td, F, B, rd), IsSeq(rd), td # <<>>,
         td[1].field.op \in Readers, Spot(td[1]) \notin DOMAIN F,
         NEW b \in Byte, td[1].field.op = "enum" => b \in td[1].field.values,
         NEW v, v = IF td[1].field.op = "clamped" THEN AtMost(b, NameMax) ELSE b
  PROVE  Stage(t, Tail(td), Set(F, Spot(td[1]), v), B, Append(rd, b))
<1>1. PICK F2 : F2 = Set(F, Spot(td[1]), v)
  OBVIOUS
<1>2. Keeps(F, F2)
  BY <1>1, KeepsSet
<1>3. CASE Prefixes(t, td, F, rd)
  <2>1. td[1].field.op = "enum"
    BY <1>3, PrefixItem DEF Readers
  <2>2. v = b
    BY <2>1
  <2>3. Prefixes(t, Tail(td), F2, Append(rd, b))
    BY <1>1, <1>3, <2>1, <2>2, PrefixReads
  <2> QED
    BY <1>1, <2>3, Zenon DEF Stage
<1>4. CASE Naming(t, td, F, rd)
  <2>1. td[1].field.op = "count"
    BY <1>4, NamingItem DEF Readers
  <2>2. v = b
    BY <2>1
  <2>3. Naming(t, Tail(td), F2, Append(rd, b))
    BY <1>1, <1>4, <2>1, <2>2, NamingReads
  <2> QED
    BY <1>1, <2>3, Zenon DEF Stage
<1>5. CASE Traces(t, td, F, B, rd)
  <2>1. Traces(t, Tail(td), F2, B, Append(rd, b))
    BY <1>1, <1>5, TracesReads
  <2> QED
    BY <1>1, <2>1, Zenon DEF Stage
<1>6. CASE Spoiled(t, F)
  <2>1. Spoiled(t, F2)
    BY <1>2, <1>6, SpoiledStays
  <2> QED
    BY <1>1, <2>1, Zenon DEF Stage
<1> QED
  BY <1>3, <1>4, <1>5, <1>6 DEF Stage

\* A case has been chosen: what is parsed will be written, or not.
LEMMA CaseStage ==
  ASSUME NEW t, NEW l, NEW w, NEW k \in {1, 2}, NEW v, NEW name, NEW F, NEW B, NEW rd,
         name = IF t \in PlayParams THEN "detailed_data_type" ELSE "inquired_type",
         l[k].name = name, <<name>> \in DOMAIN F, F[<<name>>] = v,
         IsSeq(rd), Len(rd) = k + 1, rd[1] = t,
         \A i \in 1..k : <<l[i].name>> \in DOMAIN F /\ rd[i + 1] = F[<<l[i].name>>],
         NEW lc, NEW wc, NEW values, v \in values,
         CaseRound(t, values, l, k, lc, wc), FrameIs(t, F, wc)
  PROVE  \/ Stage(t, Enter(<<>>, lc), F, B, rd) /\ IsSeq(Enter(<<>>, lc))
         \/ Spoiled(t, F)
<1>1. CASE WritesBack(t, values, l, k, lc, wc)
  <2>1. Traces(t, Enter(<<>>, lc), F, B, rd)
    <3>1. k \in {0, 1, 2}
      OBVIOUS
    <3>2. t \in PlayParams => <<"detailed_data_type">> \in DOMAIN F
            /\ F[<<"detailed_data_type">>] \in values
      OBVIOUS
    <3>3. Begun(t, values, l, k, F, rd)
      BY <3>2 DEF Begun
    <3> QED
      BY <1>1, <3>1, <3>3, TracesBegin
  <2>2. IsSeq(Enter(<<>>, lc))
    BY <1>1, SeqEnter DEF WritesBack, SpellsFrom
  <2> QED
    BY <2>1, <2>2 DEF Stage
<1>2. CASE Spoils(t, values) /\ SpoiltFrame(wc)
  <2>1. t \in NcasmParams \/ t = Smart => t \notin PlayParams
    BY DEF NcasmParams, PlayParams, Smart
  <2>2. t \in NcasmParams \/ t = Smart =>
          <<"inquired_type">> \in DOMAIN F /\ F[<<"inquired_type">>] \in values
    BY <2>1
  <2>3. Doomed(t, F)
    BY <1>2, <2>2 DEF Spoils, Doomed
  <2> QED
    BY <1>2, <2>3 DEF Spoiled
<1>3. CASE /\ t = "CONNECT_RET_DEVICE_INFO" /\ values \subseteq Name /\ k = 1
           /\ lc = NameParse /\ wc = NameWrite
  <2>1. t \notin PlayParams
    BY <1>3 DEF PlayParams
  <2>2. /\ <<"inquired_type">> \in DOMAIN F /\ F[<<"inquired_type">>] = v
        /\ l[1].name = "inquired_type"
    BY <1>3, <2>1
  <2>3. Len(rd) = 2 /\ rd[2] = v
    <3>1. 1 \in 1..k /\ 1 + 1 = 2
      BY <1>3
    <3>2. rd[1 + 1] = F[<<l[1].name>>]
      BY <3>1
    <3> QED
      BY <1>3, <2>2, <3>1, <3>2
  <2>4. IsSeq(NameParse)
    BY InfoLayouts
  <2>5. Suffix(Enter(<<>>, lc), NameParse, 0) /\ IsSeq(Enter(<<>>, lc))
    BY <1>3, <2>4, SuffixEnters DEF Suffix
  <2>6. Naming(t, Enter(<<>>, lc), F, rd)
    BY <1>3, <2>2, <2>3, <2>5 DEF Naming
  <2> QED
    BY <2>5, <2>6 DEF Stage
<1> QED
  BY <1>1, <1>2, <1>3 DEF CaseRound

\* The parser goes on with the case.
LEMMA PrefixBranch ==
  ASSUME NEW t, NEW td, NEW F, NEW B, NEW rd, Prefixes(t, td, F, rd), IsSeq(rd), rd[1] = t,
         td[1].field.op = "switch"
  PROVE  /\ Spot(td[1]) \in DOMAIN F
         /\ \E c \in DOMAIN td[1].field.cases : F[Spot(td[1])] \in td[1].field.cases[c].values
         /\ \A c \in DOMAIN td[1].field.cases :
              F[Spot(td[1])] \in td[1].field.cases[c].values =>
                Stage(t, Enter(td[1].path, td[1].field.cases[c].layout) \o Tail(td), F, B, rd)
<1> DEFINE l == mdr_packet_from_frame(t)
           w == mdr_packet_to_frame(t)
<1>1. PICK j \in Nat :
        /\ ChoiceRound(t, l, w) /\ j < Len(l) /\ Suffix(td, l, j) /\ Len(rd) = j + 1
        /\ \A i \in 1..j : /\ <<l[i].name>> \in DOMAIN F
                           /\ rd[i + 1] = F[<<l[i].name>>] /\ rd[i + 1] \in l[i].values
  BY DEF Prefixes
<1> HIDE DEF l, w
<1>2. PICK k \in {1, 2} :
    /\ IsSeq(l) /\ Len(l) = k + 1
    /\ \A i \in 1..k : l[i].op = "enum"
    /\ l[k + 1].op = "switch" /\ l[k + 1].name = l[k].name
    /\ l[k].name = IF t \in PlayParams THEN "detailed_data_type" ELSE "inquired_type"
    /\ IsSeq(w) /\ Len(w) = 1 /\ w[1].op = "switch" /\ w[1].name = l[k].name
    /\ DOMAIN w[1].cases = DOMAIN l[k + 1].cases
    /\ \A v \in l[k].values : \E c \in DOMAIN w[1].cases : v \in w[1].cases[c].values
    /\ \A c, d \in DOMAIN w[1].cases :
         c # d => w[1].cases[c].values \cap w[1].cases[d].values = {}
    /\ \A c \in DOMAIN w[1].cases :
         /\ l[k + 1].cases[c].values = w[1].cases[c].values
         /\ CaseRound(t, w[1].cases[c].values, l, k, l[k + 1].cases[c].layout,
                      w[1].cases[c].layout)
  BY <1>1 DEF ChoiceRound
<1>3. td # <<>>
  BY PrefixItem
<1>4. /\ td[1].path = <<>> /\ td[1].field = l[j + 1] /\ j + 1 \in 1..Len(l)
      /\ Suffix(Tail(td), l, j + 1)
  BY <1>1, <1>2, <1>3, SuffixIs
<1>5. j = k
  <2>1. j + 1 \in 1..k => l[j + 1].op = "enum"
    BY <1>2
  <2>2. j + 1 \notin 1..k
    BY <1>4, <2>1
  <2> QED
    BY <1>2, <1>4, <2>2
<1>6. Tail(td) = <<>>
  BY <1>2, <1>4, <1>5, SuffixEnds
<1>7. PICK name : name = l[k].name
  OBVIOUS
<1>8. td[1].field = l[k + 1] /\ td[1].field.name = name
  BY <1>2, <1>4, <1>5, <1>7
<1>9. Spot(td[1]) = <<name>>
  <2>1. Spot(td[1]) = Append(td[1].path, td[1].field.name)
    BY DEF Spot
  <2> QED
    BY <1>4, <1>8, <2>1
<1>10. k \in 1..j
  BY <1>5
<1>11. <<name>> \in DOMAIN F /\ F[<<name>>] \in l[k].values
  BY <1>1, <1>7, <1>10
<1>12. PICK v : v = F[<<name>>]
  OBVIOUS
<1>13. \A i \in 1..k : <<l[i].name>> \in DOMAIN F /\ rd[i + 1] = F[<<l[i].name>>]
  BY <1>1, <1>5
<1>14. Len(rd) = k + 1
  BY <1>1, <1>5
<1>15. ASSUME NEW c \in DOMAIN l[k + 1].cases, v \in l[k + 1].cases[c].values
       PROVE  Stage(t, Enter(<<>>, l[k + 1].cases[c].layout) \o <<>>, F, B, rd)
  <2> DEFINE lc == l[k + 1].cases[c].layout
             wc == w[1].cases[c].layout
             values == w[1].cases[c].values
  <2>1. c \in DOMAIN w[1].cases /\ v \in values /\ CaseRound(t, values, l, k, lc, wc)
    BY <1>2, <1>15
  <2>2. FrameIs(t, F, wc)
    <3>1. w[1].name = name
      BY <1>2, <1>7
    <3>2. \E d \in DOMAIN w[1].cases :
            F[<<w[1].name>>] \in w[1].cases[d].values /\ w[1].cases[d].layout = wc
      BY <1>12, <2>1, <3>1
    <3> QED
      BY <1>2, <1>11, <3>1, <3>2 DEF FrameIs, w
  <2> HIDE DEF lc, wc, values
  <2>3. \/ Stage(t, Enter(<<>>, lc), F, B, rd) /\ IsSeq(Enter(<<>>, lc))
        \/ Spoiled(t, F)
    <3>1. name = IF t \in PlayParams THEN "detailed_data_type" ELSE "inquired_type"
      BY <1>2, <1>7
    <3> QED
      BY <1>7, <1>11, <1>12, <1>13, <1>14, <2>1, <2>2, <3>1, CaseStage
  <2>4. IsSeq(Enter(<<>>, lc)) => Enter(<<>>, lc) \o <<>> = Enter(<<>>, lc)
    BY EmptyEnds
  <2>5. Stage(t, Enter(<<>>, lc) \o <<>>, F, B, rd)
    <3>1. CASE Spoiled(t, F)
      BY <3>1 DEF Stage
    <3>2. CASE Stage(t, Enter(<<>>, lc), F, B, rd) /\ IsSeq(Enter(<<>>, lc))
      BY <2>4, <3>2, Zenon
    <3> QED
      BY <2>3, <3>1, <3>2
  <2> QED
    BY <2>5 DEF lc
<1>16. \E c \in DOMAIN l[k + 1].cases : v \in l[k + 1].cases[c].values
  BY <1>2, <1>11, <1>12
<1> QED
  <2>1. td[1].path = <<>>
    BY <1>4
  <2>2. PICK e : e = <<>>
    OBVIOUS
  <2>3. \A c \in DOMAIN l[k + 1].cases : v \in l[k + 1].cases[c].values =>
          Stage(t, Enter(e, l[k + 1].cases[c].layout) \o e, F, B, rd)
    BY <1>15, <2>2, Zenon
  <2>4. td[1].path = e /\ Tail(td) = e
    BY <1>6, <2>1, <2>2
  <2>5. F[Spot(td[1])] = v /\ Spot(td[1]) \in DOMAIN F
    BY <1>9, <1>11, <1>12
  <2> QED
    BY <1>8, <1>16, <2>3, <2>4, <2>5, Zenon

\* A parser begins.
LEMMA StageBegins ==
  ASSUME NEW t \in PacketTypes
  PROVE  Stage(t, Enter(<<>>, mdr_packet_from_frame(t)), <<>>, <<>>, <<t>>)
<1> DEFINE l == mdr_packet_from_frame(t)
           w == mdr_packet_to_frame(t)
<1>1. FlatRound(t, l, w) \/ ChoiceRound(t, l, w)
  BY AllRound DEF Rounds
<1>2. PICK rd : rd = <<t>>
  OBVIOUS
<1>3. IsSeq(rd) /\ Len(rd) = 1 /\ rd[1] = t
  BY <1>2, SeqOne
<1>4. PICK e : e = <<>>
  OBVIOUS
<1>5. CASE FlatRound(t, l, w)
  <2>1. WritesBack(t, {}, l, 0, l, w)
    BY <1>5 DEF FlatRound
  <2>2. FrameIs(t, e, w)
    <3>1. w[1].op \in {"start", "each"}
      BY <2>1 DEF WritesBack, Framable, SizedPuts, SizedLast, SizedBefore
    <3>2. w[1].op # "switch"
      BY <3>1
    <3> QED
      BY <3>2 DEF FrameIs
  <2> HIDE DEF l, w
  <2>3. Traces(t, Enter(<<>>, l), e, e, rd)
    <3>1. \A i \in 1..0 : <<l[i].name>> \in DOMAIN e /\ rd[i + 1] = e[<<l[i].name>>]
      OBVIOUS
    <3>2. PICK k : k = 0
      OBVIOUS
    <3>3. k \in {0, 1, 2} /\ k # 2 /\ Len(rd) = k + 1
      BY <1>3, <3>2
    <3>4. WritesBack(t, {}, l, k, l, w)
      BY <2>1, <3>2
    <3>5. \A i \in 1..k : <<l[i].name>> \in DOMAIN e /\ rd[i + 1] = e[<<l[i].name>>]
      BY <3>2
    <3>6. Begun(t, {}, l, k, e, rd)
      BY <1>3, <3>3, <3>5 DEF Begun
    <3> QED
      BY <2>2, <3>3, <3>4, <3>6, TracesBegin
  <2> QED
    BY <1>2, <1>4, <2>3, Zenon DEF Stage, l
<1>6. CASE ChoiceRound(t, l, w)
  <2>1. IsSeq(l) /\ Len(l) > 0
    BY <1>6 DEF ChoiceRound
  <2>2. Suffix(Enter(<<>>, l), l, 0)
    BY <2>1, SuffixEnters
  <2>3. Prefixes(t, Enter(<<>>, l), e, rd)
    <3>1. \A i \in 1..0 : /\ <<l[i].name>> \in DOMAIN e
                          /\ rd[i + 1] = e[<<l[i].name>>] /\ rd[i + 1] \in l[i].values
      OBVIOUS
    <3>2. Len(rd) = 0 + 1 /\ 0 \in Nat /\ 0 < Len(l)
      BY <1>3, <2>1, SeqLen
    <3> QED
      BY <1>6, <2>2, <3>1, <3>2 DEF Prefixes
  <2> QED
    BY <1>2, <1>4, <2>3, Zenon DEF Stage
<1> QED
  BY <1>1, <1>5, <1>6

-----------------------------------------------------------------------------
(***************************************************************************)
(* What is known of a packet that is parsed.                               *)
(***************************************************************************)

Unwritten == written = <<>> /\ length = 0 /\ failure = "none"

RoundCalled == pc = "called" => Unwritten /\ bytes = <<>>

RoundParsing ==
  pc = "parsing" =>
    /\ Unwritten /\ \A q \in DOMAIN bytes : q \in DOMAIN pointer
    /\ Stage(type, todo, fields, bytes, read)

RoundParsed ==
  pc = "parsed" =>
    \/ Unwritten /\ (CanWrite(type, fields, bytes, read) \/ Spoiled(type, fields))
    \/ written = <<>> /\ failure # "none"
    \/ /\ written # <<>> /\ Len(written) <= size
       /\ ~Miss(type, fields, read) => written = read /\ size = Len(written)

LEMMA ReadIs ==
  ASSUME HeapInv, pc = "parsing"
  PROVE  IsSeq(read) /\ read[1] = type /\ type \in PacketTypes
<1>1. read \in Seq(PacketTypes \cup Byte) /\ Len(read) > 0 /\ TypeOK /\ Kind
  BY DEF HeapInv, IInv
<1>2. read # <<>>
  BY <1>1
<1>3. IsSeq(read)
  BY <1>1 DEF IsSeq
<1> QED
  BY <1>1, <1>2, <1>3 DEF TypeOK, Kind

LEMMA RoundBegins ==
  ASSUME HeapInv, RoundCalled, Parse
  PROVE  RoundParsing'
<1>1. /\ pc = "called" /\ type \in PacketTypes /\ type' = type /\ read' = <<type>>
      /\ todo' = Enter(<<>>, mdr_packet_from_frame(type))
      /\ UNCHANGED <<fields, bytes, pointer, failure, length, written>>
  BY DEF Parse, frameVars, packetVars, writeVars
<1>2. fields = <<>> /\ Unwritten /\ bytes = <<>>
  BY <1>1 DEF HeapInv, Kind, RoundCalled
<1>3. Stage(type, Enter(<<>>, mdr_packet_from_frame(type)), <<>>, <<>>, <<type>>)
  BY <1>1, StageBegins
<1>4. PICK e : e = <<>>
  OBVIOUS
<1>5. Stage(type, todo', e, e, read')
  BY <1>1, <1>3, <1>4, Zenon
<1>6. fields' = e /\ bytes' = e
  BY <1>1, <1>2, <1>4
<1>7. Stage(type, todo, fields, bytes, read)'
  BY <1>1, <1>5, <1>6, Zenon
<1>8. \A q \in DOMAIN bytes' : q \in DOMAIN pointer'
  BY <1>1, <1>2
<1>9. Unwritten'
  BY <1>1, <1>2 DEF Unwritten
<1> QED
  BY <1>7, <1>8, <1>9 DEF RoundParsing

\* The place of a field that is parsed has not been set.
LEMMA FieldFresh ==
  ASSUME HeapInv, pc = "parsing", todo # <<>>, Field.op \in Readers
  PROVE  Spot(todo[1]) \notin DOMAIN fields
<1>1. /\ Walked(todo, fields, pointer) /\ IsSeq(todo) /\ TidyItem(todo[1])
      /\ Field = todo[1].field
  BY AtField
<1>2. 1 \in 1..Len(todo)
  BY <1>1, SeqTail, SeqLen
<1>3. todo[1].field.op \in Single
  BY <1>1 DEF Readers, Single
<1>4. Covers(todo[1], Spot(todo[1]))
  BY <1>1, <1>3, CoversSpot
<1> QED
  BY <1>1, <1>2, <1>4 DEF Walked, CoveredBy

LEMMA RoundTakes ==
  ASSUME HeapInv, RoundParsing, pc = "parsing", todo # <<>>, Field.op \in Readers,
         NEW b \in Byte, Field.op = "enum" => b \in Field.values,
         NEW v, v = IF Field.op = "clamped" THEN AtMost(b, NameMax) ELSE b,
         Reads(b, v), Proceeds
  PROVE  RoundParsing'
<1>1. /\ IsSeq(todo) /\ Field = todo[1].field /\ Here(Field.name) = Spot(todo[1])
      /\ Spot(todo[1]) \notin DOMAIN fields
  BY AtField, FieldFresh
<1>2. /\ read' = Append(read, b) /\ fields' = Set(fields, Spot(todo[1]), v)
      /\ todo' = Tail(todo) /\ UNCHANGED <<type, bytes, pointer, failure, length, written>>
  BY <1>1 DEF Reads, Proceeds, frameVars, writeVars
<1>3. Stage(type, todo, fields, bytes, read) /\ IsSeq(read)
  BY ReadIs DEF RoundParsing
<1>4. Stage(type, Tail(todo), Set(fields, Spot(todo[1]), v), bytes, Append(read, b))
  BY <1>1, <1>3, StageReads
<1>5. Stage(type, todo, fields, bytes, read)'
  BY <1>2, <1>4, Zenon
<1> QED
  BY <1>2, <1>5 DEF RoundParsing, Unwritten

LEMMA RoundReads ==
  ASSUME HeapInv, RoundParsing, ParseEnum \/ ParsePlain \/ ParseCount \/ ParseClamped
  PROVE  RoundParsing'
<1>1. pc = "parsing" /\ todo # <<>> /\ Field.op \in Readers
  BY DEF ParseEnum, ParsePlain, ParseCount, ParseClamped, At, Readers
<1>2. Counts \subseteq Byte /\ Data \subseteq Byte
  BY CodecAssumption
<1>3. CASE ParseEnum /\ pc' = "parsing"
  <2>1. PICK b \in Sample(Field.values) \cap Byte :
          Reads(b, b) /\ IF b \in Field.values THEN Proceeds ELSE GivesUp("INVALID_FRAME")
    BY <1>3 DEF ParseEnum
  <2>2. b \in Field.values /\ Proceeds /\ Reads(b, b) /\ b \in Byte
    BY <1>3, <2>1 DEF GivesUp
  <2>3. Field.op = "enum"
    BY <1>3 DEF ParseEnum, At
  <2> QED
    BY <1>1, <2>2, <2>3, RoundTakes
<1>4. CASE ParsePlain
  <2>1. PICK b \in Data : Reads(b, b) /\ Proceeds
    BY <1>4 DEF ParsePlain
  <2>2. Field.op = "plain" /\ b \in Byte
    BY <1>2, <1>4 DEF ParsePlain, At
  <2> QED
    BY <1>1, <2>1, <2>2, RoundTakes
<1>5. CASE ParseCount
  <2>1. PICK b \in Counts : Reads(b, b) /\ Proceeds
    BY <1>5 DEF ParseCount
  <2>2. Field.op = "count" /\ b \in Byte
    BY <1>2, <1>5 DEF ParseCount, At
  <2> QED
    BY <1>1, <2>1, <2>2, RoundTakes
<1>6. CASE ParseClamped
  <2>1. PICK b \in Counts : Reads(b, AtMost(b, NameMax)) /\ Proceeds
    BY <1>6 DEF ParseClamped
  <2>2. Field.op = "clamped" /\ b \in Byte
    BY <1>2, <1>6 DEF ParseClamped, At
  <2> QED
    BY <1>1, <2>1, <2>2, RoundTakes
<1> QED
  BY <1>3, <1>4, <1>5, <1>6 DEF RoundParsing

\* The number of bytes of a block.
LEMMA BlockIs ==
  ASSUME HeapInv, pc = "parsing", todo # <<>>, Field.op \in {"bytes", "name"},
         NEW block \in [1..BlockLength -> Data]
  PROVE  /\ IsSeq(block) /\ Len(block) = BlockLength
         /\ CountAt(todo[1]) \in DOMAIN fields =>
              /\ Field.op = "bytes" => Len(block) = fields[CountAt(todo[1])]
              /\ Field.op = "name" => Len(block) = AtMost(fields[CountAt(todo[1])], NameMax)
<1>1. IsSeq(todo) /\ Field = todo[1].field
  BY AtField
<1>2. BlockLength \in Nat
  BY BlockLengthIsNat DEF HeapInv
<1>3. PICK n \in Nat : n = BlockLength
  BY <1>2
<1>4. IsSeq(block) /\ Len(block) = n
  <2>1. block \in [1..n -> Data]
    BY <1>3
  <2>2. block = [i \in 1..n |-> block[i]]
    BY <2>1
  <2> QED
    BY <2>2, SeqMade
<1>5. Here(Field.count) = CountAt(todo[1])
  BY <1>1, LoopIs DEF CountAt
<1>6. CountAt(todo[1]) \in DOMAIN fields => Value(Field.count) = fields[CountAt(todo[1])]
  BY <1>5 DEF Value, FieldAt
<1> QED
  BY <1>3, <1>4, <1>6 DEF BlockLength

\* A block of a packet is parsed, or a name.
LEMMA RoundBlocks ==
  ASSUME LeakInv, RoundParsing, ParseBytes
  PROVE  RoundParsing'
<1>1. pc = "parsing" /\ todo # <<>> /\ Field.op \in {"bytes", "name"} /\ HeapInv
  BY DEF ParseBytes, IsBlock, At, LeakInv
<1>2. PICK block \in [1..BlockLength -> Data] :
        read' = read \o block /\ bytes' = Set(bytes, Here(Field.name), block)
  BY DEF ParseBytes
<1>3. /\ IsSeq(todo) /\ Stack(todo) /\ Field = todo[1].field /\ Here(Field.name) = Spot(todo[1])
      /\ \A q \in DOMAIN fields : fields[q] \in Nat
  BY <1>1, AtField
<1>4. /\ IsSeq(block) /\ Len(block) = BlockLength
      /\ CountAt(todo[1]) \in DOMAIN fields =>
           /\ Field.op = "bytes" => Len(block) = fields[CountAt(todo[1])]
           /\ Field.op = "name" => Len(block) = AtMost(fields[CountAt(todo[1])], NameMax)
  BY <1>1, BlockIs
<1>5. PICK q : q = Spot(todo[1])
  OBVIOUS
<1>6. /\ todo' = Tail(todo) /\ UNCHANGED <<type, fields, failure, length, written>>
      /\ pointer' = Set(pointer, q, allocated + 1) /\ bytes' = Set(bytes, q, block)
  BY <1>2, <1>3, <1>5 DEF ParseBytes, Proceeds, Allocates, frameVars, writeVars
<1>7. Stage(type, todo, fields, bytes, read) /\ IsSeq(read) /\ read[1] = type
  BY <1>1, ReadIs DEF RoundParsing
<1>8. \A p \in DOMAIN bytes' : p \in DOMAIN pointer'
  <2>1. \A p \in DOMAIN bytes : p \in DOMAIN pointer
    BY <1>1 DEF RoundParsing
  <2>2. DOMAIN bytes' = DOMAIN bytes \cup {q} /\ DOMAIN pointer' = DOMAIN pointer \cup {q}
    BY <1>6 DEF Set
  <2> QED
    BY <2>1, <2>2
<1>9. ~Prefixes(type, todo, fields, read)
  BY <1>1, <1>3, PrefixItem
<1>10. CASE Spoiled(type, fields)
  BY <1>1, <1>6, <1>8, <1>10 DEF RoundParsing, Stage, Unwritten
<1>11. CASE Traces(type, todo, fields, bytes, read)
  <2>1. todo[1].field.op = "bytes"
    BY <1>1, <1>3, <1>11, TracesItem DEF Readers
  <2>2. ParsesPlainly
    BY <1>1, <1>3, <2>1, AtOthers
  <2>3. q \notin DOMAIN pointer
    BY <1>1, <1>3, <1>5, <2>1, <2>2, FreshSets DEF ParsesPlainly
  <2>4. q \notin DOMAIN bytes
    BY <1>1, <2>3 DEF RoundParsing
  <2>5. CountAt(todo[1]) \in DOMAIN fields => Len(block) = fields[CountAt(todo[1])]
    BY <1>3, <1>4, <2>1
  <2>6. Traces(type, Tail(todo), fields, Set(bytes, q, block), read \o block)
    BY <1>1, <1>3, <1>4, <1>5, <1>7, <1>11, <2>1, <2>4, <2>5, TracesBytes
  <2>7. Stage(type, todo, fields, bytes, read)'
    BY <1>2, <1>6, <2>6, Zenon DEF Stage
  <2> QED
    BY <1>1, <1>6, <1>8, <2>7 DEF RoundParsing, Unwritten
<1>12. CASE Naming(type, todo, fields, read)
  <2>1. /\ Suffix(todo, NameParse, 2) /\ q = <<"string">>
        /\ CountAt(todo[1]) = <<"len">> /\ Tail(todo) = <<>> /\ Field.op = "name"
    BY <1>1, <1>3, <1>5, <1>12, NamingItem
  <2>2. Len(todo) = 1
    <3>1. Len(NameParse) = 3
      BY InfoLayouts
    <3> QED
      BY <2>1, <3>1 DEF Suffix
  <2>3. /\ Len(read) = 3 /\ read[3] \in Byte
        /\ <<"len">> \in DOMAIN fields /\ read[3] = fields[<<"len">>]
    <3>1. ~Suffix(todo, NameParse, 0)
      <4>1. Len(NameParse) = 3
        BY InfoLayouts
      <4> QED
        BY <2>2, <4>1 DEF Suffix
    <3> QED
      BY <1>12, <3>1 DEF Naming
  <2>4. PICK B2 : B2 = Set(bytes, q, block)
    OBVIOUS
  <2>5. q \in DOMAIN B2 /\ B2[q] = block
    BY <2>4 DEF Set
  <2>6. Len(block) = AtMost(read[3], NameMax)
    BY <1>4, <2>1, <2>3
  <2>7. CanWrite(type, fields, B2, read \o B2[<<"string">>])
    BY <1>4, <1>7, <1>12, <2>1, <2>3, <2>5, <2>6, NameCanWrite DEF Naming
  <2>8. CanWrite(type, fields, B2, read \o block)
    BY <2>1, <2>5, <2>7
  <2>9. Stage(type, todo, fields, bytes, read)'
    BY <1>2, <1>6, <2>1, <2>4, <2>8, Zenon DEF Stage
  <2> QED
    BY <1>1, <1>6, <1>8, <2>9 DEF RoundParsing, Unwritten
<1> QED
  BY <1>1, <1>7, <1>9, <1>10, <1>11, <1>12 DEF Stage

\* The first block of a name is allocated.
LEMMA RoundZeros ==
  ASSUME HeapInv, RoundParsing, ParseZeros
  PROVE  RoundParsing'
<1>1. pc = "parsing" /\ todo # <<>> /\ Field.op = "zeros"
  BY DEF ParseZeros, At
<1>2. IsSeq(todo) /\ Field = todo[1].field /\ Here(Field.name) = Spot(todo[1])
  BY <1>1, AtField
<1>3. /\ todo' = Tail(todo)
      /\ UNCHANGED <<type, read, fields, bytes, failure, length, written>>
      /\ pointer' = Set(pointer, Spot(todo[1]), allocated + 1)
  BY <1>2 DEF ParseZeros, Proceeds, Allocates, frameVars, writeVars
<1>4. \A p \in DOMAIN bytes' : p \in DOMAIN pointer'
  BY <1>1, <1>3 DEF RoundParsing, Set
<1>5. Stage(type, todo, fields, bytes, read)
  BY <1>1 DEF RoundParsing
<1>6. ~Prefixes(type, todo, fields, read) /\ ~Traces(type, todo, fields, bytes, read)
  BY <1>1, <1>2, PrefixItem, TracesItem DEF Readers
<1>7. Stage(type, Tail(todo), fields, bytes, read)
  <2>1. CASE Naming(type, todo, fields, read)
    <3>1. Suffix(todo, NameParse, 1) /\ Suffix(Tail(todo), NameParse, 2)
      BY <1>1, <1>2, <2>1, NamingItem
    <3>2. ~Suffix(todo, NameParse, 0)
      <4>1. Len(NameParse) = 3
        BY InfoLayouts
      <4> QED
        BY <3>1, <4>1 DEF Suffix
    <3>3. Naming(type, Tail(todo), fields, read)
      BY <2>1, <3>1, <3>2 DEF Naming
    <3> QED
      BY <3>3 DEF Stage
  <2> QED
    BY <1>1, <1>5, <1>6, <2>1 DEF Stage
<1> QED
  BY <1>1, <1>3, <1>4, <1>7, Zenon DEF RoundParsing, Unwritten

\* An array is begun.
LEMMA RoundArrays ==
  ASSUME HeapInv, RoundParsing, ParseForEach
  PROVE  RoundParsing'
<1>1. pc = "parsing" /\ todo # <<>> /\ Field.op = "each"
  BY DEF ParseForEach, At
<1>2. /\ IsSeq(todo) /\ Field = todo[1].field /\ Here(Field.name) = Spot(todo[1])
      /\ Loop = LoopOf(todo[1])
  BY <1>1, AtField
<1>3. /\ todo' = LoopOf(todo[1]) \o Tail(todo)
      /\ UNCHANGED <<type, read, fields, bytes, failure, length, written>>
      /\ pointer' = Set(pointer, Spot(todo[1]), allocated + 1)
  BY <1>2 DEF ParseForEach, Allocates, frameVars, writeVars
<1>4. \A p \in DOMAIN bytes' : p \in DOMAIN pointer'
  BY <1>1, <1>3 DEF RoundParsing, Set
<1>5. Stage(type, todo, fields, bytes, read)
  BY <1>1 DEF RoundParsing
<1>6. ~Prefixes(type, todo, fields, read) /\ ~Naming(type, todo, fields, read)
  BY <1>1, <1>2, PrefixItem, NamingItem
<1>7. Stage(type, LoopOf(todo[1]) \o Tail(todo), fields, bytes, read)
  <2>1. Traces(type, todo, fields, bytes, read) =>
          Traces(type, LoopOf(todo[1]) \o Tail(todo), fields, bytes, read)
    BY <1>1, <1>2, TracesEach
  <2> QED
    BY <1>1, <1>5, <1>6, <2>1 DEF Stage
<1> QED
  BY <1>1, <1>3, <1>4, <1>7, Zenon DEF RoundParsing, Unwritten

\* A case is chosen.
LEMMA RoundChooses ==
  ASSUME HeapInv, RoundParsing, Branch, pc = "parsing"
  PROVE  RoundParsing'
<1>1. todo # <<>> /\ Field.op = "switch"
  BY DEF Branch, At
<1>2. IsSeq(todo) /\ Field = todo[1].field /\ Walked(todo, fields, pointer)
  BY <1>1, AtField
<1>3. Spot(todo[1]) \in DOMAIN fields
  BY <1>1, <1>2, HeadIs
<1>4. UNCHANGED <<type, read, pc, fields, bytes, pointer, failure, length, written>>
  BY DEF Branch, frameVars, packetVars, writeVars
<1>5. Stage(type, todo, fields, bytes, read) /\ IsSeq(read) /\ read[1] = type
  BY ReadIs DEF RoundParsing
<1>6. ~Naming(type, todo, fields, read) /\ ~Traces(type, todo, fields, bytes, read)
  BY <1>1, <1>2, NamingItem, TracesItem DEF Readers
<1>7. Stage(type, todo', fields, bytes, read)
  <2>1. CASE Prefixes(type, todo, fields, read)
    <3> DEFINE h == todo[1]
    <3>1. /\ \E c \in DOMAIN h.field.cases : fields[Spot(h)] \in h.field.cases[c].values
          /\ \A c \in DOMAIN h.field.cases :
               fields[Spot(h)] \in h.field.cases[c].values =>
                 Stage(type, Enter(h.path, h.field.cases[c].layout)
                   \o Tail(todo), fields, bytes, read)
      BY <1>1, <1>2, <1>5, <2>1, PrefixBranch
    <3>2. \/ /\ todo' = Tail(todo)
             /\ \A c \in DOMAIN h.field.cases :
                  fields[Spot(h)] \notin h.field.cases[c].values
          \/ \E c \in DOMAIN h.field.cases :
               /\ fields[Spot(h)] \in h.field.cases[c].values
               /\ todo' = Enter(h.path, h.field.cases[c].layout) \o Tail(todo)
      BY <1>2, <1>3, BranchIs
    <3> HIDE DEF h
    <3>3. PICK c \in DOMAIN h.field.cases :
            /\ fields[Spot(h)] \in h.field.cases[c].values
            /\ todo' = Enter(h.path, h.field.cases[c].layout) \o Tail(todo)
      BY <3>1, <3>2, Zenon
    <3> QED
      BY <3>1, <3>3, Zenon
  <2> QED
    BY <1>1, <1>5, <1>6, <2>1 DEF Stage
<1> QED
  BY <1>4, <1>7 DEF RoundParsing, Unwritten

\* A loop turns, or ends.
LEMMA RoundTurns ==
  ASSUME HeapInv, RoundParsing, Repeat, pc = "parsing"
  PROVE  RoundParsing'
<1>1. todo # <<>> /\ Field.op = "loop"
  BY DEF Repeat, At
<1>2. /\ IsSeq(todo) /\ Field = todo[1].field /\ Walked(todo, fields, pointer)
      /\ TidyItem(todo[1])
  BY <1>1, AtField
<1>3. Append(todo[1].path, todo[1].field.count) \in DOMAIN fields
  BY <1>1, <1>2, HeadIs
<1>4. UNCHANGED <<type, read, pc, fields, bytes, pointer, failure, length, written>>
  BY DEF Repeat, frameVars, packetVars, writeVars
<1>5. Stage(type, todo, fields, bytes, read)
  BY DEF RoundParsing
<1>6. ~Prefixes(type, todo, fields, read) /\ ~Naming(type, todo, fields, read)
  BY <1>1, <1>2, PrefixItem, NamingItem
<1>7. \/ todo' = Tail(todo) /\ todo[1].field.done = fields[CountAt(todo[1])]
      \/ todo' = TurnOf(todo[1]) \o Tail(todo) /\ todo[1].field.done # fields[CountAt(todo[1])]
  BY <1>2, <1>3, RepeatIs DEF CountAt
<1>8. CountAt(todo[1]) \in DOMAIN fields
  BY <1>3 DEF CountAt
<1>9. Stage(type, todo', fields, bytes, read)
  <2>1. CASE Traces(type, todo, fields, bytes, read)
    <3>1. CASE todo' = Tail(todo) /\ todo[1].field.done = fields[CountAt(todo[1])]
      <4>1. Traces(type, Tail(todo), fields, bytes, read)
        BY <1>1, <1>2, <1>8, <2>1, <3>1, TracesLoopEnds
      <4> QED
        BY <3>1, <4>1 DEF Stage
    <3>2. CASE todo' = TurnOf(todo[1]) \o Tail(todo)
                 /\ todo[1].field.done # fields[CountAt(todo[1])]
      <4>1. Traces(type, TurnOf(todo[1]) \o Tail(todo), fields, bytes, read)
        BY <1>1, <1>2, <1>8, <2>1, <3>2, TracesTurn
      <4> QED
        BY <3>2, <4>1 DEF Stage
    <3> QED
      BY <1>7, <3>1, <3>2
  <2> QED
    BY <1>1, <1>5, <1>6, <2>1 DEF Stage
<1> QED
  BY <1>4, <1>9 DEF RoundParsing, Unwritten

\* The packet is there.
LEMMA RoundParses ==
  ASSUME RoundParsing, ParseEnds
  PROVE  RoundParsed'
<1>1. /\ pc = "parsing" /\ todo = <<>>
      /\ UNCHANGED <<type, read, fields, bytes, failure, length, written>>
  BY DEF ParseEnds, frameVars, packetVars, writeVars
<1>2. Unwritten /\ Stage(type, todo, fields, bytes, read)
  BY <1>1 DEF RoundParsing
<1>3. ~Prefixes(type, todo, fields, read) /\ ~Naming(type, todo, fields, read)
  BY <1>1, PrefixItem, NamingItem
<1>4. Traces(type, todo, fields, bytes, read) => CanWrite(type, fields, bytes, read)
  BY <1>1, TracesEnd
<1>5. CanWrite(type, fields, bytes, read) \/ Spoiled(type, fields)
  BY <1>2, <1>3, <1>4 DEF Stage
<1>6. /\ Unwritten' = Unwritten
      /\ CanWrite(type, fields, bytes, read)' = CanWrite(type, fields, bytes, read)
      /\ Spoiled(type, fields)' = Spoiled(type, fields)
  BY <1>1 DEF Unwritten
<1> QED
  BY <1>2, <1>5, <1>6 DEF RoundParsed

-----------------------------------------------------------------------------
(***************************************************************************)
(* The size of a frame that is added up beforehand: an item of the sum,    *)
(* and the item of the frame it stands for.                                *)
(***************************************************************************)

Paired(x, y) ==
  /\ x = [path |-> x.path, field |-> x.field] /\ y = [path |-> x.path, field |-> y.field]
  /\ y.field.name = x.field.name /\ y.field.count = x.field.count
  /\ Sums(x.field.element, y.field.element)
  /\ \/ x.field.op = "each" /\ y.field.op = "each"
     \/ \E d \in Nat : x.field = LoopField(x.field, d) /\ y.field = LoopField(y.field, d)

Aligned(T, W) ==
  IsSeq(T) /\ IsSeq(W) /\ Len(W) = Len(T) /\ \A i \in 1..Len(T) : Paired(T[i], W[i])

\* An element of an array whose size is about to be added.
Opened(T, W) ==
  \E path, a, w, T2, W2 :
    /\ T = Enter(path, a) \o T2 /\ W = Enter(path, w) \o W2
    /\ Sums(a, w) /\ Aligned(T2, W2)

LEMMA SumsSeq ==
  ASSUME NEW a, NEW w, Sums(a, w)
  PROVE  IsSeq(a) /\ IsSeq(w) /\ a # <<>> /\ a[1].op = "add"
<1>1. IsSeq(a) /\ IsSeq(w) /\ Len(a) \in {1, 2} /\ a[1].op = "add"
  BY DEF Sums, SumsOne, SumsMore, PutsAndLast
<1>2. a # <<>>
  BY <1>1, NoItems
<1> QED
  BY <1>1, <1>2

LEMMA AlignedOne ==
  ASSUME NEW x, NEW y, Paired(x, y)
  PROVE  Aligned(<<x>>, <<y>>)
<1>1. PICK t : t = <<x>>
  OBVIOUS
<1>2. PICK s : s = <<y>>
  OBVIOUS
<1>3. IsSeq(t) /\ Len(t) = 1 /\ t[1] = x /\ IsSeq(s) /\ Len(s) = 1 /\ s[1] = y
  BY <1>1, <1>2, SeqOne
<1>4. \A i \in 1..Len(t) : i = 1
  BY <1>3
<1>5. Aligned(t, s)
  BY <1>3, <1>4 DEF Aligned
<1> QED
  BY <1>1, <1>2, <1>5

LEMMA AlignedConcat ==
  ASSUME NEW t, NEW s, Aligned(t, s), NEW t2, NEW s2, Aligned(t2, s2)
  PROVE  Aligned(t \o t2, s \o s2)
<1>1. /\ IsSeq(t) /\ IsSeq(s) /\ Len(s) = Len(t) /\ \A i \in 1..Len(t) : Paired(t[i], s[i])
      /\ IsSeq(t2) /\ IsSeq(s2) /\ Len(s2) = Len(t2)
      /\ \A i \in 1..Len(t2) : Paired(t2[i], s2[i])
  BY DEF Aligned
<1>2. Len(t) \in Nat /\ Len(t2) \in Nat
  BY <1>1, SeqLen
<1>3. /\ IsSeq(t \o t2) /\ Len(t \o t2) = Len(t) + Len(t2)
      /\ \A i \in 1..Len(t) : (t \o t2)[i] = t[i]
      /\ \A i \in 1..Len(t2) : (t \o t2)[Len(t) + i] = t2[i]
  BY <1>1, SeqConcat
<1>4. /\ IsSeq(s \o s2) /\ Len(s \o s2) = Len(t) + Len(t2)
      /\ \A i \in 1..Len(t) : (s \o s2)[i] = s[i]
      /\ \A i \in 1..Len(t2) : (s \o s2)[Len(t) + i] = s2[i]
  BY <1>1, SeqConcat
<1> DEFINE u == t \o t2
           v == s \o s2
<1> HIDE DEF u, v
<1>5. ASSUME NEW i \in 1..(Len(t) + Len(t2)) PROVE Paired(u[i], v[i])
  <2>1. CASE i <= Len(t)
    <3>1. i \in 1..Len(t)
      BY <1>2, <2>1
    <3>2. u[i] = t[i] /\ v[i] = s[i]
      BY <3>1, <1>3, <1>4 DEF u, v
    <3> QED
      BY <1>1, <3>1, <3>2
  <2>2. CASE i > Len(t)
    <3> DEFINE j == i - Len(t)
    <3>1. j \in 1..Len(t2) /\ i = Len(t) + j
      BY <1>2, <2>2
    <3> HIDE DEF j
    <3>2. u[i] = t2[j] /\ v[i] = s2[j]
      BY <3>1, <1>3, <1>4 DEF u, v
    <3> QED
      BY <1>1, <3>1, <3>2
  <2> QED
    BY <1>2, <2>1, <2>2
<1> QED
  BY <1>3, <1>4, <1>5 DEF Aligned, u, v

LEMMA AlignedTail ==
  ASSUME NEW t, NEW s, Aligned(t, s), t # <<>>
  PROVE  /\ s # <<>> /\ Paired(t[1], s[1])
         /\ Aligned(Tail(t), Tail(s))
         /\ IsSeq(s) /\ IsSeq(t)
<1>1. /\ IsSeq(t) /\ IsSeq(s) /\ Len(s) = Len(t) /\ \A i \in 1..Len(t) : Paired(t[i], s[i])
  BY DEF Aligned
<1>2. /\ Len(t) \in Nat /\ Len(t) > 0
      /\ IsSeq(Tail(t)) /\ Len(Tail(t)) = Len(t) - 1
      /\ \A i \in 1..(Len(t) - 1) : Tail(t)[i] = t[i + 1]
  BY <1>1, SeqLen, SeqTail
<1>3. s # <<>>
  BY <1>1, <1>2
<1>4. /\ IsSeq(Tail(s)) /\ Len(Tail(s)) = Len(t) - 1
      /\ \A i \in 1..(Len(t) - 1) : Tail(s)[i] = s[i + 1]
  BY <1>1, <1>3, SeqTail
<1>5. \A i \in 1..(Len(t) - 1) : Paired(Tail(t)[i], Tail(s)[i])
  <2> SUFFICES ASSUME NEW i \in 1..(Len(t) - 1) PROVE Paired(Tail(t)[i], Tail(s)[i])
    OBVIOUS
  <2>1. i + 1 \in 1..Len(t)
    BY <1>2
  <2>2. Tail(t)[i] = t[i + 1] /\ Tail(s)[i] = s[i + 1]
    BY <1>2, <1>4
  <2> QED
    BY <1>1, <2>1, <2>2
<1> QED
  BY <1>1, <1>2, <1>3, <1>4, <1>5 DEF Aligned

LEMMA PairedAt ==
  ASSUME NEW x, NEW y, Paired(x, y)
  PROVE  /\ x.field.op \in {"each", "loop"} /\ y.field.op = x.field.op
         /\ CountAt(y) = CountAt(x)
         /\ x.field.op = "loop" => y.field.done = x.field.done
<1>1. y.path = x.path
  BY DEF Paired
<1>2. CountAt(y) = CountAt(x)
  <2>1. CountAt(y) = Append(y.path, y.field.count) /\ CountAt(x) = Append(x.path, x.field.count)
    BY DEF CountAt
  <2>2. y.field.count = x.field.count
    BY DEF Paired
  <2> QED
    BY <1>1, <2>1, <2>2
<1>3. ASSUME NEW d \in Nat, x.field = LoopField(x.field, d), y.field = LoopField(y.field, d)
      PROVE  x.field.op = "loop" /\ y.field.op = "loop" /\ x.field.done = d /\ y.field.done = d
  BY <1>3 DEF LoopField
<1> QED
  BY <1>2, <1>3 DEF Paired

LEMMA PairedLoop ==
  ASSUME NEW x, NEW y, Paired(x, y)
  PROVE  Aligned(LoopOf(x), LoopOf(y))
<1>1. PICK u : u = [path |-> x.path, field |-> LoopField(x.field, 0)]
  OBVIOUS
<1>2. PICK v : v = [path |-> x.path, field |-> LoopField(y.field, 0)]
  OBVIOUS
<1>3. /\ u.path = x.path /\ v.path = x.path
      /\ u.field = LoopField(x.field, 0) /\ v.field = LoopField(y.field, 0)
  BY <1>1, <1>2
<1>4. /\ u.field.name = x.field.name /\ u.field.count = x.field.count
      /\ u.field.element = x.field.element /\ u.field = LoopField(u.field, 0)
  BY <1>3 DEF LoopField
<1>5. /\ v.field.name = y.field.name /\ v.field.count = y.field.count
      /\ v.field.element = y.field.element /\ v.field = LoopField(v.field, 0)
  BY <1>3 DEF LoopField
<1>6. /\ y.field.name = x.field.name /\ y.field.count = x.field.count
      /\ Sums(x.field.element, y.field.element) /\ y.path = x.path
  BY DEF Paired
<1>7. 0 \in Nat
  OBVIOUS
<1>8. u = [path |-> u.path, field |-> u.field] /\ v = [path |-> u.path, field |-> v.field]
  BY <1>1, <1>2, <1>3
<1>9. Paired(u, v)
  BY <1>4, <1>5, <1>6, <1>7, <1>8 DEF Paired
<1>10. LoopOf(x) = <<u>> /\ LoopOf(y) = <<v>>
  BY <1>1, <1>2, <1>6 DEF LoopOf, LoopField
<1> QED
  BY <1>9, <1>10, AlignedOne

LEMMA PairedLater ==
  ASSUME NEW x, NEW y, Paired(x, y), x.field.op = "loop"
  PROVE  Paired(Later(x), Later(y)) /\ NextElement(y) = NextElement(x)
<1>1. PICK d \in Nat : x.field = LoopField(x.field, d) /\ y.field = LoopField(y.field, d)
  BY DEF Paired
<1>2. /\ x = [path |-> x.path, field |-> x.field] /\ y = [path |-> x.path, field |-> y.field]
      /\ y.field.name = x.field.name /\ y.field.count = x.field.count
      /\ Sums(x.field.element, y.field.element) /\ y.path = x.path
  BY DEF Paired
<1>3. PICK u : u = Later(x)
  OBVIOUS
<1>4. PICK v : v = Later(y)
  OBVIOUS
<1>5. u = [path |-> x.path, field |-> LoopField(x.field, d + 1)]
  <2>1. x = [path |-> x.path, field |-> LoopField(x.field, d)]
    BY <1>1, <1>2
  <2> QED
    BY <1>3, <2>1, LaterShape
<1>6. v = [path |-> x.path, field |-> LoopField(y.field, d + 1)]
  <2>1. y = [path |-> x.path, field |-> LoopField(y.field, d)]
    BY <1>1, <1>2
  <2> QED
    BY <1>4, <2>1, LaterShape
<1>7. /\ u.path = x.path /\ v.path = x.path
      /\ u.field = LoopField(x.field, d + 1) /\ v.field = LoopField(y.field, d + 1)
  BY <1>5, <1>6
<1>8. /\ u.field.name = x.field.name /\ u.field.count = x.field.count
      /\ u.field.element = x.field.element /\ u.field = LoopField(u.field, d + 1)
  BY <1>7 DEF LoopField
<1>9. /\ v.field.name = y.field.name /\ v.field.count = y.field.count
      /\ v.field.element = y.field.element /\ v.field = LoopField(v.field, d + 1)
  BY <1>7 DEF LoopField
<1>10. u = [path |-> u.path, field |-> u.field] /\ v = [path |-> u.path, field |-> v.field]
  BY <1>5, <1>6, <1>7
<1>11. d + 1 \in Nat
  OBVIOUS
<1>12. Paired(u, v)
  BY <1>2, <1>8, <1>9, <1>10, <1>11 DEF Paired
<1>13. NextElement(y) = NextElement(x)
  <2>1. x.field.done = d /\ y.field.done = d
    BY <1>1 DEF LoopField
  <2> QED
    BY <1>2, <2>1 DEF NextElement
<1> QED
  BY <1>3, <1>4, <1>12, <1>13

\* A turn of both loops.
LEMMA PairedTurn ==
  ASSUME NEW x, NEW y, Paired(x, y), x.field.op = "loop", NEW T2, NEW W2, Aligned(T2, W2)
  PROVE  Opened(TurnOf(x) \o T2, TurnOf(y) \o W2)
<1>1. Paired(Later(x), Later(y)) /\ NextElement(y) = NextElement(x)
  BY PairedLater
<1>2. Sums(x.field.element, y.field.element)
  BY DEF Paired
<1> DEFINE a == Enter(NextElement(x), x.field.element)
           b == Enter(NextElement(x), y.field.element)
           u == <<Later(x)>>
           v == <<Later(y)>>
<1>3. TurnOf(x) = a \o u /\ TurnOf(y) = b \o v
  BY <1>1 DEF TurnOf
<1>4. IsSeq(a) /\ IsSeq(b)
  BY <1>2, SumsSeq, SeqEnter
<1>5. IsSeq(u) /\ IsSeq(v)
  BY SeqOne
<1>6. IsSeq(T2) /\ IsSeq(W2)
  BY DEF Aligned
<1>7. Aligned(u \o T2, v \o W2)
  BY <1>1, AlignedOne, AlignedConcat
<1> HIDE DEF u, v
<1>8. (a \o u) \o T2 = a \o (u \o T2)
  BY <1>4, <1>5, <1>6, ConcatAssoc
<1>9. (b \o v) \o W2 = b \o (v \o W2)
  BY <1>4, <1>5, <1>6, ConcatAssoc
<1>10. Opened(a \o (u \o T2), b \o (v \o W2))
  BY <1>2, <1>7 DEF Opened
<1> QED
  BY <1>3, <1>8, <1>9, <1>10

-----------------------------------------------------------------------------
(***************************************************************************)
(* The frame, from the first field of its layout to the last: what is      *)
(* added up before the frame is there, and what is written to it then.     *)
(***************************************************************************)

\* The writes that give r.
Whole(H, s0, F, B, r) ==
  Trace(H, s0, <<>>, F, B, r) /\ \A q \in DOMAIN F : F[q] \in Nat

\* The next field is WRITE_START, and the size it gives is that of r.
Starting(s0, F, r, td, len) ==
  /\ IsSeq(td) /\ td # <<>> /\ td[1].field.op = "start" /\ td[1].path = <<>>
  /\ Tail(td) = s0 /\ td[1].field.n \in Nat /\ len \in Nat
  /\ td[1].field.count = None => 1 + len + td[1].field.n = Len(r)
  /\ td[1].field.count # None =>
       /\ <<td[1].field.count>> \in DOMAIN F
       /\ 1 + len + td[1].field.n + F[<<td[1].field.count>>] = Len(r)

\* The fields from WRITE_START on, of a frame whose size was added up.
StartItem(z, s0) ==
  /\ IsSeq(z) /\ z # <<>> /\ z[1].field.op = "start" /\ z[1].path = <<>>
  /\ z[1].field.count = None /\ z[1].field.n \in Nat /\ Tail(z) = s0

\* A part of the size is added up: the writes have come to p when they have
\* written as much.
AddsUp(H, s0, T, W, z, p, len) ==
  /\ IsSeq(T) /\ IsSeq(W) /\ StartItem(z, s0) /\ <<W, p>> \in H
  /\ len \in Nat /\ p = len + 1 + z[1].field.n
  /\ Aligned(T, W) \/ Opened(T, W)

Counting(H, s0, td, len) ==
  \E T, W, z, p : AddsUp(H, s0, T, W, z, p, len) /\ td = T \o z /\ T # <<>>

Heading(H, s0, F, r, td, len) == Starting(s0, F, r, td, len) \/ Counting(H, s0, td, len)

LEMMA OpenedIs ==
  ASSUME NEW T, NEW W, Opened(T, W)
  PROVE  IsSeq(T) /\ IsSeq(W) /\ T # <<>> /\ T[1].field.op = "add"
<1>1. PICK path, a, w, T2, W2 :
        /\ T = Enter(path, a) \o T2 /\ W = Enter(path, w) \o W2
        /\ Sums(a, w) /\ Aligned(T2, W2)
  BY DEF Opened
<1>2. IsSeq(a) /\ IsSeq(w) /\ a # <<>> /\ a[1].op = "add"
  BY <1>1, SumsSeq
<1>3. PICK e : e = Enter(path, a)
  OBVIOUS
<1>4. IsSeq(e) /\ Len(e) = Len(a) /\ \A i \in 1..Len(a) : e[i] = [path |-> path, field |-> a[i]]
  BY <1>2, <1>3, SeqEnter
<1>5. Len(a) > 0 /\ Len(a) \in Nat
  BY <1>2, SeqLen, SeqTail
<1>6. e # <<>> /\ e[1] = [path |-> path, field |-> a[1]]
  <2>1. Len(e) # 0 /\ 1 \in 1..Len(a)
    BY <1>4, <1>5
  <2> QED
    BY <1>4, <2>1, NoItems
<1>7. IsSeq(T2) /\ IsSeq(W2)
  BY <1>1 DEF Aligned
<1>8. e \o T2 # <<>> /\ (e \o T2)[1] = e[1] /\ IsSeq(e \o T2)
  BY <1>4, <1>6, <1>7, ConcatTail
<1>9. IsSeq(Enter(path, w))
  BY <1>2, SeqEnter
<1>10. IsSeq(W)
  BY <1>1, <1>7, <1>9, SeqConcat
<1>11. T = e \o T2
  BY <1>1, <1>3
<1>12. T[1].field = a[1]
  BY <1>6, <1>8, <1>11
<1> QED
  BY <1>2, <1>8, <1>10, <1>11, <1>12

\* When nothing is left to be added up, the writes are at their end.
LEMMA CountsOn ==
  ASSUME NEW H, NEW s0, NEW F, NEW B, NEW r, Whole(H, s0, F, B, r),
         NEW T, NEW W, NEW z, NEW p, NEW len, AddsUp(H, s0, T, W, z, p, len)
  PROVE  Heading(H, s0, F, r, T \o z, len)
<1>1. CASE T = <<>>
  <2>1. Aligned(T, W)
    BY <1>1, OpenedIs DEF AddsUp
  <2>2. Len(W) = 0 /\ IsSeq(W)
    BY <1>1, <2>1, NoItems DEF Aligned
  <2>3. W = <<>>
    <3>1. W # <<>> => Len(W) > 0
      BY <2>2, SeqTail
    <3> QED
      BY <2>2, <3>1
  <2>4. PICK e : e = <<>>
    OBVIOUS
  <2>5. <<e, p>> \in H /\ Trace(H, s0, e, F, B, r)
    BY <2>3, <2>4 DEF AddsUp, Whole
  <2>6. p = Len(r)
    BY <2>4, <2>5, TraceEnds
  <2>7. StartItem(z, s0) /\ len \in Nat /\ p = len + 1 + z[1].field.n
    BY DEF AddsUp
  <2>8. T \o z = z
    BY <1>1, <2>7, EmptyEnds DEF StartItem
  <2>9. Starting(s0, F, r, z, len)
    <3>1. z[1].field.n \in Nat
      BY <2>7 DEF StartItem
    <3>2. 1 + len + z[1].field.n = Len(r)
      BY <2>6, <2>7, <3>1
    <3> QED
      BY <2>7, <3>1, <3>2 DEF Starting, StartItem
  <2> QED
    BY <2>8, <2>9 DEF Heading
<1>2. CASE T # <<>>
  BY <1>2 DEF Heading, Counting
<1> QED
  BY <1>1, <1>2

LEMMA CountingIs ==
  ASSUME NEW H, NEW s0, NEW td, NEW len, Counting(H, s0, td, len)
  PROVE  /\ IsSeq(td) /\ td # <<>> /\ td[1].field.op \in {"each", "loop", "add"}
         /\ \E T, W, z, p :
              /\ AddsUp(H, s0, T, W, z, p, len) /\ T # <<>> /\ IsSeq(T) /\ IsSeq(z)
              /\ td[1] = T[1] /\ Tail(td) = Tail(T) \o z /\ IsSeq(Tail(T))
<1>1. PICK T, W, z, p : AddsUp(H, s0, T, W, z, p, len) /\ td = T \o z /\ T # <<>>
  BY DEF Counting
<1>2. IsSeq(T) /\ IsSeq(z) /\ (Aligned(T, W) \/ Opened(T, W))
  BY <1>1 DEF AddsUp, StartItem
<1>3. /\ T \o z # <<>> /\ (T \o z)[1] = T[1] /\ Tail(T \o z) = Tail(T) \o z
      /\ IsSeq(T \o z) /\ IsSeq(Tail(T))
  BY <1>1, <1>2, ConcatTail
<1>4. T[1].field.op \in {"each", "loop", "add"}
  <2>1. CASE Aligned(T, W)
    <3>1. Paired(T[1], W[1])
      BY <1>1, <2>1, AlignedTail
    <3> QED
      BY <3>1, PairedAt
  <2>2. CASE Opened(T, W)
    BY <2>2, OpenedIs
  <2> QED
    BY <1>2, <2>1, <2>2
<1> QED
  BY <1>1, <1>2, <1>3, <1>4

LEMMA HeadingItem ==
  ASSUME NEW H, NEW s0, NEW F, NEW r, NEW td, NEW len, Heading(H, s0, F, r, td, len)
  PROVE  /\ IsSeq(td) /\ td # <<>> /\ td[1].field.op \in {"start", "each", "loop", "add"}
         /\ td[1].field.op = "start" => Starting(s0, F, r, td, len)
         /\ td[1].field.op # "start" => Counting(H, s0, td, len)
<1>1. CASE Starting(s0, F, r, td, len)
  BY <1>1 DEF Starting
<1>2. CASE Counting(H, s0, td, len)
  BY <1>2, CountingIs
<1> QED
  BY <1>1, <1>2 DEF Heading

\* A list whose head comes with its part of the writes.
LEMMA AlignedHead ==
  ASSUME NEW T, NEW W, Aligned(T, W) \/ Opened(T, W), T # <<>>, T[1].field.op # "add"
  PROVE  /\ Aligned(T, W) /\ W # <<>> /\ Paired(T[1], W[1])
         /\ Aligned(Tail(T), Tail(W)) /\ IsSeq(W) /\ IsSeq(Tail(T)) /\ IsSeq(Tail(W))
<1>1. Aligned(T, W)
  BY OpenedIs
<1>2. W # <<>> /\ Paired(T[1], W[1]) /\ Aligned(Tail(T), Tail(W)) /\ IsSeq(W)
  BY <1>1, AlignedTail
<1>3. IsSeq(Tail(T)) /\ IsSeq(Tail(W))
  BY <1>2 DEF Aligned
<1> QED
  BY <1>1, <1>2, <1>3

LEMMA HeadingEach ==
  ASSUME NEW H, NEW s0, NEW F, NEW B, NEW r, Whole(H, s0, F, B, r),
         NEW td, NEW len, Heading(H, s0, F, r, td, len), td[1].field.op = "each"
  PROVE  Heading(H, s0, F, r, LoopOf(td[1]) \o Tail(td), len)
<1>1. Counting(H, s0, td, len)
  BY HeadingItem
<1>2. PICK T, W, z, p :
        /\ AddsUp(H, s0, T, W, z, p, len) /\ T # <<>> /\ IsSeq(T) /\ IsSeq(z)
        /\ td[1] = T[1] /\ Tail(td) = Tail(T) \o z /\ IsSeq(Tail(T))
  BY <1>1, CountingIs
<1>3. /\ W # <<>> /\ Paired(T[1], W[1])
      /\ Aligned(Tail(T), Tail(W)) /\ IsSeq(Tail(W))
  BY <1>2, AlignedHead DEF AddsUp
<1>4. W[1].field.op = "each"
  BY <1>2, <1>3, PairedAt
<1>5. <<W, p>> \in H
  BY <1>2 DEF AddsUp
<1>6. Trace(H, s0, <<>>, F, B, r)
  BY DEF Whole
<1>7. <<LoopOf(W[1]) \o Tail(W), p>> \in H
  BY <1>3, <1>4, <1>5, <1>6, EachNext
<1>8. Aligned(LoopOf(T[1]), LoopOf(W[1]))
  BY <1>3, PairedLoop
<1>9. PICK a : a = LoopOf(T[1])
  OBVIOUS
<1>10. PICK b : b = LoopOf(W[1])
  OBVIOUS
<1>11. Aligned(a \o Tail(T), b \o Tail(W)) /\ IsSeq(a)
  <2>1. Aligned(a, b)
    BY <1>8, <1>9, <1>10
  <2>2. IsSeq(a)
    BY <2>1 DEF Aligned
  <2> QED
    BY <1>3, <2>1, <2>2, AlignedConcat
<1>12. AddsUp(H, s0, a \o Tail(T), b \o Tail(W), z, p, len)
  <2>1. IsSeq(a \o Tail(T)) /\ IsSeq(b \o Tail(W))
    BY <1>11 DEF Aligned
  <2> QED
    BY <1>2, <1>7, <1>10, <1>11, <2>1 DEF AddsUp
<1>13. Heading(H, s0, F, r, (a \o Tail(T)) \o z, len)
  BY <1>12, CountsOn
<1>14. (a \o Tail(T)) \o z = a \o (Tail(T) \o z)
  BY <1>2, <1>11, ConcatAssoc
<1> QED
  BY <1>2, <1>9, <1>13, <1>14

LEMMA HeadingLoopEnds ==
  ASSUME NEW H, NEW s0, NEW F, NEW B, NEW r, Whole(H, s0, F, B, r),
         NEW td, NEW len, Heading(H, s0, F, r, td, len), td[1].field.op = "loop",
         td[1].field.done = F[CountAt(td[1])]
  PROVE  Heading(H, s0, F, r, Tail(td), len)
<1>1. Counting(H, s0, td, len)
  BY HeadingItem
<1>2. PICK T, W, z, p :
        /\ AddsUp(H, s0, T, W, z, p, len) /\ T # <<>> /\ IsSeq(T) /\ IsSeq(z)
        /\ td[1] = T[1] /\ Tail(td) = Tail(T) \o z /\ IsSeq(Tail(T))
  BY <1>1, CountingIs
<1>3. /\ W # <<>> /\ Paired(T[1], W[1])
      /\ Aligned(Tail(T), Tail(W)) /\ IsSeq(Tail(W))
  BY <1>2, AlignedHead DEF AddsUp
<1>4. /\ W[1].field.op = "loop" /\ CountAt(W[1]) = CountAt(T[1])
      /\ W[1].field.done = T[1].field.done
  BY <1>2, <1>3, PairedAt
<1>5. <<W, p>> \in H
  BY <1>2 DEF AddsUp
<1>6. Trace(H, s0, <<>>, F, B, r)
  BY DEF Whole
<1>7. W[1].field.done = F[CountAt(W[1])]
  BY <1>2, <1>4
<1>8. <<Tail(W), p>> \in H
  BY <1>3, <1>4, <1>5, <1>6, <1>7, LoopNext
<1>9. AddsUp(H, s0, Tail(T), Tail(W), z, p, len)
  BY <1>2, <1>3, <1>8 DEF AddsUp
<1> QED
  BY <1>2, <1>9, CountsOn

LEMMA HeadingTurn ==
  ASSUME NEW H, NEW s0, NEW F, NEW B, NEW r, Whole(H, s0, F, B, r),
         NEW td, NEW len, Heading(H, s0, F, r, td, len), td[1].field.op = "loop",
         td[1].field.done # F[CountAt(td[1])]
  PROVE  Heading(H, s0, F, r, TurnOf(td[1]) \o Tail(td), len)
<1>1. Counting(H, s0, td, len)
  BY HeadingItem
<1>2. PICK T, W, z, p :
        /\ AddsUp(H, s0, T, W, z, p, len) /\ T # <<>> /\ IsSeq(T) /\ IsSeq(z)
        /\ td[1] = T[1] /\ Tail(td) = Tail(T) \o z /\ IsSeq(Tail(T))
  BY <1>1, CountingIs
<1>3. /\ W # <<>> /\ Paired(T[1], W[1])
      /\ Aligned(Tail(T), Tail(W)) /\ IsSeq(Tail(W))
  BY <1>2, AlignedHead DEF AddsUp
<1>4. /\ W[1].field.op = "loop" /\ CountAt(W[1]) = CountAt(T[1])
      /\ W[1].field.done = T[1].field.done
  BY <1>2, <1>3, PairedAt
<1>5. <<W, p>> \in H
  BY <1>2 DEF AddsUp
<1>6. Trace(H, s0, <<>>, F, B, r)
  BY DEF Whole
<1>7. W[1].field.done # F[CountAt(W[1])]
  BY <1>2, <1>4
<1>8. <<TurnOf(W[1]) \o Tail(W), p>> \in H
  BY <1>3, <1>4, <1>5, <1>6, <1>7, LoopNext
<1>9. PICK a : a = TurnOf(T[1])
  OBVIOUS
<1>10. PICK b : b = TurnOf(W[1])
  OBVIOUS
<1>11. Opened(a \o Tail(T), b \o Tail(W))
  BY <1>2, <1>3, <1>9, <1>10, PairedTurn
<1>12. IsSeq(a)
  <2>1. IsSeq(T[1].field.element)
    BY <1>3, SumsSeq DEF Paired
  <2>2. IsSeq(Enter(NextElement(T[1]), T[1].field.element))
    BY <2>1, SeqEnter
  <2>3. IsSeq(<<Later(T[1])>>)
    BY SeqOne
  <2> QED
    BY <1>9, <2>2, <2>3, SeqConcat DEF TurnOf
<1>13. AddsUp(H, s0, a \o Tail(T), b \o Tail(W), z, p, len)
  <2>1. IsSeq(a \o Tail(T)) /\ IsSeq(b \o Tail(W))
    BY <1>11, OpenedIs
  <2> QED
    BY <1>2, <1>8, <1>10, <1>11, <2>1 DEF AddsUp
<1>14. Heading(H, s0, F, r, (a \o Tail(T)) \o z, len)
  BY <1>13, CountsOn
<1>15. (a \o Tail(T)) \o z = a \o (Tail(T) \o z)
  BY <1>2, <1>12, ConcatAssoc
<1> QED
  BY <1>2, <1>9, <1>14, <1>15

\* What an item adds besides its own number.
Added(item, F) == IF item.field.count = None THEN 0 ELSE ValueIn(F, CountAt(item))

\* The first items of the two lists, after which the sum and the writes are
\* apart by as much as before.
Unfolds(T, path, a, T2, n) ==
  /\ IsSeq(a) /\ n \in Nat /\ n = Len(a) /\ n > 0 /\ IsSeq(T2)
  /\ T = Enter(path, a) \o T2

Unfolded(T, path, a, T2, n) ==
  /\ T # <<>> /\ IsSeq(T) /\ T[1].path = path /\ T[1].field = a[1] /\ Len(T) >= n
  /\ \A i \in 1..n : T[i].path = path /\ T[i].field = a[i]
  /\ Past(T, n) = T2
  /\ n = 1 => Tail(T) = T2

LEMMA OpenedHead ==
  ASSUME NEW T, NEW path, NEW a, NEW T2, NEW n, Unfolds(T, path, a, T2, n)
  PROVE  Unfolded(T, path, a, T2, n)
<1> USE DEF Unfolds, Unfolded
<1>1. PICK e : e = Enter(path, a)
  OBVIOUS
<1>2. IsSeq(e) /\ Len(e) = n /\ \A i \in 1..n : e[i] = [path |-> path, field |-> a[i]]
  BY <1>1, SeqEnter
<1>3. e # <<>>
  BY <1>2, NoItems
<1>4. e \o T2 # <<>> /\ IsSeq(e \o T2) /\ Tail(e \o T2) = Tail(e) \o T2 /\ IsSeq(Tail(e))
  BY <1>2, <1>3, ConcatTail
<1>5. Len(e \o T2) = Len(e) + Len(T2) /\ Len(T2) \in Nat
  BY <1>2, SeqConcat, SeqLen
<1>6. \A i \in 1..Len(e) : (e \o T2)[i] = e[i]
  BY <1>2, SeqConcat
<1>7. ASSUME NEW i \in 1..n PROVE (e \o T2)[i].path = path /\ (e \o T2)[i].field = a[i]
  <2>1. (e \o T2)[i] = [path |-> path, field |-> a[i]]
    BY <1>2, <1>6
  <2> QED
    BY <2>1
<1>8. 1 \in 1..n
  OBVIOUS
<1>9. Past(e \o T2, n) = T2
  BY <1>2, PastConcat
<1>10. n = 1 => Tail(e \o T2) = T2
  <2> SUFFICES ASSUME n = 1 PROVE Tail(e \o T2) = T2
    OBVIOUS
  <2>1. Len(Tail(e)) = 0
    BY <1>2, <1>3, SeqTail
  <2>2. PICK f : f = Tail(e)
    OBVIOUS
  <2>3. f = <<>>
    <3>1. IsSeq(f) /\ Len(f) = 0
      BY <1>4, <2>1, <2>2
    <3>2. f # <<>> => Len(f) > 0
      BY <3>1, SeqTail
    <3> QED
      BY <3>1, <3>2
  <2>4. f \o T2 = T2
    BY <2>3, EmptyEnds
  <2> QED
    BY <1>4, <2>2, <2>4
<1>11. Len(e \o T2) >= n
  BY <1>2, <1>5
<1> QED
  BY <1>1, <1>2, <1>4, <1>7, <1>8, <1>9, <1>10, <1>11

LEMMA SumsUp ==
  ASSUME NEW len \in Nat, NEW n \in Nat, NEW m \in Nat, NEW k \in Nat
  PROVE  /\ len + n + m \in Nat /\ (len + 1 + k) + n + m = (len + n + m) + 1 + k
         /\ len + n \in Nat /\ (len + 1 + k) + n = (len + n) + 1 + k
OBVIOUS

LEMMA LastOut ==
  ASSUME NEW H, NEW s0, NEW F, NEW B, NEW r, Trace(H, s0, <<>>, F, B, r),
         \A q \in DOMAIN F : F[q] \in Nat,
         NEW st, NEW p, <<st, p>> \in H,
         NEW w, NEW n, NEW factor, NEW count, NEW path,
         PutsAndLast(w, 0, n, factor, count), n + 1 <= Len(st), 0 \in Nat,
         \A i \in 1..(n + 1) : st[i].path = path /\ st[i].field = w[i]
  PROVE  /\ Append(path, count) \in DOMAIN F
         /\ <<Past(st, n + 1), p + n + factor * F[Append(path, count)]>> \in H
<1>1. \A i \in 1..(n + 1) : 0 + i = i
  OBVIOUS
<1>2. \A q : (\A i \in 1..(n + 1) : st[i].path = q /\ st[i].field = w[0 + i])
        => /\ Append(q, count) \in DOMAIN F
           /\ <<Past(st, n + 1), p + n + factor * F[Append(q, count)]>> \in H
  BY LastWalk
<1>3. \A i \in 1..(n + 1) : st[i].path = path /\ st[i].field = w[0 + i]
  BY <1>1
<1> QED
  BY <1>2, <1>3

\* A sum of one item: it stands for all the writes of the element.
LEMMA AddsOne ==
  ASSUME NEW H, NEW s0, NEW F, NEW B, NEW r, Whole(H, s0, F, B, r),
         NEW a, NEW w, SumsOne(a, w), NEW path, NEW T2, NEW W2, Aligned(T2, W2),
         NEW T, T = Enter(path, a) \o T2, NEW W, W = Enter(path, w) \o W2,
         NEW z, NEW p, NEW len, AddsUp(H, s0, T, W, z, p, len)
  PROVE  Heading(H, s0, F, r, Tail(T) \o z,
                 len + T[1].field.n + T[1].field.factor * Added(T[1], F))
<1> DEFINE n == a[1].n
           factor == a[1].factor
           count == a[1].count
<1>1. /\ IsSeq(a) /\ Len(a) = 1 /\ PutsAndLast(w, 0, n, factor, count)
  BY DEF SumsOne
<1>2. n \in Nat /\ IsSeq(w) /\ Len(w) = n + 1 /\ factor \in Nat /\ count # None
  BY <1>1 DEF PutsAndLast
<1> HIDE DEF n, factor, count
<1>3. IsSeq(T2) /\ IsSeq(W2)
  BY DEF Aligned
<1>4. T[1].path = path /\ T[1].field = a[1] /\ Tail(T) = T2
  <2>1. Unfolds(T, path, a, T2, 1)
    BY <1>1, <1>3 DEF Unfolds
  <2> QED
    <3>1. Unfolded(T, path, a, T2, 1)
      BY <2>1, OpenedHead
    <3> QED
      BY <3>1 DEF Unfolded
<1>5. n + 1 \in Nat /\ n + 1 = Len(w) /\ n + 1 > 0
  BY <1>2
<1>6. Unfolds(W, path, w, W2, n + 1)
  BY <1>2, <1>3, <1>5 DEF Unfolds
<1>7. /\ Len(W) >= n + 1 /\ Past(W, n + 1) = W2
      /\ \A i \in 1..(n + 1) : W[i].path = path /\ W[i].field = w[i]
  <2>1. Unfolded(W, path, w, W2, n + 1)
    BY <1>6, OpenedHead
  <2> QED
    BY <2>1 DEF Unfolded
<1>8. Trace(H, s0, <<>>, F, B, r) /\ \A q \in DOMAIN F : F[q] \in Nat
  BY DEF Whole
<1>9. /\ <<W, p>> \in H /\ IsSeq(z) /\ StartItem(z, s0) /\ len \in Nat
      /\ p = len + 1 + z[1].field.n /\ z[1].field.n \in Nat
  BY DEF AddsUp, StartItem
<1>10. IsSeq(W)
  BY DEF AddsUp
<1>12. /\ Append(path, count) \in DOMAIN F
       /\ <<Past(W, n + 1), p + n + factor * F[Append(path, count)]>> \in H
  <2>1. n + 1 <= Len(W)
    BY <1>5, <1>7, <1>10, SeqLen
  <2>2. 0 \in Nat /\ PutsAndLast(w, 0, n, factor, count) /\ <<W, p>> \in H
    BY <1>1, <1>9
  <2> QED
    BY <1>7, <1>8, <2>1, <2>2, LastOut
<1>13. Added(T[1], F) = F[Append(path, count)]
  <2>1. T[1].field.count = count
    BY <1>4 DEF count
  <2>2. CountAt(T[1]) = Append(T[1].path, T[1].field.count)
    BY DEF CountAt
  <2>3. CountAt(T[1]) = Append(path, count)
    BY <1>4, <2>1, <2>2
  <2> QED
    BY <1>2, <1>12, <2>1, <2>3 DEF Added, ValueIn
<1>14. PICK N : N = F[Append(path, count)]
  OBVIOUS
<1>15. N \in Nat
  BY <1>8, <1>12, <1>14
<1>16. PICK m : m = factor * N
  OBVIOUS
<1>17. m \in Nat
  BY <1>2, <1>15, <1>16
<1>18. T[1].field.n = n /\ T[1].field.factor = factor
  BY <1>4 DEF n, factor
<1>19. PICK len2 : len2 = len + n + m
  OBVIOUS
<1>20. len2 = len + T[1].field.n + T[1].field.factor * Added(T[1], F)
  BY <1>13, <1>14, <1>16, <1>18, <1>19
<1>21. <<W2, p + n + m>> \in H
  BY <1>7, <1>12, <1>14, <1>16
<1>22. len2 \in Nat /\ p + n + m = len2 + 1 + z[1].field.n
  <2>1. PICK k : k = z[1].field.n
    OBVIOUS
  <2>2. k \in Nat /\ p = len + 1 + k
    BY <1>9, <2>1
  <2>3. len2 \in Nat /\ p + n + m = len2 + 1 + k
    <3>1. len + n + m \in Nat /\ (len + 1 + k) + n + m = (len + n + m) + 1 + k
      BY <1>2, <1>9, <1>17, <2>2, SumsUp
    <3> QED
      BY <1>19, <2>2, <3>1, Zenon
  <2> QED
    BY <2>1, <2>3
<1>23. AddsUp(H, s0, T2, W2, z, p + n + m, len2)
  BY <1>3, <1>9, <1>21, <1>22 DEF AddsUp
<1>24. Heading(H, s0, F, r, T2 \o z, len2)
  BY <1>23, CountsOn
<1> QED
  BY <1>4, <1>20, <1>24

LEMMA HeadAndTail ==
  ASSUME NEW s, IsSeq(s), s # <<>>
  PROVE  s = <<s[1]>> \o Tail(s)
<1>1. PICK h : h = <<s[1]>>
  OBVIOUS
<1>2. IsSeq(h) /\ Len(h) = 1 /\ h[1] = s[1]
  BY <1>1, SeqOne
<1>3. PICK t : t = Tail(s)
  OBVIOUS
<1>4. /\ IsSeq(t) /\ Len(t) = Len(s) - 1 /\ Len(s) > 0 /\ Len(s) \in Nat
      /\ \A i \in 1..(Len(s) - 1) : t[i] = s[i + 1]
  BY <1>3, SeqTail, SeqLen
<1>5. /\ IsSeq(h \o t) /\ Len(h \o t) = Len(h) + Len(t)
  BY <1>2, <1>4, SeqConcat
<1>6. \A i \in 1..(Len(h) + Len(t)) : (h \o t)[i] = IF i <= Len(h) THEN h[i] ELSE t[i - Len(h)]
  BY <1>2, <1>4, SeqConcat
<1>7. PICK u : u = h \o t
  OBVIOUS
<1>8. IsSeq(u) /\ Len(u) = Len(s)
  BY <1>2, <1>4, <1>5, <1>7
<1>9. ASSUME NEW i \in 1..Len(s) PROVE s[i] = u[i]
  <2>1. u[i] = IF i <= 1 THEN h[i] ELSE t[i - 1]
    <3>1. i \in 1..(Len(h) + Len(t))
      BY <1>2, <1>4
    <3>2. (h \o t)[i] = IF i <= Len(h) THEN h[i] ELSE t[i - Len(h)]
      BY <1>6, <3>1
    <3> QED
      BY <1>2, <1>7, <3>2
  <2>2. CASE i = 1
    BY <1>2, <2>1, <2>2
  <2>3. CASE i # 1
    <3>1. i - 1 \in 1..(Len(s) - 1) /\ ~(i <= 1) /\ (i - 1) + 1 = i
      BY <1>4, <2>3
    <3>2. t[i - 1] = s[(i - 1) + 1]
      BY <1>4, <3>1
    <3> QED
      BY <2>1, <3>1, <3>2
  <2> QED
    BY <2>2, <2>3
<1>10. s = u
  BY <1>8, <1>9, SeqSame
<1> QED
  BY <1>1, <1>3, <1>7, <1>10

\* A sum of two: the first stands for the plain fields of the element, and its
\* array is still to come.
LEMMA AddsMore ==
  ASSUME NEW H, NEW s0, NEW F, NEW B, NEW r, Whole(H, s0, F, B, r),
         NEW a, NEW w, SumsMore(a, w), NEW path, NEW T2, NEW W2, Aligned(T2, W2),
         NEW T, T = Enter(path, a) \o T2, NEW W, W = Enter(path, w) \o W2,
         NEW z, NEW p, NEW len, AddsUp(H, s0, T, W, z, p, len)
  PROVE  Heading(H, s0, F, r, Tail(T) \o z,
                 len + T[1].field.n + T[1].field.factor * Added(T[1], F))
<1> DEFINE n == a[1].n
<1>1. /\ IsSeq(a) /\ Len(a) = 2 /\ a[1].factor = 0 /\ a[1].count = None
      /\ IsSeq(w) /\ n \in Nat /\ Len(w) = n + 1 /\ \A i \in 1..n : w[i].op = "put"
      /\ a[2].op = "each" /\ w[n + 1].op = "each"
      /\ w[n + 1].name = a[2].name /\ w[n + 1].count = a[2].count
      /\ Sums(a[2].element, w[n + 1].element)
  BY DEF SumsMore, Sums
<1> HIDE DEF n
<1>2. IsSeq(T2) /\ IsSeq(W2)
  BY DEF Aligned
<1>3. Unfolds(T, path, a, T2, 2) /\ 1 \in 1..2 /\ 2 \in 1..2
  BY <1>1, <1>2 DEF Unfolds
<1>4. /\ T # <<>> /\ IsSeq(T) /\ Len(T) >= 2 /\ Past(T, 2) = T2
      /\ \A i \in 1..2 : T[i].path = path /\ T[i].field = a[i]
  <2>1. Unfolded(T, path, a, T2, 2)
    BY <1>3, OpenedHead
  <2> QED
    BY <2>1 DEF Unfolded
<1>5. Unfolds(W, path, w, W2, n + 1) /\ n + 1 \in 1..(n + 1)
  BY <1>1, <1>2 DEF Unfolds
<1>6. /\ IsSeq(W) /\ Len(W) >= n + 1 /\ Past(W, n + 1) = W2
      /\ \A i \in 1..(n + 1) : W[i].path = path /\ W[i].field = w[i]
  <2>1. Unfolded(W, path, w, W2, n + 1)
    BY <1>5, OpenedHead
  <2> QED
    BY <2>1 DEF Unfolded
<1>7. Trace(H, s0, <<>>, F, B, r)
  BY DEF Whole
<1>8. /\ <<W, p>> \in H /\ IsSeq(z) /\ StartItem(z, s0) /\ len \in Nat
      /\ p = len + 1 + z[1].field.n /\ z[1].field.n \in Nat
  BY DEF AddsUp, StartItem
<1>9. Len(W) \in Nat /\ Len(T) \in Nat
  BY <1>4, <1>6, SeqLen
<1>10. <<Past(W, n), p + n>> \in H
  <2>1. n <= Len(W)
    BY <1>1, <1>6, <1>9
  <2>2. ASSUME NEW i \in 1..n PROVE W[i].field.op = "put"
    <3>1. i \in 1..(n + 1)
      BY <1>1
    <3> QED
      BY <1>1, <1>6, <3>1
  <2> QED
    BY <1>1, <1>7, <1>8, <2>1, <2>2, PutsWalk
<1>11. PICK u : u = Past(W, n)
  OBVIOUS
<1>12. PICK v : v = Tail(T)
  OBVIOUS
<1>13. IsSeq(u) /\ u # <<>> /\ u[1] = W[n + 1] /\ Tail(u) = W2 /\ Len(u) = Len(W) - n
  <2>1. n < Len(W) /\ n <= Len(W)
    BY <1>1, <1>6, <1>9
  <2>2. IsSeq(u) /\ Len(u) = Len(W) - n
    BY <1>1, <1>6, <1>11, <2>1, PastIs
  <2>3. u # <<>> /\ u[1] = W[n + 1] /\ Tail(u) = Past(W, n + 1)
    BY <1>1, <1>6, <1>11, <2>1, PastOne
  <2> QED
    BY <1>6, <2>2, <2>3
<1>14. IsSeq(v) /\ v # <<>> /\ v[1] = T[2] /\ Tail(v) = T2
  <2>1. 0 \in Nat /\ 0 < Len(T) /\ 1 \in Nat /\ 1 < Len(T) /\ 0 + 1 = 1 /\ 1 + 1 = 2
    BY <1>4, <1>9
  <2>2. Past(T, 0) = T
    BY <1>4, PastNone
  <2>3. Tail(Past(T, 0)) = Past(T, 0 + 1)
    BY <1>4, <2>1, PastOne
  <2>4. v = Past(T, 1)
    BY <1>12, <2>1, <2>2, <2>3
  <2>5. Past(T, 1) # <<>> /\ Past(T, 1)[1] = T[1 + 1] /\ Tail(Past(T, 1)) = Past(T, 1 + 1)
    BY <1>4, <2>1, PastOne
  <2>6. IsSeq(v)
    BY <1>4, <1>12, SeqTail
  <2> QED
    BY <1>4, <2>1, <2>4, <2>5, <2>6
<1>15. Paired(T[2], W[n + 1])
  <2>1. T[2] = [path |-> path, field |-> a[2]]
    <3>1. PICK e : e = Enter(path, a)
      OBVIOUS
    <3>2. IsSeq(e) /\ Len(e) = 2 /\ e[2] = [path |-> path, field |-> a[2]]
      BY <1>1, <1>3, <3>1, SeqEnter
    <3>3. \A i \in 1..Len(e) : (e \o T2)[i] = e[i]
      <4>1. IsSeq(e) /\ IsSeq(T2)
        BY <1>2, <3>2
      <4> QED
        BY <4>1, SeqConcat
    <3>4. (e \o T2)[2] = e[2]
      BY <1>3, <3>2, <3>3
    <3>5. T = e \o T2
      BY <3>1
    <3> QED
      BY <3>2, <3>4, <3>5
  <2>2. W[n + 1] = [path |-> path, field |-> w[n + 1]]
    <3>1. PICK e : e = Enter(path, w)
      OBVIOUS
    <3>2. IsSeq(e) /\ Len(e) = n + 1 /\ e[n + 1] = [path |-> path, field |-> w[n + 1]]
      BY <1>1, <1>5, <3>1, SeqEnter
    <3>3. \A i \in 1..Len(e) : (e \o W2)[i] = e[i]
      BY <1>2, <3>2, SeqConcat
    <3> QED
      BY <1>5, <3>1, <3>2, <3>3
  <2>3. T[2].path = path /\ T[2].field = a[2] /\ W[n + 1].field = w[n + 1]
    BY <2>1, <2>2
  <2> QED
    BY <1>1, <2>1, <2>2, <2>3 DEF Paired
<1>16. Aligned(v, u)
  <2>1. PICK x : x = T[2]
    OBVIOUS
  <2>2. PICK y : y = W[n + 1]
    OBVIOUS
  <2>3. Aligned(<<x>> \o T2, <<y>> \o W2)
    BY <1>15, <2>1, <2>2, AlignedOne, AlignedConcat
  <2>4. v = <<x>> \o T2
    BY <1>14, <2>1, HeadAndTail
  <2>5. u = <<y>> \o W2
    BY <1>13, <2>2, HeadAndTail
  <2> QED
    BY <2>3, <2>4, <2>5
<1>17. T[1].field = a[1]
  BY <1>3, <1>4
<1>18. T[1].field.n = n /\ T[1].field.factor = 0 /\ Added(T[1], F) = 0
  BY <1>1, <1>17 DEF n, Added
<1>19. PICK len2 : len2 = len + T[1].field.n + T[1].field.factor * Added(T[1], F)
  OBVIOUS
<1>20. len2 = len + n
  BY <1>1, <1>8, <1>18, <1>19
<1>21. len2 \in Nat /\ p + n = len2 + 1 + z[1].field.n
  <2>1. PICK k : k = z[1].field.n
    OBVIOUS
  <2>2. k \in Nat /\ p = len + 1 + k
    BY <1>8, <2>1
  <2>3. len2 \in Nat /\ p + n = len2 + 1 + k
    <3>1. len + n \in Nat /\ (len + 1 + k) + n = (len + n) + 1 + k
      BY <1>1, <1>8, <2>2, SumsUp
    <3> QED
      BY <1>20, <2>2, <3>1, Zenon
  <2> QED
    BY <2>1, <2>3
<1>22. AddsUp(H, s0, v, u, z, p + n, len2)
  BY <1>8, <1>10, <1>11, <1>13, <1>14, <1>16, <1>21 DEF AddsUp
<1>23. Heading(H, s0, F, r, v \o z, len2)
  BY <1>22, CountsOn
<1> QED
  BY <1>12, <1>19, <1>23

LEMMA HeadingAdds ==
  ASSUME NEW H, NEW s0, NEW F, NEW B, NEW r, Whole(H, s0, F, B, r),
         NEW td, NEW len, Heading(H, s0, F, r, td, len), td[1].field.op = "add"
  PROVE  Heading(H, s0, F, r, Tail(td),
                 len + td[1].field.n + td[1].field.factor * Added(td[1], F))
<1>1. Counting(H, s0, td, len)
  BY HeadingItem
<1>2. PICK T, W, z, p :
        /\ AddsUp(H, s0, T, W, z, p, len) /\ T # <<>> /\ IsSeq(T) /\ IsSeq(z)
        /\ td[1] = T[1] /\ Tail(td) = Tail(T) \o z /\ IsSeq(Tail(T))
  BY <1>1, CountingIs
<1>3. ~Aligned(T, W)
  <2>1. Aligned(T, W) => Paired(T[1], W[1])
    BY <1>2, AlignedTail
  <2> QED
    BY <1>2, <2>1, PairedAt
<1>4. Opened(T, W)
  BY <1>2, <1>3 DEF AddsUp
<1>5. PICK path, a, w, T2, W2 :
        /\ T = Enter(path, a) \o T2 /\ W = Enter(path, w) \o W2
        /\ Sums(a, w) /\ Aligned(T2, W2)
  BY <1>4 DEF Opened
<1>6. Heading(H, s0, F, r, Tail(T) \o z,
              len + T[1].field.n + T[1].field.factor * Added(T[1], F))
  <2>1. CASE SumsOne(a, w)
    BY <1>2, <1>5, <2>1, AddsOne
  <2>2. CASE SumsMore(a, w)
    BY <1>2, <1>5, <2>2, AddsMore
  <2> QED
    BY <1>5, <2>1, <2>2 DEF Sums
<1> QED
  BY <1>2, <1>6

\* What follows k fields of a layout is one list.
LEMMA SuffixSame ==
  ASSUME NEW s, NEW t, NEW l, NEW k, Suffix(s, l, k), Suffix(t, l, k)
  PROVE  s = t
<1>1. IsSeq(s) /\ IsSeq(t) /\ Len(s) = Len(t)
  BY DEF Suffix
<1>2. \A i \in 1..Len(s) : s[i] = t[i]
  BY <1>1 DEF Suffix
<1> QED
  BY <1>1, <1>2, SeqSame

\* A frame of plain fields, or with one array or block at its end, begins with
\* WRITE_START.
LEMMA StartsAtOnce ==
  ASSUME NEW H, NEW s0, NEW F, NEW B, NEW r, Whole(H, s0, F, B, r),
         NEW w, Framable(w), SizedPuts(w) \/ SizedLast(w), Suffix(s0, w, Ahead(w)),
         NEW td, Suffix(td, w, 0)
  PROVE  Heading(H, s0, F, r, td, 0)
<1>1. IsSeq(w) /\ Len(w) > 1 /\ w[1].op = "start"
  BY DEF Framable, SizedPuts, SizedLast
<1>2. Suffix(s0, w, 1)
  BY <1>1 DEF Ahead
<1>3. Trace(H, s0, <<>>, F, B, r) /\ \A q \in DOMAIN F : F[q] \in Nat
  BY DEF Whole
<1>4. /\ w[1].n \in Nat
      /\ w[1].count = None => 1 + w[1].n = Len(r)
      /\ w[1].count # None => /\ <<w[1].count>> \in DOMAIN F
                              /\ 1 + w[1].n + F[<<w[1].count>>] = Len(r)
  BY <1>1, <1>2, <1>3, SizeKnown
<1>5. Len(w) \in Nat /\ Len(w) # 0
  BY <1>1, SeqLen
<1>6. /\ td # <<>> /\ td[1].path = <<>> /\ td[1].field = w[0 + 1]
      /\ Suffix(Tail(td), w, 0 + 1)
  <2>1. 0 \in Nat /\ Len(w) # 0
    BY <1>5
  <2> QED
    BY <1>1, <2>1, SuffixIs
<1>7. td[1].field = w[1] /\ Suffix(Tail(td), w, 1)
  <2>1. 0 + 1 = 1
    OBVIOUS
  <2> QED
    BY <1>6, <2>1
<1>8. Tail(td) = s0
  BY <1>2, <1>7, SuffixSame
<1>9. IsSeq(td)
  BY DEF Suffix
<1>10. Starting(s0, F, r, td, 0)
  <2>1. PICK f : f = w[1]
    OBVIOUS
  <2>2. /\ f.n \in Nat
        /\ f.count = None => 1 + 0 + f.n = Len(r)
        /\ f.count # None => /\ <<f.count>> \in DOMAIN F
                             /\ 1 + 0 + f.n + F[<<f.count>>] = Len(r)
    BY <1>4, <2>1
  <2>3. td[1].field = f /\ f.op = "start"
    BY <1>1, <1>7, <2>1
  <2>4. 0 \in Nat
    OBVIOUS
  <2> QED
    BY <1>6, <1>8, <1>9, <2>2, <2>3, <2>4 DEF Starting
<1> QED
  BY <1>10 DEF Heading

\* A frame whose array has elements of different lengths begins with their sum.
LEMMA AddsFirst ==
  ASSUME NEW H, NEW s0, NEW F, NEW B, NEW r, Whole(H, s0, F, B, r),
         NEW w, Framable(w), SizedBefore(w), Suffix(s0, w, Ahead(w)),
         NEW td, Suffix(td, w, 0)
  PROVE  Heading(H, s0, F, r, td, 0)
<1> DEFINE n == w[2].n
<1>1. /\ IsSeq(w) /\ w[1].op = "each" /\ w[2].op = "start" /\ w[2].count = None
      /\ n \in Nat /\ Len(w) = n + 3
      /\ \A i \in 3..(Len(w) - 1) : w[i].op = "put"
      /\ w[Len(w)].op = "each"
      /\ w[Len(w)].name = w[1].name /\ w[Len(w)].count = w[1].count
      /\ Sums(w[1].element, w[Len(w)].element)
  BY DEF Framable, SizedBefore
<1> HIDE DEF n
<1>2. Suffix(s0, w, 2)
  BY <1>1 DEF Ahead
<1>3. /\ IsSeq(s0) /\ Len(s0) = n + 1
      /\ \A i \in 1..(n + 1) : s0[i] = [path |-> <<>>, field |-> w[i + 2]]
  <2>1. IsSeq(s0) /\ Len(s0) = Len(w) - 2
        /\ \A i \in 1..Len(s0) : s0[i] = [path |-> <<>>, field |-> w[i + 2]]
    BY <1>2 DEF Suffix
  <2>2. Len(s0) = n + 1
    BY <1>1, <2>1
  <2> QED
    BY <2>1, <2>2
<1>4. Trace(H, s0, <<>>, F, B, r) /\ <<s0, 1>> \in H
  BY DEF Whole, Trace
<1>5. ASSUME NEW i \in 1..n PROVE s0[i].field.op = "put"
  <2>1. i \in 1..(n + 1) /\ i + 2 \in 3..(Len(w) - 1)
    BY <1>1
  <2>2. s0[i] = [path |-> <<>>, field |-> w[i + 2]]
    BY <1>3, <2>1
  <2>3. s0[i].field = w[i + 2]
    BY <2>2
  <2> QED
    BY <1>1, <2>1, <2>3
<1>6. <<Past(s0, n), 1 + n>> \in H
  <2>1. n <= Len(s0)
    BY <1>1, <1>3
  <2> QED
    BY <1>1, <1>4, <1>5, <2>1, PutsWalk
<1>7. PICK W : W = Past(s0, n)
  OBVIOUS
<1>8. IsSeq(W) /\ Len(W) = 1 /\ W[1] = s0[n + 1]
  <2>1. n < Len(s0) /\ n <= Len(s0) /\ Len(s0) - n = 1
    BY <1>1, <1>3
  <2>2. IsSeq(W) /\ Len(W) = Len(s0) - n
    BY <1>1, <1>3, <1>7, <2>1, PastIs
  <2>3. W[1] = s0[n + 1]
    BY <1>1, <1>3, <1>7, <2>1, PastOne
  <2> QED
    BY <2>1, <2>2, <2>3
<1>9. W[1] = [path |-> <<>>, field |-> w[Len(w)]]
  <2>1. n + 1 \in 1..(n + 1) /\ (n + 1) + 2 = Len(w)
    BY <1>1
  <2>2. s0[n + 1] = [path |-> <<>>, field |-> w[(n + 1) + 2]]
    BY <1>3, <2>1
  <2> QED
    BY <1>8, <2>1, <2>2
<1>10. Len(w) \in Nat /\ Len(w) # 0 /\ Len(w) # 1
  BY <1>1
<1>11. IsSeq(td) /\ 1 <= Len(td) /\ td[1] = [path |-> <<>>, field |-> w[1]]
  <2>1. IsSeq(td) /\ Len(td) = Len(w) - 0
        /\ \A i \in 1..Len(td) : td[i] = [path |-> <<>>, field |-> w[i + 0]]
    BY DEF Suffix
  <2>2. 1 \in 1..Len(td) /\ 1 + 0 = 1
    BY <1>1, <2>1
  <2> QED
    BY <2>1, <2>2
<1>12. td # <<>> /\ Suffix(Tail(td), w, 1)
  <2>1. 0 \in Nat /\ 0 + 1 = 1
    OBVIOUS
  <2>2. td # <<>>
    BY <1>11, NoItems
  <2>3. Suffix(Tail(td), w, 0 + 1)
    BY <1>1, <2>1, <2>2, SuffixIs
  <2> QED
    BY <2>1, <2>2, <2>3
<1>13. PICK z : z = Tail(td)
  OBVIOUS
<1>14. /\ IsSeq(z) /\ z # <<>> /\ z[1].path = <<>> /\ z[1].field = w[2]
       /\ Suffix(Tail(z), w, 2)
  <2>1. 1 \in Nat /\ 1 + 1 = 2
    OBVIOUS
  <2>2. Suffix(z, w, 1)
    BY <1>12, <1>13
  <2>3. z # <<>>
    BY <1>1, <1>10, <2>1, <2>2, SuffixIs
  <2>4. z[1].path = <<>> /\ z[1].field = w[1 + 1] /\ Suffix(Tail(z), w, 1 + 1)
    BY <1>1, <2>1, <2>2, <2>3, SuffixIs
  <2>5. IsSeq(z)
    BY <2>2 DEF Suffix
  <2> QED
    BY <2>1, <2>3, <2>4, <2>5
<1>15. Tail(z) = s0
  BY <1>2, <1>14, SuffixSame
<1>16. z[1].field.n = n /\ z[1].field.op = "start" /\ z[1].field.count = None
  BY <1>1, <1>14 DEF n
<1>17. StartItem(z, s0)
  BY <1>1, <1>14, <1>15, <1>16 DEF StartItem
<1>18. PICK x : x = td[1]
  OBVIOUS
<1>19. PICK T : T = <<x>>
  OBVIOUS
<1>20. IsSeq(T) /\ Len(T) = 1 /\ T[1] = x /\ T # <<>>
  BY <1>19, SeqOne, NoItems
<1>21. td = T \o z
  BY <1>11, <1>12, <1>13, <1>18, <1>19, HeadAndTail
<1>22. Paired(x, W[1])
  <2>1. x = [path |-> <<>>, field |-> w[1]]
    BY <1>11, <1>18
  <2>2. x.path = <<>> /\ x.field = w[1] /\ W[1].field = w[Len(w)]
    BY <1>9, <2>1
  <2> QED
    BY <1>1, <1>9, <2>1, <2>2 DEF Paired
<1>23. Aligned(T, W)
  <2>1. \A i \in 1..Len(T) : i = 1
    BY <1>20
  <2> QED
    BY <1>8, <1>20, <1>22, <2>1 DEF Aligned
<1>24. AddsUp(H, s0, T, W, z, 1 + n, 0)
  <2>1. 0 \in Nat /\ 1 + n = 0 + 1 + n
    BY <1>1
  <2>2. 1 + n = 0 + 1 + z[1].field.n
    BY <1>16, <2>1
  <2> QED
    BY <1>6, <1>7, <1>8, <1>17, <1>20, <1>23, <2>1, <2>2 DEF AddsUp
<1> QED
  BY <1>20, <1>21, <1>24 DEF Heading, Counting

LEMMA FrameBegins ==
  ASSUME NEW H, NEW s0, NEW F, NEW B, NEW r, Whole(H, s0, F, B, r),
         NEW w, Framable(w), Suffix(s0, w, Ahead(w)), NEW td, Suffix(td, w, 0)
  PROVE  Heading(H, s0, F, r, td, 0)
<1>1. SizedPuts(w) \/ SizedLast(w) \/ SizedBefore(w)
  BY DEF Framable
<1>2. CASE SizedBefore(w)
  BY <1>2, AddsFirst
<1>3. CASE SizedPuts(w) \/ SizedLast(w)
  BY <1>3, StartsAtOnce
<1> QED
  BY <1>1, <1>2, <1>3

-----------------------------------------------------------------------------
\* The frame is there, of the length of r, and holds as much of r as the writes
\* have come to.
Following(H, r, td, wr, sz) ==
  /\ IsSeq(wr) /\ 1 <= Len(wr) /\ Len(wr) <= Len(r) /\ sz = Len(r)
  /\ \A i \in 1..Len(wr) : wr[i] = r[i]
  /\ <<td, Len(wr)>> \in H

LEMMA StartFollows ==
  ASSUME NEW H, NEW s0, NEW F, NEW B, NEW r, Whole(H, s0, F, B, r), Len(r) >= 1,
         NEW td, NEW len, Starting(s0, F, r, td, len)
  PROVE  Following(H, r, Tail(td), <<r[1]>>, 1 + len + td[1].field.n + Added(td[1], F))
<1>1. PICK f : f = td[1].field
  OBVIOUS
<1>2. Added(td[1], F) = IF f.count = None THEN 0 ELSE F[<<f.count>>]
  <2>1. CASE f.count = None
    BY <1>1, <2>1 DEF Added
  <2>2. CASE f.count # None
    <3>1. td[1].path = <<>> /\ <<f.count>> \in DOMAIN F
      BY <1>1, <2>2 DEF Starting
    <3>2. CountAt(td[1]) = Append(td[1].path, f.count)
      BY <1>1 DEF CountAt
    <3>3. Append(<<>>, f.count) = <<f.count>>
      OBVIOUS
    <3>4. CountAt(td[1]) = <<f.count>>
      BY <3>1, <3>2, <3>3
    <3> QED
      BY <1>1, <2>2, <3>1, <3>4 DEF Added, ValueIn
  <2> QED
    BY <2>1, <2>2
<1>3. 1 + len + f.n + Added(td[1], F) = Len(r)
  <2>1. /\ f.count = None => 1 + len + f.n = Len(r)
        /\ f.count # None => 1 + len + f.n + F[<<f.count>>] = Len(r)
        /\ f.n \in Nat /\ len \in Nat
    BY <1>1 DEF Starting
  <2>2. CASE f.count = None
    <3>1. Added(td[1], F) = 0
      BY <1>2, <2>2
    <3> QED
      BY <2>1, <2>2, <3>1
  <2>3. CASE f.count # None
    BY <1>2, <2>1, <2>3
  <2> QED
    BY <2>2, <2>3
<1>4. PICK wr : wr = <<r[1]>>
  OBVIOUS
<1>5. IsSeq(wr) /\ Len(wr) = 1 /\ wr[1] = r[1]
  BY <1>4, SeqOne
<1>6. <<s0, 1>> \in H /\ Tail(td) = s0
  BY DEF Whole, Trace, Starting
<1>7. <<Tail(td), Len(wr)>> \in H
  BY <1>5, <1>6
<1>8. \A i \in 1..Len(wr) : wr[i] = r[i]
  <2>1. \A i \in 1..Len(wr) : i = 1
    BY <1>5
  <2> QED
    BY <1>5, <2>1
<1>9. PICK sz : sz = 1 + len + f.n + Added(td[1], F)
  OBVIOUS
<1>10. 1 <= Len(wr) /\ Len(wr) <= Len(r) /\ sz = Len(r)
  BY <1>3, <1>5, <1>9
<1>11. Following(H, r, Tail(td), wr, sz)
  BY <1>5, <1>7, <1>8, <1>10 DEF Following
<1> QED
  BY <1>1, <1>4, <1>9, <1>11

\* What is written next is what comes next.
LEMMA FollowsOn ==
  ASSUME NEW H, NEW r, NEW td, NEW wr, NEW sz, Following(H, r, td, wr, sz),
         NEW p, p = Len(wr), IsSeq(r), NEW block, IsSeq(block),
         \A i \in 1..Len(block) : r[p + i] = block[i],
         p + Len(block) <= Len(r),
         NEW td2, NEW q, q = p + Len(block), <<td2, q>> \in H
  PROVE  Following(H, r, td2, wr \o block, sz)
<1>1. /\ IsSeq(wr) /\ 1 <= p /\ sz = Len(r) /\ \A i \in 1..p : wr[i] = r[i]
  BY DEF Following
<1>2. p \in Nat /\ Len(block) \in Nat
  BY <1>1, SeqLen
<1>3. PICK u : u = wr \o block
  OBVIOUS
<1>4. IsSeq(u) /\ Len(u) = p + Len(block)
  BY <1>1, <1>3, SeqConcat
<1>5. \A i \in 1..p : u[i] = wr[i]
  BY <1>1, <1>3, SeqConcat
<1>6. \A i \in 1..Len(block) : u[p + i] = block[i]
  BY <1>1, <1>3, SeqConcat
<1>7. ASSUME NEW i \in 1..Len(u) PROVE u[i] = r[i]
  <2>1. CASE i <= p
    <3>1. i \in 1..p
      BY <1>2, <2>1
    <3> QED
      BY <1>1, <1>5, <3>1
  <2>2. CASE i > p
    <3>1. PICK j : j = i - p
      OBVIOUS
    <3>2. j \in 1..Len(block) /\ i = p + j
      BY <1>2, <1>4, <2>2, <3>1
    <3> QED
      BY <1>6, <3>2
  <2> QED
    BY <1>2, <1>4, <2>1, <2>2
<1>8. 1 <= Len(u) /\ Len(u) <= Len(r)
  BY <1>1, <1>2, <1>4
<1>9. <<td2, Len(u)>> \in H
  BY <1>4
<1> QED
  BY <1>1, <1>3, <1>4, <1>7, <1>8, <1>9 DEF Following

LEMMA FollowItem ==
  ASSUME NEW H, NEW s0, NEW F, NEW B, NEW r, Whole(H, s0, F, B, r),
         NEW td, NEW wr, NEW sz, Following(H, r, td, wr, sz), td # <<>>
  PROVE  td[1].field.op \in {"put", "putbytes", "each", "loop"}
<1>1. Trace(H, s0, <<>>, F, B, r) /\ <<td, Len(wr)>> \in H
  BY DEF Whole, Following
<1> QED
  BY <1>1, TraceNext

LEMMA FollowPut ==
  ASSUME NEW H, NEW s0, NEW F, NEW B, NEW r, Whole(H, s0, F, B, r),
         NEW td, NEW wr, NEW sz, Following(H, r, td, wr, sz), td # <<>>,
         td[1].field.op = "put"
  PROVE  Following(H, r, Tail(td), wr \o <<ValueIn(F, Spot(td[1]))>>, sz)
<1>1. Trace(H, s0, <<>>, F, B, r) /\ <<td, Len(wr)>> \in H /\ IsSeq(wr)
  BY DEF Whole, Following
<1>2. PICK p : p = Len(wr)
  OBVIOUS
<1>3. <<td, p>> \in H
  BY <1>1, <1>2
<1>4. /\ <<Tail(td), p + 1>> \in H /\ Spot(td[1]) \in DOMAIN F
      /\ p < Len(r) /\ r[p + 1] = F[Spot(td[1])]
  BY <1>1, <1>3, PutNext
<1>5. PICK b : b = <<ValueIn(F, Spot(td[1]))>>
  OBVIOUS
<1>6. IsSeq(b) /\ Len(b) = 1 /\ b[1] = F[Spot(td[1])]
  BY <1>4, <1>5, SeqOne DEF ValueIn
<1>7. IsSeq(r) /\ p \in Nat /\ Len(r) \in Nat
  BY <1>1, <1>2, SeqLen DEF Trace
<1>8. \A i \in 1..Len(b) : r[p + i] = b[i]
  <2>1. \A i \in 1..Len(b) : i = 1
    BY <1>6
  <2> QED
    BY <1>4, <1>6, <2>1
<1>9. p + Len(b) <= Len(r) /\ p + Len(b) = p + 1
  BY <1>4, <1>6, <1>7
<1>10. PICK q : q = p + 1
  OBVIOUS
<1>11. <<Tail(td), q>> \in H /\ q = p + Len(b)
  BY <1>4, <1>9, <1>10
<1>12. Following(H, r, Tail(td), wr \o b, sz)
  BY <1>2, <1>6, <1>7, <1>8, <1>9, <1>11, FollowsOn
<1> QED
  BY <1>5, <1>12

LEMMA BytesCome ==
  ASSUME NEW H, NEW s0, NEW F, NEW B, NEW r, Trace(H, s0, <<>>, F, B, r),
         NEW st, NEW p, <<st, p>> \in H, st # <<>>, st[1].field.op = "putbytes"
  PROVE  \E st2, p2 : <<st2, p2>> \in H /\ BytesSpelled(st, p, st2, p2, F, B, r)
<1>1. PICK st2, p2 : <<st2, p2>> \in H /\ Spelled(st, p, st2, p2, F, B, r)
  BY TraceGoesOn
<1> QED
  BY <1>1 DEF Spelled, PutSpelled, ArraySpelled, TurnSpelled

LEMMA FollowBytes ==
  ASSUME NEW H, NEW s0, NEW F, NEW B, NEW r, Whole(H, s0, F, B, r),
         NEW td, NEW wr, NEW sz, Following(H, r, td, wr, sz), td # <<>>,
         td[1].field.op = "putbytes",
         NEW n, n = ValueIn(F, CountAt(td[1])), NEW old, old = B[Spot(td[1])],
         NEW b, b = [i \in 1..n |-> IF i <= Len(old) THEN old[i] ELSE Unset]
  PROVE  Following(H, r, Tail(td), wr \o b, sz)
<1>1. Trace(H, s0, <<>>, F, B, r) /\ <<td, Len(wr)>> \in H /\ IsSeq(wr)
  BY DEF Whole, Following
<1>2. PICK p : p = Len(wr)
  OBVIOUS
<1>3. <<td, p>> \in H
  BY <1>1, <1>2
<1>4. PICK st2, p2 : <<st2, p2>> \in H /\ BytesSpelled(td, p, st2, p2, F, B, r)
  BY <1>1, <1>3, BytesCome
<1>5. n = F[CountAt(td[1])] /\ n \in Nat
  BY <1>4 DEF BytesSpelled, ValueIn
<1>6. /\ <<Tail(td), p + n>> \in H /\ p + n <= Len(r)
      /\ \A i \in 1..n : r[p + i] = IF i <= Len(old) THEN old[i] ELSE Unset
  BY <1>4, <1>5 DEF BytesSpelled
<1>7. \A i \in 1..n : b[i] = IF i <= Len(old) THEN old[i] ELSE Unset
  OBVIOUS
<1>8. IsSeq(b) /\ Len(b) = n
  <2>1. b = [i \in 1..n |-> b[i]]
    OBVIOUS
  <2> QED
    BY <1>5, <2>1, SeqMade
<1>9. \A i \in 1..Len(b) : r[p + i] = b[i]
  BY <1>6, <1>7, <1>8
<1>10. IsSeq(r)
  BY <1>1 DEF Trace
<1>11. PICK q : q = p + n
  OBVIOUS
<1>12. q = p + Len(b) /\ p + Len(b) <= Len(r) /\ <<Tail(td), q>> \in H
  BY <1>6, <1>8, <1>11
<1> QED
  BY <1>2, <1>8, <1>9, <1>10, <1>12, FollowsOn

LEMMA FollowEach ==
  ASSUME NEW H, NEW s0, NEW F, NEW B, NEW r, Whole(H, s0, F, B, r),
         NEW td, NEW wr, NEW sz, Following(H, r, td, wr, sz), td # <<>>,
         td[1].field.op = "each"
  PROVE  Following(H, r, LoopOf(td[1]) \o Tail(td), wr, sz)
<1>1. Trace(H, s0, <<>>, F, B, r) /\ <<td, Len(wr)>> \in H
  BY DEF Whole, Following
<1>2. <<LoopOf(td[1]) \o Tail(td), Len(wr)>> \in H
  BY <1>1, EachNext
<1> QED
  BY <1>2 DEF Following

LEMMA FollowLoopEnds ==
  ASSUME NEW H, NEW s0, NEW F, NEW B, NEW r, Whole(H, s0, F, B, r),
         NEW td, NEW wr, NEW sz, Following(H, r, td, wr, sz), td # <<>>,
         td[1].field.op = "loop", td[1].field.done = F[CountAt(td[1])]
  PROVE  Following(H, r, Tail(td), wr, sz)
<1>1. Trace(H, s0, <<>>, F, B, r) /\ <<td, Len(wr)>> \in H
  BY DEF Whole, Following
<1>2. <<Tail(td), Len(wr)>> \in H
  BY <1>1, LoopNext
<1> QED
  BY <1>2 DEF Following

LEMMA FollowTurn ==
  ASSUME NEW H, NEW s0, NEW F, NEW B, NEW r, Whole(H, s0, F, B, r),
         NEW td, NEW wr, NEW sz, Following(H, r, td, wr, sz), td # <<>>,
         td[1].field.op = "loop", td[1].field.done # F[CountAt(td[1])]
  PROVE  Following(H, r, TurnOf(td[1]) \o Tail(td), wr, sz)
<1>1. Trace(H, s0, <<>>, F, B, r) /\ <<td, Len(wr)>> \in H
  BY DEF Whole, Following
<1>2. <<TurnOf(td[1]) \o Tail(td), Len(wr)>> \in H
  BY <1>1, LoopNext
<1> QED
  BY <1>2 DEF Following

LEMMA FollowEnds ==
  ASSUME NEW H, NEW s0, NEW F, NEW B, NEW r, Whole(H, s0, F, B, r),
         NEW wr, NEW sz, Following(H, r, <<>>, wr, sz)
  PROVE  wr = r /\ sz = Len(wr) /\ wr # <<>>
<1>1. PICK e : e = <<>>
  OBVIOUS
<1>2. /\ Trace(H, s0, e, F, B, r) /\ <<e, Len(wr)>> \in H
      /\ IsSeq(wr) /\ 1 <= Len(wr) /\ sz = Len(r) /\ \A i \in 1..Len(wr) : wr[i] = r[i]
  BY <1>1 DEF Whole, Following
<1>3. Len(wr) = Len(r)
  BY <1>1, <1>2, TraceEnds
<1>4. IsSeq(r)
  BY <1>2 DEF Trace
<1>5. wr = r
  BY <1>2, <1>3, <1>4, SeqSame
<1>6. wr # <<>>
  BY <1>2, NoItems
<1> QED
  BY <1>2, <1>3, <1>5, <1>6

-----------------------------------------------------------------------------
\* A layout that is only to fit into its frame: its last frame begins at k.
SpoiltAt(w, k) ==
  /\ IsSeq(w) /\ k \in 1..Len(w) /\ \A i \in 1..Len(w) : w[i].op \in {"start", "put"}
  /\ w[k].op = "start" /\ w[k].count = None /\ w[k].n \in Nat /\ w[k].n >= Len(w) - k
  /\ \A i \in (k + 1)..Len(w) : w[i].op = "put"

SpoilsAt(w, k, j, wr, sz) ==
  j >= k => IsSeq(wr) /\ Len(wr) >= 1 /\ Len(wr) + (Len(w) - j) <= sz

Spoiling(td, w, len, wr, sz) ==
  /\ len = 0
  /\ \E k, j \in Nat : SpoiltAt(w, k) /\ Suffix(td, w, j) /\ SpoilsAt(w, k, j, wr, sz)

LEMMA SpoilingBegins ==
  ASSUME NEW w, SpoiltFrame(w), NEW td, Suffix(td, w, 0), NEW wr, NEW sz
  PROVE  Spoiling(td, w, 0, wr, sz)
<1>1. PICK k \in 1..Len(w) :
        /\ w[k].op = "start" /\ w[k].count = None /\ w[k].n \in Nat /\ w[k].n >= Len(w) - k
        /\ \A i \in (k + 1)..Len(w) : w[i].op = "put"
  BY DEF SpoiltFrame
<1>2. SpoiltAt(w, k)
  BY <1>1 DEF SpoiltFrame, SpoiltAt
<1>3. k \in Nat /\ 0 \in Nat /\ ~(0 >= k)
  OBVIOUS
<1>4. SpoilsAt(w, k, 0, wr, sz)
  BY <1>3 DEF SpoilsAt
<1> QED
  BY <1>2, <1>3, <1>4 DEF Spoiling

\* A field of such a layout.
LEMMA SpoilingAt ==
  ASSUME NEW w, NEW k \in Nat, NEW j \in Nat, SpoiltAt(w, k), NEW td, Suffix(td, w, j), td # <<>>,
         NEW i, i = j + 1
  PROVE  /\ IsSeq(td) /\ td[1].path = <<>> /\ td[1].field = w[i] /\ Suffix(Tail(td), w, i)
         /\ i \in Nat /\ i \in 1..Len(w) /\ Len(w) \in Nat
         /\ td[1].field.op \in {"start", "put"}
         /\ j >= k => td[1].field.op = "put"
         /\ i = k => td[1].field.op = "start" /\ td[1].field.count = None
                     /\ td[1].field.n \in Nat /\ td[1].field.n >= Len(w) - k
<1>1. IsSeq(w) /\ Len(w) \in Nat
  BY SeqLen DEF SpoiltAt
<1>2. /\ td[1].path = <<>> /\ td[1].field = w[i] /\ i \in 1..Len(w) /\ Suffix(Tail(td), w, i)
  BY <1>1, SuffixIs
<1>3. IsSeq(td)
  BY DEF Suffix
<1>4. w[i].op \in {"start", "put"}
  BY <1>2 DEF SpoiltAt
<1>5. ASSUME j >= k PROVE w[i].op = "put"
  <2>1. i \in (k + 1)..Len(w)
    BY <1>1, <1>2, <1>5
  <2> QED
    BY <2>1 DEF SpoiltAt
<1>6. ASSUME i = k
      PROVE  w[i].op = "start" /\ w[i].count = None /\ w[i].n \in Nat /\ w[i].n >= Len(w) - k
  BY <1>6 DEF SpoiltAt
<1> QED
  BY <1>1, <1>2, <1>3, <1>4, <1>5, <1>6

LEMMA SpoilingItem ==
  ASSUME NEW td, NEW w, NEW len, NEW wr, NEW sz, Spoiling(td, w, len, wr, sz), td # <<>>
  PROVE  td[1].field.op \in {"start", "put"} /\ IsSeq(td)
<1>1. PICK k \in Nat, j \in Nat : SpoiltAt(w, k) /\ Suffix(td, w, j)
  BY DEF Spoiling
<1>2. PICK i : i = j + 1
  OBVIOUS
<1> QED
  BY <1>1, <1>2, SpoilingAt

LEMMA SpoilingStarts ==
  ASSUME NEW td, NEW w, NEW len, NEW wr, NEW sz, Spoiling(td, w, len, wr, sz), td # <<>>,
         td[1].field.op = "start", NEW t, NEW F
  PROVE  Spoiling(Tail(td), w, len, <<t>>, 1 + len + td[1].field.n + Added(td[1], F))
<1>1. PICK k \in Nat, j \in Nat : SpoiltAt(w, k) /\ Suffix(td, w, j)
  BY DEF Spoiling
<1>2. PICK i : i = j + 1
  OBVIOUS
<1>3. PICK f : f = td[1].field
  OBVIOUS
<1>4. PICK wr2 : wr2 = <<t>>
  OBVIOUS
<1>5. PICK sz2 : sz2 = 1 + len + td[1].field.n + Added(td[1], F)
  OBVIOUS
<1>6. /\ Suffix(Tail(td), w, i) /\ i \in Nat /\ Len(w) \in Nat
      /\ j >= k => f.op = "put"
      /\ i = k => f.count = None /\ f.n \in Nat /\ f.n >= Len(w) - k
  BY <1>1, <1>2, <1>3, SpoilingAt
<1>7. i <= k
  BY <1>2, <1>3, <1>6
<1>8. IsSeq(wr2) /\ Len(wr2) = 1
  BY <1>4, SeqOne
<1>9. SpoilsAt(w, k, i, wr2, sz2)
  <2>1. CASE i = k
    <3>1. f.n \in Nat /\ f.n >= Len(w) - k /\ Added(td[1], F) = 0
      BY <1>3, <1>6, <2>1 DEF Added
    <3>2. len = 0
      BY DEF Spoiling
    <3>3. sz2 = 1 + f.n
      BY <1>3, <1>5, <3>1, <3>2
    <3>4. 1 + (Len(w) - i) <= sz2
      BY <1>6, <2>1, <3>1, <3>3
    <3> QED
      BY <1>8, <3>4 DEF SpoilsAt
  <2>2. CASE i # k
    <3>1. ~(i >= k)
      BY <1>6, <1>7, <2>2
    <3> QED
      BY <3>1 DEF SpoilsAt
  <2> QED
    BY <2>1, <2>2
<1>10. Spoiling(Tail(td), w, len, wr2, sz2)
  BY <1>1, <1>6, <1>9 DEF Spoiling
<1> QED
  BY <1>4, <1>5, <1>10

LEMMA SpoilingPuts ==
  ASSUME NEW td, NEW w, NEW len, NEW wr, NEW sz, Spoiling(td, w, len, wr, sz), td # <<>>,
         td[1].field.op = "put", NEW v
  PROVE  Spoiling(Tail(td), w, len, wr \o <<v>>, sz)
<1>1. PICK k \in Nat, j \in Nat :
        SpoiltAt(w, k) /\ Suffix(td, w, j) /\ SpoilsAt(w, k, j, wr, sz)
  BY DEF Spoiling
<1>2. PICK i : i = j + 1
  OBVIOUS
<1>3. /\ Suffix(Tail(td), w, i) /\ i \in Nat /\ Len(w) \in Nat
      /\ i = k => td[1].field.op = "start"
  BY <1>1, <1>2, SpoilingAt
<1>4. i # k
  BY <1>3
<1>5. PICK wr2 : wr2 = wr \o <<v>>
  OBVIOUS
<1>6. SpoilsAt(w, k, i, wr2, sz)
  <2> SUFFICES ASSUME i >= k PROVE IsSeq(wr2) /\ Len(wr2) >= 1 /\ Len(wr2) + (Len(w) - i) <= sz
    BY DEF SpoilsAt
  <2>1. j >= k
    BY <1>2, <1>4
  <2>2. IsSeq(wr) /\ Len(wr) >= 1 /\ Len(wr) + (Len(w) - j) <= sz /\ Len(wr) \in Nat
    BY <1>1, <2>1, SeqLen DEF SpoilsAt
  <2>3. PICK b : b = <<v>>
    OBVIOUS
  <2>4. IsSeq(b) /\ Len(b) = 1
    BY <2>3, SeqOne
  <2>5. IsSeq(wr2) /\ Len(wr2) = Len(wr) + 1
    <3>1. IsSeq(wr \o b) /\ Len(wr \o b) = Len(wr) + Len(b)
      BY <2>2, <2>4, SeqConcat
    <3> QED
      BY <1>5, <2>3, <2>4, <3>1
  <2>6. Len(wr2) + (Len(w) - i) = Len(wr) + (Len(w) - j)
    BY <1>2, <1>3, <2>2, <2>5
  <2> QED
    BY <2>2, <2>5, <2>6
<1>7. Spoiling(Tail(td), w, len, wr2, sz)
  BY <1>1, <1>3, <1>6 DEF Spoiling
<1> QED
  BY <1>5, <1>7

LEMMA SpoilingEnds ==
  ASSUME NEW w, NEW len, NEW wr, NEW sz, Spoiling(<<>>, w, len, wr, sz)
  PROVE  wr # <<>> /\ Len(wr) <= sz
<1>1. PICK e : e = <<>>
  OBVIOUS
<1>2. PICK k \in Nat, j \in Nat :
        SpoiltAt(w, k) /\ Suffix(e, w, j) /\ SpoilsAt(w, k, j, wr, sz)
  BY <1>1 DEF Spoiling
<1>3. IsSeq(w) /\ Len(w) \in Nat /\ k \in 1..Len(w)
  BY <1>2, SeqLen DEF SpoiltAt
<1>4. Len(w) = j
  BY <1>1, <1>2, <1>3, SuffixIs
<1>5. IsSeq(wr) /\ Len(wr) >= 1 /\ Len(wr) + (Len(w) - j) <= sz
  BY <1>2, <1>3, <1>4 DEF SpoilsAt
<1>6. Len(wr) \in Nat /\ Len(wr) + (Len(w) - j) = Len(wr)
  BY <1>3, <1>4, <1>5, SeqLen
<1>7. wr # <<>>
  BY <1>5, NoItems
<1> QED
  BY <1>5, <1>6, <1>7

-----------------------------------------------------------------------------
(***************************************************************************)
(* A packet while it is encoded: of a layout that writes what was read, or *)
(* of one that only fits into its frame, and then of a packet that does    *)
(* not survive the round trip.                                             *)
(***************************************************************************)

\* The layout is a switch, and the case is still to be chosen.
Choosing(t, td, len) ==
  /\ td = Enter(<<>>, mdr_packet_to_frame(t)) /\ mdr_packet_to_frame(t)[1].op = "switch"
  /\ len = 0

EncodesBack(t, F, B, rd, td, len, wr, sz) ==
  \E wc, H, s0, r :
    /\ Writer(wc, H, s0, r, t, F, B, rd) /\ Whole(H, s0, F, B, r)
    /\ \/ Choosing(t, td, len) \/ Heading(H, s0, F, r, td, len)
       \/ Following(H, r, td, wr, sz)

EncodesSpoilt(t, F, td, len, wr, sz) ==
  \E wc :
    /\ FrameIs(t, F, wc) /\ SpoiltFrame(wc) /\ Doomed(t, F)
    /\ Choosing(t, td, len) \/ Spoiling(td, wc, len, wr, sz)

Encodes(t, F, B, rd, td, len, wr, sz) ==
  EncodesBack(t, F, B, rd, td, len, wr, sz) \/ EncodesSpoilt(t, F, td, len, wr, sz)

LEMMA WriterIs ==
  ASSUME NEW wc, NEW H, NEW s0, NEW r, NEW t, NEW F, NEW B, NEW rd,
         Writer(wc, H, s0, r, t, F, B, rd)
  PROVE  /\ Framable(wc) /\ FrameIs(t, F, wc) /\ Suffix(s0, wc, Ahead(wc)) /\ IsSeq(wc)
         /\ Trace(H, s0, <<>>, F, B, r) /\ Len(r) >= 1 /\ r[1] = t
         /\ r = rd \/ Miss(t, F, rd)
BY DEF Writer, Framable

\* Encoding begins.
LEMMA EncodesBegins ==
  ASSUME NEW t, NEW F, NEW B, NEW rd, CanWrite(t, F, B, rd) \/ Spoiled(t, F),
         \A q \in DOMAIN F : F[q] \in Nat,
         NEW td, td = Enter(<<>>, mdr_packet_to_frame(t)), NEW wr, NEW sz
  PROVE  Encodes(t, F, B, rd, td, 0, wr, sz)
<1>1. ASSUME NEW wc, FrameIs(t, F, wc), IsSeq(wc)
      PROVE  Choosing(t, td, 0) \/ Suffix(td, wc, 0)
  <2>1. CASE wc = mdr_packet_to_frame(t)
    <3>1. Suffix(Enter(<<>>, wc), wc, 0)
      BY <1>1, SuffixEnters
    <3> QED
      BY <2>1, <3>1
  <2>2. CASE mdr_packet_to_frame(t)[1].op = "switch"
    BY <2>2 DEF Choosing
  <2> QED
    BY <1>1, <2>1, <2>2 DEF FrameIs
<1>2. CASE CanWrite(t, F, B, rd)
  <2>1. PICK wc, H, s0, r : Writer(wc, H, s0, r, t, F, B, rd)
    BY <1>2 DEF CanWrite
  <2>2. /\ Framable(wc) /\ FrameIs(t, F, wc) /\ Suffix(s0, wc, Ahead(wc)) /\ IsSeq(wc)
        /\ Trace(H, s0, <<>>, F, B, r)
    BY <2>1, WriterIs
  <2>3. Whole(H, s0, F, B, r)
    BY <2>2 DEF Whole
  <2>4. Choosing(t, td, 0) \/ Heading(H, s0, F, r, td, 0)
    <3>1. CASE Suffix(td, wc, 0)
      BY <2>2, <2>3, <3>1, FrameBegins
    <3> QED
      BY <1>1, <2>2, <3>1
  <2>5. EncodesBack(t, F, B, rd, td, 0, wr, sz)
    BY <2>1, <2>3, <2>4 DEF EncodesBack
  <2> QED
    BY <2>5 DEF Encodes
<1>3. CASE Spoiled(t, F)
  <2>1. PICK wc : FrameIs(t, F, wc) /\ SpoiltFrame(wc) /\ Doomed(t, F)
    BY <1>3 DEF Spoiled
  <2>2. IsSeq(wc)
    BY <2>1 DEF SpoiltFrame
  <2>3. Choosing(t, td, 0) \/ Spoiling(td, wc, 0, wr, sz)
    <3>1. CASE Suffix(td, wc, 0)
      BY <2>1, <3>1, SpoilingBegins
    <3> QED
      BY <1>1, <2>1, <2>2, <3>1
  <2>4. EncodesSpoilt(t, F, td, 0, wr, sz)
    BY <2>1, <2>3 DEF EncodesSpoilt
  <2> QED
    BY <2>4 DEF Encodes
<1> QED
  BY <1>2, <1>3

\* A case is chosen: it is the one whose writes there are.
LEMMA ChoiceIs ==
  ASSUME NEW t, NEW F, NEW wc, FrameIs(t, F, wc), NEW td, NEW len, Choosing(t, td, len)
  PROVE  /\ td # <<>> /\ td[1].field.op = "switch" /\ td[1].path = <<>> /\ Tail(td) = <<>>
         /\ \E c \in DOMAIN td[1].field.cases : F[Spot(td[1])] \in td[1].field.cases[c].values
         /\ \A c \in DOMAIN td[1].field.cases :
              F[Spot(td[1])] \in td[1].field.cases[c].values => td[1].field.cases[c].layout = wc
<1>1. PICK w : w = mdr_packet_to_frame(t)
  OBVIOUS
<1>2. td = Enter(<<>>, w) /\ w[1].op = "switch"
  BY <1>1 DEF Choosing
<1>3. /\ IsSeq(w) /\ Len(w) = 1
      /\ \A c, d \in DOMAIN w[1].cases :
           c # d => w[1].cases[c].values \cap w[1].cases[d].values = {}
      /\ \E c \in DOMAIN w[1].cases :
           F[<<w[1].name>>] \in w[1].cases[c].values /\ w[1].cases[c].layout = wc
  BY <1>1, <1>2 DEF FrameIs
<1>4. PICK e : e = <<>>
  OBVIOUS
<1>5. td = Enter(e, w)
  BY <1>2, <1>4
<1>6. IsSeq(td) /\ Len(td) = 1 /\ td[1] = [path |-> e, field |-> w[1]]
  BY <1>3, <1>5, SeqEnter
<1>7. td # <<>>
  BY <1>6, NoItems
<1>8. td[1].path = e /\ td[1].field = w[1]
  BY <1>6
<1>9. Tail(td) = <<>>
  <2>1. PICK f : f = Tail(td)
    OBVIOUS
  <2>2. IsSeq(f) /\ Len(f) = 0
    BY <1>6, <1>7, <2>1, SeqTail
  <2>3. f # <<>> => Len(f) > 0
    BY <2>2, SeqTail
  <2> QED
    BY <2>1, <2>2, <2>3
<1>10. Spot(td[1]) = <<w[1].name>>
  <2>1. Spot(td[1]) = Append(td[1].path, td[1].field.name)
    BY DEF Spot
  <2>2. Append(<<>>, w[1].name) = <<w[1].name>>
    OBVIOUS
  <2> QED
    BY <1>4, <1>8, <2>1, <2>2
<1>11. PICK v : v = F[<<w[1].name>>]
  OBVIOUS
<1>12. PICK cs : cs = w[1].cases
  OBVIOUS
<1>13. PICK d \in DOMAIN cs : v \in cs[d].values /\ cs[d].layout = wc
  BY <1>3, <1>11, <1>12
<1>14. ASSUME NEW c \in DOMAIN cs, v \in cs[c].values PROVE cs[c].layout = wc
  <2>1. CASE c = d
    BY <1>13, <2>1
  <2>2. CASE c # d
    <3>1. cs[c].values \cap cs[d].values = {}
      BY <1>3, <1>12, <2>2
    <3> QED
      BY <1>13, <1>14, <3>1
  <2> QED
    BY <2>1, <2>2
<1>15. F[Spot(td[1])] = v /\ td[1].field.cases = cs
  BY <1>8, <1>10, <1>11, <1>12
<1> QED
  BY <1>2, <1>4, <1>7, <1>8, <1>9, <1>13, <1>14, <1>15

LEMMA EncodesChoice ==
  ASSUME NEW t, NEW F, NEW B, NEW rd, NEW td, NEW len, NEW wr, NEW sz,
         Encodes(t, F, B, rd, td, len, wr, sz), td # <<>>, td[1].field.op = "switch"
  PROVE  /\ \E c \in DOMAIN td[1].field.cases : F[Spot(td[1])] \in td[1].field.cases[c].values
         /\ \A c \in DOMAIN td[1].field.cases :
              F[Spot(td[1])] \in td[1].field.cases[c].values =>
                Encodes(t, F, B, rd, Enter(td[1].path, td[1].field.cases[c].layout) \o Tail(td),
                        len, wr, sz)
<1>1. ASSUME NEW wc, IsSeq(wc)
      PROVE  /\ Suffix(Enter(<<>>, wc), wc, 0) /\ Enter(<<>>, wc) \o <<>> = Enter(<<>>, wc)
  <2>1. IsSeq(Enter(<<>>, wc))
    BY <1>1, SeqEnter
  <2> QED
    BY <1>1, <2>1, SuffixEnters, EmptyEnds
<1>2. CASE EncodesBack(t, F, B, rd, td, len, wr, sz)
  <2>1. PICK wc, H, s0, r :
          /\ Writer(wc, H, s0, r, t, F, B, rd) /\ Whole(H, s0, F, B, r)
          /\ \/ Choosing(t, td, len) \/ Heading(H, s0, F, r, td, len)
             \/ Following(H, r, td, wr, sz)
    BY <1>2 DEF EncodesBack
  <2>2. Choosing(t, td, len)
    BY <2>1, HeadingItem, FollowItem
  <2>3. Framable(wc) /\ FrameIs(t, F, wc) /\ Suffix(s0, wc, Ahead(wc)) /\ IsSeq(wc)
    BY <2>1, WriterIs
  <2>4. /\ td[1].path = <<>> /\ Tail(td) = <<>>
        /\ \E c \in DOMAIN td[1].field.cases : F[Spot(td[1])] \in td[1].field.cases[c].values
        /\ \A c \in DOMAIN td[1].field.cases :
             F[Spot(td[1])] \in td[1].field.cases[c].values => td[1].field.cases[c].layout = wc
    BY <2>2, <2>3, ChoiceIs
  <2>5. Heading(H, s0, F, r, Enter(<<>>, wc), 0)
    BY <1>1, <2>1, <2>3, FrameBegins
  <2>6. len = 0
    BY <2>2 DEF Choosing
  <2>7. Encodes(t, F, B, rd, Enter(<<>>, wc) \o <<>>, len, wr, sz)
    <3>1. Heading(H, s0, F, r, Enter(<<>>, wc) \o <<>>, len)
      BY <1>1, <2>3, <2>5, <2>6
    <3> QED
      BY <2>1, <3>1 DEF Encodes, EncodesBack
  <2> QED
    BY <2>4, <2>7
<1>3. CASE EncodesSpoilt(t, F, td, len, wr, sz)
  <2>1. PICK wc :
          /\ FrameIs(t, F, wc) /\ SpoiltFrame(wc) /\ Doomed(t, F)
          /\ Choosing(t, td, len) \/ Spoiling(td, wc, len, wr, sz)
    BY <1>3 DEF EncodesSpoilt
  <2>2. Choosing(t, td, len)
    BY <2>1, SpoilingItem
  <2>3. IsSeq(wc)
    BY <2>1 DEF SpoiltFrame
  <2>4. /\ td[1].path = <<>> /\ Tail(td) = <<>>
        /\ \E c \in DOMAIN td[1].field.cases : F[Spot(td[1])] \in td[1].field.cases[c].values
        /\ \A c \in DOMAIN td[1].field.cases :
             F[Spot(td[1])] \in td[1].field.cases[c].values => td[1].field.cases[c].layout = wc
    BY <2>1, <2>2, ChoiceIs
  <2>5. Spoiling(Enter(<<>>, wc), wc, 0, wr, sz)
    BY <1>1, <2>1, <2>3, SpoilingBegins
  <2>6. len = 0
    BY <2>2 DEF Choosing
  <2>7. Encodes(t, F, B, rd, Enter(<<>>, wc) \o <<>>, len, wr, sz)
    <3>1. Spoiling(Enter(<<>>, wc) \o <<>>, wc, len, wr, sz)
      BY <1>1, <2>3, <2>5, <2>6
    <3> QED
      BY <2>1, <3>1 DEF Encodes, EncodesSpoilt
  <2> QED
    BY <2>4, <2>7
<1> QED
  BY <1>2, <1>3 DEF Encodes

\* How far it has come tells which fields may come next.
LEMMA EncodesAt ==
  ASSUME NEW t, NEW F, NEW B, NEW rd, NEW td, NEW len, NEW wr, NEW sz,
         Encodes(t, F, B, rd, td, len, wr, sz), td # <<>>, td[1].field.op # "switch"
  PROVE  \/ \E wc, H, s0, r :
              /\ Writer(wc, H, s0, r, t, F, B, rd) /\ Whole(H, s0, F, B, r)
              /\ \/ /\ Heading(H, s0, F, r, td, len)
                    /\ td[1].field.op \in {"start", "each", "loop", "add"}
                 \/ /\ Following(H, r, td, wr, sz)
                    /\ td[1].field.op \in {"put", "putbytes", "each", "loop"}
         \/ \E wc :
              /\ FrameIs(t, F, wc) /\ SpoiltFrame(wc) /\ Doomed(t, F)
              /\ Spoiling(td, wc, len, wr, sz) /\ td[1].field.op \in {"start", "put"}
<1>1. CASE EncodesBack(t, F, B, rd, td, len, wr, sz)
  <2>1. PICK wc, H, s0, r :
          /\ Writer(wc, H, s0, r, t, F, B, rd) /\ Whole(H, s0, F, B, r)
          /\ \/ Choosing(t, td, len) \/ Heading(H, s0, F, r, td, len)
             \/ Following(H, r, td, wr, sz)
    BY <1>1 DEF EncodesBack
  <2>2. FrameIs(t, F, wc)
    BY <2>1, WriterIs
  <2>3. ~Choosing(t, td, len)
    BY <2>2, ChoiceIs
  <2>4. Heading(H, s0, F, r, td, len) => td[1].field.op \in {"start", "each", "loop", "add"}
    BY HeadingItem
  <2>5. Following(H, r, td, wr, sz) => td[1].field.op \in {"put", "putbytes", "each", "loop"}
    BY <2>1, FollowItem
  <2> QED
    BY <2>1, <2>3, <2>4, <2>5
<1>2. CASE EncodesSpoilt(t, F, td, len, wr, sz)
  <2>1. PICK wc :
          /\ FrameIs(t, F, wc) /\ SpoiltFrame(wc) /\ Doomed(t, F)
          /\ Choosing(t, td, len) \/ Spoiling(td, wc, len, wr, sz)
    BY <1>2 DEF EncodesSpoilt
  <2>2. ~Choosing(t, td, len)
    BY <2>1, ChoiceIs
  <2>3. Spoiling(td, wc, len, wr, sz)
    BY <2>1, <2>2
  <2>4. td[1].field.op \in {"start", "put"}
    BY <2>3, SpoilingItem
  <2> QED
    BY <2>1, <2>3, <2>4
<1> QED
  BY <1>1, <1>2 DEF Encodes

\* WRITE_START.
LEMMA EncodesStarts ==
  ASSUME NEW t, NEW F, NEW B, NEW rd, NEW td, NEW len, NEW wr, NEW sz,
         Encodes(t, F, B, rd, td, len, wr, sz), td # <<>>, td[1].field.op = "start",
         NEW sz2, sz2 = 1 + len + td[1].field.n + Added(td[1], F)
  PROVE  Encodes(t, F, B, rd, Tail(td), len, <<t>>, sz2)
<1>1. ASSUME NEW wc, NEW H, NEW s0, NEW r,
             Writer(wc, H, s0, r, t, F, B, rd), Whole(H, s0, F, B, r),
             \/ Heading(H, s0, F, r, td, len) /\ td[1].field.op \in {"start", "each", "loop", "add"}
             \/ /\ Following(H, r, td, wr, sz)
                /\ td[1].field.op \in {"put", "putbytes", "each", "loop"}
      PROVE  Encodes(t, F, B, rd, Tail(td), len, <<t>>, sz2)
  <2>1. CASE Heading(H, s0, F, r, td, len)
    <3>1. Starting(s0, F, r, td, len)
      BY <2>1, HeadingItem
    <3>2. Len(r) >= 1 /\ r[1] = t
      BY <1>1, WriterIs
    <3>3. Following(H, r, Tail(td), <<r[1]>>, 1 + len + td[1].field.n + Added(td[1], F))
      BY <1>1, <3>1, <3>2, StartFollows
    <3>4. Following(H, r, Tail(td), <<t>>, sz2)
      BY <3>2, <3>3
    <3> QED
      BY <1>1, <3>4 DEF Encodes, EncodesBack
  <2> QED
    BY <1>1, <2>1
<1>2. ASSUME NEW wc, FrameIs(t, F, wc), SpoiltFrame(wc), Doomed(t, F),
             Spoiling(td, wc, len, wr, sz), td[1].field.op \in {"start", "put"}
      PROVE  Encodes(t, F, B, rd, Tail(td), len, <<t>>, sz2)
  <2>1. Spoiling(Tail(td), wc, len, <<t>>, sz2)
    BY <1>2, SpoilingStarts
  <2> QED
    BY <1>2, <2>1 DEF Encodes, EncodesSpoilt
<1> QED
  BY <1>1, <1>2, EncodesAt

\* A field is written.
LEMMA EncodesPuts ==
  ASSUME NEW t, NEW F, NEW B, NEW rd, NEW td, NEW len, NEW wr, NEW sz,
         Encodes(t, F, B, rd, td, len, wr, sz), td # <<>>, td[1].field.op = "put"
  PROVE  Encodes(t, F, B, rd, Tail(td), len, wr \o <<ValueIn(F, Spot(td[1]))>>, sz)
<1>1. ASSUME NEW wc, NEW H, NEW s0, NEW r,
             Writer(wc, H, s0, r, t, F, B, rd), Whole(H, s0, F, B, r),
             \/ Heading(H, s0, F, r, td, len) /\ td[1].field.op \in {"start", "each", "loop", "add"}
             \/ /\ Following(H, r, td, wr, sz)
                /\ td[1].field.op \in {"put", "putbytes", "each", "loop"}
      PROVE  Encodes(t, F, B, rd, Tail(td), len, wr \o <<ValueIn(F, Spot(td[1]))>>, sz)
  <2>2. CASE Following(H, r, td, wr, sz)
    <3>1. Following(H, r, Tail(td), wr \o <<ValueIn(F, Spot(td[1]))>>, sz)
      BY <1>1, <2>2, FollowPut
    <3> QED
      BY <1>1, <3>1 DEF Encodes, EncodesBack
  <2> QED
    BY <1>1, <2>2
<1>2. ASSUME NEW wc, FrameIs(t, F, wc), SpoiltFrame(wc), Doomed(t, F),
             Spoiling(td, wc, len, wr, sz), td[1].field.op \in {"start", "put"}
      PROVE  Encodes(t, F, B, rd, Tail(td), len, wr \o <<ValueIn(F, Spot(td[1]))>>, sz)
  <2>1. Spoiling(Tail(td), wc, len, wr \o <<ValueIn(F, Spot(td[1]))>>, sz)
    BY <1>2, SpoilingPuts
  <2> QED
    BY <1>2, <2>1 DEF Encodes, EncodesSpoilt
<1> QED
  BY <1>1, <1>2, EncodesAt

\* A block of bytes is written.
LEMMA EncodesBytes ==
  ASSUME NEW t, NEW F, NEW B, NEW rd, NEW td, NEW len, NEW wr, NEW sz,
         Encodes(t, F, B, rd, td, len, wr, sz), td # <<>>, td[1].field.op = "putbytes",
         NEW n, n = ValueIn(F, CountAt(td[1])), NEW old, old = B[Spot(td[1])],
         NEW b, b = [i \in 1..n |-> IF i <= Len(old) THEN old[i] ELSE Unset]
  PROVE  Encodes(t, F, B, rd, Tail(td), len, wr \o b, sz)
<1>1. ASSUME NEW wc, NEW H, NEW s0, NEW r,
             Writer(wc, H, s0, r, t, F, B, rd), Whole(H, s0, F, B, r),
             \/ Heading(H, s0, F, r, td, len) /\ td[1].field.op \in {"start", "each", "loop", "add"}
             \/ /\ Following(H, r, td, wr, sz)
                /\ td[1].field.op \in {"put", "putbytes", "each", "loop"}
      PROVE  Encodes(t, F, B, rd, Tail(td), len, wr \o b, sz)
  <2>2. CASE Following(H, r, td, wr, sz)
    <3>1. Following(H, r, Tail(td), wr \o b, sz)
      BY <1>1, <2>2, FollowBytes
    <3> QED
      BY <1>1, <3>1 DEF Encodes, EncodesBack
  <2> QED
    BY <1>1, <2>2
<1>2. ASSUME NEW wc, FrameIs(t, F, wc), SpoiltFrame(wc), Doomed(t, F),
             Spoiling(td, wc, len, wr, sz), td[1].field.op \in {"start", "put"}
      PROVE  Encodes(t, F, B, rd, Tail(td), len, wr \o b, sz)
  BY <1>2
<1> QED
  BY <1>1, <1>2, EncodesAt

\* A part of the size is added.
LEMMA EncodesAdds ==
  ASSUME NEW t, NEW F, NEW B, NEW rd, NEW td, NEW len, NEW wr, NEW sz,
         Encodes(t, F, B, rd, td, len, wr, sz), td # <<>>, td[1].field.op = "add",
         NEW len2, len2 = len + td[1].field.n + td[1].field.factor * Added(td[1], F)
  PROVE  Encodes(t, F, B, rd, Tail(td), len2, wr, sz)
<1>1. ASSUME NEW wc, NEW H, NEW s0, NEW r,
             Writer(wc, H, s0, r, t, F, B, rd), Whole(H, s0, F, B, r),
             \/ Heading(H, s0, F, r, td, len) /\ td[1].field.op \in {"start", "each", "loop", "add"}
             \/ /\ Following(H, r, td, wr, sz)
                /\ td[1].field.op \in {"put", "putbytes", "each", "loop"}
      PROVE  Encodes(t, F, B, rd, Tail(td), len2, wr, sz)
  <2>1. CASE Heading(H, s0, F, r, td, len)
    <3>1. Heading(H, s0, F, r, Tail(td),
                  len + td[1].field.n + td[1].field.factor * Added(td[1], F))
      BY <1>1, <2>1, HeadingAdds
    <3>2. Heading(H, s0, F, r, Tail(td), len2)
      BY <3>1
    <3> QED
      BY <1>1, <3>2 DEF Encodes, EncodesBack
  <2> QED
    BY <1>1, <2>1
<1>2. ASSUME NEW wc, FrameIs(t, F, wc), SpoiltFrame(wc), Doomed(t, F),
             Spoiling(td, wc, len, wr, sz), td[1].field.op \in {"start", "put"}
      PROVE  Encodes(t, F, B, rd, Tail(td), len2, wr, sz)
  BY <1>2
<1> QED
  BY <1>1, <1>2, EncodesAt

\* An array is begun.
LEMMA EncodesEach ==
  ASSUME NEW t, NEW F, NEW B, NEW rd, NEW td, NEW len, NEW wr, NEW sz,
         Encodes(t, F, B, rd, td, len, wr, sz), td # <<>>, td[1].field.op = "each"
  PROVE  Encodes(t, F, B, rd, LoopOf(td[1]) \o Tail(td), len, wr, sz)
<1>1. ASSUME NEW wc, NEW H, NEW s0, NEW r,
             Writer(wc, H, s0, r, t, F, B, rd), Whole(H, s0, F, B, r),
             \/ Heading(H, s0, F, r, td, len) /\ td[1].field.op \in {"start", "each", "loop", "add"}
             \/ /\ Following(H, r, td, wr, sz)
                /\ td[1].field.op \in {"put", "putbytes", "each", "loop"}
      PROVE  Encodes(t, F, B, rd, LoopOf(td[1]) \o Tail(td), len, wr, sz)
  <2>1. CASE Heading(H, s0, F, r, td, len)
    <3>1. Heading(H, s0, F, r, LoopOf(td[1]) \o Tail(td), len)
      BY <1>1, <2>1, HeadingEach
    <3> QED
      BY <1>1, <3>1 DEF Encodes, EncodesBack
  <2>2. CASE Following(H, r, td, wr, sz)
    <3>1. Following(H, r, LoopOf(td[1]) \o Tail(td), wr, sz)
      BY <1>1, <2>2, FollowEach
    <3> QED
      BY <1>1, <3>1 DEF Encodes, EncodesBack
  <2> QED
    BY <1>1, <2>1, <2>2
<1>2. ASSUME NEW wc, FrameIs(t, F, wc), SpoiltFrame(wc), Doomed(t, F),
             Spoiling(td, wc, len, wr, sz), td[1].field.op \in {"start", "put"}
      PROVE  Encodes(t, F, B, rd, LoopOf(td[1]) \o Tail(td), len, wr, sz)
  BY <1>2
<1> QED
  BY <1>1, <1>2, EncodesAt

\* A loop ends.
LEMMA EncodesLoopEnds ==
  ASSUME NEW t, NEW F, NEW B, NEW rd, NEW td, NEW len, NEW wr, NEW sz,
         Encodes(t, F, B, rd, td, len, wr, sz), td # <<>>, td[1].field.op = "loop",
         td[1].field.done = F[CountAt(td[1])]
  PROVE  Encodes(t, F, B, rd, Tail(td), len, wr, sz)
<1>1. ASSUME NEW wc, NEW H, NEW s0, NEW r,
             Writer(wc, H, s0, r, t, F, B, rd), Whole(H, s0, F, B, r),
             \/ Heading(H, s0, F, r, td, len) /\ td[1].field.op \in {"start", "each", "loop", "add"}
             \/ /\ Following(H, r, td, wr, sz)
                /\ td[1].field.op \in {"put", "putbytes", "each", "loop"}
      PROVE  Encodes(t, F, B, rd, Tail(td), len, wr, sz)
  <2>1. CASE Heading(H, s0, F, r, td, len)
    <3>1. Heading(H, s0, F, r, Tail(td), len)
      BY <1>1, <2>1, HeadingLoopEnds
    <3> QED
      BY <1>1, <3>1 DEF Encodes, EncodesBack
  <2>2. CASE Following(H, r, td, wr, sz)
    <3>1. Following(H, r, Tail(td), wr, sz)
      BY <1>1, <2>2, FollowLoopEnds
    <3> QED
      BY <1>1, <3>1 DEF Encodes, EncodesBack
  <2> QED
    BY <1>1, <2>1, <2>2
<1>2. ASSUME NEW wc, FrameIs(t, F, wc), SpoiltFrame(wc), Doomed(t, F),
             Spoiling(td, wc, len, wr, sz), td[1].field.op \in {"start", "put"}
      PROVE  Encodes(t, F, B, rd, Tail(td), len, wr, sz)
  BY <1>2
<1> QED
  BY <1>1, <1>2, EncodesAt

\* A loop turns.
LEMMA EncodesTurn ==
  ASSUME NEW t, NEW F, NEW B, NEW rd, NEW td, NEW len, NEW wr, NEW sz,
         Encodes(t, F, B, rd, td, len, wr, sz), td # <<>>, td[1].field.op = "loop",
         td[1].field.done # F[CountAt(td[1])]
  PROVE  Encodes(t, F, B, rd, TurnOf(td[1]) \o Tail(td), len, wr, sz)
<1>1. ASSUME NEW wc, NEW H, NEW s0, NEW r,
             Writer(wc, H, s0, r, t, F, B, rd), Whole(H, s0, F, B, r),
             \/ Heading(H, s0, F, r, td, len) /\ td[1].field.op \in {"start", "each", "loop", "add"}
             \/ /\ Following(H, r, td, wr, sz)
                /\ td[1].field.op \in {"put", "putbytes", "each", "loop"}
      PROVE  Encodes(t, F, B, rd, TurnOf(td[1]) \o Tail(td), len, wr, sz)
  <2>1. CASE Heading(H, s0, F, r, td, len)
    <3>1. Heading(H, s0, F, r, TurnOf(td[1]) \o Tail(td), len)
      BY <1>1, <2>1, HeadingTurn
    <3> QED
      BY <1>1, <3>1 DEF Encodes, EncodesBack
  <2>2. CASE Following(H, r, td, wr, sz)
    <3>1. Following(H, r, TurnOf(td[1]) \o Tail(td), wr, sz)
      BY <1>1, <2>2, FollowTurn
    <3> QED
      BY <1>1, <3>1 DEF Encodes, EncodesBack
  <2> QED
    BY <1>1, <2>1, <2>2
<1>2. ASSUME NEW wc, FrameIs(t, F, wc), SpoiltFrame(wc), Doomed(t, F),
             Spoiling(td, wc, len, wr, sz), td[1].field.op \in {"start", "put"}
      PROVE  Encodes(t, F, B, rd, TurnOf(td[1]) \o Tail(td), len, wr, sz)
  BY <1>2
<1> QED
  BY <1>1, <1>2, EncodesAt

\* The frame is written.
LEMMA EncodesEnd ==
  ASSUME NEW t, NEW F, NEW B, NEW rd, NEW len, NEW wr, NEW sz,
         Encodes(t, F, B, rd, <<>>, len, wr, sz)
  PROVE  /\ wr # <<>> /\ Len(wr) <= sz
         /\ ~Miss(t, F, rd) => wr = rd /\ sz = Len(wr)
<1>1. PICK e : e = <<>>
  OBVIOUS
<1>2. Encodes(t, F, B, rd, e, len, wr, sz)
  BY <1>1
<1>3. CASE EncodesBack(t, F, B, rd, e, len, wr, sz)
  <2>1. PICK wc, H, s0, r :
          /\ Writer(wc, H, s0, r, t, F, B, rd) /\ Whole(H, s0, F, B, r)
          /\ \/ Choosing(t, e, len) \/ Heading(H, s0, F, r, e, len)
             \/ Following(H, r, e, wr, sz)
    BY <1>3 DEF EncodesBack
  <2>2. FrameIs(t, F, wc) /\ (r = rd \/ Miss(t, F, rd))
    BY <2>1, WriterIs
  <2>3. ~Choosing(t, e, len)
    BY <1>1, <2>2, ChoiceIs
  <2>4. ~Heading(H, s0, F, r, e, len)
    BY <1>1, HeadingItem
  <2>5. Following(H, r, e, wr, sz)
    BY <2>1, <2>3, <2>4
  <2>6. wr = r /\ sz = Len(wr) /\ wr # <<>>
    <3>1. Following(H, r, <<>>, wr, sz)
      BY <1>1, <2>5
    <3> QED
      BY <2>1, <3>1, FollowEnds
  <2>7. Len(wr) <= sz
    <3>1. IsSeq(wr)
      BY <2>5 DEF Following
    <3> QED
      BY <2>6, <3>1, SeqLen
  <2> QED
    BY <2>2, <2>6, <2>7
<1>4. CASE EncodesSpoilt(t, F, e, len, wr, sz)
  <2>1. PICK wc :
          /\ FrameIs(t, F, wc) /\ SpoiltFrame(wc) /\ Doomed(t, F)
          /\ Choosing(t, e, len) \/ Spoiling(e, wc, len, wr, sz)
    BY <1>4 DEF EncodesSpoilt
  <2>2. ~Choosing(t, e, len)
    BY <1>1, <2>1, ChoiceIs
  <2>3. Spoiling(<<>>, wc, len, wr, sz)
    BY <1>1, <2>1, <2>2
  <2>4. wr # <<>> /\ Len(wr) <= sz
    BY <2>3, SpoilingEnds
  <2>5. Miss(t, F, rd)
    BY <2>1, DoomedMisses
  <2> QED
    BY <2>4, <2>5
<1> QED
  BY <1>2, <1>3, <1>4 DEF Encodes

-----------------------------------------------------------------------------
(* The same of the variables, step by step.                                *)

RoundEncoding ==
  pc = "encoding" => Encodes(type, fields, bytes, read, todo, length, written, size)

LEMMA FieldsAreNumbers == HeapInv => \A q \in DOMAIN fields : fields[q] \in Nat
BY ByteNumber DEF HeapInv, IInv, TypeOK

LEMMA ValuesAre ==
  ASSUME IsSeq(todo), todo # <<>>
  PROVE  /\ CountOf(Field.count) = Added(todo[1], fields)
         /\ Value(Field.name) = ValueIn(fields, Spot(todo[1]))
         /\ Value(Field.count) = ValueIn(fields, CountAt(todo[1]))
         /\ bytes[Here(Field.name)] = bytes[Spot(todo[1])]
<1>1. /\ Field = todo[1].field /\ \A name : Here(name) = Append(todo[1].path, name)
      /\ Here(Field.name) = Spot(todo[1])
  BY LoopIs
<1>2. Here(Field.count) = CountAt(todo[1])
  BY <1>1 DEF CountAt
<1>3. Value(Field.count) = ValueIn(fields, CountAt(todo[1]))
  BY <1>2 DEF Value, FieldAt, ValueIn
<1>4. Value(Field.name) = ValueIn(fields, Spot(todo[1]))
  BY <1>1 DEF Value, FieldAt, ValueIn
<1>5. CountOf(Field.count) = Added(todo[1], fields)
  BY <1>1, <1>3 DEF CountOf, Added
<1> QED
  BY <1>1, <1>3, <1>4, <1>5

\* mdr_packet_to_frame is called.
LEMMA RoundOpens ==
  ASSUME HeapInv, RoundParsed, Encode
  PROVE  RoundEncoding'
<1>1. /\ pc = "parsed" /\ written = <<>> /\ failure = "none"
      /\ todo' = Enter(<<>>, mdr_packet_to_frame(type))
      /\ UNCHANGED <<type, read, fields, bytes, size, length, written>>
  BY DEF Encode, frameVars, packetVars, writeVars
<1>2. length = 0 /\ (CanWrite(type, fields, bytes, read) \/ Spoiled(type, fields))
  BY <1>1 DEF RoundParsed, Unwritten
<1>3. \A q \in DOMAIN fields : fields[q] \in Nat
  BY FieldsAreNumbers
<1>4. Encodes(type, fields, bytes, read, todo', 0, written, size)
  BY <1>1, <1>2, <1>3, EncodesBegins
<1>5. Encodes(type, fields, bytes, read, todo', length, written, size)
  BY <1>2, <1>4
<1> QED
  BY <1>1, <1>5 DEF RoundEncoding

LEMMA RoundSwitches ==
  ASSUME HeapInv, RoundEncoding, Branch, pc = "encoding"
  PROVE  RoundEncoding'
<1>1. todo # <<>> /\ Field.op = "switch"
  BY DEF Branch, At
<1>2. IsSeq(todo) /\ Field = todo[1].field /\ Ready(todo, fields, pointer)
  BY <1>1, AtWrite
<1>3. Spot(todo[1]) \in DOMAIN fields
  BY <1>1, <1>2, ReadyHead
<1>4. UNCHANGED <<type, read, pc, fields, bytes, size, length, written>>
  BY DEF Branch, frameVars, packetVars, writeVars
<1>5. Encodes(type, fields, bytes, read, todo, length, written, size)
  BY DEF RoundEncoding
<1>6. PICK h : h = todo[1]
  OBVIOUS
<1>7. /\ \E c \in DOMAIN h.field.cases : fields[Spot(h)] \in h.field.cases[c].values
      /\ \A c \in DOMAIN h.field.cases :
           fields[Spot(h)] \in h.field.cases[c].values =>
             Encodes(type, fields, bytes, read,
                     Enter(h.path, h.field.cases[c].layout) \o Tail(todo), length, written, size)
  BY <1>1, <1>2, <1>5, <1>6, EncodesChoice
<1>8. \/ /\ todo' = Tail(todo)
         /\ \A c \in DOMAIN h.field.cases :
              fields[Spot(h)] \notin h.field.cases[c].values
      \/ \E c \in DOMAIN h.field.cases :
           /\ fields[Spot(h)] \in h.field.cases[c].values
           /\ todo' = Enter(h.path, h.field.cases[c].layout) \o Tail(todo)
  BY <1>2, <1>3, <1>6, BranchIs
<1>9. Encodes(type, fields, bytes, read, todo', length, written, size)
  <2>1. PICK c \in DOMAIN h.field.cases :
          /\ fields[Spot(h)] \in h.field.cases[c].values
          /\ todo' = Enter(h.path, h.field.cases[c].layout) \o Tail(todo)
    BY <1>7, <1>8, Zenon
  <2> QED
    BY <1>7, <2>1, Zenon
<1> QED
  BY <1>4, <1>9 DEF RoundEncoding

LEMMA RoundRepeats ==
  ASSUME HeapInv, RoundEncoding, Repeat, pc = "encoding"
  PROVE  RoundEncoding'
<1>1. todo # <<>> /\ Field.op = "loop"
  BY DEF Repeat, At
<1>2. IsSeq(todo) /\ Field = todo[1].field /\ Ready(todo, fields, pointer)
  BY <1>1, AtWrite
<1>3. Append(todo[1].path, todo[1].field.count) \in DOMAIN fields
  BY <1>1, <1>2, ReadyHead
<1>4. UNCHANGED <<type, read, pc, fields, bytes, size, length, written>>
  BY DEF Repeat, frameVars, packetVars, writeVars
<1>5. Encodes(type, fields, bytes, read, todo, length, written, size)
  BY DEF RoundEncoding
<1>6. \/ todo' = Tail(todo) /\ todo[1].field.done = fields[CountAt(todo[1])]
      \/ todo' = TurnOf(todo[1]) \o Tail(todo) /\ todo[1].field.done # fields[CountAt(todo[1])]
  BY <1>2, <1>3, RepeatIs DEF CountAt
<1>7. Encodes(type, fields, bytes, read, todo', length, written, size)
  <2>1. CASE todo' = Tail(todo) /\ todo[1].field.done = fields[CountAt(todo[1])]
    <3>1. Encodes(type, fields, bytes, read, Tail(todo), length, written, size)
      BY <1>1, <1>2, <1>5, <2>1, EncodesLoopEnds
    <3> QED
      BY <2>1, <3>1
  <2>2. CASE todo' = TurnOf(todo[1]) \o Tail(todo) /\ todo[1].field.done # fields[CountAt(todo[1])]
    <3>1. Encodes(type, fields, bytes, read, TurnOf(todo[1]) \o Tail(todo), length, written, size)
      BY <1>1, <1>2, <1>5, <2>2, EncodesTurn
    <3> QED
      BY <2>2, <3>1
  <2> QED
    BY <1>6, <2>1, <2>2
<1> QED
  BY <1>4, <1>7 DEF RoundEncoding

LEMMA RoundStarts ==
  ASSUME HeapInv, RoundEncoding, StartFrame
  PROVE  RoundEncoding'
<1>1. pc = "encoding" /\ todo # <<>> /\ Field.op = "start"
  BY DEF StartFrame, At
<1>2. IsSeq(todo) /\ Field = todo[1].field
  BY <1>1, AtWrite
<1>3. /\ size' = 1 + length + Field.n + CountOf(Field.count)
      /\ written' = <<type>> /\ todo' = Tail(todo)
      /\ UNCHANGED <<type, read, pc, fields, bytes, length>>
  BY DEF StartFrame, frameVars, packetVars
<1>4. PICK sz : sz = 1 + length + todo[1].field.n + Added(todo[1], fields)
  OBVIOUS
<1>5. size' = sz
  BY <1>1, <1>2, <1>3, <1>4, ValuesAre
<1>6. Encodes(type, fields, bytes, read, todo, length, written, size)
  BY <1>1 DEF RoundEncoding
<1>7. Encodes(type, fields, bytes, read, Tail(todo), length, <<type>>, sz)
  BY <1>1, <1>2, <1>4, <1>6, EncodesStarts
<1> QED
  BY <1>3, <1>5, <1>7 DEF RoundEncoding

LEMMA RoundWrites ==
  ASSUME HeapInv, RoundEncoding, WriteField \/ WriteBytes
  PROVE  RoundEncoding'
<1>1. pc = "encoding" /\ todo # <<>> /\ Field.op \in {"put", "putbytes"}
  BY DEF WriteField, WriteBytes, At
<1>2. IsSeq(todo) /\ Field = todo[1].field
  BY <1>1, AtWrite
<1>3. todo' = Tail(todo) /\ UNCHANGED <<type, read, pc, fields, bytes, length, size>>
  BY DEF WriteField, WriteBytes, Writes, frameVars, packetVars
<1>4. Encodes(type, fields, bytes, read, todo, length, written, size)
  BY <1>1 DEF RoundEncoding
<1>5. CASE WriteField
  <2>1. Field.op = "put" /\ written' = written \o <<Value(Field.name)>>
    BY <1>5 DEF WriteField, Writes, At
  <2>2. written' = written \o <<ValueIn(fields, Spot(todo[1]))>>
    BY <1>1, <1>2, <2>1, ValuesAre
  <2>3. Encodes(type, fields, bytes, read, Tail(todo), length,
                written \o <<ValueIn(fields, Spot(todo[1]))>>, size)
    BY <1>1, <1>2, <1>4, <2>1, EncodesPuts
  <2> QED
    BY <1>3, <2>2, <2>3 DEF RoundEncoding
<1>6. CASE WriteBytes
  <2>1. PICK n : n = ValueIn(fields, CountAt(todo[1]))
    OBVIOUS
  <2>2. PICK old : old = bytes[Spot(todo[1])]
    OBVIOUS
  <2>3. PICK b : b = [i \in 1..n |-> IF i <= Len(old) THEN old[i] ELSE Unset]
    OBVIOUS
  <2>4. Field.op = "putbytes"
    BY <1>6 DEF WriteBytes, At
  <2>5. written' = written \o [i \in 1..Value(Field.count) |->
                     IF i <= Len(bytes[Here(Field.name)]) THEN bytes[Here(Field.name)][i] ELSE Unset]
    BY <1>6 DEF WriteBytes, Writes
  <2>6. Value(Field.count) = n /\ bytes[Here(Field.name)] = old
    BY <1>1, <1>2, <2>1, <2>2, ValuesAre
  <2>7. written' = written \o b
    BY <2>3, <2>5, <2>6, Zenon
  <2>8. Encodes(type, fields, bytes, read, Tail(todo), length, written \o b, size)
    BY <1>1, <1>2, <1>4, <2>1, <2>2, <2>3, <2>4, EncodesBytes
  <2> QED
    BY <1>3, <2>7, <2>8 DEF RoundEncoding
<1> QED
  BY <1>5, <1>6

LEMMA RoundAdds ==
  ASSUME HeapInv, RoundEncoding, AddLength
  PROVE  RoundEncoding'
<1>1. pc = "encoding" /\ todo # <<>> /\ Field.op = "add"
  BY DEF AddLength, At
<1>2. IsSeq(todo) /\ Field = todo[1].field
  BY <1>1, AtWrite
<1>3. /\ length' = length + Field.n + Field.factor * CountOf(Field.count)
      /\ todo' = Tail(todo)
      /\ UNCHANGED <<type, read, pc, fields, bytes, size, written>>
  BY DEF AddLength, frameVars, packetVars
<1>4. PICK len : len = length + todo[1].field.n + todo[1].field.factor * Added(todo[1], fields)
  OBVIOUS
<1>5. length' = len
  BY <1>1, <1>2, <1>3, <1>4, ValuesAre
<1>6. Encodes(type, fields, bytes, read, todo, length, written, size)
  BY <1>1 DEF RoundEncoding
<1>7. Encodes(type, fields, bytes, read, Tail(todo), len, written, size)
  BY <1>1, <1>2, <1>4, <1>6, EncodesAdds
<1> QED
  BY <1>3, <1>5, <1>7 DEF RoundEncoding

LEMMA RoundEnters ==
  ASSUME HeapInv, RoundEncoding, WriteForEach
  PROVE  RoundEncoding'
<1>1. pc = "encoding" /\ todo # <<>> /\ Field.op = "each"
  BY DEF WriteForEach, At
<1>2. IsSeq(todo) /\ Field = todo[1].field /\ Loop = LoopOf(todo[1])
  BY <1>1, AtWrite
<1>3. /\ todo' = LoopOf(todo[1]) \o Tail(todo)
      /\ UNCHANGED <<type, read, pc, fields, bytes, length, size, written>>
  BY <1>2 DEF WriteForEach, frameVars, packetVars, writeVars
<1>4. Encodes(type, fields, bytes, read, todo, length, written, size)
  BY <1>1 DEF RoundEncoding
<1>5. Encodes(type, fields, bytes, read, LoopOf(todo[1]) \o Tail(todo), length, written, size)
  BY <1>1, <1>2, <1>4, EncodesEach
<1> QED
  BY <1>3, <1>5 DEF RoundEncoding

\* The frame is returned, or there is none.
LEMMA RoundStops ==
  ASSUME RoundEncoding, EncodeEnds \/ NoFrame
  PROVE  RoundParsed'
<1>1. CASE NoFrame
  <2>1. written' = <<>> /\ failure' # "none"
    BY <1>1 DEF NoFrame
  <2> QED
    BY <2>1 DEF RoundParsed
<1>2. CASE EncodeEnds
  <2>1. /\ pc = "encoding" /\ todo = <<>>
        /\ UNCHANGED <<type, read, fields, size, written>>
    BY <1>2 DEF EncodeEnds, frameVars, packetVars, writeVars
  <2>2. Encodes(type, fields, bytes, read, <<>>, length, written, size)
    BY <2>1 DEF RoundEncoding
  <2>3. /\ written # <<>> /\ Len(written) <= size
        /\ ~Miss(type, fields, read) => written = read /\ size = Len(written)
    BY <2>2, EncodesEnd
  <2>4. Miss(type, fields, read)' = Miss(type, fields, read)
    BY <2>1
  <2> QED
    BY <2>1, <2>3, <2>4 DEF RoundParsed
<1> QED
  BY <1>1, <1>2

-----------------------------------------------------------------------------
(* Every step keeps the invariant.                                         *)

RoundInv == LeakInv /\ RoundCalled /\ RoundParsing /\ RoundParsed /\ RoundEncoding

LEMMA RoundStep == RoundInv /\ [Next]_vars => RoundInv'
<1> SUFFICES ASSUME RoundInv, [Next]_vars PROVE RoundInv'
  OBVIOUS
<1>1. LeakInv /\ HeapInv /\ RoundCalled /\ RoundParsing /\ RoundParsed /\ RoundEncoding
  BY DEF RoundInv, LeakInv
<1>2. LeakInv'
  BY <1>1, LeakStep
<1>3. CASE UNCHANGED vars
  <2>1. UNCHANGED <<type, read, pc, todo, fields, bytes, pointer, failure, size, length, written>>
    BY <1>3 DEF vars, frameVars, packetVars, writeVars
  <2>2. RoundCalled'
    BY <1>1, <2>1 DEF RoundCalled, Unwritten
  <2>3. RoundParsing'
    BY <1>1, <2>1 DEF RoundParsing, Unwritten
  <2>4. RoundParsed'
    BY <1>1, <2>1 DEF RoundParsed, Unwritten
  <2>5. RoundEncoding'
    BY <1>1, <2>1 DEF RoundEncoding
  <2> QED
    BY <1>2, <2>2, <2>3, <2>4, <2>5 DEF RoundInv
<1> USE DEF RoundCalled
<1>4. ASSUME pc' = "parsing", RoundParsing' PROVE RoundInv'
  BY <1>2, <1>4 DEF RoundInv, RoundParsed, RoundEncoding
<1>5. ASSUME pc' = "parsed", RoundParsed' PROVE RoundInv'
  BY <1>2, <1>5 DEF RoundInv, RoundParsing, RoundEncoding
<1>6. ASSUME pc' = "encoding", RoundEncoding' PROVE RoundInv'
  BY <1>2, <1>6 DEF RoundInv, RoundParsing, RoundParsed
<1>7. ASSUME pc' \in {"freeing", "returned"} PROVE RoundInv'
  BY <1>2, <1>7 DEF RoundInv, RoundParsing, RoundParsed, RoundEncoding
<1>8. CASE Branch \/ Repeat
  <2>1. pc' = pc /\ pc \in {"parsing", "encoding", "freeing"}
    BY <1>8 DEF Branch, Repeat, At
  <2>2. CASE pc = "parsing"
    <3>1. RoundParsing'
      BY <1>1, <1>8, <2>2, RoundChooses, RoundTurns
    <3> QED
      BY <1>4, <2>1, <2>2, <3>1
  <2>3. CASE pc = "encoding"
    <3>1. RoundEncoding'
      BY <1>1, <1>8, <2>3, RoundSwitches, RoundRepeats
    <3> QED
      BY <1>6, <2>1, <2>3, <3>1
  <2> QED
    BY <1>7, <2>1, <2>2, <2>3
<1>9. CASE ParseEnum \/ ParsePlain \/ ParseCount \/ ParseClamped
  <2>1. pc' \in {"parsing", "freeing"}
    BY <1>9 DEF ParseEnum, ParsePlain, ParseCount, ParseClamped, Proceeds, GivesUp, At
  <2>2. RoundParsing'
    BY <1>1, <1>9, RoundReads
  <2> QED
    BY <1>4, <1>7, <2>1, <2>2
<1>10. CASE ParseBytes \/ ParseZeros \/ ParseForEach
  <2>1. pc' = "parsing"
    BY <1>10 DEF ParseBytes, ParseZeros, ParseForEach, IsBlock, Proceeds, At
  <2>2. RoundParsing'
    BY <1>1, <1>10, RoundBlocks, RoundZeros, RoundArrays
  <2> QED
    BY <1>4, <2>1, <2>2
<1>11. CASE TooShort \/ OutOfMemory \/ Release \/ FreeField \/ FreeForEach
            \/ Refuse \/ NoPacket \/ FreePacket
  <2>1. pc' \in {"freeing", "returned"}
    BY <1>11 DEF TooShort, OutOfMemory, GivesUp, Release, FreeField, FreeForEach, Refuse,
                 NoPacket, FreePacket, At
  <2> QED
    BY <1>7, <2>1
<1>12. CASE Parse
  <2>1. pc' = "parsing"
    BY <1>12 DEF Parse
  <2>2. RoundParsing'
    BY <1>1, <1>12, RoundBegins
  <2> QED
    BY <1>4, <2>1, <2>2
<1>13. CASE ParseEnds \/ NoFrame \/ EncodeEnds
  <2>1. pc' = "parsed"
    BY <1>13 DEF ParseEnds, NoFrame, EncodeEnds
  <2>2. RoundParsed'
    BY <1>1, <1>13, RoundParses, RoundStops
  <2> QED
    BY <1>5, <2>1, <2>2
<1>14. CASE Encode \/ StartFrame \/ WriteField \/ WriteBytes \/ AddLength \/ WriteForEach
  <2>1. pc' = "encoding"
    BY <1>14 DEF Encode, StartFrame, WriteField, WriteBytes, AddLength, WriteForEach, Writes, At
  <2>2. RoundEncoding'
    BY <1>1, <1>14, RoundOpens, RoundStarts, RoundWrites, RoundAdds, RoundEnters
  <2> QED
    BY <1>6, <2>1, <2>2
<1> QED
  BY <1>3, <1>8, <1>9, <1>10, <1>11, <1>12, <1>13, <1>14 DEF Next, Walk

\* Nothing is written behind the end of a frame: the size WRITE_START is given is
\* what the WRITE_* that follow need, or more (util.h:197-237).  And a packet is
\* encoded to the very bytes it was parsed from, in a frame of just their number,
\* but for the packets that are listed: so it is for every type, every length of
\* the payload and every content, and for every count of the arrays and of the
\* arrays in their elements.
THEOREM EncodesWhatItParsed == Spec => []EncodesParsed
<1>1. Init => RoundInv
  <2>1. Init => LeakInv
    BY LeakInit
  <2>2. Init => RoundCalled /\ RoundParsing /\ RoundParsed /\ RoundEncoding
    BY DEF Init, RoundCalled, RoundParsing, RoundParsed, RoundEncoding, Unwritten
  <2> QED
    BY <2>1, <2>2 DEF RoundInv
<1>2. RoundInv => EncodesParsed
  <2> SUFFICES ASSUME RoundInv, pc = "parsed", written # <<>>
               PROVE  Len(written) <= size /\ (~Miscoded => written = read /\ size = Len(written))
    BY DEF EncodesParsed, Encoded
  <2>1. /\ Len(written) <= size
        /\ ~Miss(type, fields, read) => written = read /\ size = Len(written)
    BY DEF RoundInv, RoundParsed, Unwritten
  <2> QED
    BY <2>1, MissIs
<1>3. Spec => []RoundInv
  BY <1>1, RoundStep, PTL DEF Spec
<1> QED
  BY <1>2, <1>3, PTL
=============================================================================
