-------------------------- MODULE PacketLeakProofs --------------------------
(***************************************************************************)
(* That the codecs lose no memory but what is known to be lost             *)
(* (NothingElseLeaks), whatever is received and whichever allocation       *)
(* fails.                                                                  *)
(*                                                                         *)
(* First comes where the walk of a free will come (Comes, Frees); then     *)
(* that each layout that frees undoes the one that parses (Undoes,         *)
(* TablesUndone), and that each writer makes one frame (Framed,            *)
(* WritersFramed); and then the invariant LeakInv, which says for each     *)
(* stage of a call who owns the blocks in use.                             *)
(***************************************************************************)
EXTENDS PacketCodecProofs, FiniteSetTheorems

-----------------------------------------------------------------------------
(***************************************************************************)
(* Where the walk of a stack comes, with the fields F and the pointers Q:  *)
(* the item y opens the item z if visiting y puts z on the stack, at once  *)
(* or in a later turn of the loop; and a walk comes to whatever is in      *)
(* every set that has the items of the stack and what its elements open.   *)
(***************************************************************************)
OpensCase(y, z, F) ==
  /\ y.field.op = "switch"
  /\ Spot(y) \in DOMAIN F
  /\ \E c \in DOMAIN y.field.cases :
       /\ F[Spot(y)] \in y.field.cases[c].values
       /\ \A d \in DOMAIN y.field.cases : F[Spot(y)] \in y.field.cases[d].values => d = c
       /\ \E k \in DOMAIN y.field.cases[c].layout :
            z = [path |-> y.path, field |-> y.field.cases[c].layout[k]]

OpensElement(y, z, F, Q) ==
  /\ y.field.op \in Several
  /\ y.field.op = "each" => Spot(y) \in DOMAIN Q /\ Q[Spot(y)] # NULL
  /\ Append(y.path, y.field.count) \in DOMAIN F
  /\ \E d \in 1..F[Append(y.path, y.field.count)] :
       /\ y.field.op = "loop" => d > y.field.done
       /\ \E k \in DOMAIN y.field.element :
            z = [path |-> y.path \o <<y.field.name, d>>, field |-> y.field.element[k]]

Opens(y, z, F, Q) == OpensCase(y, z, F) \/ OpensElement(y, z, F, Q)

Closed(X, F, Q) == \A y \in X : \A z : Opens(y, z, F, Q) => z \in X

Comes(s, x, F, Q) ==
  \A X : (\A i \in 1..Len(s) : s[i] \in X) /\ Closed(X, F, Q) => x \in X

\* It comes to a free of the pointer at q.
Frees(s, q, F, Q) == \E x : Comes(s, x, F, Q) /\ x.field.op = "free" /\ Spot(x) = q

\* More is set, nothing of it differently.
Grows(F, Q, F2, Q2) ==
  /\ \A q \in DOMAIN F : q \in DOMAIN F2 /\ F2[q] = F[q]
  /\ \A q \in DOMAIN Q : Q[q] # NULL => q \in DOMAIN Q2 /\ Q2[q] # NULL

LEMMA OpensMore ==
  ASSUME NEW F, NEW Q, NEW F2, NEW Q2, Grows(F, Q, F2, Q2), NEW y, NEW z, Opens(y, z, F, Q)
  PROVE  Opens(y, z, F2, Q2)
<1>1. CASE OpensCase(y, z, F)
  <2>1. OpensCase(y, z, F2)
    BY <1>1 DEF Grows, OpensCase
  <2> QED
    BY <2>1 DEF Opens
<1>2. CASE OpensElement(y, z, F, Q)
  <2>1. OpensElement(y, z, F2, Q2)
    <3> DEFINE n == Append(y.path, y.field.count)
    <3>1. n \in DOMAIN F2 /\ F2[n] = F[n]
      BY <1>2 DEF Grows, OpensElement
    <3>2. y.field.op = "each" => Spot(y) \in DOMAIN Q2 /\ Q2[Spot(y)] # NULL
      BY <1>2 DEF Grows, OpensElement
    <3> QED
      BY <1>2, <3>1, <3>2 DEF OpensElement
  <2> QED
    BY <2>1 DEF Opens
<1> QED
  BY <1>1, <1>2 DEF Opens

LEMMA ComesMore ==
  ASSUME NEW F, NEW Q, NEW F2, NEW Q2, Grows(F, Q, F2, Q2), NEW s
  PROVE  /\ \A x : Comes(s, x, F, Q) => Comes(s, x, F2, Q2)
         /\ \A q : Frees(s, q, F, Q) => Frees(s, q, F2, Q2)
<1>1. ASSUME NEW X, Closed(X, F2, Q2) PROVE Closed(X, F, Q)
  BY <1>1, OpensMore DEF Closed
<1>2. \A x : Comes(s, x, F, Q) => Comes(s, x, F2, Q2)
  BY <1>1 DEF Comes
<1> QED
  BY <1>2 DEF Frees

LEMMA ComesToItems ==
  ASSUME NEW s, NEW i \in 1..Len(s), NEW F, NEW Q
  PROVE  Comes(s, s[i], F, Q)
BY DEF Comes

LEMMA ComesOn ==
  ASSUME NEW s, NEW F, NEW Q, NEW y, NEW z, Comes(s, y, F, Q), Opens(y, z, F, Q)
  PROVE  Comes(s, z, F, Q)
<1> SUFFICES ASSUME NEW X, \A i \in 1..Len(s) : s[i] \in X, Closed(X, F, Q) PROVE z \in X
  BY DEF Comes
<1>1. y \in X
  BY DEF Comes
<1> QED
  BY <1>1 DEF Closed

\* A step of the walk loses nothing but the item it takes.
LEMMA ComesStill ==
  ASSUME NEW s, IsSeq(s), s # <<>>, NEW new, IsSeq(new), NEW F, NEW Q,
         \A z : Opens(s[1], z, F, Q) =>
           \E i \in 1..Len(new) : z = new[i] \/ Opens(new[i], z, F, Q)
  PROVE  \A x : Comes(s, x, F, Q) /\ x # s[1] => Comes(new \o Tail(s), x, F, Q)
<1> DEFINE t == Tail(s)
           r == new \o t
<1>1. /\ Len(s) \in Nat /\ Len(s) > 0 /\ IsSeq(t) /\ Len(t) = Len(s) - 1
      /\ \A i \in 1..(Len(s) - 1) : t[i] = s[i + 1]
  BY SeqTail, SeqLen
<1>2. /\ IsSeq(r) /\ Len(r) = Len(new) + Len(t) /\ Len(new) \in Nat
      /\ \A i \in 1..Len(new) : r[i] = new[i]
      /\ \A i \in 1..Len(t) : r[Len(new) + i] = t[i]
  <2>1. IsSeq(t) /\ IsSeq(new) /\ Len(new) \in Nat
    BY <1>1, SeqLen
  <2> HIDE DEF t
  <2> QED
    BY <2>1, SeqConcat
<1> HIDE DEF t, r
<1> SUFFICES ASSUME NEW x, Comes(s, x, F, Q), x # s[1],
                    NEW X, \A i \in 1..Len(r) : r[i] \in X, Closed(X, F, Q)
             PROVE  x \in X
  BY DEF Comes, r, t
<1> DEFINE Y == X \cup {s[1]}
<1>3. ASSUME NEW i \in 1..Len(s) PROVE s[i] \in Y
  <2>1. CASE i = 1
    BY <2>1
  <2>2. CASE i # 1
    <3>1. i - 1 \in 1..(Len(s) - 1) /\ (i - 1) + 1 = i
      BY <1>1, <2>2
    <3>2. t[i - 1] = s[i] /\ i - 1 \in 1..Len(t)
      BY <1>1, <3>1
    <3>3. r[Len(new) + (i - 1)] = s[i] /\ Len(new) + (i - 1) \in 1..Len(r)
      BY <1>1, <1>2, <3>1, <3>2
    <3> QED
      BY <3>3
  <2> QED
    BY <2>1, <2>2
<1>4. \A i \in 1..Len(new) : new[i] \in X
  BY <1>1, <1>2
<1>5. ASSUME NEW y \in Y, NEW z, Opens(y, z, F, Q) PROVE z \in Y
  <2>1. CASE y \in X
    BY <1>5, <2>1 DEF Closed
  <2>2. CASE y = s[1]
    <3>1. PICK i \in 1..Len(new) : z = new[i] \/ Opens(new[i], z, F, Q)
      BY <1>5, <2>2
    <3> QED
      BY <1>4, <3>1 DEF Closed
  <2> QED
    BY <2>1, <2>2
<1>6. Closed(Y, F, Q)
  BY <1>5 DEF Closed
<1> HIDE DEF Y
<1>7. x \in Y
  BY <1>3, <1>6 DEF Comes
<1> QED
  BY <1>7 DEF Y

LEMMA ComesNowhere ==
  ASSUME NEW F, NEW Q
  PROVE  \A q : ~Frees(<<>>, q, F, Q)
<1>1. Closed({}, F, Q)
  BY DEF Closed
<1>2. \A x : ~Comes(<<>>, x, F, Q)
  BY <1>1, NoItems DEF Comes
<1> QED
  BY <1>2 DEF Frees

LEMMA FreesStill ==
  ASSUME NEW s, IsSeq(s), s # <<>>, NEW new, IsSeq(new), NEW F, NEW Q,
         \A z : Opens(s[1], z, F, Q) =>
           \E i \in 1..Len(new) : z = new[i] \/ Opens(new[i], z, F, Q)
  PROVE  \A q : Frees(s, q, F, Q) =>
           \/ Frees(new \o Tail(s), q, F, Q)
           \/ s[1].field.op = "free" /\ Spot(s[1]) = q
BY ComesStill DEF Frees

\* The items of a layout that is entered.
LEMMA EnterItems ==
  ASSUME NEW path, NEW l, IsSeq(l)
  PROVE  LET e == Enter(path, l) IN
         /\ IsSeq(e) /\ Len(e) = Len(l) /\ DOMAIN l = 1..Len(l) /\ Len(l) \in Nat
         /\ \A i \in 1..Len(e) : /\ i \in DOMAIN l
                                 /\ e[i] = [path |-> path, field |-> l[i]]
                                 /\ e[i].path = path /\ e[i].field = l[i]
         /\ \A k \in DOMAIN l : \E i \in 1..Len(e) : e[i] = [path |-> path, field |-> l[k]]
<1> DEFINE e == Enter(path, l)
<1>1. /\ IsSeq(e) /\ Len(e) = Len(l) /\ DOMAIN l = 1..Len(l) /\ Len(l) \in Nat
      /\ \A i \in 1..Len(l) : e[i] = [path |-> path, field |-> l[i]]
  BY SeqEnter, SeqLen
<1> HIDE DEF e
<1>2. \A i \in 1..Len(e) : e[i].path = path /\ e[i].field = l[i]
  <2> SUFFICES ASSUME NEW i \in 1..Len(e) PROVE e[i].path = path /\ e[i].field = l[i]
    OBVIOUS
  <2>1. e[i] = [path |-> path, field |-> l[i]]
    BY <1>1
  <2> QED
    BY <2>1
<1> QED
  BY <1>1, <1>2 DEF e

\* A walk past an item that opens nothing.
LEMMA FreesPast ==
  ASSUME NEW s, IsSeq(s), s # <<>>, NEW F, NEW Q, \A z : ~Opens(s[1], z, F, Q)
  PROVE  \A q : Frees(s, q, F, Q) =>
           Frees(Tail(s), q, F, Q) \/ (s[1].field.op = "free" /\ Spot(s[1]) = q)
<1> DEFINE e == <<>>
<1>1. IsSeq(e) /\ e \o Tail(s) = Tail(s)
  BY NoItems, SeqTail, EmptyEnds
<1> HIDE DEF e
<1>2. \A q : Frees(s, q, F, Q) =>
           \/ Frees(e \o Tail(s), q, F, Q)
           \/ s[1].field.op = "free" /\ Spot(s[1]) = q
  BY <1>1, FreesStill
<1> QED
  BY <1>1, <1>2

LEMMA FreesBranch ==
  ASSUME Stack(todo), Branch
  PROVE  \A q : Frees(todo, q, fields, pointer) => Frees(todo', q, fields, pointer)
<1> DEFINE h == todo[1]
           cases == {i \in DOMAIN Field.cases : Value(Field.name) \in Field.cases[i].values}
<1>1. /\ todo # <<>> /\ IsSeq(todo) /\ h.field.op = "switch" /\ TidyItem(h)
      /\ Field = h.field /\ Head(todo) = h /\ Here(Field.name) = Spot(h)
  <2>1. todo # <<>> /\ Field.op = "switch" /\ IsSeq(todo)
    BY DEF Branch, At, Stack
  <2>2. Field = h.field /\ Head(todo) = h /\ Here(Field.name) = Spot(h)
    BY <2>1, LoopIs
  <2>3. 1 \in 1..Len(todo)
    BY <2>1, SeqTail, SeqLen
  <2> QED
    BY <2>1, <2>2, <2>3 DEF Stack
<1>2. h.field.op \notin Several /\ h.field.op # "free"
  BY <1>1 DEF Several
<1>3. Spot(h) \in DOMAIN fields => Value(Field.name) = fields[Spot(h)]
  BY <1>1 DEF Value, FieldAt
<1>4. ASSUME NEW z, Opens(h, z, fields, pointer)
      PROVE  \E c \in DOMAIN h.field.cases :
               /\ cases = {c}
               /\ \E k \in DOMAIN h.field.cases[c].layout :
                    z = [path |-> h.path, field |-> h.field.cases[c].layout[k]]
  <2>1. OpensCase(h, z, fields)
    BY <1>2, <1>4 DEF Opens, OpensElement
  <2> QED
    BY <1>1, <1>3, <2>1 DEF OpensCase
<1>5. CASE cases = {}
  <2>1. todo' = Tail(todo)
    BY <1>5 DEF Branch
  <2>2. \A z : ~Opens(h, z, fields, pointer)
    BY <1>4, <1>5
  <2> QED
    BY <1>1, <1>2, <2>1, <2>2, FreesPast
<1>6. CASE cases # {}
  <2> DEFINE c == CHOOSE i \in cases : TRUE
             l == h.field.cases[c].layout
             new == Enter(h.path, l)
  <2>1. c \in DOMAIN h.field.cases /\ c \in cases
    BY <1>1, <1>6
  <2>2. todo' = new \o Tail(todo)
    BY <1>1, <1>6 DEF Branch
  <2>3. Tidy(l)
    BY <1>1, <2>1 DEF TidyItem, TidyCases
  <2>4. \A z : Opens(h, z, fields, pointer) =>
          \E k \in DOMAIN l : z = [path |-> h.path, field |-> l[k]]
    <3> SUFFICES ASSUME NEW z, Opens(h, z, fields, pointer)
                 PROVE  \E k \in DOMAIN l : z = [path |-> h.path, field |-> l[k]]
      OBVIOUS
    <3>1. PICK d \in DOMAIN h.field.cases :
               /\ cases = {d}
               /\ \E k \in DOMAIN h.field.cases[d].layout :
                    z = [path |-> h.path, field |-> h.field.cases[d].layout[k]]
      BY <1>4
    <3>2. d = c
      BY <2>1, <3>1
    <3> QED
      BY <3>1, <3>2
  <2> HIDE DEF c, l
  <2>5. IsSeq(l)
    BY <2>3, TidyIs
  <2>6. /\ IsSeq(new)
        /\ \A k \in DOMAIN l : \E i \in 1..Len(new) : new[i] = [path |-> h.path, field |-> l[k]]
    BY <2>5, EnterItems
  <2> HIDE DEF new
  <2>7. \A z : Opens(h, z, fields, pointer) =>
          \E i \in 1..Len(new) : z = new[i] \/ Opens(new[i], z, fields, pointer)
    BY <2>4, <2>6
  <2> QED
    BY <1>1, <1>2, <2>2, <2>6, <2>7, FreesStill
<1> QED
  BY <1>5, <1>6

\* What the next turn of a loop opens, and what the later ones do.
LEMMA TurnOpens ==
  ASSUME NEW h, TidyItem(h), h.field.op = "loop", NEW F, NEW Q, NEW z, Opens(h, z, F, Q),
         Append(h.path, h.field.count) \in DOMAIN F => F[Append(h.path, h.field.count)] \in Nat
  PROVE  /\ Append(h.path, h.field.count) \in DOMAIN F
         /\ h.field.done # F[Append(h.path, h.field.count)]
         /\ \E i \in 1..Len(TurnOf(h)) : z = TurnOf(h)[i] \/ Opens(TurnOf(h)[i], z, F, Q)
<1> DEFINE n == F[Append(h.path, h.field.count)]
           el == h.field.element
           t == TurnOf(h)
<1>1. OpensElement(h, z, F, Q)
  BY DEF Opens, OpensCase
<1>2. PICK d \in 1..n : d > h.field.done /\
        \E k \in DOMAIN el : z = [path |-> h.path \o <<h.field.name, d>>, field |-> el[k]]
  BY <1>1 DEF OpensElement
<1>3. PICK k \in DOMAIN el : z = [path |-> h.path \o <<h.field.name, d>>, field |-> el[k]]
  BY <1>2
<1>4. h.field.done \in Nat /\ Append(h.path, h.field.count) \in DOMAIN F /\ n \in Nat
  BY <1>1 DEF TidyItem, OpensElement
<1>5. /\ IsSeq(el) /\ Len(t) = Len(el) + 1
      /\ \A i \in 1..Len(el) : t[i] = [path |-> NextElement(h), field |-> el[i]]
      /\ t[Len(el) + 1] = Later(h)
  BY TurnStack
<1>6. DOMAIN el = 1..Len(el) /\ Len(el) \in Nat
  BY <1>5, SeqLen
<1>7. /\ Later(h).path = h.path
      /\ Later(h).field = [op |-> "loop", name |-> h.field.name,
                                 count |-> h.field.count, element |-> h.field.element,
                                 done |-> h.field.done + 1]
  BY LaterIs
<1> HIDE DEF t, el, n
<1>8. CASE d = h.field.done + 1
  <2>1. k \in 1..Len(el) /\ k \in 1..Len(t)
    BY <1>5, <1>6
  <2>2. NextElement(h) = h.path \o <<h.field.name, d>>
    BY <1>8 DEF NextElement
  <2>3. t[k] = z
    BY <1>3, <1>5, <2>1, <2>2
  <2>4. h.field.done # n
    BY <1>2, <1>4
  <2> QED
    BY <1>4, <2>1, <2>3, <2>4 DEF t, n
<1>9. CASE d # h.field.done + 1
  <2> DEFINE y == Later(h)
  <2>1. d > h.field.done + 1
    BY <1>2, <1>4, <1>9
  <2>2. /\ y.field.op = "loop" /\ y.field.name = h.field.name /\ y.field.count = h.field.count
        /\ y.field.element = el /\ y.field.done = h.field.done + 1 /\ y.path = h.path
    BY <1>7 DEF el
  <2> HIDE DEF y
  <2>3. Opens(y, z, F, Q)
    BY <1>2, <1>3, <1>4, <2>1, <2>2 DEF Opens, OpensElement, Several, n
  <2>4. Len(el) + 1 \in 1..Len(t) /\ t[Len(el) + 1] = y
    BY <1>5, <1>6 DEF y
  <2> QED
    BY <1>2, <1>4, <2>3, <2>4 DEF t, n
<1> QED
  BY <1>8, <1>9

LEMMA FreesTurn ==
  ASSUME Stack(todo), Repeat, \A q \in DOMAIN fields : fields[q] \in Nat
  PROVE  \A q : Frees(todo, q, fields, pointer) => Frees(todo', q, fields, pointer)
<1> DEFINE h == todo[1]
<1>1. /\ todo # <<>> /\ IsSeq(todo) /\ h.field.op = "loop" /\ TidyItem(h)
      /\ Field = h.field /\ Head(todo) = h
      /\ \A name : Here(name) = Append(h.path, name)
  <2>1. todo # <<>> /\ Field.op = "loop" /\ IsSeq(todo)
    BY DEF Repeat, At, Stack
  <2>2. /\ Field = h.field /\ Head(todo) = h
        /\ \A name : Here(name) = Append(h.path, name)
    BY <2>1, LoopIs, SeqTail
  <2>3. 1 \in 1..Len(todo)
    BY <2>1, SeqTail, SeqLen
  <2> QED
    BY <2>1, <2>2, <2>3 DEF Stack
<1>2. todo' = IF h.field.done = Value(h.field.count) THEN Tail(todo)
              ELSE TurnOf(h) \o Tail(todo)
  BY <1>1 DEF Repeat, TurnOf, NextElement, Later
<1>3. Append(h.path, h.field.count) \in DOMAIN fields =>
        Value(h.field.count) = fields[Append(h.path, h.field.count)]
  BY <1>1 DEF Value, FieldAt
<1>4. CASE h.field.done = Value(h.field.count)
  <2>1. \A z : ~Opens(h, z, fields, pointer)
    BY <1>1, <1>3, <1>4, TurnOpens
  <2> QED
    BY <1>1, <1>2, <1>4, <2>1, FreesPast
<1>5. CASE h.field.done # Value(h.field.count)
  <2> DEFINE new == TurnOf(h)
  <2>1. \A z : Opens(h, z, fields, pointer) =>
          \E i \in 1..Len(new) : z = new[i] \/ Opens(new[i], z, fields, pointer)
    BY <1>1, TurnOpens
  <2>2. IsSeq(new)
    BY <1>1, TurnStack DEF Stack
  <2>3. todo' = new \o Tail(todo)
    BY <1>2, <1>5
  <2> HIDE DEF new
  <2> QED
    BY <1>1, <2>1, <2>2, <2>3, FreesStill
<1> QED
  BY <1>4, <1>5

LEMMA FreesLoop ==
  ASSUME Stack(todo), FreeForEach
  PROVE  \A q : Frees(todo, q, fields, pointer) => Frees(todo', q, fields, pointer)
<1> DEFINE h == todo[1]
           new == LoopOf(h)
<1>1. /\ todo # <<>> /\ IsSeq(todo) /\ h.field.op = "each" /\ TidyItem(h)
      /\ Field = h.field /\ Here(Field.name) = Spot(h) /\ Loop = new
  <2>1. todo # <<>> /\ Field.op = "each" /\ IsSeq(todo)
    BY DEF FreeForEach, At, Stack
  <2>2. /\ Field = h.field /\ Here(Field.name) = Spot(h) /\ Loop = new
    BY <2>1, LoopIs
  <2>3. 1 \in 1..Len(todo)
    BY <2>1, SeqTail, SeqLen
  <2> QED
    BY <2>1, <2>2, <2>3 DEF Stack
<1>2. todo' = IF PointerAt(Spot(h)) = NULL THEN Tail(todo) ELSE new \o Tail(todo)
  BY <1>1 DEF FreeForEach
<1>3. ASSUME NEW z, Opens(h, z, fields, pointer)
      PROVE  OpensElement(h, z, fields, pointer) /\ PointerAt(Spot(h)) # NULL
  <2>1. OpensElement(h, z, fields, pointer)
    BY <1>1, <1>3 DEF Opens, OpensCase
  <2> QED
    BY <1>1, <2>1 DEF OpensElement, PointerAt
<1>4. CASE PointerAt(Spot(h)) = NULL
  <2>1. \A z : ~Opens(h, z, fields, pointer)
    BY <1>3, <1>4
  <2> QED
    BY <1>1, <1>2, <1>4, <2>1, FreesPast
<1>5. CASE PointerAt(Spot(h)) # NULL
  <2>1. IsSeq(new) /\ Len(new) = 1 /\ new[1].path = h.path
        /\ new[1].field = [op |-> "loop", name |-> h.field.name, count |-> h.field.count,
                           element |-> h.field.element, done |-> 0]
    BY <1>1, LoopStack DEF Stack
  <2>2. todo' = new \o Tail(todo)
    BY <1>2, <1>5
  <2> HIDE DEF new
  <2>3. /\ new[1].field.op = "loop" /\ new[1].field.name = h.field.name
        /\ new[1].field.count = h.field.count /\ new[1].field.element = h.field.element
        /\ new[1].field.done = 0
    BY <2>1
  <2>4. \A z : Opens(h, z, fields, pointer) => Opens(new[1], z, fields, pointer)
    <3> SUFFICES ASSUME NEW z, Opens(h, z, fields, pointer)
                 PROVE  Opens(new[1], z, fields, pointer)
      OBVIOUS
    <3>0. Opens(h, z, fields, pointer) => OpensElement(h, z, fields, pointer)
      BY <1>3
    <3> HIDE DEF h
    <3>1. OpensElement(h, z, fields, pointer)
      BY <3>0
    <3>2. OpensElement(new[1], z, fields, pointer)
      <4> DEFINE y == new[1]
      <4>1. /\ y.field.op = "loop" /\ y.field.name = h.field.name /\ y.path = h.path
            /\ y.field.count = h.field.count /\ y.field.element = h.field.element
            /\ y.field.done = 0
        BY <2>1, <2>3
      <4> HIDE DEF y
      <4>2. /\ Append(h.path, h.field.count) \in DOMAIN fields
            /\ \E d \in 1..fields[Append(h.path, h.field.count)] :
                 \E k \in DOMAIN h.field.element :
                   z = [path |-> h.path \o <<h.field.name, d>>, field |-> h.field.element[k]]
        BY <3>1 DEF OpensElement
      <4>3. PICK d \in 1..fields[Append(h.path, h.field.count)] :
              \E k \in DOMAIN h.field.element :
                z = [path |-> h.path \o <<h.field.name, d>>, field |-> h.field.element[k]]
        BY <4>2
      <4>4. d > 0
        OBVIOUS
      <4>5. \E k \in DOMAIN y.field.element :
              z = [path |-> y.path \o <<y.field.name, d>>, field |-> y.field.element[k]]
        BY <4>1, <4>3
      <4>6. OpensElement(y, z, fields, pointer)
        BY <4>1, <4>2, <4>4, <4>5 DEF OpensElement, Several
      <4> QED
        BY <4>6 DEF y
    <3> QED
      BY <3>2 DEF Opens
  <2>5. 1 \in 1..Len(new)
    BY <2>1
  <2> QED
    BY <1>1, <2>1, <2>2, <2>4, <2>5, FreesStill
<1> QED
  BY <1>4, <1>5

LEMMA FreesField ==
  ASSUME Stack(todo), FreeField
  PROVE  /\ \A q : Frees(todo, q, fields, pointer) =>
              Frees(todo', q, fields, pointer) \/ q = Spot(todo[1])
         /\ live' = live \ {PointerAt(Spot(todo[1]))}
<1>1. /\ todo # <<>> /\ IsSeq(todo) /\ Field.op = "free" /\ todo' = Tail(todo)
      /\ live' = live \ {PointerAt(Here(Field.name))}
  BY DEF FreeField, At, Stack
<1>2. Field = todo[1].field /\ Here(Field.name) = Spot(todo[1])
  BY <1>1, LoopIs
<1>3. \A z : ~Opens(todo[1], z, fields, pointer)
  BY <1>1, <1>2 DEF Opens, OpensCase, OpensElement, Several
<1> QED
  BY <1>1, <1>2, <1>3, FreesPast

-----------------------------------------------------------------------------
(***************************************************************************)
(* A parser sets no pointer twice: what an item takes, itself or by what   *)
(* it opens, no other item of the stack takes.                             *)
(***************************************************************************)
Takes(item, q) == Covers(item, q) \/ (item.field.op = "each" /\ q = Spot(item))

Sole(s) ==
  \A i, j \in 1..Len(s) : i < j => \A q : Takes(s[i], q) => ~Takes(s[j], q)

Fresh(s, Q) == \A i \in 1..Len(s) : \A q \in DOMAIN Q : ~Takes(s[i], q)

LEMMA SoleTail ==
  ASSUME NEW s, IsSeq(s), s # <<>>, Sole(s)
  PROVE  /\ Sole(Tail(s))
         /\ \A Q : Fresh(s, Q) => Fresh(Tail(s), Q)
         /\ \A q : Takes(s[1], q) => \A i \in 1..Len(Tail(s)) : ~Takes(Tail(s)[i], q)
<1>1. /\ Len(s) > 0 /\ Len(Tail(s)) = Len(s) - 1 /\ Len(s) \in Nat
      /\ \A i \in 1..(Len(s) - 1) : Tail(s)[i] = s[i + 1]
  BY SeqTail, SeqLen
<1>2. \A i \in 1..Len(Tail(s)) : i + 1 \in 1..Len(s) /\ 1 < i + 1 /\ Tail(s)[i] = s[i + 1]
  BY <1>1
<1>3. Sole(Tail(s))
  <2> SUFFICES ASSUME NEW i \in 1..Len(Tail(s)), NEW j \in 1..Len(Tail(s)), i < j, NEW q,
                      Takes(Tail(s)[i], q)
               PROVE  ~Takes(Tail(s)[j], q)
    BY DEF Sole
  <2>1. i + 1 < j + 1
    BY <1>1
  <2> QED
    BY <1>2, <2>1 DEF Sole
<1>4. \A Q : Fresh(s, Q) => Fresh(Tail(s), Q)
  BY <1>2 DEF Fresh
<1>5. 1 \in 1..Len(s)
  BY <1>1
<1>6. \A q : Takes(s[1], q) => \A i \in 1..Len(Tail(s)) : ~Takes(Tail(s)[i], q)
  BY <1>2, <1>5 DEF Sole
<1> QED
  BY <1>3, <1>4, <1>6

LEMMA SolePush ==
  ASSUME NEW s, Stack(s), s # <<>>, Sole(s), NEW new, Stack(new), Sole(new),
         \A i \in 1..Len(new) : \A q : Takes(new[i], q) => Takes(s[1], q)
  PROVE  /\ Sole(new \o Tail(s))
         /\ \A Q : Fresh(s, Q) => Fresh(new \o Tail(s), Q)
<1> DEFINE r == new \o Tail(s)
<1>1. /\ Len(new) \in Nat /\ Len(s) \in Nat /\ Len(r) = Len(new) + Len(s) - 1
      /\ \A i \in 1..Len(new) : i \in 1..Len(r) /\ r[i] = new[i]
      /\ \A i \in 2..Len(s) : Len(new) + i - 1 \in 1..Len(r) /\ r[Len(new) + i - 1] = s[i]
      /\ \A m \in 1..Len(r) : \/ m \in 1..Len(new)
                              \/ \E i \in 2..Len(s) : m = Len(new) + i - 1
  BY PushItems
<1>2. 1 \in 1..Len(s)
  BY SeqTail, SeqLen DEF Stack
<1> HIDE DEF r
<1>3. ASSUME NEW i \in 1..Len(r), NEW j \in 1..Len(r), i < j, NEW q, Takes(r[i], q)
      PROVE  ~Takes(r[j], q)
  <2>1. CASE j \in 1..Len(new)
    <3>1. i \in 1..Len(new)
      BY <1>1, <1>3, <2>1
    <3> QED
      BY <1>1, <1>3, <2>1, <3>1 DEF Sole
  <2>2. CASE \E k \in 2..Len(s) : j = Len(new) + k - 1
    <3>1. PICK k \in 2..Len(s) : j = Len(new) + k - 1
      BY <2>2
    <3>2. r[j] = s[k] /\ k \in 1..Len(s) /\ 1 < k
      BY <1>1, <3>1
    <3>3. CASE i \in 1..Len(new)
      <4>1. Takes(s[1], q)
        BY <1>1, <1>3, <3>3
      <4> QED
        BY <1>2, <3>2, <4>1 DEF Sole
    <3>4. CASE \E l \in 2..Len(s) : i = Len(new) + l - 1
      <4>1. PICK l \in 2..Len(s) : i = Len(new) + l - 1
        BY <3>4
      <4>2. r[i] = s[l] /\ l \in 1..Len(s) /\ l < k
        BY <1>1, <1>3, <3>1, <4>1
      <4> QED
        BY <1>3, <3>2, <4>2 DEF Sole
    <3> QED
      BY <1>1, <3>3, <3>4
  <2> QED
    BY <1>1, <2>1, <2>2
<1>4. ASSUME NEW Q, Fresh(s, Q), NEW i \in 1..Len(r), NEW q \in DOMAIN Q PROVE ~Takes(r[i], q)
  <2>1. CASE i \in 1..Len(new)
    BY <1>1, <1>2, <1>4, <2>1 DEF Fresh
  <2>2. CASE \E k \in 2..Len(s) : i = Len(new) + k - 1
    <3>1. PICK k \in 2..Len(s) : i = Len(new) + k - 1
      BY <2>2
    <3>2. r[i] = s[k] /\ k \in 1..Len(s)
      BY <1>1, <3>1
    <3> QED
      BY <1>4, <3>2 DEF Fresh
  <2> QED
    BY <1>1, <2>1, <2>2
<1>5. \A Q : Fresh(s, Q) => Fresh(r, Q)
  BY <1>4 DEF Fresh
<1>6. Sole(r)
  BY <1>3 DEF Sole
<1> QED
  BY <1>5, <1>6 DEF r

\* What an item of a layout that is entered takes.
LEMMA EnterTakes ==
  ASSUME NEW path, IsSeq(path), NEW item, item.path = path, NEW q, Takes(item, q)
  PROVE  /\ IsSeq(q) /\ Len(path) \in Nat /\ Len(q) > Len(path)
         /\ \A k \in 1..Len(path) : q[k] = path[k]
         /\ Stands(item.field, q[Len(path) + 1])
<1>1. Len(path) \in Nat
  BY SeqLen
<1>2. CASE Covers(item, q)
  BY <1>1, <1>2 DEF Covers
<1>3. CASE item.field.op = "each" /\ q = Spot(item)
  <2>1. /\ IsSeq(q) /\ Len(q) = Len(path) + 1
        /\ \A k \in 1..Len(path) : q[k] = path[k]
        /\ q[Len(path) + 1] = item.field.name
    BY <1>3, SpotIs DEF Spot
  <2>2. Stands(item.field, item.field.name)
    BY <1>3 DEF Stands
  <2> QED
    BY <1>1, <2>1, <2>2
<1> QED
  BY <1>2, <1>3 DEF Takes

LEMMA EnterSole ==
  ASSUME NEW path, IsSeq(path), NEW l, Neat(l), \A i \in DOMAIN l : l[i].op \notin {"free", "zeros"}
  PROVE  Sole(Enter(path, l))
<1> DEFINE e == Enter(path, l)
<1>1. IsSeq(l) /\ Distinct(l)
  BY DEF Neat
<1>2. \A i \in 1..Len(e) : i \in DOMAIN l /\ e[i].path = path /\ e[i].field = l[i]
  <2>1. IsSeq(l)
    BY <1>1
  <2>2. /\ Len(e) = Len(l)
        /\ \A i \in 1..Len(l) : e[i] = [path |-> path, field |-> l[i]]
    BY <2>1, SeqEnter
  <2>3. DOMAIN l = 1..Len(l)
    BY <2>1, SeqLen
  <2> HIDE DEF e
  <2> SUFFICES ASSUME NEW i \in 1..Len(e)
               PROVE  i \in DOMAIN l /\ e[i].path = path /\ e[i].field = l[i]
    OBVIOUS
  <2>4. i \in DOMAIN l /\ e[i] = [path |-> path, field |-> l[i]]
    BY <2>2, <2>3
  <2> QED
    BY <2>4
<1> HIDE DEF e
<1> SUFFICES ASSUME NEW i \in 1..Len(e), NEW j \in 1..Len(e), i < j, NEW q,
                    Takes(e[i], q), Takes(e[j], q)
             PROVE  FALSE
  BY DEF Sole, e
<1>3. \A name : ~(Stands(l[i], name) /\ Stands(l[j], name))
  BY <1>1, <1>2 DEF Distinct
<1>4. Stands(l[i], q[Len(path) + 1])
  BY <1>2, EnterTakes
<1>5. Stands(l[j], q[Len(path) + 1])
  BY <1>2, EnterTakes
<1> QED
  BY <1>3, <1>4, <1>5

LEMMA CaseSole ==
  ASSUME NEW item, TidyItem(item), item.field.op = "switch", NEW c \in DOMAIN item.field.cases,
         \A i \in DOMAIN item.field.cases[c].layout :
           item.field.cases[c].layout[i].op \notin {"free", "zeros"}
  PROVE  LET e == Enter(item.path, item.field.cases[c].layout) IN
         Stack(e) /\ Sole(e) /\ \A i \in 1..Len(e) : \A q : Takes(e[i], q) => Takes(item, q)
<1> DEFINE l == item.field.cases[c].layout
           e == Enter(item.path, l)
<1>1. /\ Stack(e)
      /\ \A i \in 1..Len(e) : \A q : Touches(e[i], q) => Touches(item, q)
  BY CaseStack
<1>2. Neat(l) /\ IsSeq(item.path)
  <2>1. Tidy(l) /\ IsSeq(item.path)
    BY DEF TidyItem, TidyCases
  <2> HIDE DEF l
  <2> QED
    BY <2>1, TidyIs
<1>3. \A i \in DOMAIN l : l[i].op \notin {"free", "zeros"}
  OBVIOUS
<1> HIDE DEF l
<1>4. Sole(e)
  BY <1>2, <1>3, EnterSole
<1> HIDE DEF e
<1>5. \A i \in 1..Len(e) : \A q : Takes(e[i], q) => Touches(e[i], q)
  BY DEF Takes, Touches, Several
<1>6. \A q : Touches(item, q) => Takes(item, q)
  BY DEF Takes, Touches, Several
<1>7. \A i \in 1..Len(e) : \A q : Takes(e[i], q) => Takes(item, q)
  BY <1>1, <1>5, <1>6
<1> QED
  BY <1>1, <1>4, <1>7 DEF e, l

LEMMA LoopSole ==
  ASSUME NEW item, TidyItem(item), item.field.op = "each"
  PROVE  /\ Stack(LoopOf(item)) /\ Sole(LoopOf(item)) /\ Len(LoopOf(item)) = 1
         /\ \A i \in 1..Len(LoopOf(item)) : \A q :
              Takes(LoopOf(item)[i], q) => Covers(item, q) /\ q # Spot(item)
<1> DEFINE new == LoopOf(item)
<1>1. /\ Stack(new) /\ Len(new) = 1 /\ new[1].path = item.path
      /\ new[1].field = [op |-> "loop", name |-> item.field.name, count |-> item.field.count,
                         element |-> item.field.element, done |-> 0]
      /\ Spot(new[1]) = Spot(item)
      /\ \A q : Covers(new[1], q) => Covers(item, q)
  BY LoopStack
<1> HIDE DEF new
<1>2. new[1].field.op = "loop"
  BY <1>1
<1>3. Sole(new)
  BY <1>1 DEF Sole
<1>4. ASSUME NEW i \in 1..Len(new), NEW q, Takes(new[i], q)
      PROVE  Covers(item, q) /\ q # Spot(item)
  <2>1. i = 1
    BY <1>1
  <2>2. Covers(new[1], q)
    BY <1>2, <1>4, <2>1 DEF Takes
  <2>3. Len(q) > Len(item.path) + 2
    BY <1>1, <1>2, <2>2 DEF Covers, Single, Several
  <2>4. Len(Spot(item)) = Len(item.path) + 1 /\ Len(item.path) \in Nat
    BY SpotIs DEF TidyItem, Spot
  <2> QED
    BY <1>1, <2>2, <2>3, <2>4
<1> QED
  BY <1>1, <1>3, <1>4 DEF new

LEMMA TurnSole ==
  ASSUME NEW item, TidyItem(item), item.field.op = "loop",
         \A i \in DOMAIN item.field.element : item.field.element[i].op \notin {"free", "zeros"}
  PROVE  /\ Stack(TurnOf(item)) /\ Sole(TurnOf(item))
         /\ \A i \in 1..Len(TurnOf(item)) : \A q : Takes(TurnOf(item)[i], q) => Takes(item, q)
<1> DEFINE el == item.field.element
           t == TurnOf(item)
           np == NextElement(item)
           l == Later(item)
           n == Len(item.path)
           e == Enter(np, el)
<1>1. /\ Stack(t) /\ IsSeq(np) /\ IsSeq(el) /\ Len(t) = Len(el) + 1
      /\ \A i \in 1..Len(el) : t[i] = [path |-> np, field |-> el[i]]
      /\ t[Len(el) + 1] = l
      /\ \A i \in 1..Len(t) : \A q : /\ Covers(t[i], q) => Covers(item, q)
                                     /\ Touches(t[i], q) => Touches(item, q)
  BY TurnStack
<1>2. Len(el) \in Nat /\ n \in Nat /\ IsSeq(item.path) /\ item.field.done \in Nat
  <2>1. IsSeq(el) /\ IsSeq(item.path) /\ item.field.done \in Nat
    BY <1>1 DEF TidyItem
  <2> HIDE DEF el
  <2> QED
    BY <2>1, SeqLen
<1>3. Sole(e) /\ Len(e) = Len(el) /\ \A i \in 1..Len(el) : e[i] = [path |-> np, field |-> el[i]]
  <2>1. Neat(el) /\ IsSeq(np)
    BY <1>1, TidyIs DEF TidyItem, Several
  <2>2. \A i \in DOMAIN el : el[i].op \notin {"free", "zeros"}
    OBVIOUS
  <2> HIDE DEF np, el
  <2> QED
    BY <2>1, <2>2, EnterSole, EnterStack
<1>4. /\ Len(np) = n + 2 /\ np[n + 2] = item.field.done + 1
  <2> DEFINE p == item.path
             name == item.field.name
             k == item.field.done + 1
  <2>1. IsSeq(p) /\ np = p \o <<name, k>>
    BY <1>2 DEF NextElement
  <2> HIDE DEF p, name, k
  <2>2. Len(np) = Len(p) + 2 /\ np[Len(p) + 2] = k
    BY <2>1, NextElementIs
  <2> QED
    BY <2>2 DEF p, k
<1>5. /\ l.path = item.path /\ l.field.op = "loop" /\ l.field.done = item.field.done + 1
      /\ Spot(l) = Spot(item)
  <2>1. /\ l.path = item.path
        /\ l.field = [op |-> "loop", name |-> item.field.name,
                      count |-> item.field.count, element |-> item.field.element,
                      done |-> item.field.done + 1]
    BY LaterIs
  <2> HIDE DEF l
  <2>2. l.field.name = item.field.name /\ l.field.op = "loop"
        /\ l.field.done = item.field.done + 1
    BY <2>1
  <2> QED
    BY <2>1, <2>2 DEF Spot
<1>6. Len(Spot(item)) = n + 1
  BY <1>2, SpotIs DEF Spot
<1> HIDE DEF el, t, np, l, n, e
<1>7. ASSUME NEW i \in 1..Len(el), NEW q, Takes(t[i], q)
      PROVE  Len(q) > n + 2 /\ q[n + 2] = item.field.done + 1
  <2>1. t[i] = [path |-> np, field |-> el[i]]
    BY <1>1
  <2>2. t[i].path = np
    BY <2>1
  <2>3. /\ IsSeq(q) /\ Len(np) \in Nat /\ Len(q) > Len(np)
        /\ \A k \in 1..Len(np) : q[k] = np[k]
    BY <1>1, <1>7, <2>2, EnterTakes
  <2>4. n + 2 \in 1..Len(np)
    BY <1>2, <1>4
  <2> QED
    BY <1>4, <2>3, <2>4
<1>8. \A i \in 1..Len(t) : i \in 1..Len(el) \/ i = Len(el) + 1
  BY <1>1, <1>2
<1>9. ASSUME NEW i \in 1..Len(t), NEW j \in 1..Len(t), i < j, NEW q, Takes(t[i], q)
      PROVE  ~Takes(t[j], q)
  <2>1. i \in 1..Len(el)
    BY <1>1, <1>2, <1>9
  <2>2. CASE j \in 1..Len(el)
    <3>1. t[i] = e[i] /\ t[j] = e[j] /\ i \in 1..Len(e) /\ j \in 1..Len(e)
      BY <1>1, <1>3, <2>1, <2>2
    <3> QED
      BY <1>3, <1>9, <3>1 DEF Sole
  <2>3. CASE j = Len(el) + 1
    <3>1. t[j] = l /\ q[n + 2] = item.field.done + 1
      BY <1>1, <1>7, <1>9, <2>1, <2>3
    <3>2. item.field.done + 1 \in 1..(item.field.done + 1)
      BY <1>2
    <3>3. ~Covers(l, q)
      BY <1>5, <3>1, <3>2 DEF Covers, Single, Several, n
    <3> QED
      BY <1>5, <3>1, <3>3 DEF Takes
  <2> QED
    BY <1>8, <2>2, <2>3
<1>10. ASSUME NEW i \in 1..Len(t), NEW q, Takes(t[i], q) PROVE Takes(item, q)
  <2>1. CASE Covers(t[i], q)
    BY <1>1, <2>1 DEF Takes
  <2>2. CASE t[i].field.op = "each" /\ q = Spot(t[i])
    <3>1. i \in 1..Len(el)
      BY <1>1, <1>5, <1>8, <2>2
    <3>2. q # Spot(item)
      BY <1>2, <1>6, <1>7, <1>10, <3>1
    <3>3. Touches(item, q)
      BY <1>1, <2>2 DEF Touches, Several
    <3> QED
      BY <3>2, <3>3 DEF Touches, Takes
  <2> QED
    BY <1>10, <2>1, <2>2 DEF Takes
<1>11. Sole(t)
  BY <1>9 DEF Sole
<1> QED
  BY <1>1, <1>10, <1>11 DEF t

\* A field that is parsed sets its pointer for the first time.
LEMMA FreshSets ==
  ASSUME NEW s, Stack(s), s # <<>>, Sole(s), NEW Q, Fresh(s, Q), NEW v,
         s[1].field.op \in {"bytes", "name"}
  PROVE  /\ Spot(s[1]) \notin DOMAIN Q
         /\ Sole(Tail(s)) /\ Fresh(Tail(s), Set(Q, Spot(s[1]), v)) /\ Fresh(Tail(s), Q)
<1>1. 1 \in 1..Len(s) /\ TidyItem(s[1]) /\ IsSeq(s)
  BY SeqTail, SeqLen DEF Stack
<1>2. Takes(s[1], Spot(s[1]))
  BY <1>1, CoversSpot DEF Takes, Single
<1>3. Spot(s[1]) \notin DOMAIN Q
  BY <1>1, <1>2 DEF Fresh
<1>4. /\ Sole(Tail(s)) /\ Fresh(Tail(s), Q)
      /\ \A i \in 1..Len(Tail(s)) : ~Takes(Tail(s)[i], Spot(s[1]))
  BY <1>1, <1>2, SoleTail
<1>5. DOMAIN Set(Q, Spot(s[1]), v) = DOMAIN Q \cup {Spot(s[1])}
  BY DEF Set
<1>6. Fresh(Tail(s), Set(Q, Spot(s[1]), v))
  BY <1>4, <1>5 DEF Fresh
<1> QED
  BY <1>3, <1>4, <1>6

LEMMA FreshArray ==
  ASSUME NEW s, Stack(s), s # <<>>, Sole(s), NEW Q, Fresh(s, Q), NEW v,
         s[1].field.op = "each"
  PROVE  /\ Spot(s[1]) \notin DOMAIN Q
         /\ Sole(LoopOf(s[1]) \o Tail(s))
         /\ Fresh(LoopOf(s[1]) \o Tail(s), Set(Q, Spot(s[1]), v))
<1> DEFINE h == s[1]
           new == LoopOf(h)
           r == new \o Tail(s)
<1>1. 1 \in 1..Len(s) /\ TidyItem(h) /\ IsSeq(s)
  BY SeqTail, SeqLen DEF Stack
<1>2. Takes(h, Spot(h))
  BY DEF Takes
<1>3. Spot(h) \notin DOMAIN Q
  BY <1>1, <1>2 DEF Fresh
<1>4. \A i \in 1..Len(Tail(s)) : ~Takes(Tail(s)[i], Spot(h))
  BY <1>1, <1>2, SoleTail
<1>5. /\ Stack(new) /\ Sole(new) /\ Len(new) = 1
      /\ \A i \in 1..Len(new) : \A q : Takes(new[i], q) => Covers(h, q) /\ q # Spot(h)
  BY <1>1, LoopSole
<1>6. \A i \in 1..Len(new) : \A q : Takes(new[i], q) => Takes(h, q)
  BY <1>5 DEF Takes
<1> HIDE DEF new
<1>7. Sole(r) /\ Fresh(r, Q)
  BY <1>5, <1>6, SolePush
<1>8. /\ Len(new) \in Nat /\ Len(s) \in Nat
      /\ \A i \in 1..Len(new) : i \in 1..Len(r) /\ r[i] = new[i]
      /\ \A i \in 2..Len(s) : Len(new) + i - 1 \in 1..Len(r) /\ r[Len(new) + i - 1] = s[i]
      /\ \A m \in 1..Len(r) : \/ m \in 1..Len(new)
                              \/ \E i \in 2..Len(s) : m = Len(new) + i - 1
  <2>1. Stack(new)
    BY <1>5
  <2> QED
    BY <2>1, PushItems
<1> HIDE DEF r
<1>9. ASSUME NEW i \in 1..Len(r) PROVE ~Takes(r[i], Spot(h))
  <2>1. CASE i \in 1..Len(new)
    BY <1>5, <1>8, <2>1
  <2>2. CASE \E k \in 2..Len(s) : i = Len(new) + k - 1
    <3>1. PICK k \in 2..Len(s) : i = Len(new) + k - 1
      BY <2>2
    <3>2. r[i] = s[k] /\ k \in 1..Len(s) /\ 1 < k
      BY <1>8, <3>1
    <3> QED
      BY <1>1, <1>2, <3>2 DEF Sole
  <2> QED
    BY <1>8, <2>1, <2>2
<1>10. DOMAIN Set(Q, Spot(h), v) = DOMAIN Q \cup {Spot(h)}
  BY DEF Set
<1>11. Fresh(r, Set(Q, Spot(h), v))
  BY <1>7, <1>9, <1>10 DEF Fresh
<1> QED
  BY <1>3, <1>7, <1>11 DEF r, new

-----------------------------------------------------------------------------
(***************************************************************************)
(* A layout fl that frees what another one, l, allocates: each pointer at  *)
(* its place, the arrays and the choices alike.                            *)
(***************************************************************************)
Simple(l) == \A i \in DOMAIN l : l[i].op \in Readers

SameArray(g, f) == g.op = "each" /\ g.name = f.name /\ g.count = f.count

\* The case d of the switch g is the only one with the values of a case.
OnlyCase(g, d, values) ==
  /\ g.cases[d].values = values
  /\ \A e \in DOMAIN g.cases : e # d => g.cases[e].values \cap values = {}

UndoesStep(fl, l, S) ==
  /\ IsSeq(fl)
  /\ \A i \in DOMAIN l :
       /\ l[i].op \in Readers \cup {"bytes", "name", "each", "switch"}
       /\ l[i].op \in {"bytes", "name", "each"} =>
            \E k \in DOMAIN fl : fl[k].op = "free" /\ fl[k].name = l[i].name
       /\ l[i].op = "each" =>
            \/ Simple(l[i].element)
            \/ \E k \in DOMAIN fl :
                 SameArray(fl[k], l[i]) /\ <<fl[k].element, l[i].element>> \in S
       /\ l[i].op = "switch" =>
            \A c \in DOMAIN l[i].cases :
              \/ Simple(l[i].cases[c].layout)
              \/ \E k \in DOMAIN fl :
                   /\ fl[k].op = "switch" /\ fl[k].name = l[i].name
                   /\ \E d \in DOMAIN fl[k].cases :
                        /\ OnlyCase(fl[k], d, l[i].cases[c].values)
                        /\ <<fl[k].cases[d].layout, l[i].cases[c].layout>> \in S

UndoesSet(S) == \A fl, l : <<fl, l>> \in S => UndoesStep(fl, l, S)

Undoes(fl, l) == \E S : <<fl, l>> \in S /\ UndoesSet(S)

LEMMA UndoesIs ==
  ASSUME NEW fl, NEW l, Undoes(fl, l)
  PROVE  /\ IsSeq(fl)
         /\ \A i \in DOMAIN l :
              /\ l[i].op \in Readers \cup {"bytes", "name", "each", "switch"}
              /\ l[i].op \in {"bytes", "name", "each"} =>
                   \E k \in DOMAIN fl : fl[k].op = "free" /\ fl[k].name = l[i].name
              /\ l[i].op = "each" =>
                   \/ Simple(l[i].element)
                   \/ \E k \in DOMAIN fl :
                        SameArray(fl[k], l[i]) /\ Undoes(fl[k].element, l[i].element)
              /\ l[i].op = "switch" =>
                   \A c \in DOMAIN l[i].cases :
                     \/ Simple(l[i].cases[c].layout)
                     \/ \E k \in DOMAIN fl :
                          /\ fl[k].op = "switch" /\ fl[k].name = l[i].name
                          /\ \E d \in DOMAIN fl[k].cases :
                               /\ OnlyCase(fl[k], d, l[i].cases[c].values)
                               /\ Undoes(fl[k].cases[d].layout, l[i].cases[c].layout)
<1>1. PICK S : <<fl, l>> \in S /\ UndoesSet(S)
  BY DEF Undoes
<1>2. UndoesStep(fl, l, S)
  BY <1>1, Zenon DEF UndoesSet
<1>3. \A v, m : <<v, m>> \in S => Undoes(v, m)
  BY <1>1, Zenon DEF Undoes
<1>4. IsSeq(fl)
  BY <1>2 DEF UndoesStep
<1> SUFFICES ASSUME NEW i \in DOMAIN l
             PROVE  /\ l[i].op \in Readers \cup {"bytes", "name", "each", "switch"}
                    /\ l[i].op \in {"bytes", "name", "each"} =>
                         \E k \in DOMAIN fl : fl[k].op = "free" /\ fl[k].name = l[i].name
                    /\ l[i].op = "each" =>
                         \/ Simple(l[i].element)
                         \/ \E k \in DOMAIN fl :
                              SameArray(fl[k], l[i]) /\ Undoes(fl[k].element, l[i].element)
                    /\ l[i].op = "switch" =>
                         \A c \in DOMAIN l[i].cases :
                           \/ Simple(l[i].cases[c].layout)
                           \/ \E k \in DOMAIN fl :
                                /\ fl[k].op = "switch" /\ fl[k].name = l[i].name
                                /\ \E d \in DOMAIN fl[k].cases :
                                     /\ OnlyCase(fl[k], d, l[i].cases[c].values)
                                     /\ Undoes(fl[k].cases[d].layout, l[i].cases[c].layout)
  BY <1>4, Zenon
<1>5. /\ l[i].op \in Readers \cup {"bytes", "name", "each", "switch"}
      /\ l[i].op \in {"bytes", "name", "each"} =>
           \E k \in DOMAIN fl : fl[k].op = "free" /\ fl[k].name = l[i].name
  BY <1>2 DEF UndoesStep
<1>6. ASSUME l[i].op = "each"
      PROVE  \/ Simple(l[i].element)
             \/ \E k \in DOMAIN fl :
                  SameArray(fl[k], l[i]) /\ Undoes(fl[k].element, l[i].element)
  BY <1>2, <1>3, <1>6, Zenon DEF UndoesStep
<1>7. ASSUME l[i].op = "switch", NEW c \in DOMAIN l[i].cases
      PROVE  \/ Simple(l[i].cases[c].layout)
             \/ \E k \in DOMAIN fl :
                  /\ fl[k].op = "switch" /\ fl[k].name = l[i].name
                  /\ \E d \in DOMAIN fl[k].cases :
                       /\ OnlyCase(fl[k], d, l[i].cases[c].values)
                       /\ Undoes(fl[k].cases[d].layout, l[i].cases[c].layout)
  <2>1. \/ Simple(l[i].cases[c].layout)
        \/ \E k \in DOMAIN fl :
             /\ fl[k].op = "switch" /\ fl[k].name = l[i].name
             /\ \E d \in DOMAIN fl[k].cases :
                  /\ OnlyCase(fl[k], d, l[i].cases[c].values)
                  /\ <<fl[k].cases[d].layout, l[i].cases[c].layout>> \in S
    BY <1>2, <1>7 DEF UndoesStep
  <2> QED
    BY <1>3, <2>1
<1> QED
  BY <1>5, <1>6, <1>7

LEMMA UndoesMore ==
  ASSUME NEW S, NEW T, S \subseteq T, NEW fl, NEW l, UndoesStep(fl, l, S)
  PROVE  UndoesStep(fl, l, T)
<1> SUFFICES ASSUME NEW i \in DOMAIN l
             PROVE  /\ l[i].op \in Readers \cup {"bytes", "name", "each", "switch"}
                    /\ l[i].op \in {"bytes", "name", "each"} =>
                         \E k \in DOMAIN fl : fl[k].op = "free" /\ fl[k].name = l[i].name
                    /\ l[i].op = "each" =>
                         \/ Simple(l[i].element)
                         \/ \E k \in DOMAIN fl :
                              SameArray(fl[k], l[i]) /\ <<fl[k].element, l[i].element>> \in T
                    /\ l[i].op = "switch" =>
                         \A c \in DOMAIN l[i].cases :
                           \/ Simple(l[i].cases[c].layout)
                           \/ \E k \in DOMAIN fl :
                                /\ fl[k].op = "switch" /\ fl[k].name = l[i].name
                                /\ \E d \in DOMAIN fl[k].cases :
                                     /\ OnlyCase(fl[k], d, l[i].cases[c].values)
                                     /\ <<fl[k].cases[d].layout, l[i].cases[c].layout>> \in T
  BY DEF UndoesStep
<1>1. /\ l[i].op \in Readers \cup {"bytes", "name", "each", "switch"}
      /\ l[i].op \in {"bytes", "name", "each"} =>
           \E k \in DOMAIN fl : fl[k].op = "free" /\ fl[k].name = l[i].name
  BY DEF UndoesStep
<1>2. ASSUME l[i].op = "each"
      PROVE  \/ Simple(l[i].element)
             \/ \E k \in DOMAIN fl :
                  SameArray(fl[k], l[i]) /\ <<fl[k].element, l[i].element>> \in T
  BY <1>2 DEF UndoesStep
<1>3. ASSUME l[i].op = "switch", NEW c \in DOMAIN l[i].cases
      PROVE  \/ Simple(l[i].cases[c].layout)
             \/ \E k \in DOMAIN fl :
                  /\ fl[k].op = "switch" /\ fl[k].name = l[i].name
                  /\ \E d \in DOMAIN fl[k].cases :
                       /\ OnlyCase(fl[k], d, l[i].cases[c].values)
                       /\ <<fl[k].cases[d].layout, l[i].cases[c].layout>> \in T
  BY <1>3 DEF UndoesStep
<1> QED
  BY <1>1, <1>2, <1>3

\* To show that a layout undoes another one by what is in them.
LEMMA UndoesIntro ==
  ASSUME NEW fl, NEW l, NEW P, UndoesStep(fl, l, P),
         \A m \in P : m = <<m[1], m[2]>> /\ Undoes(m[1], m[2])
  PROVE  Undoes(fl, l)
<1> DEFINE Of(m) == CHOOSE S : m \in S /\ UndoesSet(S)
           T == {<<fl, l>>} \cup UNION {Of(m) : m \in P}
<1>1. \A m \in P : m \in Of(m) /\ UndoesSet(Of(m))
  <2> SUFFICES ASSUME NEW m \in P PROVE \E S : m \in S /\ UndoesSet(S)
    BY Zenon
  <2>1. m = <<m[1], m[2]>> /\ \E S : <<m[1], m[2]>> \in S /\ UndoesSet(S)
    BY Zenon DEF Undoes
  <2>2. PICK S : <<m[1], m[2]>> \in S /\ UndoesSet(S)
    BY <2>1, Zenon
  <2>3. m \in S
    <3> DEFINE n == <<m[1], m[2]>>
    <3>1. m = n /\ n \in S
      BY <2>1, <2>2, Zenon
    <3> HIDE DEF n
    <3> QED
      BY <3>1
  <2> QED
    BY <2>2, <2>3, Zenon
<1>2. P \subseteq T /\ <<fl, l>> \in T /\ \A m \in P : Of(m) \subseteq T
  BY <1>1
<1>3. ASSUME NEW x, NEW y, <<x, y>> \in T
      PROVE  UndoesStep(x, y, T)
  <2>1. CASE x = fl /\ y = l
    BY <1>2, <2>1, UndoesMore
  <2>2. ASSUME NEW m \in P, <<x, y>> \in Of(m)
        PROVE  UndoesStep(x, y, T)
    <3>1. UndoesSet(Of(m)) /\ Of(m) \subseteq T
      BY <1>1, <1>2
    <3> HIDE DEF T, Of
    <3>2. UndoesStep(x, y, Of(m))
      BY <2>2, <3>1, Zenon DEF UndoesSet
    <3> QED
      BY <3>1, <3>2, UndoesMore
  <2> QED
    BY <1>3, <2>1, <2>2
<1> HIDE DEF T
<1>4. UndoesSet(T)
  BY <1>3, Zenon DEF UndoesSet
<1> QED
  BY <1>2, <1>4, Zenon DEF Undoes

LEMMA SimpleUndone ==
  ASSUME NEW l, Simple(l)
  PROVE  Undoes(<<>>, l)
<1>1. UndoesStep(<<>>, l, {})
  BY NoItems DEF Simple, UndoesStep, Readers
<1> QED
  BY <1>1, UndoesIntro

-----------------------------------------------------------------------------
(***************************************************************************)
(* While a packet is parsed: what an item allocates will be come to by the *)
(* walk of R, the layout that frees the packet.                            *)
(***************************************************************************)
Reached(fl, p, R, F, Q) ==
  \A k \in DOMAIN fl : Comes(R, [path |-> p, field |-> fl[k]], F, Q)

Provided(item, R, F, Q) ==
  LET f == item.field
      p == item.path IN
  /\ f.op \in Readers \cup Several \cup {"bytes", "name", "switch"}
  /\ f.op \in {"bytes", "name", "each"} => Frees(R, Spot(item), F, Q)
  /\ f.op \in Several =>
       \/ Simple(f.element)
       \/ \E g : /\ Comes(R, [path |-> p, field |-> g], F, Q)
                 /\ SameArray(g, f) /\ Undoes(g.element, f.element)
  /\ f.op = "loop" =>
       Append(p, f.count) \in DOMAIN F /\ f.done \in Nat /\ f.done <= F[Append(p, f.count)]
  /\ f.op = "switch" =>
       \A c \in DOMAIN f.cases :
         \/ Simple(f.cases[c].layout)
         \/ \E g : /\ Comes(R, [path |-> p, field |-> g], F, Q)
                   /\ g.op = "switch" /\ g.name = f.name
                   /\ \E d \in DOMAIN g.cases : /\ OnlyCase(g, d, f.cases[c].values)
                                                /\ Undoes(g.cases[d].layout, f.cases[c].layout)

AllProvided(s, R, F, Q) == \A m \in 1..Len(s) : Provided(s[m], R, F, Q)

LEMMA ProvidedEnters ==
  ASSUME NEW fl, NEW l, IsSeq(l), Undoes(fl, l), NEW p, NEW R, NEW F, NEW Q, Reached(fl, p, R, F, Q)
  PROVE  AllProvided(Enter(p, l), R, F, Q)
<1> DEFINE e == Enter(p, l)
<1>1. /\ Len(e) = Len(l) /\ DOMAIN l = 1..Len(l)
      /\ \A i \in 1..Len(l) : e[i] = [path |-> p, field |-> l[i]]
  BY SeqEnter, SeqLen
<1> HIDE DEF e
<1> SUFFICES ASSUME NEW i \in 1..Len(e) PROVE Provided(e[i], R, F, Q)
  BY DEF AllProvided, e
<1> DEFINE f == l[i]
           x == e[i]
<1>2. i \in DOMAIN l /\ x = [path |-> p, field |-> f]
  BY <1>1
<1>3. x.path = p /\ x.field = f
  BY <1>2
<1>4. /\ f.op \in Readers \cup {"bytes", "name", "each", "switch"}
      /\ f.op \in {"bytes", "name", "each"} =>
           \E k \in DOMAIN fl : fl[k].op = "free" /\ fl[k].name = f.name
      /\ f.op = "each" =>
           \/ Simple(f.element)
           \/ \E k \in DOMAIN fl :
                SameArray(fl[k], f) /\ Undoes(fl[k].element, f.element)
      /\ f.op = "switch" =>
           \A c \in DOMAIN f.cases :
             \/ Simple(f.cases[c].layout)
             \/ \E k \in DOMAIN fl :
                  /\ fl[k].op = "switch" /\ fl[k].name = f.name
                  /\ \E d \in DOMAIN fl[k].cases :
                       /\ OnlyCase(fl[k], d, f.cases[c].values)
                       /\ Undoes(fl[k].cases[d].layout, f.cases[c].layout)
  BY <1>2, UndoesIs
<1> HIDE DEF f, x
<1>5. f.op # "loop"
  BY <1>4 DEF Readers
<1>6. ASSUME f.op \in {"bytes", "name", "each"} PROVE Frees(R, Spot(x), F, Q)
  <2>1. PICK k \in DOMAIN fl : fl[k].op = "free" /\ fl[k].name = f.name
    BY <1>4, <1>6
  <2> DEFINE y == [path |-> p, field |-> fl[k]]
  <2>2. Comes(R, y, F, Q)
    BY DEF Reached
  <2>3. y.path = p /\ y.field = fl[k]
    OBVIOUS
  <2> HIDE DEF y
  <2>4. y.field.op = "free" /\ Spot(y) = Spot(x)
    BY <1>3, <2>1, <2>3 DEF Spot
  <2> QED
    BY <2>2, <2>4 DEF Frees
<1>7. ASSUME f.op = "each"
      PROVE  \/ Simple(f.element)
             \/ \E g : /\ Comes(R, [path |-> p, field |-> g], F, Q)
                       /\ SameArray(g, f) /\ Undoes(g.element, f.element)
  BY <1>4, <1>7 DEF Reached
<1>8. ASSUME f.op = "switch", NEW c \in DOMAIN f.cases
      PROVE  \/ Simple(f.cases[c].layout)
             \/ \E g : /\ Comes(R, [path |-> p, field |-> g], F, Q)
                       /\ g.op = "switch" /\ g.name = f.name
                       /\ \E d \in DOMAIN g.cases : /\ OnlyCase(g, d, f.cases[c].values)
                                                    /\ Undoes(g.cases[d].layout, f.cases[c].layout)
  BY <1>4, <1>8 DEF Reached
<1>9. f.op \in Several => f.op = "each"
  BY <1>5 DEF Several
<1>10. f.op \in Readers \cup Several \cup {"bytes", "name", "switch"}
  BY <1>4 DEF Several
<1>11. Provided(x, R, F, Q)
  BY <1>3, <1>5, <1>6, <1>7, <1>8, <1>9, <1>10 DEF Provided
<1> QED
  BY <1>11 DEF x

LEMMA ProvidedSimple ==
  ASSUME NEW l, IsSeq(l), Simple(l), NEW p, NEW R, NEW F, NEW Q
  PROVE  AllProvided(Enter(p, l), R, F, Q)
<1>1. Reached(<<>>, p, R, F, Q)
  <2>1. DOMAIN <<>> = {}
    OBVIOUS
  <2> QED
    BY <2>1 DEF Reached
<1> QED
  BY <1>1, SimpleUndone, ProvidedEnters

LEMMA ProvidedMore ==
  ASSUME NEW F, NEW Q, NEW F2, NEW Q2, Grows(F, Q, F2, Q2), NEW x, NEW R, Provided(x, R, F, Q)
  PROVE  Provided(x, R, F2, Q2)
<1>1. /\ \A y : Comes(R, y, F, Q) => Comes(R, y, F2, Q2)
      /\ \A q : Frees(R, q, F, Q) => Frees(R, q, F2, Q2)
  BY ComesMore
<1> DEFINE f == x.field
           p == x.path
<1>2. /\ f.op \in Readers \cup Several \cup {"bytes", "name", "switch"}
      /\ f.op \in {"bytes", "name", "each"} => Frees(R, Spot(x), F2, Q2)
  BY <1>1 DEF Provided
<1>3. ASSUME f.op \in Several
      PROVE  \/ Simple(f.element)
             \/ \E g : /\ Comes(R, [path |-> p, field |-> g], F2, Q2)
                       /\ SameArray(g, f) /\ Undoes(g.element, f.element)
  BY <1>1, <1>3 DEF Provided
<1>4. ASSUME f.op = "loop"
      PROVE  Append(p, f.count) \in DOMAIN F2 /\ f.done \in Nat /\ f.done <= F2[Append(p, f.count)]
  BY <1>4 DEF Provided, Grows
<1>5. ASSUME f.op = "switch", NEW c \in DOMAIN f.cases
      PROVE  \/ Simple(f.cases[c].layout)
             \/ \E g : /\ Comes(R, [path |-> p, field |-> g], F2, Q2)
                       /\ g.op = "switch" /\ g.name = f.name
                       /\ \E d \in DOMAIN g.cases : /\ OnlyCase(g, d, f.cases[c].values)
                                                    /\ Undoes(g.cases[d].layout, f.cases[c].layout)
  BY <1>1, <1>5 DEF Provided
<1> QED
  BY <1>2, <1>3, <1>4, <1>5 DEF Provided

\* What visiting a provided item puts on the stack is provided.
LEMMA ProvidedCase ==
  ASSUME NEW x, TidyItem(x), x.field.op = "switch", NEW R, NEW F, NEW Q, Provided(x, R, F, Q),
         Spot(x) \in DOMAIN F, NEW c \in DOMAIN x.field.cases,
         F[Spot(x)] \in x.field.cases[c].values
  PROVE  AllProvided(Enter(x.path, x.field.cases[c].layout), R, F, Q)
<1> DEFINE l == x.field.cases[c].layout
           p == x.path
<1>1. Tidy(l)
  BY DEF TidyItem, TidyCases
<1>2. IsSeq(l)
  <2> HIDE DEF l
  <2> QED
    BY <1>1, TidyIs
<1>3. CASE Simple(l)
  <2> HIDE DEF l, p
  <2>1. AllProvided(Enter(p, l), R, F, Q)
    BY <1>2, <1>3, ProvidedSimple
  <2> QED
    BY <2>1 DEF l, p
<1>4. CASE ~Simple(l)
  <2>1. PICK g : /\ Comes(R, [path |-> p, field |-> g], F, Q)
                 /\ g.op = "switch" /\ g.name = x.field.name
                 /\ \E d \in DOMAIN g.cases : /\ OnlyCase(g, d, x.field.cases[c].values)
                                              /\ Undoes(g.cases[d].layout, l)
    BY <1>4 DEF Provided
  <2>2. PICK d \in DOMAIN g.cases : /\ OnlyCase(g, d, x.field.cases[c].values)
                                    /\ Undoes(g.cases[d].layout, l)
    BY <2>1
  <2> DEFINE y == [path |-> p, field |-> g]
             fl == g.cases[d].layout
  <2>3. y.path = p /\ y.field = g /\ Comes(R, y, F, Q)
    BY <2>1
  <2> HIDE DEF y
  <2>4. Spot(y) = Spot(x)
    BY <2>1, <2>3 DEF Spot
  <2>5. /\ F[Spot(y)] \in g.cases[d].values
        /\ \A e \in DOMAIN g.cases : F[Spot(y)] \in g.cases[e].values => e = d
    BY <2>2, <2>4 DEF OnlyCase
  <2>6. ASSUME NEW k \in DOMAIN fl PROVE Comes(R, [path |-> p, field |-> fl[k]], F, Q)
    <3> DEFINE z == [path |-> p, field |-> fl[k]]
    <3>1. OpensCase(y, z, F)
      BY <2>1, <2>3, <2>4, <2>5 DEF OpensCase
    <3>2. Opens(y, z, F, Q)
      BY <3>1 DEF Opens
    <3> HIDE DEF z
    <3>3. Comes(R, z, F, Q)
      BY <2>3, <3>2, ComesOn
    <3> QED
      BY <3>3 DEF z
  <2>7. Undoes(fl, l)
    BY <2>2
  <2>8. Reached(fl, p, R, F, Q)
    BY <2>6 DEF Reached
  <2> HIDE DEF l, fl, p
  <2>9. AllProvided(Enter(p, l), R, F, Q)
    BY <1>2, <2>7, <2>8, ProvidedEnters
  <2> QED
    BY <2>9 DEF l, p
<1> QED
  BY <1>3, <1>4

LEMMA ProvidedLoop ==
  ASSUME NEW x, TidyItem(x), x.field.op = "each", NEW R, NEW F, NEW Q, Provided(x, R, F, Q),
         Append(x.path, x.field.count) \in DOMAIN F, F[Append(x.path, x.field.count)] \in Nat
  PROVE  AllProvided(LoopOf(x), R, F, Q)
<1> DEFINE y == LoopOf(x)[1]
<1>1. /\ Len(LoopOf(x)) = 1 /\ y.path = x.path
      /\ y.field = [op |-> "loop", name |-> x.field.name, count |-> x.field.count,
                    element |-> x.field.element, done |-> 0]
  BY LoopStack
<1>2. /\ y.field.op = "loop" /\ y.field.name = x.field.name /\ y.field.count = x.field.count
      /\ y.field.element = x.field.element /\ y.field.done = 0
  BY <1>1
<1> HIDE DEF y
<1>3. \/ Simple(x.field.element)
      \/ \E g : /\ Comes(R, [path |-> x.path, field |-> g], F, Q)
                /\ SameArray(g, x.field) /\ Undoes(g.element, x.field.element)
  BY DEF Provided, Several
<1>4. \A g : SameArray(g, x.field) <=> SameArray(g, y.field)
  BY <1>2 DEF SameArray
<1>5. \/ Simple(y.field.element)
      \/ \E g : /\ Comes(R, [path |-> y.path, field |-> g], F, Q)
                /\ SameArray(g, y.field) /\ Undoes(g.element, y.field.element)
  BY <1>1, <1>2, <1>3, <1>4
<1>6. Provided(y, R, F, Q)
  BY <1>1, <1>2, <1>5 DEF Provided, Several
<1> QED
  BY <1>1, <1>6 DEF AllProvided, y

LEMMA ProvidedTurn ==
  ASSUME NEW x, TidyItem(x), x.field.op = "loop", NEW R, NEW F, NEW Q, Provided(x, R, F, Q),
         Spot(x) \in DOMAIN Q, Q[Spot(x)] # NULL,
         F[Append(x.path, x.field.count)] \in Nat,
         x.field.done # F[Append(x.path, x.field.count)]
  PROVE  AllProvided(TurnOf(x), R, F, Q)
<1> DEFINE el == x.field.element
           n == F[Append(x.path, x.field.count)]
           t == TurnOf(x)
           np == NextElement(x)
           e == Enter(np, el)
<1>1. /\ IsSeq(el) /\ Len(t) = Len(el) + 1
      /\ \A i \in 1..Len(el) : t[i] = [path |-> np, field |-> el[i]]
      /\ t[Len(el) + 1] = Later(x)
  BY TurnStack
<1>2. Len(el) \in Nat /\ Len(e) = Len(el)
      /\ \A i \in 1..Len(el) : e[i] = [path |-> np, field |-> el[i]]
  <2>1. IsSeq(el)
    BY <1>1
  <2> HIDE DEF el, np
  <2> QED
    BY <2>1, SeqEnter, SeqLen
<1>3. /\ Append(x.path, x.field.count) \in DOMAIN F /\ x.field.done \in Nat /\ n \in Nat
      /\ x.field.done + 1 <= n /\ x.field.done + 1 \in 1..n /\ x.field.done + 1 \in Nat
  <2>1. Append(x.path, x.field.count) \in DOMAIN F /\ x.field.done \in Nat /\ x.field.done <= n
    BY DEF Provided
  <2>2. n \in Nat /\ x.field.done # n
    OBVIOUS
  <2> HIDE DEF n
  <2> QED
    BY <2>1, <2>2
<1>4. \/ Simple(el)
      \/ \E g : /\ Comes(R, [path |-> x.path, field |-> g], F, Q)
                /\ SameArray(g, x.field) /\ Undoes(g.element, el)
  BY DEF Provided, Several
<1>5. Provided(Later(x), R, F, Q)
  <2> DEFINE y == Later(x)
  <2>1. /\ y.path = x.path
        /\ y.field = [op |-> "loop", name |-> x.field.name,
                      count |-> x.field.count, element |-> x.field.element,
                      done |-> x.field.done + 1]
    BY LaterIs
  <2> HIDE DEF y
  <2>2. /\ y.field.op = "loop" /\ y.field.name = x.field.name /\ y.field.count = x.field.count
        /\ y.field.element = el /\ y.field.done = x.field.done + 1
    BY <2>1
  <2>3. \A g : SameArray(g, x.field) <=> SameArray(g, y.field)
    BY <2>2 DEF SameArray
  <2>4. \/ Simple(y.field.element)
        \/ \E g : /\ Comes(R, [path |-> y.path, field |-> g], F, Q)
                  /\ SameArray(g, y.field) /\ Undoes(g.element, y.field.element)
    BY <1>4, <2>1, <2>2, <2>3
  <2>5. Append(y.path, y.field.count) \in DOMAIN F /\ y.field.done \in Nat
        /\ y.field.done <= F[Append(y.path, y.field.count)]
    BY <1>3, <2>1, <2>2
  <2>6. Provided(y, R, F, Q)
    BY <2>2, <2>4, <2>5 DEF Provided, Several
  <2> QED
    BY <2>6 DEF y
<1>6. AllProvided(e, R, F, Q)
  <2>1. CASE Simple(el)
    <3> HIDE DEF el, np
    <3> QED
      BY <1>1, <2>1, ProvidedSimple
  <2>2. CASE ~Simple(el)
    <3>1. PICK g : /\ Comes(R, [path |-> x.path, field |-> g], F, Q)
                   /\ SameArray(g, x.field) /\ Undoes(g.element, el)
      BY <1>4, <2>2
    <3> DEFINE y == [path |-> x.path, field |-> g]
               fl == g.element
    <3>2. y.path = x.path /\ y.field = g /\ Comes(R, y, F, Q)
      BY <3>1
    <3> HIDE DEF y
    <3>3. g.op = "each" /\ g.name = x.field.name /\ g.count = x.field.count
      BY <3>1 DEF SameArray
    <3>4. Spot(y) = Spot(x)
      BY <3>2, <3>3 DEF Spot
    <3>5. np = y.path \o <<y.field.name, x.field.done + 1>>
      BY <3>2, <3>3 DEF NextElement
    <3>6. Append(y.path, y.field.count) = Append(x.path, x.field.count)
      BY <3>2, <3>3
    <3>7. ASSUME NEW k \in DOMAIN fl PROVE Comes(R, [path |-> np, field |-> fl[k]], F, Q)
      <4> DEFINE z == [path |-> np, field |-> fl[k]]
                 d == x.field.done + 1
      <4>1. d \in 1..F[Append(y.path, y.field.count)] /\ Append(y.path, y.field.count) \in DOMAIN F
        BY <1>3, <3>6
      <4>2. y.field.op \in Several /\ y.field.op # "loop"
        BY <3>2, <3>3 DEF Several
      <4>3. Spot(y) \in DOMAIN Q /\ Q[Spot(y)] # NULL
        BY <3>4
      <4>4. k \in DOMAIN y.field.element
            /\ z = [path |-> y.path \o <<y.field.name, d>>, field |-> y.field.element[k]]
        BY <3>2, <3>5
      <4> HIDE DEF z, d
      <4>5. OpensElement(y, z, F, Q)
        BY <4>1, <4>2, <4>3, <4>4 DEF OpensElement
      <4>6. Comes(R, z, F, Q)
        BY <3>2, <4>5, ComesOn DEF Opens
      <4> QED
        BY <4>6 DEF z
    <3>8. Reached(fl, np, R, F, Q)
      BY <3>7 DEF Reached
    <3>9. Undoes(fl, el) /\ IsSeq(el)
      BY <1>1, <3>1
    <3> HIDE DEF el, np, fl
    <3> QED
      BY <3>8, <3>9, ProvidedEnters
  <2> QED
    BY <2>1, <2>2
<1> HIDE DEF e, t, el, np
<1>7. ASSUME NEW i \in 1..Len(t) PROVE Provided(t[i], R, F, Q)
  <2>1. CASE i \in 1..Len(el)
    <3>1. t[i] = e[i] /\ i \in 1..Len(e)
      BY <1>1, <1>2, <2>1
    <3> QED
      BY <1>6, <3>1 DEF AllProvided
  <2>2. CASE i = Len(el) + 1
    BY <1>1, <1>5, <2>2
  <2> QED
    BY <1>1, <1>2, <2>1, <2>2
<1> QED
  BY <1>7 DEF AllProvided, t

LEMMA ProvidedPush ==
  ASSUME NEW s, Stack(s), s # <<>>, NEW new, Stack(new), NEW R, NEW F, NEW Q,
         AllProvided(s, R, F, Q), AllProvided(new, R, F, Q)
  PROVE  AllProvided(new \o Tail(s), R, F, Q)
<1> DEFINE r == new \o Tail(s)
<1>1. /\ Len(new) \in Nat /\ Len(s) \in Nat /\ Len(r) = Len(new) + Len(s) - 1
      /\ \A i \in 1..Len(new) : i \in 1..Len(r) /\ r[i] = new[i]
      /\ \A i \in 2..Len(s) : Len(new) + i - 1 \in 1..Len(r) /\ r[Len(new) + i - 1] = s[i]
      /\ \A m \in 1..Len(r) : \/ m \in 1..Len(new)
                              \/ \E i \in 2..Len(s) : m = Len(new) + i - 1
  BY PushItems
<1> HIDE DEF r
<1>2. ASSUME NEW m \in 1..Len(r) PROVE Provided(r[m], R, F, Q)
  <2>1. CASE m \in 1..Len(new)
    BY <1>1, <2>1 DEF AllProvided
  <2>2. CASE \E i \in 2..Len(s) : m = Len(new) + i - 1
    <3>1. PICK i \in 2..Len(s) : m = Len(new) + i - 1
      BY <2>2
    <3>2. r[m] = s[i] /\ i \in 1..Len(s)
      BY <1>1, <3>1
    <3> QED
      BY <3>2 DEF AllProvided
  <2> QED
    BY <1>1, <2>1, <2>2
<1> QED
  BY <1>2 DEF AllProvided, r

LEMMA ProvidedTail ==
  ASSUME NEW s, IsSeq(s), s # <<>>, NEW R, NEW F, NEW Q, AllProvided(s, R, F, Q)
  PROVE  AllProvided(Tail(s), R, F, Q)
<1>1. /\ Len(s) > 0 /\ Len(Tail(s)) = Len(s) - 1 /\ Len(s) \in Nat
      /\ \A i \in 1..(Len(s) - 1) : Tail(s)[i] = s[i + 1]
  BY SeqTail, SeqLen
<1>2. \A i \in 1..Len(Tail(s)) : i + 1 \in 1..Len(s) /\ Tail(s)[i] = s[i + 1]
  BY <1>1
<1> QED
  BY <1>2 DEF AllProvided

-----------------------------------------------------------------------------
(***************************************************************************)
(* What is freed, beside what is parsed.                                   *)
(***************************************************************************)

\* Blocks, and arrays of elements that hold none.
LEMMA BlockUndone ==
  ASSUME NEW fl, IsSeq(fl), NEW l,
         \A i \in DOMAIN l : \/ l[i].op \in Readers \cup {"bytes", "name"}
                             \/ l[i].op = "each" /\ Simple(l[i].element),
         \A i \in DOMAIN l : l[i].op \in {"bytes", "name", "each"} =>
           \E k \in DOMAIN fl : fl[k].op = "free" /\ fl[k].name = l[i].name
  PROVE  Undoes(fl, l)
<1>1. UndoesStep(fl, l, {})
  BY DEF UndoesStep, Readers
<1> QED
  BY <1>1, UndoesIntro

\* Arrays of elements that hold some.
LEMMA ArrayUndone ==
  ASSUME NEW fl, IsSeq(fl), NEW l, NEW fe, NEW e, Undoes(fe, e),
         \A i \in DOMAIN l : l[i].op \in Readers \cup {"each"},
         \A i \in DOMAIN l : l[i].op = "each" =>
           /\ l[i].element = e
           /\ \E k \in DOMAIN fl : SameArray(fl[k], l[i]) /\ fl[k].element = fe
           /\ \E k \in DOMAIN fl : fl[k].op = "free" /\ fl[k].name = l[i].name
  PROVE  Undoes(fl, l)
<1> DEFINE P == {<<fe, e>>}
<1>1. UndoesStep(fl, l, P)
  BY DEF UndoesStep, Readers
<1>2. \A m \in P : m = <<m[1], m[2]>> /\ Undoes(m[1], m[2])
  OBVIOUS
<1> HIDE DEF P
<1> QED
  BY <1>1, <1>2, UndoesIntro

\* The switch of a packet, in both tables; a case that holds no pointer needs
\* no counterpart.
LEMMA SwitchUndone ==
  ASSUME NEW fl, IsSeq(fl), NEW l,
         \A i \in DOMAIN l : l[i].op \in Readers \cup {"switch"},
         \A i \in DOMAIN l : l[i].op = "switch" =>
           \A c \in DOMAIN l[i].cases :
             \/ Simple(l[i].cases[c].layout)
             \/ \E k \in DOMAIN fl :
                  /\ fl[k].op = "switch" /\ fl[k].name = l[i].name
                  /\ \E d \in DOMAIN fl[k].cases :
                       /\ OnlyCase(fl[k], d, l[i].cases[c].values)
                       /\ Undoes(fl[k].cases[d].layout, l[i].cases[c].layout)
  PROVE  Undoes(fl, l)
<1> DEFINE Q == {<<fl[k].cases, l[i].cases>> : k \in DOMAIN fl, i \in DOMAIN l}
           P == {m \in UNION {{<<q[1][d].layout, q[2][c].layout>> :
                                 d \in DOMAIN q[1], c \in DOMAIN q[2]} : q \in Q} :
                   Undoes(m[1], m[2])}
<1>1. ASSUME NEW k \in DOMAIN fl, NEW i \in DOMAIN l, NEW d \in DOMAIN fl[k].cases,
             NEW c \in DOMAIN l[i].cases,
             Undoes(fl[k].cases[d].layout, l[i].cases[c].layout)
      PROVE  <<fl[k].cases[d].layout, l[i].cases[c].layout>> \in P
  <2> DEFINE q == <<fl[k].cases, l[i].cases>>
             m == <<fl[k].cases[d].layout, l[i].cases[c].layout>>
  <2>1. q \in Q /\ q[1] = fl[k].cases /\ q[2] = l[i].cases
    OBVIOUS
  <2>2. m \in {<<q[1][b].layout, q[2][a].layout>> : b \in DOMAIN q[1], a \in DOMAIN q[2]}
    BY <2>1
  <2>3. m[1] = fl[k].cases[d].layout /\ m[2] = l[i].cases[c].layout
    OBVIOUS
  <2> HIDE DEF Q, q, m
  <2>4. m \in P
    BY <1>1, <2>1, <2>2, <2>3 DEF m
  <2> QED
    BY <2>4 DEF m
<1>2. \A m \in P : m = <<m[1], m[2]>> /\ Undoes(m[1], m[2])
  OBVIOUS
<1> HIDE DEF P
<1>3. ASSUME NEW i \in DOMAIN l, l[i].op = "switch", NEW c \in DOMAIN l[i].cases
      PROVE  \/ Simple(l[i].cases[c].layout)
             \/ \E k \in DOMAIN fl :
                  /\ fl[k].op = "switch" /\ fl[k].name = l[i].name
                  /\ \E d \in DOMAIN fl[k].cases :
                       /\ OnlyCase(fl[k], d, l[i].cases[c].values)
                       /\ <<fl[k].cases[d].layout, l[i].cases[c].layout>> \in P
  BY <1>1, <1>3
<1>4. \A i \in DOMAIN l : l[i].op \notin {"bytes", "name", "each"}
  BY DEF Readers
<1>5. UndoesStep(fl, l, P)
  BY <1>3, <1>4 DEF UndoesStep
<1> QED
  BY <1>2, <1>5, UndoesIntro

LEMMA SimpleIsUndone ==
  ASSUME NEW fl, IsSeq(fl), NEW l, Simple(l)
  PROVE  Undoes(fl, l)
BY BlockUndone DEF Simple, Readers

LEMMA SupportFunctionUndone == Undoes(<< Free("function_types") >>, SupportFunctionParse)
<1> DEFINE e == << Enum("function_type", FunctionTypes) >>
           fl == << Free("function_types") >>
           l == SupportFunctionParse
<1>1. Simple(e)
  BY Tuple1 DEF Simple, Enum, Readers
<1> HIDE DEF e
<1>2. l = << Enum("fixed_value", {0}), Count("num_function_types"),
             Each("function_types", "num_function_types", e) >>
  BY Zenon DEF SupportFunctionParse, e
<1>3. /\ IsSeq(fl) /\ DOMAIN fl = 1..1 /\ fl[1].op = "free" /\ fl[1].name = "function_types"
  BY Tuple1 DEF Free
<1>4. /\ DOMAIN l = 1..3 /\ l[1].op = "enum" /\ l[2].op = "count" /\ l[3].op = "each"
      /\ l[3].element = e /\ l[3].name = "function_types"
  BY <1>2, Tuple3 DEF Enum, Count, Each
<1> HIDE DEF l, fl
<1>5. Undoes(fl, l)
  BY <1>1, <1>3, <1>4, BlockUndone DEF Readers
<1> QED
  BY <1>5 DEF fl, l

LEMMA BatteryUndone == ASSUME NEW fl, IsSeq(fl) PROVE Undoes(fl, BatteryParse)
<1> DEFINE c1 == << Plain("level"), Plain("charging") >>
           c2 == << Plain("left.level"), Plain("left.charging"),
                    Plain("right.level"), Plain("right.charging") >>
           cs == << Case(OneBattery, c1), Case(LeftRightBattery, c2) >>
           l == << Inquired(BatteryInquired), Switch("inquired_type", cs) >>
<1>1. Simple(c1) /\ Simple(c2)
  BY Tuple2, Tuple4 DEF Simple, Plain, Readers
<1> HIDE DEF c1, c2
<1>2. DOMAIN cs = 1..2 /\ cs[1].layout = c1 /\ cs[2].layout = c2
  BY Tuple2 DEF Case
<1> HIDE DEF cs
<1>3. /\ DOMAIN l = 1..2 /\ l[1].op = "enum" /\ l[2].op = "switch" /\ l[2].cases = cs
  BY Tuple2 DEF Inquired, Enum, Switch
<1>4. BatteryParse = l
  BY Zenon DEF BatteryParse, l, cs, c1, c2
<1> HIDE DEF l
<1>5. Undoes(fl, l)
  BY <1>1, <1>2, <1>3, SwitchUndone DEF Readers
<1> QED
  BY <1>4, <1>5

LEMMA ConnectionStatusUndone == ASSUME NEW fl, IsSeq(fl) PROVE Undoes(fl, ConnectionStatusParse)
<1> DEFINE c1 == << Enum("left_status", OnOff), Enum("right_status", OnOff) >>
           cs == << Case({1}, c1) >>
           l == << Inquired({1}), Switch("inquired_type", cs) >>
<1>1. Simple(c1)
  BY Tuple2 DEF Simple, Enum, Readers
<1> HIDE DEF c1
<1>2. DOMAIN cs = 1..1 /\ cs[1].layout = c1
  BY Tuple1 DEF Case
<1> HIDE DEF cs
<1>3. /\ DOMAIN l = 1..2 /\ l[1].op = "enum" /\ l[2].op = "switch" /\ l[2].cases = cs
  BY Tuple2 DEF Inquired, Enum, Switch
<1>4. ConnectionStatusParse = l
  BY Zenon DEF ConnectionStatusParse, l, cs, c1
<1> HIDE DEF l
<1>5. Undoes(fl, l)
  BY <1>1, <1>2, <1>3, SwitchUndone DEF Readers
<1> QED
  BY <1>4, <1>5

LEMMA NcasmParamUndone == ASSUME NEW fl, IsSeq(fl) PROVE Undoes(fl, NcasmParamParse)
<1> DEFINE c1 == << Enum("nc_setting_type", OnOff), Enum("nc_setting_value", OnOff) >>
           c2 == << Enum("ncasm_effect", NcasmEffects), Enum("ncasm_setting_type", {0, 1, 2}),
                    Plain("ncasm_amount"), Enum("asm_setting_type", OnOff),
                    Enum("asm_id", {0, 1}), Plain("asm_amount") >>
           c3 == << Enum("ncasm_effect", NcasmEffects), Enum("asm_setting_type", OnOff),
                    Enum("asm_id", {0, 1}), Plain("asm_amount") >>
           cs == << Case(Nc, c1), Case(NcAndAsm, c2), Case(Asm, c3) >>
           l == << Inquired(NcasmInquired), Switch("inquired_type", cs) >>
<1>1. Simple(c1) /\ Simple(c2) /\ Simple(c3)
  BY Tuple2, Tuple4, Tuple6 DEF Simple, Enum, Plain, Readers
<1> HIDE DEF c1, c2, c3
<1>2. DOMAIN cs = 1..3 /\ cs[1].layout = c1 /\ cs[2].layout = c2 /\ cs[3].layout = c3
  BY Tuple3 DEF Case
<1> HIDE DEF cs
<1>3. /\ DOMAIN l = 1..2 /\ l[1].op = "enum" /\ l[2].op = "switch" /\ l[2].cases = cs
  BY Tuple2 DEF Inquired, Enum, Switch
<1>4. NcasmParamParse = l
  BY Zenon DEF NcasmParamParse, l, cs, c1, c2, c3
<1> HIDE DEF l
<1>5. Undoes(fl, l)
  BY <1>1, <1>2, <1>3, SwitchUndone DEF Readers
<1> QED
  BY <1>4, <1>5

LEMMA EqParamUndone == Undoes(EqParamFree, EqParamParse)
<1> DEFINE c1 == << Enum("preset_id", EqPresetIds), Count("num_levels"),
                    Bytes("levels", "num_levels") >>
           c2 == << Plain("level") >>
           cs == << Case(PresetEq, c1), Case(Ebb, c2) >>
           l == << Inquired(EqebbInquired), Switch("inquired_type", cs) >>
           f1 == << Free("levels") >>
           fs == << Case(PresetEq, f1) >>
           fl == << Switch("inquired_type", fs) >>
<1>1. Simple(c2)
  BY Tuple1 DEF Simple, Plain, Readers
<1>2. Undoes(f1, c1)
  <2>1. IsSeq(f1) /\ DOMAIN f1 = 1..1 /\ f1[1].op = "free" /\ f1[1].name = "levels"
    BY Tuple1 DEF Free
  <2>2. /\ DOMAIN c1 = 1..3 /\ c1[1].op = "enum" /\ c1[2].op = "count" /\ c1[3].op = "bytes"
        /\ c1[3].name = "levels"
    BY Tuple3 DEF Enum, Count, Bytes
  <2> HIDE DEF f1, c1
  <2> QED
    BY <2>1, <2>2, BlockUndone DEF Readers
<1> HIDE DEF c1, c2, f1
<1>3. /\ DOMAIN cs = 1..2 /\ cs[1].layout = c1 /\ cs[2].layout = c2 /\ cs[1].values = PresetEq
      /\ DOMAIN fs = 1..1 /\ fs[1].layout = f1 /\ fs[1].values = PresetEq
  BY Tuple1, Tuple2 DEF Case
<1> HIDE DEF cs, fs
<1>4. /\ DOMAIN l = 1..2 /\ l[1].op = "enum" /\ l[2].op = "switch" /\ l[2].cases = cs
      /\ l[2].name = "inquired_type"
      /\ IsSeq(fl) /\ DOMAIN fl = 1..1 /\ fl[1].op = "switch" /\ fl[1].cases = fs
      /\ fl[1].name = "inquired_type"
  BY Tuple1, Tuple2 DEF Inquired, Enum, Switch
<1>5. EqParamParse = l /\ EqParamFree = fl
  BY Zenon DEF EqParamParse, EqParamFree, l, cs, c1, c2, fl, fs, f1
<1> HIDE DEF l, fl
<1>6. OnlyCase(fl[1], 1, cs[1].values)
  BY <1>3, <1>4 DEF OnlyCase
<1>7. \A c \in DOMAIN cs : \/ Simple(cs[c].layout)
                           \/ \E d \in DOMAIN fs : /\ OnlyCase(fl[1], d, cs[c].values)
                                                   /\ Undoes(fs[d].layout, cs[c].layout)
  BY <1>1, <1>2, <1>3, <1>6
<1>8. Undoes(fl, l)
  BY <1>4, <1>7, SwitchUndone DEF Readers
<1> QED
  BY <1>5, <1>8

LEMMA PlayParamUndone == Undoes(PlayParamFree, PlayParamParse)
<1> DEFINE c1 == << Enum("status", {0, 1, 2}), Clamped("len"), Bytes("data", "len") >>
           c2 == << Plain("volume") >>
           cs == << Case(Names, c1), Case({Volume}, c2) >>
           x == Inquired({1})
           y == Enum("detailed_data_type", PlayDetailed)
           z == Switch("detailed_data_type", cs)
           l == << x, y, z >>
           f1 == << Free("data") >>
           fs == << Case(Names, f1) >>
           fl == << Switch("detailed_data_type", fs) >>
<1>1. Simple(c2)
  BY Tuple1 DEF Simple, Plain, Readers
<1>2. Undoes(f1, c1)
  <2>1. IsSeq(f1) /\ DOMAIN f1 = 1..1 /\ f1[1].op = "free" /\ f1[1].name = "data"
    BY Tuple1 DEF Free
  <2>2. /\ DOMAIN c1 = 1..3 /\ c1[1].op = "enum" /\ c1[2].op = "clamped" /\ c1[3].op = "bytes"
        /\ c1[3].name = "data"
    BY Tuple3 DEF Enum, Clamped, Bytes
  <2> HIDE DEF f1, c1
  <2> QED
    BY <2>1, <2>2, BlockUndone DEF Readers
<1> HIDE DEF c1, c2, f1
<1>3. /\ DOMAIN cs = 1..2 /\ cs[1].layout = c1 /\ cs[2].layout = c2 /\ cs[1].values = Names
      /\ DOMAIN fs = 1..1 /\ fs[1].layout = f1 /\ fs[1].values = Names
  BY Tuple1, Tuple2 DEF Case
<1> HIDE DEF cs, fs
<1>4. x.op = "enum" /\ y.op = "enum" /\ z.op = "switch" /\ z.cases = cs /\ z.name = "detailed_data_type"
  BY DEF Inquired, Enum, Switch
<1>5. PlayParamParse = <<x, y>> \o <<z>> /\ PlayParamFree = fl
  BY Zenon DEF PlayParamParse, PlayGetParse, PlayParamFree, x, y, z, cs, c1, c2, fl, fs, f1
<1> HIDE DEF x, y, z
<1>6. /\ DOMAIN l = 1..3 /\ l[1] = x /\ l[2] = y /\ l[3] = z
      /\ IsSeq(fl) /\ DOMAIN fl = 1..1 /\ fl[1].op = "switch" /\ fl[1].cases = fs
      /\ fl[1].name = "detailed_data_type"
  BY Tuple1, Tuple3 DEF Switch
<1>7. PlayParamParse = l
  BY <1>5, TwoAndOne
<1> HIDE DEF l, fl
<1>8. OnlyCase(fl[1], 1, cs[1].values)
  BY <1>3, <1>6 DEF OnlyCase
<1>9. \A c \in DOMAIN cs : \/ Simple(cs[c].layout)
                           \/ \E d \in DOMAIN fs : /\ OnlyCase(fl[1], d, cs[c].values)
                                                   /\ Undoes(fs[d].layout, cs[c].layout)
  BY <1>1, <1>2, <1>3, <1>8
<1>10. Undoes(fl, l)
  BY <1>4, <1>6, <1>9, SwitchUndone DEF Readers
<1> QED
  BY <1>5, <1>7, <1>10

LEMMA SystemParamUndone == Undoes(SystemParamFree, SystemParamParse)
<1> DEFINE e == << Enum("preset", ButtonPresets) >>
           c1 == << Enum("setting_type", {0}), Enum("setting_value", OnOff) >>
           c2 == << Enum("parameter_type", {1}), Enum("element_id", AutoPowerOffIds),
                    Enum("select_time_element_id", AutoPowerOffIds) >>
           c3 == << Count("num_presets"), Each("presets", "num_presets", e) >>
           cs == << Case(OnOffSetting \cup SmartTalking, c1), Case(AutoPowerOff, c2),
                    Case(AssignableKeys, c3) >>
           l == << Inquired(SystemInquired), Switch("inquired_type", cs) >>
           f3 == << Free("presets") >>
           fs == << Case(AssignableKeys, f3) >>
           fl == << Switch("inquired_type", fs) >>
<1>1. Simple(c1) /\ Simple(c2) /\ Simple(e)
  BY Tuple1, Tuple2, Tuple3 DEF Simple, Enum, Readers
<1> HIDE DEF e
<1>2. Undoes(f3, c3)
  <2>1. IsSeq(f3) /\ DOMAIN f3 = 1..1 /\ f3[1].op = "free" /\ f3[1].name = "presets"
    BY Tuple1 DEF Free
  <2>2. /\ DOMAIN c3 = 1..2 /\ c3[1].op = "count" /\ c3[2].op = "each" /\ c3[2].element = e
        /\ c3[2].name = "presets"
    BY Tuple2 DEF Count, Each
  <2> HIDE DEF f3, c3
  <2> QED
    BY <1>1, <2>1, <2>2, BlockUndone DEF Readers
<1> HIDE DEF c1, c2, c3, f3
<1>3. /\ DOMAIN cs = 1..3 /\ cs[1].layout = c1 /\ cs[2].layout = c2 /\ cs[3].layout = c3
      /\ cs[3].values = AssignableKeys
      /\ DOMAIN fs = 1..1 /\ fs[1].layout = f3 /\ fs[1].values = AssignableKeys
  BY Tuple1, Tuple3 DEF Case
<1> HIDE DEF cs, fs
<1>4. /\ DOMAIN l = 1..2 /\ l[1].op = "enum" /\ l[2].op = "switch" /\ l[2].cases = cs
      /\ l[2].name = "inquired_type"
      /\ IsSeq(fl) /\ DOMAIN fl = 1..1 /\ fl[1].op = "switch" /\ fl[1].cases = fs
      /\ fl[1].name = "inquired_type"
  BY Tuple1, Tuple2 DEF Inquired, Enum, Switch
<1>5. SystemParamParse = l /\ SystemParamFree = fl
  BY Zenon DEF SystemParamParse, SystemParamFree, l, cs, c1, c2, c3, e, fl, fs, f3
<1> HIDE DEF l, fl
<1>6. OnlyCase(fl[1], 1, cs[3].values)
  BY <1>3, <1>4 DEF OnlyCase
<1>7. \A c \in DOMAIN cs : \/ Simple(cs[c].layout)
                           \/ \E d \in DOMAIN fs : /\ OnlyCase(fl[1], d, cs[c].values)
                                                   /\ Undoes(fs[d].layout, cs[c].layout)
  BY <1>1, <1>2, <1>3, <1>6
<1>8. Undoes(fl, l)
  BY <1>4, <1>7, SwitchUndone DEF Readers
<1> QED
  BY <1>5, <1>8

LEMMA EqCapabilityUndone ==
  Undoes(<< Switch("inquired_type",
             << Case(PresetEq,
                     << Each("presets", "num_presets", << Free("name") >>),
                        Free("presets") >>) >>) >>, EqCapabilityParse)
<1> DEFINE e == << Enum("preset_id", EqPresetIds), Count("name_len"), Bytes("name", "name_len") >>
           c1 == << Plain("band_count"), Plain("level_steps"), Count("num_presets"),
                    Each("presets", "num_presets", e) >>
           c2 == << Plain("min_level"), Plain("max_level") >>
           cs == << Case(PresetEq, c1), Case(Ebb, c2) >>
           l == << Inquired(EqebbInquired), Switch("inquired_type", cs) >>
           fe == << Free("name") >>
           f1 == << Each("presets", "num_presets", fe), Free("presets") >>
           fs == << Case(PresetEq, f1) >>
           fl == << Switch("inquired_type", fs) >>
<1>1. Simple(c2)
  BY Tuple2 DEF Simple, Plain, Readers
<1>2. Undoes(fe, e)
  <2>1. IsSeq(fe) /\ DOMAIN fe = 1..1 /\ fe[1].op = "free" /\ fe[1].name = "name"
    BY Tuple1 DEF Free
  <2>2. /\ DOMAIN e = 1..3 /\ e[1].op = "enum" /\ e[2].op = "count" /\ e[3].op = "bytes"
        /\ e[3].name = "name"
    BY Tuple3 DEF Enum, Count, Bytes
  <2> HIDE DEF fe, e
  <2> QED
    BY <2>1, <2>2, BlockUndone DEF Readers
<1> HIDE DEF e, fe
<1>3. Undoes(f1, c1)
  <2>1. /\ IsSeq(f1) /\ DOMAIN f1 = 1..2 /\ f1[2].op = "free" /\ f1[2].name = "presets"
        /\ f1[1].op = "each" /\ f1[1].name = "presets" /\ f1[1].count = "num_presets"
        /\ f1[1].element = fe
    BY Tuple2 DEF Free, Each
  <2>2. /\ DOMAIN c1 = 1..4 /\ c1[1].op = "plain" /\ c1[2].op = "plain" /\ c1[3].op = "count"
        /\ c1[4].op = "each" /\ c1[4].name = "presets" /\ c1[4].count = "num_presets"
        /\ c1[4].element = e
    BY Tuple4 DEF Plain, Count, Each
  <2> HIDE DEF f1, c1
  <2>3. SameArray(f1[1], c1[4])
    BY <2>1, <2>2 DEF SameArray
  <2>4. \A i \in DOMAIN c1 : c1[i].op \in Readers \cup {"each"}
    BY <2>2 DEF Readers
  <2>5. \A i \in DOMAIN c1 : c1[i].op = "each" => i = 4
    BY <2>2
  <2> QED
    BY <1>2, <2>1, <2>2, <2>3, <2>4, <2>5, ArrayUndone
<1> HIDE DEF c1, c2, f1
<1>4. /\ DOMAIN cs = 1..2 /\ cs[1].layout = c1 /\ cs[2].layout = c2 /\ cs[1].values = PresetEq
      /\ DOMAIN fs = 1..1 /\ fs[1].layout = f1 /\ fs[1].values = PresetEq
  BY Tuple1, Tuple2 DEF Case
<1> HIDE DEF cs, fs
<1>5. /\ DOMAIN l = 1..2 /\ l[1].op = "enum" /\ l[2].op = "switch" /\ l[2].cases = cs
      /\ l[2].name = "inquired_type"
      /\ IsSeq(fl) /\ DOMAIN fl = 1..1 /\ fl[1].op = "switch" /\ fl[1].cases = fs
      /\ fl[1].name = "inquired_type"
  BY Tuple1, Tuple2 DEF Inquired, Enum, Switch
<1>6. EqCapabilityParse = l
  BY Zenon DEF EqCapabilityParse, l, cs, c1, c2, e
<1> HIDE DEF l, fl
<1>7. OnlyCase(fl[1], 1, cs[1].values)
  BY <1>4, <1>5 DEF OnlyCase
<1>8. \A c \in DOMAIN cs : \/ Simple(cs[c].layout)
                           \/ \E d \in DOMAIN fs : /\ OnlyCase(fl[1], d, cs[c].values)
                                                   /\ Undoes(fs[d].layout, cs[c].layout)
  BY <1>1, <1>3, <1>4, <1>7
<1>9. Undoes(fl, l)
  BY <1>5, <1>8, SwitchUndone DEF Readers
<1> QED
  BY <1>6, <1>9, Zenon DEF fl, fs, f1, fe

LEMMA AssignableCapabilityUndone ==
  Undoes(<< Each("capability_keys", "num_capability_keys",
              << Each("capability_presets", "num_capability_presets",
                      << Free("capability_actions") >>),
                 Free("capability_presets") >>),
            Free("capability_keys") >>, AssignableCapabilityParse)
<1> DEFINE e3 == << Enum("action", ButtonActions), Enum("function", ButtonFunctions) >>
           e2 == << Enum("preset", ButtonPresets), Count("num_capability_actions"),
                    Each("capability_actions", "num_capability_actions", e3) >>
           e1 == << Enum("key", {0, 1, 2, 3}), Enum("key_type", {0, 1}),
                    Enum("default_preset", ButtonPresets), Count("num_capability_presets"),
                    Each("capability_presets", "num_capability_presets", e2) >>
           l == << Count("num_capability_keys"), Each("capability_keys", "num_capability_keys", e1) >>
           f2 == << Free("capability_actions") >>
           f1 == << Each("capability_presets", "num_capability_presets", f2),
                    Free("capability_presets") >>
           fl == << Each("capability_keys", "num_capability_keys", f1), Free("capability_keys") >>
<1>1. Simple(e3)
  BY Tuple2 DEF Simple, Enum, Readers
<1> HIDE DEF e3
<1>2. Undoes(f2, e2)
  <2>1. IsSeq(f2) /\ DOMAIN f2 = 1..1 /\ f2[1].op = "free" /\ f2[1].name = "capability_actions"
    BY Tuple1 DEF Free
  <2>2. /\ DOMAIN e2 = 1..3 /\ e2[1].op = "enum" /\ e2[2].op = "count" /\ e2[3].op = "each"
        /\ e2[3].name = "capability_actions" /\ e2[3].element = e3
    BY Tuple3 DEF Enum, Count, Each
  <2> HIDE DEF f2, e2
  <2> QED
    BY <1>1, <2>1, <2>2, BlockUndone DEF Readers
<1> HIDE DEF e2, f2
<1>3. Undoes(f1, e1)
  <2>1. /\ IsSeq(f1) /\ DOMAIN f1 = 1..2 /\ f1[2].op = "free" /\ f1[2].name = "capability_presets"
        /\ f1[1].op = "each" /\ f1[1].name = "capability_presets"
        /\ f1[1].count = "num_capability_presets" /\ f1[1].element = f2
    BY Tuple2 DEF Free, Each
  <2>2. /\ DOMAIN e1 = 1..5 /\ e1[1].op = "enum" /\ e1[2].op = "enum" /\ e1[3].op = "enum"
        /\ e1[4].op = "count"
        /\ e1[5].op = "each" /\ e1[5].name = "capability_presets"
        /\ e1[5].count = "num_capability_presets" /\ e1[5].element = e2
    BY Tuple5 DEF Enum, Count, Each
  <2> HIDE DEF f1, e1
  <2>3. SameArray(f1[1], e1[5])
    BY <2>1, <2>2 DEF SameArray
  <2>4. \A i \in DOMAIN e1 : e1[i].op \in Readers \cup {"each"}
    BY <2>2 DEF Readers
  <2>5. \A i \in DOMAIN e1 : e1[i].op = "each" => i = 5
    BY <2>2
  <2> QED
    BY <1>2, <2>1, <2>2, <2>3, <2>4, <2>5, ArrayUndone
<1> HIDE DEF e1, f1
<1>4. Undoes(fl, l)
  <2>1. /\ IsSeq(fl) /\ DOMAIN fl = 1..2 /\ fl[2].op = "free" /\ fl[2].name = "capability_keys"
        /\ fl[1].op = "each" /\ fl[1].name = "capability_keys"
        /\ fl[1].count = "num_capability_keys" /\ fl[1].element = f1
    BY Tuple2 DEF Free, Each
  <2>2. /\ DOMAIN l = 1..2 /\ l[1].op = "count"
        /\ l[2].op = "each" /\ l[2].name = "capability_keys"
        /\ l[2].count = "num_capability_keys" /\ l[2].element = e1
    BY Tuple2 DEF Count, Each
  <2> HIDE DEF fl, l
  <2>3. SameArray(fl[1], l[2])
    BY <2>1, <2>2 DEF SameArray
  <2>4. \A i \in DOMAIN l : l[i].op \in Readers \cup {"each"}
    BY <2>2 DEF Readers
  <2>5. \A i \in DOMAIN l : l[i].op = "each" => i = 2
    BY <2>2
  <2> QED
    BY <1>3, <2>1, <2>2, <2>3, <2>4, <2>5, ArrayUndone
<1>5. AssignableCapabilityParse = l
  BY Zenon DEF AssignableCapabilityParse, l, e1, e2, e3
<1> QED
  BY <1>4, <1>5, Zenon DEF fl, f1, f2

LEMMA SystemCapabilityUndone ==
  Undoes(<< Switch("inquired_type",
             << Case(AutoPowerOff, << Free("element_ids") >>),
                Case(AssignableKeys,
                  << Each("capability_keys", "num_capability_keys",
                       << Each("capability_presets", "num_capability_presets",
                               << Free("capability_actions") >>),
                          Free("capability_presets") >>),
                     Free("capability_keys") >>) >>) >>, SystemCapabilityParse)
<1> DEFINE e == << Enum("element_id", AutoPowerOffIds) >>
           c1 == << Enum("setting_type", {0}) >>
           c2 == << Count("element_id_count"), Each("element_ids", "element_id_count", e) >>
           c3 == << Enum("setting_type", {0}), Enum("preview_type", {0, 1}),
                    Enum("detail_setting", {0}),
                    Enum("detection_sensitivity_type", {0}),
                    Enum("voice_focus_type", {0}),
                    Enum("mode_out_time_type_t", {0}),
                    Plain("timeouts[0]"), Plain("timeouts[1]"),
                    Plain("timeouts[2]"), Plain("timeouts[3]") >>
           c4 == AssignableCapabilityParse
           cs == << Case(OnOffSetting, c1), Case(AutoPowerOff, c2), Case(SmartTalking, c3),
                    Case(AssignableKeys, c4) >>
           l == << Inquired(SystemInquired), Switch("inquired_type", cs) >>
           f2 == << Free("element_ids") >>
           f4 == << Each("capability_keys", "num_capability_keys",
                       << Each("capability_presets", "num_capability_presets",
                               << Free("capability_actions") >>),
                          Free("capability_presets") >>),
                     Free("capability_keys") >>
           fs == << Case(AutoPowerOff, f2), Case(AssignableKeys, f4) >>
           fl == << Switch("inquired_type", fs) >>
<1>1. Simple(c1) /\ Simple(e)
  BY Tuple1 DEF Simple, Enum, Readers
<1>2. Simple(c3)
  BY Tuple10 DEF Simple, Enum, Plain, Readers
<1> HIDE DEF e
<1>3. Undoes(f2, c2)
  <2>1. IsSeq(f2) /\ DOMAIN f2 = 1..1 /\ f2[1].op = "free" /\ f2[1].name = "element_ids"
    BY Tuple1 DEF Free
  <2>2. /\ DOMAIN c2 = 1..2 /\ c2[1].op = "count" /\ c2[2].op = "each" /\ c2[2].element = e
        /\ c2[2].name = "element_ids"
    BY Tuple2 DEF Count, Each
  <2> HIDE DEF f2, c2
  <2> QED
    BY <1>1, <2>1, <2>2, BlockUndone DEF Readers
<1>4. Undoes(f4, c4)
  BY AssignableCapabilityUndone
<1> HIDE DEF c1, c2, c3, c4, f2, f4
<1>5. /\ DOMAIN cs = 1..4 /\ cs[1].layout = c1 /\ cs[2].layout = c2 /\ cs[3].layout = c3
      /\ cs[4].layout = c4 /\ cs[2].values = AutoPowerOff /\ cs[4].values = AssignableKeys
      /\ DOMAIN fs = 1..2 /\ fs[1].layout = f2 /\ fs[1].values = AutoPowerOff
      /\ fs[2].layout = f4 /\ fs[2].values = AssignableKeys
  BY Tuple2, Tuple4 DEF Case
<1> HIDE DEF cs, fs
<1>6. /\ DOMAIN l = 1..2 /\ l[1].op = "enum" /\ l[2].op = "switch" /\ l[2].cases = cs
      /\ l[2].name = "inquired_type"
      /\ IsSeq(fl) /\ DOMAIN fl = 1..1 /\ fl[1].op = "switch" /\ fl[1].cases = fs
      /\ fl[1].name = "inquired_type"
  BY Tuple1, Tuple2 DEF Inquired, Enum, Switch
<1>7. SystemCapabilityParse = l
  BY Zenon DEF SystemCapabilityParse, l, cs, c1, c2, c3, c4, e
<1> HIDE DEF l, fl
<1>8. AutoPowerOff \cap AssignableKeys = {}
  BY DEF AutoPowerOff, AssignableKeys
<1>9. OnlyCase(fl[1], 1, cs[2].values) /\ OnlyCase(fl[1], 2, cs[4].values)
  BY <1>5, <1>6, <1>8 DEF OnlyCase
<1>10. \A c \in DOMAIN cs : \/ Simple(cs[c].layout)
                            \/ \E d \in DOMAIN fs : /\ OnlyCase(fl[1], d, cs[c].values)
                                                    /\ Undoes(fs[d].layout, cs[c].layout)
  <2> SUFFICES ASSUME NEW c \in DOMAIN cs
               PROVE  \/ Simple(cs[c].layout)
                      \/ \E d \in DOMAIN fs : /\ OnlyCase(fl[1], d, cs[c].values)
                                              /\ Undoes(fs[d].layout, cs[c].layout)
    OBVIOUS
  <2>1. CASE c = 1 \/ c = 3
    BY <1>1, <1>2, <1>5, <2>1 DEF c1
  <2>2. CASE c = 2
    BY <1>3, <1>5, <1>9, <2>2
  <2>3. CASE c = 4
    BY <1>4, <1>5, <1>9, <2>3
  <2> QED
    BY <1>5, <2>1, <2>2, <2>3
<1>11. Undoes(fl, l)
  BY <1>6, <1>10, SwitchUndone DEF Readers
<1> QED
  BY <1>7, <1>11, Zenon DEF fl, fs, f2, f4

LEMMA ConnectUndone ==
  \A t \in DOMAIN ConnectParse :
    t # "CONNECT_RET_DEVICE_INFO" => Undoes(mdr_packet_free(t), ConnectParse[t])
<1> DEFINE a1 == << Enum("fixed_value", {0}) >>
           a2 == << Enum("fixed_value", {0}), Plain("version_high"), Plain("version_low") >>
           a3 == << Inquired(DeviceInfoInquired) >>
           fl == << Free("function_types") >>
<1>1. Simple(a1) /\ Simple(a2) /\ Simple(a3)
  BY Tuple1, Tuple3 DEF Simple, Inquired, Enum, Plain, Readers
<1>2. \A t \in DOMAIN ConnectParse :
        \/ t = "CONNECT_RET_DEVICE_INFO"
        \/ ConnectParse[t] \in {a1, a2, a3}
        \/ t = "CONNECT_RET_SUPPORT_FUNCTION" /\ ConnectParse[t] = SupportFunctionParse
  BY DEF ConnectParse
<1>3. \A t : IsSeq(mdr_packet_free(t))
  BY FreeLayouts DEF Neat
<1>4. mdr_packet_free("CONNECT_RET_SUPPORT_FUNCTION") = fl
  <2>1. ConnectFree["CONNECT_RET_SUPPORT_FUNCTION"] = fl
    BY DEF ConnectFree
  <2> HIDE DEF fl
  <2> QED
    BY <2>1, FreeIs, FreeDomains
<1> HIDE DEF a1, a2, a3
<1> QED
  BY <1>1, <1>2, <1>3, <1>4, SimpleIsUndone, SupportFunctionUndone

LEMMA CommonUndone ==
  \A t \in DOMAIN CommonParse : Undoes(mdr_packet_free(t), CommonParse[t])
<1> DEFINE a1 == << Inquired(BatteryInquired) >>
           a2 == << Inquired({0}), Enum("setting_value", {1}) >>
           a3 == << Inquired({1}) >>
<1>1. Simple(a1) /\ Simple(a2) /\ Simple(a3)
  BY Tuple1, Tuple2 DEF Simple, Inquired, Enum, Readers
<1>2. \A t \in DOMAIN CommonParse :
        CommonParse[t] \in {a1, a2, a3, BatteryParse, ConnectionStatusParse}
  BY DEF CommonParse
<1>3. \A t : IsSeq(mdr_packet_free(t))
  BY FreeLayouts DEF Neat
<1> HIDE DEF a1, a2, a3
<1> QED
  BY <1>1, <1>2, <1>3, SimpleIsUndone, BatteryUndone, ConnectionStatusUndone

LEMMA EqebbUndone ==
  \A t \in DOMAIN EqebbParse : Undoes(mdr_packet_free(t), EqebbParse[t])
<1> DEFINE a1 == << Inquired(EqebbInquired), Enum("display_language", DisplayLanguages) >>
           a2 == << Inquired(EqebbInquired) >>
           fl == << Switch("inquired_type",
                      << Case(PresetEq,
                              << Each("presets", "num_presets", << Free("name") >>),
                                 Free("presets") >>) >>) >>
<1>1. Simple(a1) /\ Simple(a2)
  BY Tuple1, Tuple2 DEF Simple, Inquired, Enum, Readers
<1>2. \A t \in DOMAIN EqebbParse :
        \/ EqebbParse[t] \in {a1, a2}
        \/ t = "EQEBB_RET_CAPABILITY" /\ EqebbParse[t] = EqCapabilityParse
        \/ t \in {"EQEBB_RET_PARAM", "EQEBB_SET_PARAM", "EQEBB_NTFY_PARAM"} /\ EqebbParse[t] = EqParamParse
  BY DEF EqebbParse
<1>3. \A t : IsSeq(mdr_packet_free(t))
  BY FreeLayouts DEF Neat
<1>4. /\ EqebbFree["EQEBB_RET_CAPABILITY"] = fl
      /\ \A t \in {"EQEBB_RET_PARAM", "EQEBB_SET_PARAM", "EQEBB_NTFY_PARAM"} : EqebbFree[t] = EqParamFree
  BY DEF EqebbFree
<1>5. Undoes(fl, EqCapabilityParse)
  BY EqCapabilityUndone, Zenon
<1> HIDE DEF a1, a2, fl
<1>6. /\ mdr_packet_free("EQEBB_RET_CAPABILITY") = fl
      /\ \A t \in {"EQEBB_RET_PARAM", "EQEBB_SET_PARAM", "EQEBB_NTFY_PARAM"} : mdr_packet_free(t) = EqParamFree
  BY <1>4, FreeIs, FreeDomains
<1> QED
  BY <1>1, <1>2, <1>3, <1>5, <1>6, SimpleIsUndone, EqParamUndone

LEMMA NcasmUndone ==
  \A t \in DOMAIN NcasmParse : Undoes(mdr_packet_free(t), NcasmParse[t])
<1> DEFINE a1 == << Inquired(NcasmInquired) >>
<1>1. Simple(a1)
  BY Tuple1 DEF Simple, Inquired, Enum, Readers
<1>2. \A t \in DOMAIN NcasmParse : NcasmParse[t] \in {a1, NcasmParamParse}
  BY DEF NcasmParse
<1>3. \A t : IsSeq(mdr_packet_free(t))
  BY FreeLayouts DEF Neat
<1> HIDE DEF a1
<1> QED
  BY <1>1, <1>2, <1>3, SimpleIsUndone, NcasmParamUndone

LEMMA PlayUndone ==
  \A t \in DOMAIN PlayParse : Undoes(mdr_packet_free(t), PlayParse[t])
<1>1. Simple(PlayGetParse)
  BY Tuple2 DEF Simple, PlayGetParse, Inquired, Enum, Readers
<1>2. \A t \in DOMAIN PlayParse :
        \/ PlayParse[t] = PlayGetParse
        \/ t \in {"PLAY_RET_PARAM", "PLAY_SET_PARAM", "PLAY_NTFY_PARAM"} /\ PlayParse[t] = PlayParamParse
  BY DEF PlayParse
<1>3. \A t : IsSeq(mdr_packet_free(t))
  BY FreeLayouts DEF Neat
<1>4. \A t \in {"PLAY_RET_PARAM", "PLAY_SET_PARAM", "PLAY_NTFY_PARAM"} : PlayFree[t] = PlayParamFree
  BY DEF PlayFree
<1>5. \A t \in {"PLAY_RET_PARAM", "PLAY_SET_PARAM", "PLAY_NTFY_PARAM"} : mdr_packet_free(t) = PlayParamFree
  BY <1>4, FreeIs, FreeDomains
<1> QED
  BY <1>1, <1>2, <1>3, <1>5, SimpleIsUndone, PlayParamUndone

LEMMA SystemUndone ==
  \A t \in DOMAIN SystemParse : Undoes(mdr_packet_free(t), SystemParse[t])
<1> DEFINE a1 == << Inquired(SystemInquired) >>
           fl == << Switch("inquired_type",
                      << Case(AutoPowerOff, << Free("element_ids") >>),
                         Case(AssignableKeys,
                           << Each("capability_keys", "num_capability_keys",
                                << Each("capability_presets", "num_capability_presets",
                                        << Free("capability_actions") >>),
                                   Free("capability_presets") >>),
                              Free("capability_keys") >>) >>) >>
<1>1. Simple(a1)
  BY Tuple1 DEF Simple, Inquired, Enum, Readers
<1>2. \A t \in DOMAIN SystemParse :
        \/ SystemParse[t] = a1
        \/ t = "SYSTEM_RET_CAPABILITY" /\ SystemParse[t] = SystemCapabilityParse
        \/ t \in {"SYSTEM_RET_PARAM", "SYSTEM_SET_PARAM", "SYSTEM_NTFY_PARAM"} /\ SystemParse[t] = SystemParamParse
  BY DEF SystemParse
<1>3. \A t : IsSeq(mdr_packet_free(t))
  BY FreeLayouts DEF Neat
<1>4. /\ SystemFree["SYSTEM_RET_CAPABILITY"] = fl
      /\ \A t \in {"SYSTEM_RET_PARAM", "SYSTEM_SET_PARAM", "SYSTEM_NTFY_PARAM"} : SystemFree[t] = SystemParamFree
  BY DEF SystemFree
<1>5. Undoes(fl, SystemCapabilityParse)
  BY SystemCapabilityUndone, Zenon
<1> HIDE DEF a1, fl
<1>6. /\ mdr_packet_free("SYSTEM_RET_CAPABILITY") = fl
      /\ \A t \in {"SYSTEM_RET_PARAM", "SYSTEM_SET_PARAM", "SYSTEM_NTFY_PARAM"} : mdr_packet_free(t) = SystemParamFree
  BY <1>4, FreeIs, FreeDomains
<1> QED
  BY <1>1, <1>2, <1>3, <1>5, <1>6, SimpleIsUndone, SystemParamUndone

\* All but the device info, whose string is allocated twice.
LEMMA TablesUndone ==
  ASSUME NEW t \in PacketTypes, t # "CONNECT_RET_DEVICE_INFO"
  PROVE  Undoes(mdr_packet_free(t), mdr_packet_from_frame(t))
BY LayoutsAre, ConnectUndone, CommonUndone, EqebbUndone, NcasmUndone, PlayUndone, SystemUndone
   DEF PacketTypes

-----------------------------------------------------------------------------
(***************************************************************************)
(* The frames of the writers: a packet is written into one, that is        *)
(* allocated before anything is put into it.                               *)
(***************************************************************************)
SilentStep(w, S) ==
  /\ IsSeq(w)
  /\ \A i \in DOMAIN w : /\ w[i].op \in {"put", "putbytes", "add", "each"}
                         /\ w[i].op = "each" => w[i].element \in S

SilentSet(S) == \A w \in S : SilentStep(w, S)

\* No frame is allocated, in the elements of the arrays neither.
Silent(w) == \E S : w \in S /\ SilentSet(S)

OneFlat(w) ==
  /\ IsSeq(w)
  /\ \E k \in DOMAIN w :
       /\ w[k].op = "start"
       /\ \A i \in DOMAIN w : i # k =>
            /\ w[i].op \in {"put", "putbytes", "add", "each"}
            /\ w[i].op = "each" => Silent(w[i].element)

\* Two frames, the first one at once.
TwoFlat(w) ==
  /\ IsSeq(w)
  /\ \E k \in DOMAIN w :
       /\ k # 1 /\ w[1].op = "start" /\ w[k].op = "start"
       /\ \A i \in DOMAIN w : i # k /\ i # 1 =>
            /\ w[i].op \in {"put", "putbytes", "add", "each"}
            /\ w[i].op = "each" => Silent(w[i].element)

LEMMA SilentIs ==
  ASSUME NEW w, Silent(w)
  PROVE  /\ IsSeq(w)
         /\ \A i \in DOMAIN w : /\ w[i].op \in {"put", "putbytes", "add", "each"}
                                /\ w[i].op = "each" => Silent(w[i].element)
<1>1. PICK S : w \in S /\ SilentSet(S)
  BY DEF Silent
<1>2. SilentStep(w, S)
  BY <1>1 DEF SilentSet
<1>3. \A v \in S : Silent(v)
  BY <1>1 DEF Silent
<1> QED
  BY <1>2, <1>3 DEF SilentStep

LEMMA SilentIntro ==
  ASSUME NEW w, NEW P, SilentStep(w, P), \A v \in P : Silent(v)
  PROVE  Silent(w)
<1> DEFINE Of(v) == CHOOSE S : v \in S /\ SilentSet(S)
           T == {w} \cup UNION {Of(v) : v \in P}
<1>1. \A v \in P : v \in Of(v) /\ SilentSet(Of(v))
  <2> SUFFICES ASSUME NEW v \in P PROVE \E S : v \in S /\ SilentSet(S)
    BY Zenon
  <2> QED
    BY DEF Silent
<1>2. P \subseteq T /\ w \in T /\ \A v \in P : Of(v) \subseteq T
  BY <1>1
<1>3. ASSUME NEW x \in T
      PROVE  SilentStep(x, T)
  <2>1. CASE x = w
    BY <1>2, <2>1 DEF SilentStep
  <2>2. ASSUME NEW v \in P, x \in Of(v)
        PROVE  SilentStep(x, T)
    <3>1. SilentSet(Of(v)) /\ Of(v) \subseteq T
      BY <1>1, <1>2
    <3> HIDE DEF T, Of
    <3> QED
      BY <2>2, <3>1 DEF SilentSet, SilentStep
  <2> QED
    BY <2>1, <2>2
<1> HIDE DEF T
<1>4. SilentSet(T)
  BY <1>3 DEF SilentSet
<1> QED
  BY <1>2, <1>4, Zenon DEF Silent

LEMMA PutsSilent ==
  ASSUME NEW names, IsSeq(names)
  PROVE  Silent(Puts(names))
<1>1. DOMAIN names = 1..Len(names) /\ Len(names) \in Nat
  BY SeqLen
<1> DEFINE p == Puts(names)
<1>2. p = [i \in 1..Len(names) |-> p[i]] /\ \A i \in 1..Len(names) : p[i].op = "put"
  BY <1>1 DEF Puts, Put
<1> HIDE DEF p
<1>3. IsSeq(p)
  BY <1>1, <1>2, SeqMade
<1>4. DOMAIN p = 1..Len(names)
  BY <1>2
<1>5. SilentStep(p, {})
  BY <1>2, <1>3, <1>4 DEF SilentStep
<1>6. Silent(p)
  BY <1>5, SilentIntro
<1> QED
  BY <1>6 DEF p

LEMMA ConcatIs ==
  ASSUME NEW u, NEW v, IsSeq(u), IsSeq(v)
  PROVE  /\ IsSeq(u \o v)
         /\ \A i \in DOMAIN (u \o v) :
              \/ i \in DOMAIN u /\ (u \o v)[i] = u[i]
              \/ i \notin DOMAIN u /\ \E j \in DOMAIN v : i = Len(u) + j /\ (u \o v)[i] = v[j]
         /\ \A i \in DOMAIN u : i \in DOMAIN (u \o v) /\ (u \o v)[i] = u[i]
<1> DEFINE r == u \o v
<1>1. /\ IsSeq(r) /\ Len(r) = Len(u) + Len(v)
      /\ \A i \in 1..Len(u) : r[i] = u[i]
      /\ \A i \in 1..(Len(u) + Len(v)) : r[i] = IF i <= Len(u) THEN u[i] ELSE v[i - Len(u)]
  BY SeqConcat
<1>2. /\ DOMAIN r = 1..Len(r) /\ DOMAIN u = 1..Len(u) /\ DOMAIN v = 1..Len(v)
      /\ Len(u) \in Nat /\ Len(v) \in Nat
  BY <1>1, SeqLen
<1> HIDE DEF r
<1>3. ASSUME NEW i \in DOMAIN r
      PROVE  \/ i \in DOMAIN u /\ r[i] = u[i]
             \/ i \notin DOMAIN u /\ \E j \in DOMAIN v : i = Len(u) + j /\ r[i] = v[j]
  <2>1. CASE i <= Len(u)
    BY <1>1, <1>2, <2>1
  <2>2. CASE ~(i <= Len(u))
    <3>1. i - Len(u) \in DOMAIN v /\ i = Len(u) + (i - Len(u)) /\ r[i] = v[i - Len(u)] /\ i \notin DOMAIN u
      BY <1>1, <1>2, <2>2
    <3> QED
      BY <3>1
  <2> QED
    BY <2>1, <2>2
<1>4. ASSUME NEW i \in DOMAIN u PROVE i \in DOMAIN r /\ r[i] = u[i]
  BY <1>1, <1>2
<1> QED
  BY <1>1, <1>3, <1>4 DEF r

LEMMA OneFlatConcat ==
  ASSUME NEW u, NEW v, OneFlat(u), Silent(v)
  PROVE  OneFlat(u \o v)
<1> DEFINE r == u \o v
<1>1. IsSeq(u) /\ IsSeq(v)
  BY SilentIs DEF OneFlat
<1>2. /\ IsSeq(r)
      /\ \A i \in DOMAIN r :
              \/ i \in DOMAIN u /\ r[i] = u[i]
              \/ i \notin DOMAIN u /\ \E j \in DOMAIN v : i = Len(u) + j /\ r[i] = v[j]
      /\ \A i \in DOMAIN u : i \in DOMAIN r /\ r[i] = u[i]
  BY <1>1, ConcatIs
<1> HIDE DEF r
<1>3. PICK k \in DOMAIN u :
       /\ u[k].op = "start"
       /\ \A i \in DOMAIN u : i # k =>
            /\ u[i].op \in {"put", "putbytes", "add", "each"}
            /\ u[i].op = "each" => Silent(u[i].element)
  BY DEF OneFlat
<1>4. k \in DOMAIN r /\ r[k].op = "start"
  BY <1>2, <1>3
<1>5. ASSUME NEW i \in DOMAIN r, i # k
      PROVE  /\ r[i].op \in {"put", "putbytes", "add", "each"}
             /\ r[i].op = "each" => Silent(r[i].element)
  BY <1>2, <1>3, <1>5, SilentIs
<1>6. OneFlat(r)
  BY <1>2, <1>4, <1>5 DEF OneFlat
<1> QED
  BY <1>6 DEF r

LEMMA StartFlat ==
  ASSUME NEW n, NEW count
  PROVE  OneFlat(<<Start(n, count)>>)
BY Tuple1 DEF OneFlat, Start

LEMMA StartPuts ==
  ASSUME NEW n, NEW count, NEW names, IsSeq(names)
  PROVE  OneFlat(<<Start(n, count)>> \o Puts(names))
BY StartFlat, PutsSilent, OneFlatConcat

LEMMA TwoFlatConcat ==
  ASSUME NEW u, NEW v, TwoFlat(u), Silent(v)
  PROVE  TwoFlat(u \o v)
<1> DEFINE r == u \o v
<1>1. IsSeq(u) /\ IsSeq(v)
  BY SilentIs DEF TwoFlat
<1>2. /\ IsSeq(r)
      /\ \A i \in DOMAIN r :
              \/ i \in DOMAIN u /\ r[i] = u[i]
              \/ i \notin DOMAIN u /\ \E j \in DOMAIN v : i = Len(u) + j /\ r[i] = v[j]
      /\ \A i \in DOMAIN u : i \in DOMAIN r /\ r[i] = u[i]
  BY <1>1, ConcatIs
<1> HIDE DEF r
<1>3. PICK k \in DOMAIN u :
       /\ k # 1 /\ u[1].op = "start" /\ u[k].op = "start"
       /\ \A i \in DOMAIN u : i # k /\ i # 1 =>
            /\ u[i].op \in {"put", "putbytes", "add", "each"}
            /\ u[i].op = "each" => Silent(u[i].element)
  BY DEF TwoFlat
<1>4. 1 \in DOMAIN u
  BY <1>1, SeqLen
<1>5. k \in DOMAIN r /\ r[k].op = "start" /\ r[1].op = "start"
  BY <1>2, <1>3, <1>4
<1>6. ASSUME NEW i \in DOMAIN r, i # k, i # 1
      PROVE  /\ r[i].op \in {"put", "putbytes", "add", "each"}
             /\ r[i].op = "each" => Silent(r[i].element)
  BY <1>2, <1>3, <1>6, SilentIs
<1>7. TwoFlat(r)
  BY <1>2, <1>3, <1>5, <1>6 DEF TwoFlat
<1> QED
  BY <1>7 DEF r

\* A frame and its fields, and then another frame.
LEMMA AnotherStart ==
  ASSUME NEW n, NEW count, NEW names, IsSeq(names), NEW m, NEW also
  PROVE  TwoFlat(<<Start(n, count)>> \o Puts(names) \o <<Start(m, also)>>)
<1> DEFINE a == <<Start(n, count)>>
           p == Puts(names)
           u == a \o p
           v == <<Start(m, also)>>
           r == u \o v
<1>1. Silent(p) /\ IsSeq(p) /\ IsSeq(a) /\ DOMAIN a = 1..1 /\ a[1].op = "start"
      /\ IsSeq(v) /\ DOMAIN v = 1..1 /\ v[1].op = "start"
  BY PutsSilent, SilentIs, Tuple1 DEF Start
<1> HIDE DEF a, p, v
<1>2. /\ IsSeq(u)
      /\ \A i \in DOMAIN u :
              \/ i \in DOMAIN a /\ u[i] = a[i]
              \/ i \notin DOMAIN a /\ \E j \in DOMAIN p : i = Len(a) + j /\ u[i] = p[j]
      /\ \A i \in DOMAIN a : i \in DOMAIN u /\ u[i] = a[i]
  BY <1>1, ConcatIs
<1>3. 1 \in DOMAIN u /\ u[1].op = "start"
  BY <1>1, <1>2
<1>4. \A i \in DOMAIN u : i # 1 => /\ u[i].op \in {"put", "putbytes", "add", "each"}
                                   /\ u[i].op = "each" => Silent(u[i].element)
  BY <1>1, <1>2, SilentIs
<1>5. DOMAIN u = 1..Len(u) /\ Len(u) \in Nat /\ Len(v) = 1
  BY <1>1, <1>2, SeqLen, Tuple1 DEF v
<1> HIDE DEF u
<1>6. /\ IsSeq(r)
      /\ \A i \in DOMAIN r :
              \/ i \in DOMAIN u /\ r[i] = u[i]
              \/ i \notin DOMAIN u /\ \E j \in DOMAIN v : i = Len(u) + j /\ r[i] = v[j]
      /\ \A i \in DOMAIN u : i \in DOMAIN r /\ r[i] = u[i]
  BY <1>1, <1>2, ConcatIs
<1>7. Len(r) = Len(u) + 1 /\ r[Len(u) + 1] = v[1]
  <2>1. Len(r) = Len(u) + Len(v) /\ \A i \in 1..Len(v) : r[Len(u) + i] = v[i]
    BY <1>1, <1>2, SeqConcat
  <2> QED
    BY <1>5, <2>1
<1> DEFINE k == Len(u) + 1
<1>8. k \in DOMAIN r /\ k # 1 /\ r[k].op = "start" /\ r[1].op = "start"
  <2>1. DOMAIN r = 1..Len(r)
    BY <1>6, SeqLen
  <2> HIDE DEF r
  <2> QED
    BY <1>1, <1>3, <1>5, <1>6, <1>7, <2>1
<1> HIDE DEF r
<1>9. ASSUME NEW i \in DOMAIN r, i # k, i # 1
      PROVE  /\ r[i].op \in {"put", "putbytes", "add", "each"}
             /\ r[i].op = "each" => Silent(r[i].element)
  BY <1>1, <1>4, <1>6, <1>9
<1>10. TwoFlat(r)
  BY <1>6, <1>8, <1>9 DEF TwoFlat
<1> QED
  BY <1>10 DEF r, u, a, p, v

-----------------------------------------------------------------------------
(* The choice of a writer: each case is written into a frame of its own,   *)
(* but for the one of smart talking, which takes two.                      *)
ChoiceOf(t, w) ==
  /\ IsSeq(w) /\ Len(w) = 1 /\ w[1].op = "switch"
  /\ \A c \in DOMAIN w[1].cases :
       \/ OneFlat(w[1].cases[c].layout)
       \/ /\ t = "SYSTEM_RET_CAPABILITY"
          /\ w[1].name = "inquired_type" /\ w[1].cases[c].values = SmartTalking
          /\ TwoFlat(w[1].cases[c].layout)

Framed(t, w) == OneFlat(w) \/ ChoiceOf(t, w)

LEMMA ChoiceFramed ==
  ASSUME NEW t, NEW name, NEW cs, \A c \in DOMAIN cs : OneFlat(cs[c].layout)
  PROVE  Framed(t, << Switch(name, cs) >>)
<1> DEFINE w == << Switch(name, cs) >>
<1>1. IsSeq(w) /\ Len(w) = 1 /\ w[1].op = "switch" /\ w[1].cases = cs
  BY Tuple1 DEF Switch
<1> HIDE DEF w
<1>2. ChoiceOf(t, w)
  BY <1>1 DEF ChoiceOf
<1> QED
  BY <1>2 DEF Framed, w

LEMMA OneFramed == ASSUME NEW t, NEW name PROVE Framed(t, WriteOne(name))
BY Tuple2 DEF WriteOne, Start, Put, Framed, OneFlat

LEMMA DeviceInfoFramed == ASSUME NEW t PROVE Framed(t, DeviceInfoWrite)
<1> DEFINE e == << Put("guidance_category") >>
           c1 == << Start(2, "len"), Put("inquired_type"), Put("len"), PutBytes("string", "len") >>
           c2 == <<Start(3, None)>> \o Puts(<<"inquired_type", "series", "color">>)
           c3 == << Start(2, "num_guidance_categories"), Put("inquired_type"),
                    Put("num_guidance_categories"),
                    Each("guidance_categories", "num_guidance_categories", e) >>
           cs == << Case(Name, c1), Case(SeriesAndColor, c2), Case(InstructionGuide, c3) >>
<1>1. Silent(e)
  <2>1. SilentStep(e, {})
    BY Tuple1 DEF SilentStep, Put
  <2> HIDE DEF e
  <2> QED
    BY <2>1, SilentIntro
<1> HIDE DEF e
<1>2. OneFlat(c1)
  BY Tuple4 DEF OneFlat, Start, Put, PutBytes
<1>3. OneFlat(c2)
  BY StartPuts, Tuple3
<1>4. OneFlat(c3)
  <2>1. /\ IsSeq(c3) /\ DOMAIN c3 = 1..4 /\ c3[1].op = "start" /\ c3[2].op = "put" /\ c3[3].op = "put"
        /\ c3[4].op = "each" /\ c3[4].element = e
    BY Tuple4 DEF Start, Put, Each
  <2> HIDE DEF c3
  <2>2. ASSUME NEW i \in DOMAIN c3, i # 1
        PROVE  /\ c3[i].op \in {"put", "putbytes", "add", "each"}
               /\ c3[i].op = "each" => Silent(c3[i].element)
    BY <1>1, <2>1, <2>2
  <2> QED
    BY <2>1, <2>2 DEF OneFlat
<1> HIDE DEF c1, c2, c3
<1>5. DOMAIN cs = 1..3 /\ cs[1].layout = c1 /\ cs[2].layout = c2 /\ cs[3].layout = c3
  BY Tuple3 DEF Case
<1> HIDE DEF cs
<1>6. Framed(t, << Switch("inquired_type", cs) >>)
  BY <1>2, <1>3, <1>4, <1>5, ChoiceFramed
<1>7. DeviceInfoWrite = << Switch("inquired_type", cs) >>
  BY Zenon DEF DeviceInfoWrite, cs, c1, c2, c3, e
<1> QED
  BY <1>6, <1>7

LEMMA OnePut ==
  ASSUME NEW name PROVE Silent(<< Put(name) >>)
<1> DEFINE e == << Put(name) >>
<1>1. SilentStep(e, {})
  BY Tuple1 DEF SilentStep, Put
<1> HIDE DEF e
<1>2. Silent(e)
  BY <1>1, SilentIntro
<1> QED
  BY <1>2 DEF e

LEMMA SupportFunctionFramed == ASSUME NEW t PROVE Framed(t, SupportFunctionWrite)
<1> DEFINE e == << Put("function_type") >>
           w == << Start(2, "num_function_types"), Put("fixed_value"),
                   Put("num_function_types"), Each("function_types", "num_function_types", e) >>
<1>1. Silent(e)
  BY OnePut
<1> HIDE DEF e
<1>2. /\ IsSeq(w) /\ DOMAIN w = 1..4 /\ w[1].op = "start" /\ w[2].op = "put" /\ w[3].op = "put"
      /\ w[4].op = "each" /\ w[4].element = e
  BY Tuple4 DEF Start, Put, Each
<1>3. w = SupportFunctionWrite
  BY Zenon DEF SupportFunctionWrite, w, e
<1> HIDE DEF w
<1>4. ASSUME NEW i \in DOMAIN w, i # 1
      PROVE  /\ w[i].op \in {"put", "putbytes", "add", "each"}
             /\ w[i].op = "each" => Silent(w[i].element)
  BY <1>1, <1>2, <1>4
<1>5. OneFlat(w)
  BY <1>2, <1>4 DEF OneFlat
<1> QED
  BY <1>3, <1>5 DEF Framed

LEMMA BatteryFramed == ASSUME NEW t PROVE Framed(t, BatteryWrite)
<1> DEFINE c1 == <<Start(3, None)>> \o Puts(<<"level", "charging">>)
           c2 == <<Start(5, None)>> \o
                   Puts(<<"left.level", "left.charging", "right.level", "right.charging">>)
           cs == << Case(OneBattery, c1), Case(LeftRightBattery, c2) >>
<1>1. OneFlat(c1) /\ OneFlat(c2)
  BY StartPuts, Tuple2, Tuple4
<1>2. BatteryWrite = << Switch("inquired_type", cs) >>
  BY Zenon DEF BatteryWrite, cs, c1, c2
<1> HIDE DEF c1, c2
<1>3. DOMAIN cs = 1..2 /\ cs[1].layout = c1 /\ cs[2].layout = c2
  BY Tuple2 DEF Case
<1> HIDE DEF cs
<1> QED
  BY <1>1, <1>2, <1>3, ChoiceFramed

LEMMA ConnectionStatusFramed == ASSUME NEW t PROVE Framed(t, ConnectionStatusWrite)
<1> DEFINE c1 == <<Start(3, None)>> \o Puts(<<"inquired_type", "left_status", "right_status">>)
           cs == << Case({1}, c1) >>
<1>1. OneFlat(c1)
  BY StartPuts, Tuple3
<1>2. ConnectionStatusWrite = << Switch("inquired_type", cs) >>
  BY Zenon DEF ConnectionStatusWrite, cs, c1
<1> HIDE DEF c1
<1>3. DOMAIN cs = 1..1 /\ cs[1].layout = c1
  BY Tuple1 DEF Case
<1> HIDE DEF cs
<1> QED
  BY <1>1, <1>2, <1>3, ChoiceFramed

LEMMA EqCapabilityFramed == ASSUME NEW t PROVE Framed(t, EqCapabilityWrite)
<1> DEFINE e1 == << Add(2, 1, "name_len") >>
           e2 == << Put("preset_id"), Put("name_len"), PutBytes("name", "name_len") >>
           c1 == << Each("presets", "num_presets", e1),
                    Start(4, None), Put("inquired_type"), Put("band_count"),
                    Put("level_steps"), Put("num_presets"), Each("presets", "num_presets", e2) >>
           c2 == <<Start(3, None)>> \o Puts(<<"inquired_type", "min_level", "max_level">>)
           cs == << Case(PresetEq, c1), Case(Ebb, c2) >>
<1>1. Silent(e1) /\ Silent(e2)
  <2>1. SilentStep(e1, {}) /\ SilentStep(e2, {})
    BY Tuple1, Tuple3 DEF SilentStep, Put, Add, PutBytes
  <2> HIDE DEF e1, e2
  <2> QED
    BY <2>1, SilentIntro
<1>2. OneFlat(c2)
  BY StartPuts, Tuple3
<1>3. EqCapabilityWrite = << Switch("inquired_type", cs) >>
  BY Zenon DEF EqCapabilityWrite, cs, c1, c2, e1, e2
<1> HIDE DEF e1, e2
<1>4. OneFlat(c1)
  <2>1. /\ IsSeq(c1) /\ DOMAIN c1 = 1..7 /\ c1[1].op = "each" /\ c1[1].element = e1
        /\ c1[2].op = "start" /\ c1[3].op = "put" /\ c1[4].op = "put" /\ c1[5].op = "put"
        /\ c1[6].op = "put" /\ c1[7].op = "each" /\ c1[7].element = e2
    BY Tuple7 DEF Start, Put, Each
  <2> HIDE DEF c1
  <2>2. ASSUME NEW i \in DOMAIN c1, i # 2
        PROVE  /\ c1[i].op \in {"put", "putbytes", "add", "each"}
               /\ c1[i].op = "each" => Silent(c1[i].element)
    <3>1. i \in {1, 3, 4, 5, 6, 7}
      BY <2>1, <2>2
    <3> QED
      BY <1>1, <2>1, <3>1
  <2> QED
    BY <2>1, <2>2 DEF OneFlat
<1> HIDE DEF c1, c2
<1>5. DOMAIN cs = 1..2 /\ cs[1].layout = c1 /\ cs[2].layout = c2
  BY Tuple2 DEF Case
<1> HIDE DEF cs
<1> QED
  BY <1>2, <1>3, <1>4, <1>5, ChoiceFramed

LEMMA EqParamFramed == ASSUME NEW t PROVE Framed(t, EqParamWrite)
<1> DEFINE c1 == << Start(3, "num_levels"), Put("inquired_type"),
                    Put("preset_id"), Put("num_levels"), PutBytes("levels", "num_levels") >>
           c2 == <<Start(2, None)>> \o Puts(<<"inquired_type", "level">>)
           cs == << Case(PresetEq, c1), Case(Ebb, c2) >>
<1>1. OneFlat(c1)
  BY Tuple5 DEF OneFlat, Start, Put, PutBytes
<1>2. OneFlat(c2)
  BY StartPuts, Tuple2
<1>3. EqParamWrite = << Switch("inquired_type", cs) >>
  BY Zenon DEF EqParamWrite, cs, c1, c2
<1> HIDE DEF c1, c2
<1>4. DOMAIN cs = 1..2 /\ cs[1].layout = c1 /\ cs[2].layout = c2
  BY Tuple2 DEF Case
<1> HIDE DEF cs
<1> QED
  BY <1>1, <1>2, <1>3, <1>4, ChoiceFramed

LEMMA NcasmParamFramed == ASSUME NEW t PROVE Framed(t, NcasmParamWrite)
<1> DEFINE c1 == <<Start(3, None)>> \o
                   Puts(<<"inquired_type", "nc_setting_type", "nc_setting_value">>)
           c2 == <<Start(7, None)>> \o
                   Puts(<<"inquired_type", "ncasm_effect", "ncasm_setting_type",
                          "ncasm_amount", "asm_setting_type", "asm_id", "asm_amount">>)
           c3 == <<Start(5, None)>> \o
                   Puts(<<"inquired_type", "ncasm_effect", "asm_setting_type", "asm_id", "asm_id">>)
           cs == << Case(Nc, c1), Case(NcAndAsm, c2), Case(Asm, c3) >>
<1>1. OneFlat(c1) /\ OneFlat(c2) /\ OneFlat(c3)
  BY StartPuts, Tuple3, Tuple5, Tuple7
<1>2. NcasmParamWrite = << Switch("inquired_type", cs) >>
  BY Zenon DEF NcasmParamWrite, cs, c1, c2, c3
<1> HIDE DEF c1, c2, c3
<1>3. DOMAIN cs = 1..3 /\ cs[1].layout = c1 /\ cs[2].layout = c2 /\ cs[3].layout = c3
  BY Tuple3 DEF Case
<1> HIDE DEF cs
<1> QED
  BY <1>1, <1>2, <1>3, ChoiceFramed

LEMMA PlayParamFramed == ASSUME NEW t PROVE Framed(t, PlayParamWrite)
<1> DEFINE a1 == <<Start(4, "len")>> \o
                   Puts(<<"inquired_type", "detailed_data_type", "status", "len">>)
           b1 == <<PutBytes("data", "len")>>
           c1 == a1 \o b1
           c2 == <<Start(3, None)>> \o Puts(<<"inquired_type", "detailed_data_type", "volume">>)
           cs == << Case(Names, c1), Case({Volume}, c2) >>
<1>1. OneFlat(a1) /\ OneFlat(c2)
  BY StartPuts, Tuple3, Tuple4
<1>2. Silent(b1)
  <2>1. SilentStep(b1, {})
    BY Tuple1 DEF SilentStep, PutBytes
  <2> HIDE DEF b1
  <2> QED
    BY <2>1, SilentIntro
<1>3. PlayParamWrite = << Switch("detailed_data_type", cs) >>
  BY Zenon DEF PlayParamWrite, cs, c1, c2, a1, b1
<1> HIDE DEF a1, b1, c2
<1>4. OneFlat(c1)
  BY <1>1, <1>2, OneFlatConcat
<1> HIDE DEF c1
<1>5. DOMAIN cs = 1..2 /\ cs[1].layout = c1 /\ cs[2].layout = c2
  BY Tuple2 DEF Case
<1> HIDE DEF cs
<1> QED
  BY <1>1, <1>3, <1>4, <1>5, ChoiceFramed

LEMMA SystemParamFramed == ASSUME NEW t PROVE Framed(t, SystemParamWrite)
<1> DEFINE e == << Put("preset") >>
           c1 == <<Start(3, None)>> \o Puts(<<"inquired_type", "setting_type", "setting_value">>)
           c2 == <<Start(4, None)>> \o
                   Puts(<<"inquired_type", "parameter_type", "element_id", "select_time_element_id">>)
           c3 == << Start(2, "num_presets"), Put("inquired_type"), Put("num_presets"),
                    Each("presets", "num_presets", e) >>
           cs == << Case(OnOffSetting \cup SmartTalking, c1), Case(AutoPowerOff, c2),
                    Case(AssignableKeys, c3) >>
<1>1. Silent(e)
  BY OnePut
<1>2. OneFlat(c1) /\ OneFlat(c2)
  BY StartPuts, Tuple3, Tuple4
<1>3. SystemParamWrite = << Switch("inquired_type", cs) >>
  BY Zenon DEF SystemParamWrite, cs, c1, c2, c3, e
<1> HIDE DEF e
<1>4. OneFlat(c3)
  <2>1. /\ IsSeq(c3) /\ DOMAIN c3 = 1..4 /\ c3[1].op = "start" /\ c3[2].op = "put" /\ c3[3].op = "put"
        /\ c3[4].op = "each" /\ c3[4].element = e
    BY Tuple4 DEF Start, Put, Each
  <2> HIDE DEF c3
  <2>2. ASSUME NEW i \in DOMAIN c3, i # 1
        PROVE  /\ c3[i].op \in {"put", "putbytes", "add", "each"}
               /\ c3[i].op = "each" => Silent(c3[i].element)
    BY <1>1, <2>1, <2>2
  <2> QED
    BY <2>1, <2>2 DEF OneFlat
<1> HIDE DEF c1, c2, c3
<1>5. DOMAIN cs = 1..3 /\ cs[1].layout = c1 /\ cs[2].layout = c2 /\ cs[3].layout = c3
  BY Tuple3 DEF Case
<1> HIDE DEF cs
<1> QED
  BY <1>2, <1>3, <1>4, <1>5, ChoiceFramed

LEMMA AssignableCapabilityFlat == OneFlat(AssignableCapabilityWrite)
<1> DEFINE d == << Add(2, 2, "num_capability_actions") >>
           a == << Add(4, 0, None), Each("capability_presets", "num_capability_presets", d) >>
           g == << Put("action"), Put("function") >>
           f == << Put("preset"), Put("num_capability_actions"),
                   Each("capability_actions", "num_capability_actions", g) >>
           p == Puts(<<"key", "key_type", "default_preset", "num_capability_presets">>)
           q == << Each("capability_presets", "num_capability_presets", f) >>
           b == p \o q
           w == << Each("capability_keys", "num_capability_keys", a),
                   Start(2, None), Put("inquired_type"), Put("num_capability_keys"),
                   Each("capability_keys", "num_capability_keys", b) >>
<1>1. AssignableCapabilityWrite = w
  BY Zenon DEF AssignableCapabilityWrite, w, a, d, b, p, q, f, g
<1>2. Silent(d) /\ Silent(g)
  <2>1. SilentStep(d, {}) /\ SilentStep(g, {})
    BY Tuple1, Tuple2 DEF SilentStep, Add, Put
  <2> HIDE DEF d, g
  <2> QED
    BY <2>1, SilentIntro
<1> HIDE DEF d, g
<1>3. Silent(a) /\ Silent(f)
  <2>1. SilentStep(a, {d}) /\ SilentStep(f, {g})
    BY Tuple2, Tuple3 DEF SilentStep, Add, Put, Each
  <2> HIDE DEF a, f
  <2> QED
    BY <1>2, <2>1, SilentIntro
<1> HIDE DEF a, f
<1>4. Silent(q)
  <2>1. SilentStep(q, {f})
    BY Tuple1 DEF SilentStep, Each
  <2> HIDE DEF q
  <2> QED
    BY <1>3, <2>1, SilentIntro
<1>5. Silent(p)
  BY PutsSilent, Tuple4
<1> HIDE DEF p, q
<1>6. Silent(b)
  <2>1. IsSeq(p) /\ IsSeq(q)
    BY <1>4, <1>5, SilentIs
  <2>2. /\ IsSeq(b)
        /\ \A i \in DOMAIN b :
              \/ i \in DOMAIN p /\ b[i] = p[i]
              \/ i \notin DOMAIN p /\ \E j \in DOMAIN q : i = Len(p) + j /\ b[i] = q[j]
    BY <2>1, ConcatIs
  <2> DEFINE E == {v \in {b[i].element : i \in DOMAIN b} : Silent(v)}
  <2> HIDE DEF b
  <2>3. SilentStep(b, E)
    BY <1>4, <1>5, <2>2, SilentIs DEF SilentStep
  <2>4. \A v \in E : Silent(v)
    OBVIOUS
  <2> HIDE DEF E
  <2> QED
    BY <2>3, <2>4, SilentIntro
<1> HIDE DEF b
<1>7. /\ IsSeq(w) /\ DOMAIN w = 1..5 /\ w[1].op = "each" /\ w[1].element = a
      /\ w[2].op = "start" /\ w[3].op = "put" /\ w[4].op = "put"
      /\ w[5].op = "each" /\ w[5].element = b
  BY Tuple5 DEF Start, Put, Each
<1> HIDE DEF w
<1>8. ASSUME NEW i \in DOMAIN w, i # 2
      PROVE  /\ w[i].op \in {"put", "putbytes", "add", "each"}
             /\ w[i].op = "each" => Silent(w[i].element)
  <2>1. i \in {1, 3, 4, 5}
    BY <1>7, <1>8
  <2> QED
    BY <1>3, <1>6, <1>7, <2>1
<1>9. OneFlat(w)
  BY <1>7, <1>8 DEF OneFlat
<1> QED
  BY <1>1, <1>9

LEMMA SystemCapabilityFramed == Framed("SYSTEM_RET_CAPABILITY", SystemCapabilityWrite)
<1> DEFINE e == << Put("element_id") >>
           c1 == <<Start(2, None)>> \o Puts(<<"inquired_type", "setting_type">>)
           c2 == << Start(2, "element_id_count"), Put("inquired_type"), Put("element_id_count"),
                    Each("element_ids", "element_id_count", e) >>
           a3 == <<Start(11, None)>> \o
                 Puts(<<"inquired_type", "setting_type", "preview_type",
                        "detail_setting", "detection_sensitivity_type",
                        "voice_focus_type", "mode_out_time_type_t",
                        "timeouts[0]", "timeouts[1]", "timeouts[2]", "timeouts[3]">>) \o
                   <<Start(2, None)>>
           b3 == Puts(<<"inquired_type", "setting_type">>)
           c3 == a3 \o b3
           c4 == AssignableCapabilityWrite
           cs == << Case(OnOffSetting, c1), Case(AutoPowerOff, c2), Case(SmartTalking, c3),
                    Case(AssignableKeys, c4) >>
           w == << Switch("inquired_type", cs) >>
<1>1. SystemCapabilityWrite = w
  BY Zenon DEF SystemCapabilityWrite, w, cs, c1, c2, c3, c4, a3, b3, e
<1>2. Silent(e) /\ Silent(b3) /\ OneFlat(c1) /\ OneFlat(c4)
  BY OnePut, PutsSilent, StartPuts, Tuple2, AssignableCapabilityFlat
<1>3. TwoFlat(a3)
  BY AnotherStart, Tuple11
<1> HIDE DEF e, a3, b3, c1, c4
<1>4. TwoFlat(c3)
  BY <1>2, <1>3, TwoFlatConcat
<1>5. OneFlat(c2)
  <2>1. /\ IsSeq(c2) /\ DOMAIN c2 = 1..4 /\ c2[1].op = "start" /\ c2[2].op = "put" /\ c2[3].op = "put"
        /\ c2[4].op = "each" /\ c2[4].element = e
    BY Tuple4 DEF Start, Put, Each
  <2> HIDE DEF c2
  <2>2. ASSUME NEW i \in DOMAIN c2, i # 1
        PROVE  /\ c2[i].op \in {"put", "putbytes", "add", "each"}
               /\ c2[i].op = "each" => Silent(c2[i].element)
    BY <1>2, <2>1, <2>2
  <2> QED
    BY <2>1, <2>2 DEF OneFlat
<1> HIDE DEF c2, c3
<1>6. /\ DOMAIN cs = 1..4 /\ cs[1].layout = c1 /\ cs[2].layout = c2
      /\ cs[3].layout = c3 /\ cs[3].values = SmartTalking /\ cs[4].layout = c4
  BY Tuple4 DEF Case
<1> HIDE DEF cs
<1>7. IsSeq(w) /\ Len(w) = 1 /\ w[1].op = "switch" /\ w[1].cases = cs /\ w[1].name = "inquired_type"
  BY Tuple1 DEF Switch
<1> HIDE DEF w
<1>8. ChoiceOf("SYSTEM_RET_CAPABILITY", w)
  BY <1>2, <1>4, <1>5, <1>6, <1>7 DEF ChoiceOf
<1> QED
  BY <1>1, <1>8 DEF Framed

LEMMA WritersFramed ==
  ASSUME NEW t \in PacketTypes
  PROVE  Framed(t, mdr_packet_to_frame(t))
<1> DEFINE a1 == <<Start(3, None)>> \o Puts(<<"fixed_value", "version_high", "version_low">>)
           a2 == <<Start(2, None)>> \o Puts(<<"inquired_type", "setting_value">>)
           a3 == <<Start(2, None)>> \o Puts(<<"inquired_type", "display_language">>)
           a4 == <<Start(2, None)>> \o Puts(<<"inquired_type", "detailed_data_type">>)
           b1 == WriteOne("fixed_value")
           b2 == WriteOne("inquired_type")
<1>1. Framed(t, a1) /\ Framed(t, a2) /\ Framed(t, a3) /\ Framed(t, a4) /\ Framed(t, b1) /\ Framed(t, b2)
  BY StartPuts, OneFramed, Tuple2, Tuple3 DEF Framed
<1>2. \A u \in DOMAIN ConnectParse :
        ConnectWrite[u] \in {a1, b1, b2, DeviceInfoWrite, SupportFunctionWrite}
  BY DEF ConnectWrite, ConnectParse
<1>3. \A u \in DOMAIN CommonParse :
        CommonWrite[u] \in {a2, b2, BatteryWrite, ConnectionStatusWrite}
  BY DEF CommonWrite, CommonParse
<1>4. \A u \in DOMAIN EqebbParse :
        EqebbWrite[u] \in {a3, b2, EqCapabilityWrite, EqParamWrite}
  BY DEF EqebbWrite, EqebbParse
<1>5. \A u \in DOMAIN NcasmParse : NcasmWrite[u] \in {b2, NcasmParamWrite}
  BY DEF NcasmWrite, NcasmParse
<1>6. \A u \in DOMAIN PlayParse : PlayWrite[u] \in {a4, PlayParamWrite}
  BY DEF PlayWrite, PlayParse
<1>7. \A u \in DOMAIN SystemParse :
        \/ SystemWrite[u] \in {b2, SystemParamWrite}
        \/ u = "SYSTEM_RET_CAPABILITY" /\ SystemWrite[u] = SystemCapabilityWrite
  BY DEF SystemWrite, SystemParse
<1> HIDE DEF a1, a2, a3, a4, b1, b2
<1> QED
  BY <1>1, <1>2, <1>3, <1>4, <1>5, <1>6, <1>7, LayoutsAre, DeviceInfoFramed, SupportFunctionFramed,
     BatteryFramed, ConnectionStatusFramed, EqCapabilityFramed, EqParamFramed, NcasmParamFramed,
     PlayParamFramed, SystemParamFramed, SystemCapabilityFramed DEF PacketTypes

-----------------------------------------------------------------------------
(* What a writer still has to do: it will start a frame, or it will not.   *)
QuietItem(m) ==
  /\ m.field.op \in {"put", "putbytes", "add", "each", "loop"}
  /\ m.field.op \in Several => Silent(m.field.element)

Quiet(s) == IsSeq(s) /\ \A m \in 1..Len(s) : QuietItem(s[m])

OneStart(s) ==
  /\ IsSeq(s)
  /\ \E k \in 1..Len(s) :
       /\ s[k].field.op = "start"
       /\ \A m \in 1..Len(s) : m # k => QuietItem(s[m])

LEMMA QuietTail ==
  ASSUME NEW s, IsSeq(s), s # <<>>
  PROVE  /\ Quiet(s) => Quiet(Tail(s))
         /\ OneStart(s) /\ s[1].field.op = "start" => Quiet(Tail(s))
         /\ OneStart(s) /\ s[1].field.op # "start" => OneStart(Tail(s)) /\ QuietItem(s[1])
<1> DEFINE t == Tail(s)
<1>1. /\ Len(s) \in Nat /\ Len(s) > 0 /\ IsSeq(t) /\ Len(t) = Len(s) - 1
      /\ \A i \in 1..(Len(s) - 1) : t[i] = s[i + 1]
  BY SeqTail, SeqLen
<1> HIDE DEF t
<1>2. \A i \in 1..Len(t) : i + 1 \in 1..Len(s) /\ i + 1 # 1 /\ t[i] = s[i + 1]
  BY <1>1
<1>3. ASSUME Quiet(s) PROVE Quiet(t)
  BY <1>1, <1>2, <1>3 DEF Quiet
<1>4. ASSUME OneStart(s), s[1].field.op = "start" PROVE Quiet(t)
  <2>1. PICK k \in 1..Len(s) :
         /\ s[k].field.op = "start"
         /\ \A m \in 1..Len(s) : m # k => QuietItem(s[m])
    BY <1>4 DEF OneStart
  <2>2. k = 1
    BY <1>1, <1>4, <2>1 DEF QuietItem
  <2> QED
    BY <1>1, <1>2, <2>1, <2>2 DEF Quiet
<1>5. ASSUME OneStart(s), s[1].field.op # "start" PROVE OneStart(t) /\ QuietItem(s[1])
  <2>1. PICK k \in 1..Len(s) :
         /\ s[k].field.op = "start"
         /\ \A m \in 1..Len(s) : m # k => QuietItem(s[m])
    BY <1>5 DEF OneStart
  <2>2. k # 1 /\ QuietItem(s[1])
    BY <1>1, <1>5, <2>1
  <2>3. k - 1 \in 1..Len(t) /\ t[k - 1] = s[k]
    BY <1>1, <2>2
  <2>4. ASSUME NEW m \in 1..Len(t), m # k - 1 PROVE QuietItem(t[m])
    <3>1. m + 1 \in 1..Len(s) /\ m + 1 # k /\ t[m] = s[m + 1]
      BY <1>1, <1>2, <2>4
    <3> QED
      BY <2>1, <3>1
  <2> QED
    BY <1>1, <2>1, <2>2, <2>3, <2>4 DEF OneStart
<1> QED
  BY <1>3, <1>4, <1>5 DEF t

LEMMA QuietPush ==
  ASSUME NEW s, IsSeq(s), NEW new, Quiet(new)
  PROVE  /\ Quiet(s) => Quiet(new \o s)
         /\ OneStart(s) => OneStart(new \o s)
<1> DEFINE r == new \o s
<1>1. IsSeq(new)
  BY DEF Quiet
<1>2. /\ IsSeq(r) /\ Len(r) = Len(new) + Len(s)
      /\ \A i \in 1..Len(s) : r[Len(new) + i] = s[i]
      /\ \A i \in 1..(Len(new) + Len(s)) : r[i] = IF i <= Len(new) THEN new[i] ELSE s[i - Len(new)]
  BY <1>1, SeqConcat
<1>3. Len(new) \in Nat /\ Len(s) \in Nat
  BY <1>1, SeqLen
<1> HIDE DEF r
<1>4. \A i \in 1..Len(r) : \/ i \in 1..Len(new) /\ r[i] = new[i]
                           \/ i - Len(new) \in 1..Len(s) /\ r[i] = s[i - Len(new)]
  BY <1>2, <1>3
<1>5. ASSUME Quiet(s) PROVE Quiet(r)
  BY <1>2, <1>4, <1>5 DEF Quiet
<1>6. ASSUME OneStart(s) PROVE OneStart(r)
  <2>1. PICK k \in 1..Len(s) :
         /\ s[k].field.op = "start"
         /\ \A m \in 1..Len(s) : m # k => QuietItem(s[m])
    BY <1>6 DEF OneStart
  <2>2. Len(new) + k \in 1..Len(r) /\ r[Len(new) + k] = s[k]
    BY <1>2, <1>3
  <2>3. ASSUME NEW i \in 1..Len(r), i # Len(new) + k PROVE QuietItem(r[i])
    <3>1. CASE i \in 1..Len(new) /\ r[i] = new[i]
      BY <3>1 DEF Quiet
    <3>2. CASE i - Len(new) \in 1..Len(s) /\ r[i] = s[i - Len(new)]
      <4>1. i - Len(new) # k
        BY <1>3, <2>3
      <4> QED
        BY <2>1, <3>2, <4>1
    <3> QED
      BY <1>4, <3>1, <3>2
  <2> QED
    BY <1>2, <2>1, <2>2, <2>3 DEF OneStart
<1> QED
  BY <1>5, <1>6 DEF r

LEMMA FramesEnter ==
  ASSUME NEW p, NEW w
  PROVE  /\ Silent(w) => Quiet(Enter(p, w))
         /\ OneFlat(w) => OneStart(Enter(p, w))
         /\ TwoFlat(w) => LET e == Enter(p, w) IN
              /\ IsSeq(e) /\ e # <<>> /\ e[1].field.op = "start" /\ OneStart(Tail(e))
<1> DEFINE e == Enter(p, w)
<1>1. ASSUME IsSeq(w)
      PROVE  /\ IsSeq(e) /\ Len(e) = Len(w) /\ DOMAIN w = 1..Len(w) /\ Len(w) \in Nat
             /\ \A i \in 1..Len(w) : e[i].field = w[i]
  <2>1. /\ IsSeq(e) /\ Len(e) = Len(w) /\ DOMAIN w = 1..Len(w) /\ Len(w) \in Nat
        /\ \A i \in 1..Len(w) : e[i] = [path |-> p, field |-> w[i]]
    BY <1>1, SeqEnter, SeqLen
  <2> HIDE DEF e
  <2>2. ASSUME NEW i \in 1..Len(w) PROVE e[i].field = w[i]
    <3>1. e[i] = [path |-> p, field |-> w[i]]
      BY <2>1
    <3> QED
      BY <3>1
  <2> QED
    BY <2>1, <2>2
<1> HIDE DEF e
<1>2. ASSUME Silent(w) PROVE Quiet(e)
  <2>1. /\ IsSeq(w)
        /\ \A i \in DOMAIN w : /\ w[i].op \in {"put", "putbytes", "add", "each"}
                               /\ w[i].op = "each" => Silent(w[i].element)
    BY <1>2, SilentIs
  <2> QED
    BY <1>1, <2>1 DEF Quiet, QuietItem, Several
<1>3. ASSUME OneFlat(w) PROVE OneStart(e)
  <2>1. PICK k \in DOMAIN w :
       /\ w[k].op = "start"
       /\ \A i \in DOMAIN w : i # k =>
            /\ w[i].op \in {"put", "putbytes", "add", "each"}
            /\ w[i].op = "each" => Silent(w[i].element)
    BY <1>3 DEF OneFlat
  <2>2. IsSeq(w)
    BY <1>3 DEF OneFlat
  <2> QED
    BY <1>1, <2>1, <2>2 DEF OneStart, QuietItem, Several
<1>4. ASSUME TwoFlat(w)
      PROVE  IsSeq(e) /\ e # <<>> /\ e[1].field.op = "start" /\ OneStart(Tail(e))
  <2> DEFINE t == Tail(e)
  <2>1. PICK k \in DOMAIN w :
       /\ k # 1 /\ w[1].op = "start" /\ w[k].op = "start"
       /\ \A i \in DOMAIN w : i # k /\ i # 1 =>
            /\ w[i].op \in {"put", "putbytes", "add", "each"}
            /\ w[i].op = "each" => Silent(w[i].element)
    BY <1>4 DEF TwoFlat
  <2>2. /\ IsSeq(e) /\ Len(e) = Len(w) /\ DOMAIN w = 1..Len(w) /\ Len(w) \in Nat
        /\ \A i \in 1..Len(w) : e[i].field = w[i]
    BY <1>1, <1>4 DEF TwoFlat
  <2>3. e # <<>>
    BY <2>1, <2>2, NoItems
  <2>4. e[1].field.op = "start"
    BY <2>1, <2>2
  <2>5. /\ IsSeq(t) /\ Len(t) = Len(e) - 1
        /\ \A i \in 1..(Len(e) - 1) : t[i] = e[i + 1]
    BY <2>2, <2>3, SeqTail
  <2> HIDE DEF t
  <2>6. k - 1 \in 1..Len(t) /\ t[k - 1].field = w[k]
    BY <2>1, <2>2, <2>5
  <2>7. ASSUME NEW m \in 1..Len(t), m # k - 1 PROVE QuietItem(t[m])
    <3>1. m + 1 \in DOMAIN w /\ m + 1 # 1 /\ m + 1 # k /\ t[m].field = w[m + 1]
      BY <2>1, <2>2, <2>5, <2>7
    <3> QED
      BY <2>1, <3>1 DEF QuietItem, Several
  <2>8. OneStart(t)
    BY <2>1, <2>5, <2>6, <2>7 DEF OneStart
  <2> QED
    BY <2>2, <2>3, <2>4, <2>8 DEF t
<1> QED
  BY <1>2, <1>3, <1>4 DEF e

LEMMA QuietLoop ==
  ASSUME NEW h, QuietItem(h), h.field.op = "each"
  PROVE  Quiet(LoopOf(h))
<1> DEFINE it == [path |-> h.path,
                  field |-> [op |-> "loop", name |-> h.field.name, count |-> h.field.count,
                             element |-> h.field.element, done |-> 0]]
<1>1. it.field.op = "loop" /\ it.field.element = h.field.element
  OBVIOUS
<1>2. LoopOf(h) = <<it>>
  BY DEF LoopOf
<1> HIDE DEF it
<1>3. IsSeq(<<it>>) /\ Len(<<it>>) = 1 /\ <<it>>[1] = it
  BY SeqOne
<1>4. QuietItem(it)
  BY <1>1 DEF QuietItem, Several
<1> QED
  BY <1>2, <1>3, <1>4 DEF Quiet

LEMMA QuietTurn ==
  ASSUME NEW h, QuietItem(h), h.field.op = "loop",
         h = [path |-> h.path, field |-> LoopField(h.field, h.field.done)]
  PROVE  Quiet(TurnOf(h))
<1> DEFINE b == Enter(NextElement(h), h.field.element)
           x == Later(h)
<1>1. Quiet(b)
  BY FramesEnter DEF QuietItem, Several
<1>2. x.field.op = "loop" /\ x.field.element = h.field.element
  <2>1. x = [path |-> h.path, field |-> LoopField(h.field, h.field.done + 1)]
    BY LaterShape
  <2> HIDE DEF x
  <2> QED
    BY <2>1 DEF LoopField
<1> HIDE DEF x
<1>3. QuietItem(x)
  BY <1>2 DEF QuietItem, Several
<1>4. IsSeq(<<x>>) /\ Quiet(<<x>>)
  BY <1>3, SeqOne DEF Quiet
<1> HIDE DEF b
<1>5. Quiet(b \o <<x>>)
  BY <1>1, <1>4, QuietPush
<1> QED
  BY <1>5 DEF TurnOf, b, x

-----------------------------------------------------------------------------
(***************************************************************************)
(* Who owns the blocks in use: the packet, its pointers, or nobody (X).    *)
(***************************************************************************)
Root(t) == Enter(<<>>, mdr_packet_free(t))

Owned(L, X, Q) == \A b \in L : b = PACKET \/ b \in X \/ \E q \in DOMAIN Q : Q[q] = b

WillBeFreed(L, X, s, F, Q) ==
  \A b \in L : b = PACKET \/ b \in X \/ \E q \in DOMAIN Q : Q[q] = b /\ Frees(s, q, F, Q)

AllFreed(t, F, Q) == \A q \in DOMAIN Q : Frees(Root(t), q, F, Q)

\* A block is lost only where one is known to be.
Lost(X) == X = {} \/ (KnownLosses = 1 /\ \E x : X = {x})

\* All the blocks in use are the packet's, but for one that may be lost.
OwnedOrLost == \E X : Lost(X) /\ Owned(live, X, pointer)

\* A parser that loses nothing: no pointer is set twice, and for all it allocates
\* there is a free.
ParsesPlainly ==
  /\ Sole(todo) /\ Fresh(todo, pointer)
  /\ AllProvided(todo, Root(type), fields, pointer)
  /\ AllFreed(type, fields, pointer)
  /\ Owned(live, {}, pointer)

\* The string of a device info is allocated twice.
NameParse == << Count("len"), Zeros("string"), NameBytes("string", "len") >>

Suffix(s, l, k) ==
  /\ IsSeq(s) /\ Len(s) = Len(l) - k
  /\ \A i \in 1..Len(s) : s[i] = [path |-> <<>>, field |-> l[i + k]]

ParsesInfo ==
  /\ type = "CONNECT_RET_DEVICE_INFO" /\ pointer = <<>> /\ live = {PACKET}
  /\ Suffix(todo, DeviceInfoParse, 0) \/ Suffix(todo, DeviceInfoParse, 1)

ParsesName ==
  /\ type = "CONNECT_RET_DEVICE_INFO"
  /\ <<"inquired_type">> \in DOMAIN fields /\ fields[<<"inquired_type">>] \in Name
  /\ \/ /\ Suffix(todo, NameParse, 0) \/ Suffix(todo, NameParse, 1)
        /\ pointer = <<>> /\ live = {PACKET}
     \/ /\ Suffix(todo, NameParse, 2)
        /\ DOMAIN pointer = {<<"string">>} /\ Owned(live, {}, pointer)
     \/ /\ todo = <<>>
        /\ DOMAIN pointer = {<<"string">>} /\ OwnedOrLost

\* The blocks in use that no free will come to are lost.
Leaves == \E X : Lost(X) /\ WillBeFreed(live, X, todo, fields, pointer)

LEMMA OwnedFreed ==
  ASSUME NEW t, NEW F, NEW Q, NEW L, NEW X, AllFreed(t, F, Q), Owned(L, X, Q)
  PROVE  WillBeFreed(L, X, Root(t), F, Q)
BY DEF AllFreed, Owned, WillBeFreed

LEMMA GiveUpLeaves ==
  ASSUME type' = type, todo' = Enter(<<>>, mdr_packet_free(type)), NEW X, Lost(X)',
         Owned(live', X, pointer'), AllFreed(type, fields', pointer')
  PROVE  Leaves'
<1>1. WillBeFreed(live', X, Root(type), fields', pointer')
  BY OwnedFreed
<1>2. todo' = Root(type)
  BY DEF Root
<1> QED
  BY <1>1, <1>2 DEF Leaves

LEMMA LosesOne ==
  ASSUME NEW X, Lost(X)', Owned(live', X, pointer')
  PROVE  OwnedOrLost'
BY DEF OwnedOrLost

LEMMA NoneLost == Lost({}) /\ Lost({})'
BY DEF Lost

-----------------------------------------------------------------------------
\* What is known of the field a parser is at.
LEMMA PlainField ==
  ASSUME HeapInv, pc = "parsing", todo # <<>>, ParsesPlainly
  PROVE  LET h == todo[1] IN
         /\ Stack(todo) /\ IsSeq(todo) /\ TidyItem(h) /\ Field = h.field
         /\ Here(Field.name) = Spot(h) /\ Loop = LoopOf(h)
         /\ Provided(h, Root(type), fields, pointer)
         /\ h.field.op \in Readers \cup Several \cup {"bytes", "name", "switch"}
         /\ h.field.op \in Single => Spot(h) \notin DOMAIN fields
<1> DEFINE h == todo[1]
<1>1. /\ Walked(todo, fields, pointer) /\ Stack(todo) /\ IsSeq(todo)
      /\ TidyItem(h) /\ Field = h.field /\ Here(Field.name) = Spot(h)
      /\ Loop = LoopOf(h)
  BY AtField
<1>2. 1 \in 1..Len(todo)
  BY <1>1, SeqTail, SeqLen
<1>3. Provided(h, Root(type), fields, pointer)
  BY <1>2 DEF ParsesPlainly, AllProvided
<1>4. h.field.op \in Readers \cup Several \cup {"bytes", "name", "switch"}
  BY <1>3 DEF Provided
<1>5. ASSUME h.field.op \in Single PROVE Spot(h) \notin DOMAIN fields
  <2>1. Covers(h, Spot(h))
    BY <1>1, <1>5, CoversSpot
  <2> QED
    BY <1>1, <1>2, <2>1 DEF Walked, CoveredBy
<1> QED
  BY <1>1, <1>3, <1>4, <1>5

\* A field is read.
LEMMA PlainReads ==
  ASSUME HeapInv, pc = "parsing", todo # <<>>, ParsesPlainly, Field.op \in Readers, NEW v,
         type' = type, fields' = Set(fields, Here(Field.name), v),
         UNCHANGED <<pointer, live>>
  PROVE  /\ Grows(fields, pointer, fields', pointer')
         /\ AllFreed(type, fields', pointer') /\ Owned(live', {}, pointer')
         /\ AllProvided(todo, Root(type), fields', pointer')
<1> DEFINE h == todo[1]
<1>1. /\ Field = h.field /\ Here(Field.name) = Spot(h)
      /\ h.field.op \in Single => Spot(h) \notin DOMAIN fields
  BY PlainField
<1>2. Spot(h) \notin DOMAIN fields
  BY <1>1 DEF Readers, Single
<1>3. Grows(fields, pointer, fields', pointer')
  BY <1>1, <1>2 DEF Grows, Set
<1>4. AllFreed(type, fields', pointer')
  BY <1>3, ComesMore DEF ParsesPlainly, AllFreed
<1>5. AllProvided(todo, Root(type), fields', pointer')
  BY <1>3, ProvidedMore DEF ParsesPlainly, AllProvided
<1> QED
  BY <1>3, <1>4, <1>5 DEF ParsesPlainly

LEMMA PlainReader ==
  ASSUME HeapInv, pc = "parsing", todo # <<>>, ParsesPlainly, Field.op \in Readers, NEW v,
         type' = type, fields' = Set(fields, Here(Field.name), v),
         UNCHANGED <<pointer, live>>, todo' = Tail(todo)
  PROVE  ParsesPlainly'
<1>1. IsSeq(todo)
  BY PlainField
<1>2. /\ AllFreed(type, fields', pointer') /\ Owned(live', {}, pointer')
      /\ AllProvided(todo, Root(type), fields', pointer')
  BY PlainReads
<1>3. Sole(todo') /\ Fresh(todo', pointer')
  BY <1>1, SoleTail DEF ParsesPlainly
<1>4. AllProvided(todo', Root(type), fields', pointer')
  BY <1>1, <1>2, ProvidedTail
<1> QED
  BY <1>2, <1>3, <1>4 DEF ParsesPlainly

\* A pointer is set.
LEMMA PlainSets ==
  ASSUME HeapInv, pc = "parsing", todo # <<>>, ParsesPlainly, Field.op \in {"bytes", "name", "each"},
         NEW v, NEW Q2, Q2 = Set(pointer, Here(Field.name), v)
  PROVE  LET h == todo[1] IN
         /\ \A q \in DOMAIN pointer : q \in DOMAIN Q2 /\ Q2[q] = pointer[q]
         /\ Spot(h) \in DOMAIN Q2 /\ Q2[Spot(h)] = v
         /\ Grows(fields, pointer, fields, Q2)
         /\ AllFreed(type, fields, Q2)
         /\ AllProvided(todo, Root(type), fields, Q2)
         /\ \A L, X : Owned(L, X, pointer) => Owned(L, X, Q2)
         /\ \A L, X : Owned(L, X, pointer) => Owned(L \cup {v}, X, Q2)
<1> DEFINE h == todo[1]
<1>1. /\ Stack(todo) /\ Field = h.field /\ Here(Field.name) = Spot(h)
      /\ Provided(h, Root(type), fields, pointer)
  BY PlainField
<1>2. Spot(h) \notin DOMAIN pointer
  BY <1>1, FreshSets, FreshArray DEF ParsesPlainly
<1>3. /\ \A q \in DOMAIN pointer : q \in DOMAIN Q2 /\ Q2[q] = pointer[q]
      /\ Spot(h) \in DOMAIN Q2 /\ Q2[Spot(h)] = v
      /\ \A q \in DOMAIN Q2 : q \in DOMAIN pointer \/ q = Spot(h)
  BY <1>1, <1>2 DEF Set
<1>4. Grows(fields, pointer, fields, Q2)
  BY <1>3 DEF Grows
<1>5. Frees(Root(type), Spot(h), fields, pointer)
  BY <1>1 DEF Provided
<1>6. AllFreed(type, fields, Q2)
  BY <1>3, <1>4, <1>5, ComesMore DEF ParsesPlainly, AllFreed
<1>7. AllProvided(todo, Root(type), fields, Q2)
  BY <1>4, ProvidedMore DEF ParsesPlainly, AllProvided
<1>8. /\ \A L, X : Owned(L, X, pointer) => Owned(L, X, Q2)
      /\ \A L, X : Owned(L, X, pointer) => Owned(L \cup {v}, X, Q2)
  BY <1>3 DEF Owned
<1> QED
  BY <1>3, <1>4, <1>6, <1>7, <1>8

LEMMA PlainBlock ==
  ASSUME HeapInv, pc = "parsing", todo # <<>>, ParsesPlainly, Field.op \in {"bytes", "name"},
         type' = type, fields' = fields, Allocates, todo' = Tail(todo)
  PROVE  ParsesPlainly'
<1> DEFINE v == allocated + 1
<1>1. Stack(todo) /\ IsSeq(todo) /\ Field = todo[1].field /\ Here(Field.name) = Spot(todo[1])
  BY PlainField
<1>2. pointer' = Set(pointer, Here(Field.name), v) /\ live' = live \cup {v}
  BY DEF Allocates
<1> HIDE DEF v
<1>3. /\ AllFreed(type, fields, pointer') /\ AllProvided(todo, Root(type), fields, pointer')
      /\ Owned(live', {}, pointer')
  BY <1>2, PlainSets DEF ParsesPlainly
<1>4. Sole(todo') /\ Fresh(todo', pointer')
  BY <1>1, <1>2, FreshSets DEF ParsesPlainly
<1>5. AllProvided(todo', Root(type), fields, pointer')
  BY <1>1, <1>3, ProvidedTail
<1> QED
  BY <1>3, <1>4, <1>5 DEF ParsesPlainly

LEMMA PlainArray ==
  ASSUME HeapInv, ParseForEach, ParsesPlainly
  PROVE  ParsesPlainly'
<1> DEFINE v == allocated + 1
           h == todo[1]
<1>0. /\ pc = "parsing" /\ todo # <<>> /\ Field.op = "each" /\ Allocates
      /\ type' = type /\ fields' = fields /\ todo' = Loop \o Tail(todo)
  BY DEF ParseForEach, At, frameVars
<1>1. /\ Stack(todo) /\ IsSeq(todo) /\ Field = h.field /\ Here(Field.name) = Spot(h)
      /\ TidyItem(h) /\ Loop = LoopOf(h)
  BY <1>0, PlainField
<1>2. pointer' = Set(pointer, Here(Field.name), v) /\ live' = live \cup {v}
  BY <1>0 DEF Allocates
<1> HIDE DEF v
<1>3. /\ AllFreed(type, fields, pointer') /\ AllProvided(todo, Root(type), fields, pointer')
      /\ Owned(live', {}, pointer')
  BY <1>0, <1>2, PlainSets DEF ParsesPlainly
<1>4. Sole(todo') /\ Fresh(todo', pointer')
  BY <1>0, <1>1, <1>2, FreshArray DEF ParsesPlainly
<1>5. Append(h.path, h.field.count) \in DOMAIN fields /\ fields[Append(h.path, h.field.count)] \in Nat
  BY <1>0, <1>1, AtField, HeadIs
<1>6. Provided(h, Root(type), fields, pointer')
  <2>1. 1 \in 1..Len(todo)
    BY <1>0, <1>1, SeqTail, SeqLen
  <2> QED
    BY <1>3, <2>1 DEF AllProvided
<1>7. AllProvided(LoopOf(h), Root(type), fields, pointer')
  BY <1>0, <1>1, <1>5, <1>6, ProvidedLoop
<1>8. Stack(LoopOf(h))
  BY <1>0, <1>1, LoopStack
<1>9. AllProvided(todo', Root(type), fields, pointer')
  <2>1. AllProvided(LoopOf(todo[1]) \o Tail(todo), Root(type), fields, pointer')
    BY <1>0, <1>1, <1>3, <1>7, <1>8, ProvidedPush
  <2> QED
    BY <1>0, <1>1, <2>1
<1> QED
  BY <1>0, <1>3, <1>4, <1>9 DEF ParsesPlainly

LEMMA PlainBranch ==
  ASSUME HeapInv, Branch, pc = "parsing", ParsesPlainly
  PROVE  ParsesPlainly'
<1> DEFINE h == todo[1]
<1>0. /\ todo # <<>> /\ Field.op = "switch"
      /\ UNCHANGED <<type, fields, pointer, live, allocated>>
  BY DEF Branch, At, frameVars, packetVars, memoryVars
<1>1. /\ Stack(todo) /\ IsSeq(todo) /\ Field = h.field /\ TidyItem(h)
      /\ Provided(h, Root(type), fields, pointer)
  BY <1>0, PlainField
<1>2. Spot(h) \in DOMAIN fields
  BY <1>0, <1>1, AtField, HeadIs
<1>3. \/ todo' = Tail(todo)
      \/ \E c \in DOMAIN h.field.cases :
           /\ fields[Spot(h)] \in h.field.cases[c].values
           /\ todo' = Enter(h.path, h.field.cases[c].layout) \o Tail(todo)
  BY <1>1, <1>2, BranchIs
<1>4. CASE todo' = Tail(todo)
  BY <1>0, <1>1, <1>4, SoleTail, ProvidedTail DEF ParsesPlainly
<1>5. ASSUME NEW c \in DOMAIN h.field.cases,
             fields[Spot(h)] \in h.field.cases[c].values,
             todo' = Enter(h.path, h.field.cases[c].layout) \o Tail(todo)
      PROVE  ParsesPlainly'
  <2> DEFINE lay == h.field.cases[c].layout
             new == Enter(h.path, lay)
  <2>1. AllProvided(new, Root(type), fields, pointer)
    BY <1>0, <1>1, <1>2, <1>5, ProvidedCase
  <2>2. IsSeq(lay) /\ \A i \in DOMAIN lay : lay[i].op \notin {"free", "zeros"}
    <3>1. Tidy(lay)
      BY <1>0, <1>1 DEF TidyItem, TidyCases
    <3> HIDE DEF lay
    <3>2. IsSeq(lay)
      BY <3>1, TidyIs
    <3>3. \A i \in DOMAIN lay : \E m \in 1..Len(new) : new[m].field = lay[i]
      <4>1. /\ Len(new) = Len(lay) /\ DOMAIN lay = 1..Len(lay)
            /\ \A i \in 1..Len(lay) : new[i] = [path |-> h.path, field |-> lay[i]]
        BY <3>2, SeqEnter, SeqLen
      <4> HIDE DEF new
      <4> SUFFICES ASSUME NEW i \in DOMAIN lay PROVE \E m \in 1..Len(new) : new[m].field = lay[i]
        OBVIOUS
      <4>2. i \in 1..Len(new) /\ new[i] = [path |-> h.path, field |-> lay[i]]
        BY <4>1
      <4>3. new[i].field = lay[i]
        BY <4>2
      <4> QED
        BY <4>2, <4>3
    <3> HIDE DEF new
    <3> QED
      BY <2>1, <3>2, <3>3 DEF AllProvided, Provided, Readers, Several
  <2>3. Stack(new) /\ Sole(new) /\ \A i \in 1..Len(new) : \A q : Takes(new[i], q) => Takes(h, q)
    BY <1>0, <1>1, <2>2, CaseSole
  <2>4. todo' = new \o Tail(todo)
    BY <1>5
  <2> HIDE DEF new
  <2>5. Sole(todo') /\ Fresh(todo', pointer')
    BY <1>0, <1>1, <2>3, <2>4, SolePush DEF ParsesPlainly
  <2>6. AllProvided(todo', Root(type), fields, pointer)
    BY <1>0, <1>1, <2>1, <2>3, <2>4, ProvidedPush DEF ParsesPlainly
  <2> QED
    BY <1>0, <2>5, <2>6 DEF ParsesPlainly
<1> QED
  BY <1>3, <1>4, <1>5

LEMMA PlainRepeat ==
  ASSUME HeapInv, Repeat, pc = "parsing", ParsesPlainly
  PROVE  ParsesPlainly'
<1> DEFINE h == todo[1]
           n == fields[Append(h.path, h.field.count)]
           new == TurnOf(h)
<1>0. /\ todo # <<>> /\ Field.op = "loop"
      /\ UNCHANGED <<type, fields, pointer, live, allocated>>
  BY DEF Repeat, At, frameVars, packetVars, memoryVars
<1>1. /\ Stack(todo) /\ IsSeq(todo) /\ Field = h.field /\ TidyItem(h)
      /\ Provided(h, Root(type), fields, pointer)
  BY <1>0, PlainField
<1>2. /\ Append(h.path, h.field.count) \in DOMAIN fields /\ n \in Nat
      /\ Spot(h) \in DOMAIN pointer /\ pointer[Spot(h)] # NULL
  BY <1>0, <1>1, AtField, HeadIs
<1>3. \/ todo' = Tail(todo)
      \/ todo' = TurnOf(h) \o Tail(todo) /\ h.field.done # n
  BY <1>1, <1>2, RepeatIs
<1>4. CASE todo' = Tail(todo)
  BY <1>0, <1>1, <1>4, SoleTail, ProvidedTail DEF ParsesPlainly
<1>5. CASE todo' = TurnOf(h) \o Tail(todo) /\ h.field.done # n
  <2>1. AllProvided(new, Root(type), fields, pointer)
    BY <1>0, <1>1, <1>2, <1>5, ProvidedTurn
  <2>2. \A i \in DOMAIN h.field.element : h.field.element[i].op \notin {"free", "zeros"}
    <3> DEFINE lay == h.field.element
    <3>1. IsSeq(lay) /\ \A i \in DOMAIN lay : \E m \in 1..Len(new) : new[m].field = lay[i]
      <4>1. /\ Stack(new) /\ IsSeq(lay) /\ Len(lay) \in Nat /\ DOMAIN lay = 1..Len(lay)
            /\ Len(new) = Len(lay) + 1
            /\ \A i \in 1..Len(lay) : new[i] = [path |-> NextElement(h), field |-> lay[i]]
        BY <1>0, <1>1, TurnStack, SeqLen
      <4> HIDE DEF new, lay
      <4> SUFFICES ASSUME NEW i \in DOMAIN lay PROVE \E m \in 1..Len(new) : new[m].field = lay[i]
        BY <4>1
      <4>2. i \in 1..Len(new) /\ new[i] = [path |-> NextElement(h), field |-> lay[i]]
        BY <4>1
      <4>3. new[i].field = lay[i]
        BY <4>2
      <4> QED
        BY <4>2, <4>3
    <3> HIDE DEF new, lay
    <3>2. \A i \in DOMAIN lay : lay[i].op \notin {"free", "zeros"}
      BY <2>1, <3>1 DEF AllProvided, Provided, Readers, Several
    <3> QED
      BY <3>2 DEF lay
  <2>3. Stack(new) /\ Sole(new) /\ \A i \in 1..Len(new) : \A q : Takes(new[i], q) => Takes(h, q)
    BY <1>0, <1>1, <2>2, TurnSole
  <2>4. todo' = new \o Tail(todo)
    BY <1>5
  <2> HIDE DEF new
  <2>5. Sole(todo') /\ Fresh(todo', pointer')
    BY <1>0, <1>1, <2>3, <2>4, SolePush DEF ParsesPlainly
  <2>6. AllProvided(todo', Root(type), fields, pointer)
    BY <1>0, <1>1, <2>1, <2>3, <2>4, ProvidedPush DEF ParsesPlainly
  <2> QED
    BY <1>0, <2>5, <2>6 DEF ParsesPlainly
<1> QED
  BY <1>3, <1>4, <1>5

LEMMA PlainBegins ==
  ASSUME HeapInv, Parse, type # "CONNECT_RET_DEVICE_INFO"
  PROVE  ParsesPlainly'
<1> DEFINE l == mdr_packet_from_frame(type)
           fl == mdr_packet_free(type)
           e == Enter(<<>>, l)
           R == Root(type)
<1>0. /\ type \in PacketTypes /\ live' = {PACKET} /\ todo' = e
      /\ UNCHANGED <<type, fields, pointer>> /\ pointer = <<>>
  BY DEF Parse, frameVars, packetVars, HeapInv, Kind
<1>1. Neat(l) /\ IsSeq(l)
  BY <1>0, Layouts DEF Neat
<1>2. Undoes(fl, l)
  BY <1>0, TablesUndone
<1>3. IsSeq(<<>>) /\ \A q : q \notin DOMAIN <<>>
  BY NoItems
<1>4. \A i \in DOMAIN l : l[i].op \notin {"free", "zeros"}
  <2> HIDE DEF l, fl
  <2> QED
    BY <1>2, UndoesIs DEF Readers
<1>5. Reached(fl, <<>>, R, fields, pointer)
  <2>1. IsSeq(fl)
    BY FreeLayouts DEF Neat
  <2>2. R = Enter(<<>>, fl)
    BY DEF Root
  <2> HIDE DEF fl, R
  <2>3. /\ Len(R) = Len(fl) /\ DOMAIN fl = 1..Len(fl)
        /\ \A i \in 1..Len(fl) : R[i] = [path |-> <<>>, field |-> fl[i]]
    BY <2>1, <2>2, SeqEnter, SeqLen
  <2>4. ASSUME NEW i \in DOMAIN fl
        PROVE  Comes(R, [path |-> <<>>, field |-> fl[i]], fields, pointer)
    <3>1. i \in 1..Len(R) /\ R[i] = [path |-> <<>>, field |-> fl[i]]
      BY <2>3
    <3>2. Comes(R, R[i], fields, pointer)
      BY <3>1, ComesToItems
    <3> QED
      BY <3>1, <3>2
  <2> QED
    BY <2>4 DEF Reached
<1> HIDE DEF l, fl, R
<1>6. Sole(e)
  BY <1>1, <1>3, <1>4, EnterSole
<1>7. AllProvided(e, R, fields, pointer)
  BY <1>1, <1>2, <1>5, ProvidedEnters
<1>8. Fresh(e, pointer) /\ AllFreed(type, fields, pointer)
  BY <1>0, <1>3 DEF Fresh, AllFreed
<1>9. Owned(live', {}, pointer)
  BY <1>0 DEF Owned
<1> HIDE DEF e
<1> QED
  BY <1>0, <1>6, <1>7, <1>8, <1>9 DEF ParsesPlainly, R

\* The parser of such a packet gives up.
LEMMA PlainFails ==
  ASSUME HeapInv, pc = "parsing", ParsesPlainly, ParseEnum \/ TooShort \/ OutOfMemory,
         pc' = "freeing"
  PROVE  Leaves'
<1> DEFINE h == todo[1]
<1>0. /\ todo # <<>> /\ type' = type /\ todo' = Enter(<<>>, mdr_packet_free(type))
  BY DEF ParseEnum, TooShort, OutOfMemory, IsBlock, At, Reads, Proceeds, GivesUp, frameVars
<1>1. Lost({})'
  BY NoneLost
<1>2. CASE TooShort
  <2>1. AllFreed(type, fields', pointer') /\ Owned(live', {}, pointer')
    BY <1>2 DEF TooShort, packetVars, memoryVars, ParsesPlainly
  <2> QED
    BY <1>0, <1>1, <2>1, GiveUpLeaves
<1>3. CASE ParseEnum
  <2>1. PICK b : Reads(b, b)
    BY <1>3 DEF ParseEnum
  <2>2. /\ fields' = Set(fields, Here(Field.name), b) /\ UNCHANGED <<pointer, live>>
        /\ Field.op \in Readers
    BY <1>3, <2>1 DEF Reads, memoryVars, ParseEnum, At, Readers
  <2>3. AllFreed(type, fields', pointer') /\ Owned(live', {}, pointer')
    BY <1>0, <2>2, PlainReads
  <2> QED
    BY <1>0, <1>1, <2>3, GiveUpLeaves
<1>4. CASE OutOfMemory
  <2>1. /\ Field.op \in {"bytes", "name", "zeros", "each"} /\ fields' = fields /\ live' = live
        /\ pointer' = Set(pointer, Here(Field.name), NULL)
    BY <1>4 DEF OutOfMemory, IsBlock, At, memoryVars
  <2>2. Field.op # "zeros"
    <3>1. Field.op \in Readers \cup Several \cup {"bytes", "name", "switch"}
      BY <1>0, PlainField
    <3> QED
      BY <3>1 DEF Readers, Several
  <2>3. AllFreed(type, fields, pointer') /\ Owned(live, {}, pointer')
    BY <1>0, <2>1, <2>2, PlainSets DEF ParsesPlainly
  <2> QED
    BY <1>0, <1>1, <2>1, <2>3, GiveUpLeaves
<1> QED
  BY <1>2, <1>3, <1>4

-----------------------------------------------------------------------------
(* A device info.                                                          *)

LEMMA SuffixIs ==
  ASSUME NEW s, NEW l, NEW k \in Nat, Suffix(s, l, k), IsSeq(l)
  PROVE  /\ s = <<>> => Len(l) = k
         /\ s # <<>> => /\ s[1].path = <<>> /\ s[1].field = l[k + 1]
                        /\ k + 1 \in 1..Len(l) /\ Suffix(Tail(s), l, k + 1)
<1>1. IsSeq(s) /\ Len(s) = Len(l) - k /\ Len(s) \in Nat /\ Len(l) \in Nat
  BY SeqLen DEF Suffix
<1>2. ASSUME s = <<>> PROVE Len(l) = k
  BY <1>1, <1>2, NoItems
<1>3. ASSUME s # <<>>
      PROVE  /\ s[1].path = <<>> /\ s[1].field = l[k + 1]
             /\ k + 1 \in 1..Len(l) /\ Suffix(Tail(s), l, k + 1)
  <2> DEFINE t == Tail(s)
  <2>1. /\ Len(s) > 0 /\ IsSeq(t) /\ Len(t) = Len(s) - 1
        /\ \A i \in 1..(Len(s) - 1) : t[i] = s[i + 1]
    BY <1>1, <1>3, SeqTail
  <2> HIDE DEF t
  <2>2. s[1] = [path |-> <<>>, field |-> l[1 + k]]
    BY <1>1, <2>1 DEF Suffix
  <2>3. s[1].path = <<>> /\ s[1].field = l[1 + k]
    BY <2>2
  <2>4. ASSUME NEW i \in 1..Len(t) PROVE t[i] = [path |-> <<>>, field |-> l[i + (k + 1)]]
    <3>1. i + 1 \in 1..Len(s) /\ t[i] = s[i + 1] /\ (i + 1) + k = i + (k + 1)
      BY <1>1, <2>1
    <3>2. s[i + 1] = [path |-> <<>>, field |-> l[(i + 1) + k]]
      BY <3>1 DEF Suffix
    <3> QED
      BY <3>1, <3>2
  <2>5. Suffix(t, l, k + 1)
    BY <1>1, <2>1, <2>4 DEF Suffix
  <2> QED
    BY <1>1, <2>1, <2>3, <2>5 DEF t
<1> QED
  BY <1>2, <1>3

LEMMA SuffixEnds ==
  ASSUME NEW s, NEW l, NEW k, IsSeq(l), Len(l) = k, Suffix(s, l, k)
  PROVE  s = <<>>
<1>1. IsSeq(s) /\ Len(s) = Len(l) - k
  BY DEF Suffix
<1>2. Len(l) \in Nat
  BY SeqLen
<1>3. Len(s) = 0
  BY <1>1, <1>2
<1> QED
  BY <1>1, <1>3, SeqTail

LEMMA SuffixEnters ==
  ASSUME NEW l, IsSeq(l)
  PROVE  Suffix(Enter(<<>>, l), l, 0)
<1> DEFINE e == Enter(<<>>, l)
<1>1. /\ IsSeq(e) /\ Len(e) = Len(l) /\ Len(l) \in Nat
      /\ \A i \in 1..Len(l) : e[i] = [path |-> <<>>, field |-> l[i]]
  BY SeqEnter, SeqLen
<1> HIDE DEF e
<1>2. Suffix(e, l, 0)
  <2>1. \A i \in 1..Len(e) : i + 0 = i
    BY <1>1
  <2> QED
    BY <1>1, <2>1 DEF Suffix
<1> QED
  BY <1>2 DEF e

\* The cases of a device info, as it is parsed.
SeriesParse   == << Enum("series", Series), Enum("color", Colors) >>
GuidanceParse == << Count("num_guidance_categories"),
                    Each("guidance_categories", "num_guidance_categories",
                         << Enum("guidance_category", GuidanceCategories) >>) >>

LEMMA InfoLayouts ==
  /\ IsSeq(DeviceInfoParse) /\ Len(DeviceInfoParse) = 2
  /\ DeviceInfoParse[1].op = "enum"
  /\ DeviceInfoParse[2].op = "switch" /\ DeviceInfoParse[2].name = "inquired_type"
  /\ DOMAIN DeviceInfoParse[2].cases = 1..3
  /\ DeviceInfoParse[2].cases[1].values = Name /\ DeviceInfoParse[2].cases[1].layout = NameParse
  /\ DeviceInfoParse[2].cases[2].layout = SeriesParse
  /\ DeviceInfoParse[2].cases[3].values = InstructionGuide
  /\ DeviceInfoParse[2].cases[3].layout = GuidanceParse
  /\ IsSeq(NameParse) /\ Len(NameParse) = 3
  /\ NameParse[1].op = "count" /\ NameParse[1].name = "len"
  /\ NameParse[2].op = "zeros" /\ NameParse[2].name = "string"
  /\ NameParse[3].op = "name" /\ NameParse[3].name = "string"
<1> DEFINE cs == << Case(Name, NameParse), Case(SeriesAndColor, SeriesParse), Case(InstructionGuide, GuidanceParse) >>
           l == << Inquired(DeviceInfoInquired), Switch("inquired_type", cs) >>
<1>1. DeviceInfoParse = l
  BY Zenon DEF DeviceInfoParse, l, cs, NameParse, SeriesParse, GuidanceParse
<1>2. /\ DOMAIN cs = 1..3 /\ cs[1].values = Name /\ cs[1].layout = NameParse
      /\ cs[2].layout = SeriesParse /\ cs[3].values = InstructionGuide /\ cs[3].layout = GuidanceParse
  BY Tuple3 DEF Case
<1> HIDE DEF cs
<1>3. /\ IsSeq(l) /\ Len(l) = 2 /\ l[1].op = "enum"
      /\ l[2].op = "switch" /\ l[2].name = "inquired_type" /\ l[2].cases = cs
  BY Tuple2 DEF Inquired, Enum, Switch
<1>4. /\ IsSeq(NameParse) /\ Len(NameParse) = 3
      /\ NameParse[1].op = "count" /\ NameParse[1].name = "len"
      /\ NameParse[2].op = "zeros" /\ NameParse[2].name = "string"
      /\ NameParse[3].op = "name" /\ NameParse[3].name = "string"
  BY Tuple3 DEF NameParse, Count, Zeros, NameBytes
<1> HIDE DEF l
<1> QED
  BY <1>1, <1>2, <1>3, <1>4

LEMMA InfoFree ==
  LET R == Root("CONNECT_RET_DEVICE_INFO") IN
  /\ Len(R) = 1
  /\ R[1].path = <<>> /\ R[1].field.op = "switch" /\ R[1].field.name = "inquired_type"
  /\ DOMAIN R[1].field.cases = 1..2
  /\ R[1].field.cases[1].values = Name /\ R[1].field.cases[1].layout = << Free("string") >>
  /\ R[1].field.cases[2].values = InstructionGuide
  /\ R[1].field.cases[2].layout = << Free("guidance_categories") >>
<1> DEFINE c1 == << Free("string") >>
           c2 == << Free("guidance_categories") >>
           cs == << Case(Name, c1), Case(InstructionGuide, c2) >>
           sw == Switch("inquired_type", cs)
           l == << sw >>
           R == Root("CONNECT_RET_DEVICE_INFO")
           t == "CONNECT_RET_DEVICE_INFO"
<1>1. mdr_packet_free(t) = l
  <2>1. ConnectFree[t] = l
    BY DEF ConnectFree
  <2> HIDE DEF l
  <2> QED
    BY <2>1, FreeIs, FreeDomains
<1> HIDE DEF c1, c2
<1>2. /\ DOMAIN cs = 1..2 /\ cs[1].values = Name /\ cs[1].layout = c1
      /\ cs[2].values = InstructionGuide /\ cs[2].layout = c2
  BY Tuple2 DEF Case
<1> HIDE DEF cs
<1>3. sw.op = "switch" /\ sw.name = "inquired_type" /\ sw.cases = cs
  BY DEF Switch
<1> HIDE DEF sw
<1>4. IsSeq(l) /\ Len(l) = 1 /\ l[1] = sw
  BY SeqOne
<1> HIDE DEF l
<1>5. R = Enter(<<>>, l)
  BY <1>1 DEF Root
<1> HIDE DEF R
<1>6. Len(R) = 1 /\ R[1] = [path |-> <<>>, field |-> sw]
  BY <1>4, <1>5, SeqEnter
<1>7. R[1].path = <<>> /\ R[1].field = sw
  BY <1>6
<1> QED
  BY <1>2, <1>3, <1>6, <1>7 DEF R, c1, c2

LEMMA NameIsNoGuide == \A v : ~(v \in Name /\ v \in InstructionGuide)
<1>1. 1 # 4 /\ 2 # 4
  OBVIOUS
<1> QED
  BY <1>1, Zenon DEF Name, InstructionGuide

\* The free of a device info comes to its string, or to its array.
LEMMA InfoComes ==
  ASSUME NEW F, NEW Q, <<"inquired_type">> \in DOMAIN F
  PROVE  /\ F[<<"inquired_type">>] \in Name =>
              Frees(Root("CONNECT_RET_DEVICE_INFO"), <<"string">>, F, Q)
         /\ F[<<"inquired_type">>] \in InstructionGuide =>
              Comes(Root("CONNECT_RET_DEVICE_INFO"),
                    [path |-> <<>>, field |-> Free("guidance_categories")], F, Q)
<1> DEFINE R == Root("CONNECT_RET_DEVICE_INFO")
           y == R[1]
           c1 == << Free("string") >>
           c2 == << Free("guidance_categories") >>
<1>1. /\ Len(R) = 1
      /\ y.path = <<>> /\ y.field.op = "switch" /\ y.field.name = "inquired_type"
      /\ DOMAIN y.field.cases = 1..2
      /\ y.field.cases[1].values = Name /\ y.field.cases[1].layout = c1
      /\ y.field.cases[2].values = InstructionGuide /\ y.field.cases[2].layout = c2
  BY InfoFree
<1>2. /\ 1 \in DOMAIN c1 /\ c1[1] = Free("string")
      /\ 1 \in DOMAIN c2 /\ c2[1] = Free("guidance_categories")
  OBVIOUS
<1>3. \A v : ~(v \in Name /\ v \in InstructionGuide)
  BY NameIsNoGuide
<1>4. Spot(y) = <<"inquired_type">>
  <2> HIDE DEF R, c1, c2, y
  <2>1. Append(<<>>, "inquired_type") = <<"inquired_type">>
    OBVIOUS
  <2>2. y.path = <<>> /\ y.field.name = "inquired_type"
    BY <1>1
  <2> QED
    BY <2>1, <2>2 DEF Spot
<1>5. Comes(R, y, F, Q)
  <2>1. y = R[1] /\ Len(R) = 1
    BY <1>1
  <2> HIDE DEF R, y
  <2>2. 1 \in 1..Len(R)
    BY <2>1
  <2>3. Comes(R, R[1], F, Q)
    BY <2>2, ComesToItems
  <2> QED
    BY <2>1, <2>3
<1> HIDE DEF R, c1, c2, y
<1>6. ASSUME F[<<"inquired_type">>] \in Name
      PROVE  Frees(R, <<"string">>, F, Q)
  <2> DEFINE z == [path |-> <<>>, field |-> Free("string")]
  <2>1. z.field.op = "free" /\ Spot(z) = <<"string">>
    BY DEF Spot, Free
  <2>2. OpensCase(y, z, F)
    BY <1>1, <1>2, <1>3, <1>4, <1>6 DEF OpensCase
  <2> HIDE DEF z
  <2>3. Comes(R, z, F, Q)
    BY <1>5, <2>2, ComesOn DEF Opens
  <2> QED
    BY <2>1, <2>3 DEF Frees
<1>7. ASSUME F[<<"inquired_type">>] \in InstructionGuide
      PROVE  Comes(R, [path |-> <<>>, field |-> Free("guidance_categories")], F, Q)
  <2> DEFINE z == [path |-> <<>>, field |-> Free("guidance_categories")]
  <2>1. OpensCase(y, z, F)
    BY <1>1, <1>2, <1>3, <1>4, <1>7 DEF OpensCase
  <2> HIDE DEF z
  <2>2. Comes(R, z, F, Q)
    BY <1>5, <2>1, ComesOn DEF Opens
  <2> QED
    BY <2>2 DEF z
<1> QED
  BY <1>6, <1>7 DEF R

LEMMA InfoBegins ==
  ASSUME HeapInv, Parse, type = "CONNECT_RET_DEVICE_INFO"
  PROVE  ParsesInfo'
<1> DEFINE l == DeviceInfoParse
<1>1. /\ live' = {PACKET} /\ todo' = Enter(<<>>, mdr_packet_from_frame(type))
      /\ UNCHANGED <<type, fields, pointer>> /\ pointer = <<>>
  BY DEF Parse, frameVars, packetVars, HeapInv, Kind
<1>2. mdr_packet_from_frame(type) = l
  <2>1. type \in DOMAIN ConnectParse /\ ConnectParse[type] = l
    BY DEF ConnectParse
  <2> QED
    BY <2>1, LayoutsAre
<1>3. IsSeq(l)
  BY InfoLayouts
<1> HIDE DEF l
<1>4. Suffix(Enter(<<>>, l), l, 0)
  BY <1>3, SuffixEnters
<1>5. Suffix(todo', l, 0)
  BY <1>1, <1>2, <1>4
<1> QED
  BY <1>1, <1>5 DEF ParsesInfo, l

\* A parser that is at a field of the packet itself.
LEMMA SuffixAt ==
  ASSUME HeapInv, pc = "parsing", NEW l, IsSeq(l), NEW k \in Nat, Suffix(todo, l, k), k < Len(l),
         NEW j, j = k + 1
  PROVE  /\ todo # <<>> /\ IsSeq(todo) /\ Stack(todo) /\ TidyItem(todo[1])
         /\ todo[1].path = <<>> /\ todo[1].field = l[j] /\ Field = l[j]
         /\ Here(Field.name) = <<l[j].name>> /\ Spot(todo[1]) = <<l[j].name>>
         /\ Suffix(Tail(todo), l, j)
         /\ l[j].op = "switch" => <<l[j].name>> \in DOMAIN fields
<1>1. Len(l) \in Nat
  BY SeqLen
<1>2. todo # <<>>
  BY <1>1, SuffixIs
<1>3. /\ IsSeq(todo) /\ Stack(todo) /\ TidyItem(todo[1]) /\ Field = todo[1].field
      /\ Here(Field.name) = Spot(todo[1]) /\ Walked(todo, fields, pointer)
  BY <1>2, AtField
<1>4. todo[1].path = <<>> /\ todo[1].field = l[j] /\ Suffix(Tail(todo), l, j)
  BY <1>2, SuffixIs
<1>5. Spot(todo[1]) = <<l[j].name>>
  <2> DEFINE n == l[j].name
  <2>1. todo[1].field.name = n /\ todo[1].path = <<>>
    BY <1>4
  <2> HIDE DEF n
  <2>2. Append(<<>>, n) = <<n>>
    OBVIOUS
  <2> QED
    BY <2>1, <2>2 DEF Spot, n
<1>6. ASSUME l[j].op = "switch" PROVE Spot(todo[1]) \in DOMAIN fields
  BY <1>2, <1>3, <1>4, <1>6, HeadIs
<1> QED
  BY <1>2, <1>3, <1>4, <1>5, <1>6

LEMMA InfoAt ==
  ASSUME HeapInv, pc = "parsing", ParsesInfo
  PROVE  /\ todo # <<>> /\ Field.op \in {"enum", "switch"}
         /\ Field.op = "enum" => Suffix(Tail(todo), DeviceInfoParse, 1)
         /\ Field.op = "switch" =>
              /\ todo[1].field = DeviceInfoParse[2] /\ todo[1].path = <<>>
              /\ IsSeq(todo) /\ Stack(todo) /\ TidyItem(todo[1])
              /\ Spot(todo[1]) = <<"inquired_type">> /\ <<"inquired_type">> \in DOMAIN fields
              /\ Tail(todo) = <<>>
<1> DEFINE l == DeviceInfoParse
<1>1. /\ IsSeq(l) /\ Len(l) = 2
      /\ l[1].op = "enum" /\ l[2].op = "switch" /\ l[2].name = "inquired_type"
  BY InfoLayouts
<1>2. Suffix(todo, l, 0) \/ Suffix(todo, l, 1)
  BY DEF ParsesInfo
<1> HIDE DEF l
<1>3. ASSUME Suffix(todo, l, 0)
      PROVE  todo # <<>> /\ Field.op = "enum" /\ Suffix(Tail(todo), l, 1)
  <2>1. 0 \in Nat /\ 0 < Len(l) /\ 1 = 0 + 1
    BY <1>1
  <2>2. todo # <<>> /\ Field = l[1] /\ Suffix(Tail(todo), l, 1)
    BY <1>1, <1>3, <2>1, SuffixAt
  <2> QED
    BY <1>1, <2>2
<1>4. ASSUME Suffix(todo, l, 1)
      PROVE  /\ todo # <<>> /\ Field.op = "switch"
             /\ todo[1].field = l[2] /\ todo[1].path = <<>>
             /\ IsSeq(todo) /\ Stack(todo) /\ TidyItem(todo[1])
             /\ Spot(todo[1]) = <<"inquired_type">> /\ <<"inquired_type">> \in DOMAIN fields
             /\ Tail(todo) = <<>>
  <2>0. 1 \in Nat /\ 1 < Len(l) /\ 2 = 1 + 1
    BY <1>1
  <2>1. /\ todo # <<>> /\ IsSeq(todo) /\ Stack(todo) /\ TidyItem(todo[1])
        /\ todo[1].path = <<>> /\ todo[1].field = l[2] /\ Field = l[2]
        /\ Spot(todo[1]) = <<l[2].name>>
        /\ Suffix(Tail(todo), l, 2)
        /\ l[2].op = "switch" => <<l[2].name>> \in DOMAIN fields
    BY <1>1, <1>4, <2>0, SuffixAt
  <2>3. Tail(todo) = <<>>
    BY <1>1, <2>1, SuffixEnds
  <2> QED
    BY <1>1, <2>1, <2>3
<1> QED
  BY <1>2, <1>3, <1>4 DEF l

\* The inquired type of a device info is read, or is not.
LEMMA InfoReads ==
  ASSUME HeapInv, pc = "parsing", ParsesInfo, ParseEnum \/ TooShort
  PROVE  (pc' = "parsing" => ParsesInfo') /\ (pc' = "freeing" => Leaves')
<1>1. type' = type /\ live' = live /\ pointer' = pointer
  BY DEF ParseEnum, TooShort, Reads, Proceeds, GivesUp, frameVars, packetVars, memoryVars
<1>2. ASSUME pc' = "parsing" PROVE ParsesInfo'
  <2>1. Field.op = "enum" /\ todo' = Tail(todo)
    BY <1>2 DEF ParseEnum, TooShort, Reads, Proceeds, GivesUp, At
  <2>2. Suffix(todo', DeviceInfoParse, 1)
    BY <2>1, InfoAt
  <2> QED
    BY <1>1, <2>2 DEF ParsesInfo
<1>3. ASSUME pc' = "freeing" PROVE Leaves'
  <2>1. todo' = Enter(<<>>, mdr_packet_free(type))
    BY <1>3 DEF ParseEnum, TooShort, Reads, Proceeds, GivesUp, At
  <2>2. Lost({})'
    BY NoneLost
  <2>3. Owned(live', {}, pointer') /\ AllFreed(type, fields', pointer')
    <3>1. pointer' = <<>> /\ live' = {PACKET} /\ DOMAIN <<>> = {}
      BY <1>1 DEF ParsesInfo
    <3> QED
      BY <3>1 DEF Owned, AllFreed
  <2> QED
    BY <1>1, <2>1, <2>2, <2>3, GiveUpLeaves
<1> QED
  BY <1>2, <1>3

\* A case that frees what it makes.
LEMMA InfoCase ==
  ASSUME HeapInv, pc = "parsing", ParsesInfo, Field.op = "switch",
         NEW c \in DOMAIN DeviceInfoParse[2].cases,
         NEW e, e = Enter(<<>>, DeviceInfoParse[2].cases[c].layout),
         todo' = e, UNCHANGED <<type, fields, pointer, live>>,
         NEW fl, Undoes(fl, DeviceInfoParse[2].cases[c].layout),
         Reached(fl, <<>>, Root("CONNECT_RET_DEVICE_INFO"), fields, pointer)
  PROVE  ParsesPlainly'
<1> DEFINE l == DeviceInfoParse[2].cases[c].layout
           R == Root("CONNECT_RET_DEVICE_INFO")
           h == todo[1]
<1>1. h.field = DeviceInfoParse[2] /\ h.path = <<>> /\ TidyItem(h) /\ h.field.op = "switch"
  BY InfoAt, InfoLayouts
<1>2. Tidy(l)
  BY <1>1 DEF TidyItem, TidyCases
<1>3. IsSeq(l) /\ Undoes(fl, l)
  BY <1>2, TidyIs
<1>4. \A i \in DOMAIN h.field.cases[c].layout :
         h.field.cases[c].layout[i].op \notin {"free", "zeros"}
  <2>1. l = h.field.cases[c].layout
    BY <1>1
  <2> HIDE DEF l
  <2>2. \A i \in DOMAIN l : l[i].op \notin {"free", "zeros"}
    BY <1>3, UndoesIs DEF Readers
  <2> QED
    BY <2>1, <2>2
<1>5. e = Enter(h.path, h.field.cases[c].layout) /\ c \in DOMAIN h.field.cases
  BY <1>1
<1> HIDE DEF l, R, h
<1>6. Sole(e)
  BY <1>1, <1>4, <1>5, CaseSole
<1>7. AllProvided(e, R, fields, pointer)
  <2>1. AllProvided(Enter(<<>>, l), R, fields, pointer)
    BY <1>3, ProvidedEnters DEF R
  <2> QED
    BY <2>1 DEF l
<1>8. pointer = <<>> /\ live = {PACKET} /\ DOMAIN <<>> = {}
      /\ type = "CONNECT_RET_DEVICE_INFO"
  BY DEF ParsesInfo
<1>9. Fresh(e, pointer) /\ AllFreed(type, fields, pointer) /\ Owned(live, {}, pointer)
  BY <1>8 DEF Fresh, AllFreed, Owned
<1>10. /\ Sole(todo') /\ Fresh(todo', pointer') /\ AllProvided(todo', Root(type'), fields', pointer')
       /\ AllFreed(type', fields', pointer') /\ Owned(live', {}, pointer')
  BY <1>6, <1>7, <1>8, <1>9 DEF R
<1> QED
  BY <1>10 DEF ParsesPlainly

LEMMA InfoChooses ==
  ASSUME HeapInv, pc = "parsing", ParsesInfo, Branch
  PROVE  ParsesPlainly' \/ ParsesName'
<1> DEFINE h == todo[1]
           cs == DeviceInfoParse[2].cases
           R == Root("CONNECT_RET_DEVICE_INFO")
           v == fields[<<"inquired_type">>]
<1>1. Field.op = "switch" /\ UNCHANGED <<type, fields, pointer, live>>
  BY DEF Branch, At, frameVars, packetVars, memoryVars
<1>2. /\ h.field = DeviceInfoParse[2] /\ h.path = <<>> /\ IsSeq(todo)
      /\ Spot(h) = <<"inquired_type">> /\ <<"inquired_type">> \in DOMAIN fields
      /\ Tail(todo) = <<>>
  BY <1>1, InfoAt
<1>3. pointer = <<>> /\ live = {PACKET} /\ type = "CONNECT_RET_DEVICE_INFO" /\ DOMAIN <<>> = {}
  BY DEF ParsesInfo
<1>4. /\ DOMAIN cs = 1..3
      /\ cs[1].values = Name /\ cs[1].layout = NameParse
      /\ cs[2].layout = SeriesParse
      /\ cs[3].values = InstructionGuide /\ cs[3].layout = GuidanceParse
      /\ IsSeq(NameParse)
  BY InfoLayouts
<1>5. \/ todo' = <<>>
      \/ \E c \in DOMAIN cs : /\ v \in cs[c].values
                              /\ todo' = Enter(<<>>, cs[c].layout) \o <<>>
  <2>1. h.field.cases = cs /\ Spot(todo[1]) \in DOMAIN fields
    BY <1>2
  <2> HIDE DEF cs
  <2> QED
    BY <1>2, <2>1, BranchIs
<1> HIDE DEF cs, R
<1>6. CASE todo' = <<>>
  <2>1. Len(<<>>) = 0
    OBVIOUS
  <2>2. /\ Sole(<<>>) /\ Fresh(<<>>, pointer) /\ AllProvided(<<>>, Root(type), fields, pointer)
        /\ AllFreed(type, fields, pointer) /\ Owned(live, {}, pointer)
    BY <1>3, <2>1 DEF Sole, Fresh, AllProvided, AllFreed, Owned
  <2>3. /\ Sole(todo') /\ Fresh(todo', pointer') /\ AllProvided(todo', Root(type'), fields', pointer')
        /\ AllFreed(type', fields', pointer') /\ Owned(live', {}, pointer')
    BY <1>1, <1>6, <2>2
  <2> QED
    BY <2>3 DEF ParsesPlainly
<1>7. ASSUME NEW c \in DOMAIN cs, v \in cs[c].values, todo' = Enter(<<>>, cs[c].layout) \o <<>>
      PROVE  ParsesPlainly' \/ ParsesName'
  <2> DEFINE lay == cs[c].layout
             e == Enter(<<>>, lay)
  <2>1. todo' = e
    <3>1. IsSeq(lay)
      <4>1. Tidy(lay)
        BY <1>1, <1>2, <1>7, InfoAt, InfoLayouts DEF TidyItem, TidyCases, cs
      <4> QED
        BY <4>1, TidyIs
    <3> HIDE DEF lay
    <3>2. IsSeq(e)
      BY <3>1, SeqEnter
    <3> HIDE DEF e
    <3> QED
      BY <1>7, <3>2, EmptyEnds DEF e, lay
  <2>2. CASE c = 1
    <3>1. Suffix(todo', NameParse, 0)
      BY <1>4, <2>1, <2>2, SuffixEnters
    <3>2. v \in Name
      BY <1>4, <1>7, <2>2
    <3>3. /\ type' = "CONNECT_RET_DEVICE_INFO" /\ <<"inquired_type">> \in DOMAIN fields'
          /\ fields'[<<"inquired_type">>] \in Name /\ pointer' = <<>> /\ live' = {PACKET}
      BY <1>1, <1>2, <1>3, <3>2
    <3> QED
      BY <3>1, <3>3 DEF ParsesName
  <2>3. CASE c = 2
    <3>1. Simple(lay)
      <4>1. \A i \in DOMAIN SeriesParse : SeriesParse[i].op \in Readers
        BY Tuple2 DEF SeriesParse, Enum, Readers
      <4> QED
        BY <1>4, <2>3, <4>1 DEF Simple
    <3>2. Undoes(<<>>, lay)
      BY <3>1, SimpleUndone
    <3>3. Reached(<<>>, <<>>, R, fields, pointer)
      BY <1>3 DEF Reached
    <3> QED
      BY <1>1, <1>7, <2>1, <3>2, <3>3, InfoCase DEF cs, R
  <2>4. CASE c = 3
    <3> DEFINE fl == << Free("guidance_categories") >>
    <3>1. /\ IsSeq(fl) /\ DOMAIN fl = 1..1
          /\ fl[1].op = "free" /\ fl[1].name = "guidance_categories"
          /\ fl[1] = Free("guidance_categories")
      BY Tuple1 DEF Free
    <3>2. Undoes(fl, GuidanceParse)
      <4> DEFINE el == << Enum("guidance_category", GuidanceCategories) >>
                 g == GuidanceParse
      <4>1. Simple(el)
        BY Tuple1 DEF Simple, Enum, Readers
      <4>2. g = << Count("num_guidance_categories"),
                   Each("guidance_categories", "num_guidance_categories", el) >>
        BY Zenon DEF g, el, GuidanceParse
      <4> HIDE DEF el, g
      <4>3. /\ DOMAIN g = 1..2 /\ g[1].op = "count" /\ g[2].op = "each"
            /\ g[2].element = el /\ g[2].name = "guidance_categories"
        BY <4>2, Tuple2 DEF Count, Each
      <4>4. \A i \in DOMAIN g : \/ g[i].op \in Readers \cup {"bytes", "name"}
                                \/ g[i].op = "each" /\ Simple(g[i].element)
        BY <4>1, <4>3 DEF Readers
      <4>5. \A i \in DOMAIN g : g[i].op \in {"bytes", "name", "each"} =>
              \E k \in DOMAIN fl : fl[k].op = "free" /\ fl[k].name = g[i].name
        BY <3>1, <4>3
      <4> HIDE DEF fl
      <4>6. Undoes(fl, g)
        BY <3>1, <4>4, <4>5, BlockUndone
      <4> QED
        BY <4>6 DEF g
    <3>3. Reached(fl, <<>>, R, fields, pointer)
      <4>1. v \in InstructionGuide
        BY <1>4, <1>7, <2>4
      <4>2. Comes(R, [path |-> <<>>, field |-> Free("guidance_categories")], fields, pointer)
        BY <1>2, <4>1, InfoComes DEF R
      <4> HIDE DEF fl
      <4> QED
        BY <3>1, <4>2 DEF Reached
    <3>4. Undoes(fl, lay)
      BY <1>4, <2>4, <3>2
    <3> HIDE DEF fl
    <3> QED
      BY <1>1, <1>7, <2>1, <3>3, <3>4, InfoCase DEF cs, R
  <2> QED
    BY <1>4, <1>7, <2>2, <2>3, <2>4
<1> QED
  BY <1>5, <1>6, <1>7

\* Where the parser of a name is.
LEMMA NameAt ==
  ASSUME HeapInv, pc = "parsing", ParsesName, todo # <<>>
  PROVE  \/ /\ Field.op = "count" /\ Here(Field.name) = <<"len">>
            /\ Suffix(Tail(todo), NameParse, 1)
            /\ pointer = <<>> /\ live = {PACKET}
         \/ /\ Field.op = "zeros" /\ Here(Field.name) = <<"string">>
            /\ Suffix(Tail(todo), NameParse, 2)
            /\ pointer = <<>> /\ live = {PACKET}
         \/ /\ Field.op = "name" /\ Here(Field.name) = <<"string">>
            /\ Tail(todo) = <<>>
            /\ DOMAIN pointer = {<<"string">>} /\ Owned(live, {}, pointer)
<1> DEFINE l == NameParse
<1>1. /\ IsSeq(l) /\ Len(l) = 3
      /\ l[1].op = "count" /\ l[1].name = "len"
      /\ l[2].op = "zeros" /\ l[2].name = "string"
      /\ l[3].op = "name" /\ l[3].name = "string"
  BY InfoLayouts
<1>2. \/ /\ Suffix(todo, l, 0) \/ Suffix(todo, l, 1)
         /\ pointer = <<>> /\ live = {PACKET}
      \/ Suffix(todo, l, 2) /\ DOMAIN pointer = {<<"string">>} /\ Owned(live, {}, pointer)
  BY DEF ParsesName
<1> HIDE DEF l
<1>3. ASSUME Suffix(todo, l, 0)
      PROVE  Field.op = "count" /\ Here(Field.name) = <<"len">> /\ Suffix(Tail(todo), l, 1)
  <2>1. 0 \in Nat /\ 0 < Len(l) /\ 1 = 0 + 1
    BY <1>1
  <2>2. Field = l[1] /\ Here(Field.name) = <<l[1].name>> /\ Suffix(Tail(todo), l, 1)
    BY <1>1, <1>3, <2>1, SuffixAt
  <2> QED
    BY <1>1, <2>2
<1>4. ASSUME Suffix(todo, l, 1)
      PROVE  Field.op = "zeros" /\ Here(Field.name) = <<"string">> /\ Suffix(Tail(todo), l, 2)
  <2>1. 1 \in Nat /\ 1 < Len(l) /\ 2 = 1 + 1
    BY <1>1
  <2>2. Field = l[2] /\ Here(Field.name) = <<l[2].name>> /\ Suffix(Tail(todo), l, 2)
    BY <1>1, <1>4, <2>1, SuffixAt
  <2> QED
    BY <1>1, <2>2
<1>5. ASSUME Suffix(todo, l, 2)
      PROVE  Field.op = "name" /\ Here(Field.name) = <<"string">> /\ Tail(todo) = <<>>
  <2>1. 2 \in Nat /\ 2 < Len(l) /\ 3 = 2 + 1
    BY <1>1
  <2>2. Field = l[3] /\ Here(Field.name) = <<l[3].name>> /\ Suffix(Tail(todo), l, 3)
    BY <1>1, <1>5, <2>1, SuffixAt
  <2>3. Tail(todo) = <<>>
    BY <1>1, <2>2, SuffixEnds
  <2> QED
    BY <1>1, <2>2, <2>3
<1> QED
  BY <1>2, <1>3, <1>4, <1>5 DEF l

\* The string of a name is freed, and a block of it may be lost.
LEMMA NameKept ==
  ASSUME ParsesName, type' = type, <<"inquired_type">> \in DOMAIN fields',
         fields'[<<"inquired_type">>] = fields[<<"inquired_type">>],
         \A q \in DOMAIN pointer' : q = <<"string">>
  PROVE  /\ AllFreed(type', fields', pointer')
         /\ \A x : Lost({x})'
<1>1. /\ type' = "CONNECT_RET_DEVICE_INFO" /\ <<"inquired_type">> \in DOMAIN fields'
      /\ fields'[<<"inquired_type">>] \in Name
  BY DEF ParsesName
<1>2. Frees(Root(type'), <<"string">>, fields', pointer')
  BY <1>1, InfoComes
<1>3. AllFreed(type', fields', pointer')
  BY <1>2 DEF AllFreed
<1>4. KnownLosses' = 1
  BY <1>1 DEF KnownLosses, FieldAt
<1>5. \A x : Lost({x})'
  BY <1>4 DEF Lost
<1> QED
  BY <1>3, <1>5

\* The length of a name is read.
LEMMA NameCounts ==
  ASSUME HeapInv, pc = "parsing", ParsesName, ParseCount
  PROVE  ParsesName'
<1>0. todo # <<>> /\ Field.op = "count"
  BY DEF ParseCount, At
<1>1. /\ Here(Field.name) = <<"len">> /\ Suffix(Tail(todo), NameParse, 1)
      /\ pointer = <<>> /\ live = {PACKET}
  BY <1>0, NameAt
<1>2. PICK b : Reads(b, b) /\ Proceeds
  BY DEF ParseCount
<1>3. /\ fields' = Set(fields, <<"len">>, b) /\ UNCHANGED <<pointer, live, type>>
      /\ todo' = Tail(todo)
  BY <1>1, <1>2 DEF Reads, Proceeds, frameVars, memoryVars
<1>4. <<"len">> # <<"inquired_type">>
  OBVIOUS
<1>5. /\ type = "CONNECT_RET_DEVICE_INFO" /\ <<"inquired_type">> \in DOMAIN fields
      /\ fields[<<"inquired_type">>] \in Name
  BY DEF ParsesName
<1>6. <<"inquired_type">> \in DOMAIN fields' /\ fields'[<<"inquired_type">>] \in Name
  BY <1>3, <1>4, <1>5 DEF Set
<1>7. Suffix(todo', NameParse, 1) /\ pointer' = <<>> /\ live' = {PACKET}
  BY <1>1, <1>3
<1> QED
  BY <1>3, <1>5, <1>6, <1>7 DEF ParsesName

\* Its string is allocated, twice.
LEMMA NameAllocates ==
  ASSUME HeapInv, pc = "parsing", ParsesName, ParseBytes \/ ParseZeros
  PROVE  ParsesName'
<1> DEFINE v == allocated + 1
           Q2 == Set(pointer, <<"string">>, v)
<1>1. /\ todo # <<>> /\ Field.op \in {"bytes", "name", "zeros"} /\ Allocates
      /\ type' = type /\ fields' = fields /\ todo' = Tail(todo)
      /\ ParseBytes => Field.op \in {"bytes", "name"}
      /\ ParseZeros => Field.op = "zeros"
  BY DEF ParseBytes, ParseZeros, IsBlock, At, Proceeds, frameVars
<1>2. /\ type = "CONNECT_RET_DEVICE_INFO" /\ <<"inquired_type">> \in DOMAIN fields
      /\ fields[<<"inquired_type">>] \in Name
  BY DEF ParsesName
<1>3. pointer' = Set(pointer, Here(Field.name), v) /\ live' = live \cup {v}
  BY <1>1 DEF Allocates
<1> HIDE DEF v
<1>4. \A q : q \in DOMAIN Q2 <=> q \in DOMAIN pointer \/ q = <<"string">>
  BY DEF Set
<1>5. Q2[<<"string">>] = v
  BY DEF Set
<1> HIDE DEF Q2
<1>6. CASE Field.op = "zeros"
  <2>1. /\ Here(Field.name) = <<"string">> /\ Suffix(Tail(todo), NameParse, 2)
        /\ pointer = <<>> /\ live = {PACKET}
    BY <1>1, <1>6, NameAt
  <2>2. pointer' = Q2
    BY <1>3, <2>1 DEF Q2
  <2>3. DOMAIN <<>> = {}
    OBVIOUS
  <2>4. DOMAIN pointer' = {<<"string">>}
    BY <1>4, <2>1, <2>2, <2>3
  <2>5. Owned(live', {}, pointer')
    BY <1>3, <1>4, <1>5, <2>1, <2>2 DEF Owned
  <2>6. Suffix(todo', NameParse, 2)
    BY <1>1, <2>1
  <2> QED
    BY <1>1, <1>2, <2>4, <2>5, <2>6 DEF ParsesName
<1>7. CASE Field.op # "zeros"
  <2>0. PICK x : x = pointer[<<"string">>]
    OBVIOUS
  <2>1. /\ Here(Field.name) = <<"string">> /\ Tail(todo) = <<>>
        /\ DOMAIN pointer = {<<"string">>} /\ Owned(live, {}, pointer)
    BY <1>1, <1>7, NameAt
  <2>2. pointer' = Q2
    BY <1>3, <2>1 DEF Q2
  <2>3. DOMAIN pointer' = {<<"string">>}
    BY <1>4, <2>1, <2>2
  <2>4. Lost({x})'
    BY <1>1, <1>2, <2>3, NameKept
  <2>5. Owned(live', {x}, pointer')
    <3>1. \A b \in live : b = PACKET \/ b = x
      BY <2>0, <2>1 DEF Owned
    <3>2. <<"string">> \in DOMAIN pointer' /\ pointer'[<<"string">>] = v
      BY <1>5, <2>2, <2>3
    <3> QED
      BY <1>3, <3>1, <3>2 DEF Owned
  <2>6. todo' = <<>>
    BY <1>1, <2>1
  <2>7. OwnedOrLost'
    BY <2>4, <2>5, LosesOne
  <2> QED
    BY <1>1, <1>2, <2>3, <2>6, <2>7 DEF ParsesName
<1> QED
  BY <1>6, <1>7

\* The parser of a name gives up.
LEMMA NameFails ==
  ASSUME HeapInv, pc = "parsing", ParsesName, TooShort \/ OutOfMemory
  PROVE  Leaves'
<1> DEFINE Q2 == Set(pointer, <<"string">>, NULL)
<1>1. /\ todo # <<>> /\ type' = type /\ fields' = fields /\ live' = live
      /\ todo' = Enter(<<>>, mdr_packet_free(type))
      /\ TooShort => pointer' = pointer
      /\ OutOfMemory => /\ pointer' = Set(pointer, Here(Field.name), NULL)
                        /\ Field.op \in {"bytes", "name", "zeros", "each"}
  BY DEF TooShort, OutOfMemory, IsBlock, At, GivesUp, frameVars, memoryVars, packetVars
<1>2. /\ type = "CONNECT_RET_DEVICE_INFO" /\ <<"inquired_type">> \in DOMAIN fields
  BY DEF ParsesName
<1>3. \A q \in DOMAIN pointer : q = <<"string">>
  <2>1. \A q : q \notin DOMAIN <<>>
    OBVIOUS
  <2> QED
    BY <1>1, <2>1, NameAt
<1>4. \E x : Owned(live, {}, pointer) /\ \A b \in live : b = PACKET \/ b = x
  <2>1. CASE live = {PACKET}
    BY <2>1 DEF Owned
  <2>2. CASE DOMAIN pointer = {<<"string">>} /\ Owned(live, {}, pointer)
    <3>1. \A b \in live : b = PACKET \/ b = pointer[<<"string">>]
      BY <2>2 DEF Owned
    <3> QED
      BY <2>2, <3>1
  <2> QED
    BY <1>1, <2>1, <2>2, NameAt
<1>5. PICK x : Owned(live, {}, pointer) /\ \A b \in live : b = PACKET \/ b = x
  BY <1>4
<1>6. CASE TooShort
  <2>1. AllFreed(type, fields', pointer')
    BY <1>1, <1>2, <1>3, <1>6, NameKept
  <2>2. Owned(live', {}, pointer') /\ Lost({})'
    BY <1>1, <1>5, <1>6, NoneLost
  <2> QED
    BY <1>1, <2>1, <2>2, GiveUpLeaves
<1>7. CASE OutOfMemory
  <2>1. Here(Field.name) = <<"string">>
    BY <1>1, <1>7, NameAt
  <2>2. pointer' = Q2
    BY <1>1, <1>7, <2>1
  <2>3. \A q \in DOMAIN Q2 : q \in DOMAIN pointer \/ q = <<"string">>
    BY DEF Set
  <2> HIDE DEF Q2
  <2>4. \A q \in DOMAIN pointer' : q = <<"string">>
    BY <1>3, <2>2, <2>3
  <2>5. AllFreed(type, fields', pointer') /\ Lost({x})'
    BY <1>1, <1>2, <2>4, NameKept
  <2>6. Owned(live', {x}, pointer')
    BY <1>1, <1>5 DEF Owned
  <2> QED
    BY <1>1, <2>5, <2>6, GiveUpLeaves
<1> QED
  BY <1>6, <1>7

-----------------------------------------------------------------------------
(***************************************************************************)
(* The inductive invariant, stage by stage.                                *)
(***************************************************************************)
Smart == "SYSTEM_RET_CAPABILITY"

WroteSome == IsSeq(written) /\ written # <<>>

LeaksParsing == pc = "parsing" => ParsesPlainly \/ ParsesInfo \/ ParsesName

\* A packet whose writer takes two frames is not encoded again.
LeaksParsed ==
  pc = "parsed" =>
    /\ AllFreed(type, fields, pointer) /\ OwnedOrLost
    /\ type = Smart => \/ Owned(live, {}, pointer)
                       \/ written # <<>> \/ failure # "none"

\* There is no frame yet: one will be started, or a choice is still to be made,
\* or there was none to make.
ChoiceAhead ==
  /\ IsSeq(todo) /\ Len(todo) = 1 /\ todo[1].path = <<>> /\ todo[1].field.op = "switch"
  /\ \A c \in DOMAIN todo[1].field.cases :
       \/ OneFlat(todo[1].field.cases[c].layout)
       \/ /\ type = Smart
          /\ todo[1].field.name = "inquired_type"
          /\ todo[1].field.cases[c].values = SmartTalking
          /\ TwoFlat(todo[1].field.cases[c].layout)

BeforeFrame ==
  /\ OwnedOrLost /\ (type = Smart => Owned(live, {}, pointer))
  /\ ChoiceAhead \/ OneStart(todo) \/ todo = <<>>

\* The writer takes two frames: neither was started, or one.
BeforeTwo ==
  /\ type = Smart /\ KnownLosses = 1 /\ Owned(live, {}, pointer)
  /\ IsSeq(todo) /\ todo # <<>> /\ todo[1].field.op = "start" /\ OneStart(Tail(todo))

BetweenTwo ==
  /\ type = Smart /\ KnownLosses = 1 /\ Owned(live \ {allocated}, {}, pointer)
  /\ OneStart(todo) /\ WroteSome

\* The last block is the frame.
InFrame ==
  /\ \E X : Lost(X) /\ Owned(live \ {allocated}, X, pointer)
  /\ Quiet(todo) /\ WroteSome

LeaksEncoding ==
  pc = "encoding" =>
    /\ AllFreed(type, fields, pointer)
    /\ BeforeFrame \/ BeforeTwo \/ BetweenTwo \/ InFrame

LeaksFreeing == pc = "freeing" => Leaves

LeaksReturned == pc = "returned" => \E X : Lost(X) /\ live \subseteq X

LeakInv ==
  /\ HeapInv
  /\ pc = "called" => live = {}
  /\ LeaksParsing /\ LeaksParsed /\ LeaksEncoding /\ LeaksFreeing /\ LeaksReturned

LEMMA LeakInit == Init => LeakInv
<1> SUFFICES ASSUME Init PROVE LeakInv
  OBVIOUS
<1>1. HeapInv
  BY HeapInit
<1>2. pc = "called" /\ live = {}
  BY DEF Init
<1> QED
  BY <1>1, <1>2 DEF LeakInv, LeaksParsing, LeaksParsed, LeaksEncoding, LeaksFreeing, LeaksReturned

-----------------------------------------------------------------------------
(* What is left when a call has returned.                                  *)

LEMMA LeakImplies ==
  ASSUME LeakInv
  PROVE  NothingElseLeaks
<1>1. SUFFICES ASSUME pc = "returned" PROVE Cardinality(live) <= KnownLosses
  BY DEF NothingElseLeaks
<1>2. PICK X : Lost(X) /\ live \subseteq X
  BY <1>1 DEF LeakInv, LeaksReturned
<1>3. KnownLosses \in {0, 1}
  BY DEF KnownLosses
<1>4. CASE live = {}
  BY <1>3, <1>4, FS_EmptySet
<1>5. CASE live # {}
  <2>1. PICK x : X = {x}
    BY <1>2, <1>5 DEF Lost
  <2>2. KnownLosses = 1
    BY <1>2, <2>1 DEF Lost
  <2>3. live = {x}
    BY <1>2, <1>5, <2>1
  <2>4. Cardinality({x}) = 1
    BY FS_Singleton
  <2> QED
    BY <2>2, <2>3, <2>4
<1> QED
  BY <1>4, <1>5

-----------------------------------------------------------------------------
(* The writers.                                                            *)

LEMMA AtItem ==
  ASSUME HeapInv, pc = "encoding", todo # <<>>
  PROVE  /\ IsSeq(todo) /\ Field = todo[1].field /\ Loop = LoopOf(todo[1])
         /\ 1 \in 1..Len(todo)
         /\ Quiet(todo) => QuietItem(todo[1])
         /\ OneStart(todo) => todo[1].field.op = "start" \/ QuietItem(todo[1])
<1>1. IsSeq(todo)
  BY DEF HeapInv, WhileEncoding, Ready
<1>2. Field = todo[1].field /\ Loop = LoopOf(todo[1])
  BY <1>1, LoopIs
<1>3. 1 \in 1..Len(todo)
  BY <1>1, SeqTail, SeqLen
<1>4. Quiet(todo) => QuietItem(todo[1])
  BY <1>3 DEF Quiet
<1>5. OneStart(todo) => todo[1].field.op = "start" \/ QuietItem(todo[1])
  BY <1>3 DEF OneStart
<1> QED
  BY <1>1, <1>2, <1>3, <1>4, <1>5

LEMMA LeakEncodes ==
  ASSUME LeakInv, Encode
  PROVE  LeaksEncoding'
<1> DEFINE w == mdr_packet_to_frame(type)
<1>1. /\ pc = "parsed" /\ written = <<>> /\ failure = "none"
      /\ todo' = Enter(<<>>, w) /\ UNCHANGED <<type, fields, pointer, live>>
  BY DEF Encode, frameVars, packetVars, memoryVars
<1>2. /\ AllFreed(type, fields, pointer) /\ OwnedOrLost
      /\ type = Smart => Owned(live, {}, pointer)
  BY <1>1 DEF LeakInv, LeaksParsed
<1>3. /\ AllFreed(type, fields, pointer)' /\ OwnedOrLost'
      /\ (type = Smart => Owned(live, {}, pointer))'
  BY <1>1, <1>2 DEF OwnedOrLost, Lost, KnownLosses, FieldAt
<1>4. Framed(type, w)
  <2>1. type \in PacketTypes
    BY <1>1 DEF LeakInv, HeapInv, Kind
  <2> QED
    BY <2>1, WritersFramed
<1> HIDE DEF w
<1>5. CASE OneFlat(w)
  <2>1. OneStart(todo')
    BY <1>1, <1>5, FramesEnter
  <2> QED
    BY <1>3, <2>1 DEF LeaksEncoding, BeforeFrame
<1>6. CASE ChoiceOf(type, w)
  <2>1. IsSeq(w) /\ Len(w) = 1
    BY <1>6 DEF ChoiceOf
  <2>2. /\ IsSeq(todo') /\ Len(todo') = 1
        /\ todo'[1] = [path |-> <<>>, field |-> w[1]]
    <3> DEFINE e == Enter(<<>>, w)
    <3>1. IsSeq(e) /\ Len(e) = 1 /\ e[1] = [path |-> <<>>, field |-> w[1]]
      BY <2>1, SeqEnter
    <3> HIDE DEF e
    <3> QED
      BY <1>1, <3>1 DEF e
  <2>3. todo'[1].path = <<>> /\ todo'[1].field = w[1]
    BY <2>2
  <2>4. ChoiceAhead'
    <3>1. type' = type
      BY <1>1
    <3> QED
      BY <1>6, <2>2, <2>3, <3>1 DEF ChoiceOf, ChoiceAhead, Smart
  <2> QED
    BY <1>3, <2>4 DEF LeaksEncoding, BeforeFrame
<1> QED
  BY <1>4, <1>5, <1>6 DEF Framed

\* The choice is made.
LEMMA LeakBranches ==
  ASSUME LeakInv, Branch, pc = "encoding"
  PROVE  LeaksEncoding'
<1> DEFINE h == todo[1]
<1>1. /\ todo # <<>> /\ Field.op = "switch" /\ HeapInv
      /\ UNCHANGED <<type, fields, pointer, live, allocated>>
  BY DEF LeakInv, Branch, At, frameVars, packetVars, memoryVars
<1>2. IsSeq(todo) /\ Field = h.field
  BY <1>1, AtItem
<1>3. AllFreed(type, fields, pointer) /\ BeforeFrame /\ ChoiceAhead
  <2>1. ~OneStart(todo) /\ ~Quiet(todo)
    BY <1>1, <1>2, AtItem DEF QuietItem
  <2>2. ~BeforeTwo
    BY <1>1, <1>2 DEF BeforeTwo
  <2> QED
    BY <1>1, <2>1, <2>2 DEF LeakInv, LeaksEncoding, BeforeFrame, BetweenTwo, InFrame
<1>4. /\ AllFreed(type, fields, pointer)' /\ OwnedOrLost'
      /\ (type = Smart => Owned(live, {}, pointer))'
  BY <1>1, <1>3 DEF BeforeFrame, OwnedOrLost, Lost, KnownLosses, FieldAt
<1>5. h.path = <<>> /\ Len(todo) = 1
  BY <1>3 DEF ChoiceAhead
<1>6. Tail(todo) = <<>>
  <2>1. IsSeq(Tail(todo)) /\ Len(Tail(todo)) = 0
    BY <1>1, <1>2, <1>5, SeqTail
  <2> DEFINE t == Tail(todo)
  <2>2. IsSeq(t) /\ Len(t) = 0
    BY <2>1
  <2> HIDE DEF t
  <2>3. t = <<>>
    BY <2>2, SeqTail
  <2> QED
    BY <2>3 DEF t
<1>7. Spot(h) \in DOMAIN fields
  BY <1>1, <1>2, ReadyHead DEF HeapInv, WhileEncoding
<1>8. \/ todo' = Tail(todo)
      \/ \E c \in DOMAIN h.field.cases :
           /\ fields[Spot(h)] \in h.field.cases[c].values
           /\ todo' = Enter(h.path, h.field.cases[c].layout) \o Tail(todo)
  BY <1>2, <1>7, BranchIs
<1>9. CASE todo' = Tail(todo)
  BY <1>4, <1>6, <1>9 DEF LeaksEncoding, BeforeFrame
<1>10. ASSUME NEW c \in DOMAIN h.field.cases,
              fields[Spot(h)] \in h.field.cases[c].values,
              todo' = Enter(h.path, h.field.cases[c].layout) \o Tail(todo)
       PROVE  LeaksEncoding'
  <2> DEFINE w == h.field.cases[c].layout
             e == Enter(h.path, w)
  <2>1. \/ OneFlat(w)
        \/ /\ type = Smart /\ h.field.name = "inquired_type"
           /\ h.field.cases[c].values = SmartTalking /\ TwoFlat(w)
    BY <1>3 DEF ChoiceAhead
  <2> HIDE DEF w
  <2>2. /\ OneFlat(w) => OneStart(e)
        /\ TwoFlat(w) => IsSeq(e) /\ e # <<>> /\ e[1].field.op = "start" /\ OneStart(Tail(e))
    BY FramesEnter
  <2>3. IsSeq(e)
    BY <2>1, <2>2 DEF OneStart
  <2>4. todo' = e
    <3>1. todo' = e \o <<>>
      BY <1>6, <1>10 DEF w
    <3> HIDE DEF e
    <3> QED
      BY <2>3, <3>1, EmptyEnds
  <2> HIDE DEF e
  <2>5. CASE OneFlat(w)
    <3>1. OneStart(todo')
      BY <2>2, <2>4, <2>5
    <3> QED
      BY <1>4, <3>1 DEF LeaksEncoding, BeforeFrame
  <2>6. CASE /\ type = Smart /\ h.field.name = "inquired_type"
             /\ h.field.cases[c].values = SmartTalking /\ TwoFlat(w)
    <3>1. Spot(h) = <<"inquired_type">>
      <4>1. Append(<<>>, "inquired_type") = <<"inquired_type">>
        OBVIOUS
      <4> QED
        BY <1>5, <2>6, <4>1 DEF Spot
    <3>2. <<"inquired_type">> \in DOMAIN fields' /\ fields'[<<"inquired_type">>] \in SmartTalking
      BY <1>1, <1>7, <1>10, <2>6, <3>1
    <3>3. type' = "SYSTEM_RET_CAPABILITY"
      BY <1>1, <2>6 DEF Smart
    <3>4. KnownLosses' = 1
      BY <3>2, <3>3 DEF KnownLosses, FieldAt
    <3>5. IsSeq(todo') /\ todo' # <<>> /\ todo'[1].field.op = "start" /\ OneStart(Tail(todo'))
      BY <2>2, <2>4, <2>6
    <3>6. BeforeTwo'
      BY <1>4, <3>3, <3>4, <3>5 DEF BeforeTwo, Smart
    <3> QED
      BY <1>4, <3>6 DEF LeaksEncoding
  <2> QED
    BY <2>1, <2>5, <2>6
<1> QED
  BY <1>8, <1>9, <1>10

\* A frame is started.
LEMMA LeakStarts ==
  ASSUME LeakInv, StartFrame
  PROVE  LeaksEncoding'
<1>1. /\ pc = "encoding" /\ todo # <<>> /\ Field.op = "start" /\ HeapInv
      /\ todo' = Tail(todo) /\ written' = <<type>>
      /\ allocated' = allocated + 1 /\ live' = live \cup {allocated + 1}
      /\ UNCHANGED <<type, fields, pointer>>
  BY DEF LeakInv, StartFrame, At, frameVars, packetVars
<1>2. IsSeq(todo) /\ todo[1].field.op = "start" /\ ~Quiet(todo)
  BY <1>1, AtItem DEF QuietItem
<1>3. /\ AllFreed(type, fields, pointer)
      /\ \/ BeforeFrame /\ OneStart(todo)
         \/ BeforeTwo \/ BetweenTwo
  BY <1>1, <1>2 DEF LeakInv, LeaksEncoding, BeforeFrame, ChoiceAhead, InFrame
<1>4. AllFreed(type, fields, pointer)' /\ WroteSome' /\ type' = type /\ KnownLosses' = KnownLosses
  <2>1. IsSeq(<<type>>) /\ <<type>> # <<>>
    BY Tuple1
  <2> QED
    BY <1>1, <1>3, <2>1 DEF WroteSome, KnownLosses, FieldAt
<1>5. \A X : Owned(live, X, pointer) => Owned(live' \ {allocated'}, X, pointer')
  BY <1>1 DEF Owned
<1>6. OneStart(todo) => Quiet(todo')
  BY <1>1, <1>2, QuietTail
<1>7. CASE BeforeFrame /\ OneStart(todo)
  <2>1. PICK X : Lost(X) /\ Owned(live, X, pointer)
    BY <1>7 DEF BeforeFrame, OwnedOrLost
  <2>2. Lost(X)' /\ Owned(live' \ {allocated'}, X, pointer')
    BY <1>4, <1>5, <2>1 DEF Lost
  <2>3. InFrame'
    BY <1>4, <1>6, <1>7, <2>2 DEF InFrame
  <2> QED
    BY <1>4, <2>3 DEF LeaksEncoding
<1>8. CASE BeforeTwo
  <2>1. BetweenTwo'
    BY <1>1, <1>4, <1>5, <1>8 DEF BeforeTwo, BetweenTwo
  <2> QED
    BY <1>4, <2>1 DEF LeaksEncoding
<1>9. CASE BetweenTwo
  <2>1. PICK x : x = allocated
    OBVIOUS
  <2>2. Lost({x})'
    BY <1>4, <1>9 DEF BetweenTwo, Lost
  <2>3. Owned(live' \ {allocated'}, {x}, pointer')
    BY <1>1, <1>9, <2>1 DEF BetweenTwo, Owned
  <2>4. InFrame'
    BY <1>4, <1>6, <1>9, <2>2, <2>3 DEF InFrame, BetweenTwo
  <2> QED
    BY <1>4, <2>4 DEF LeaksEncoding
<1> QED
  BY <1>3, <1>7, <1>8, <1>9

\* A frame is not.
LEMMA LeakStops ==
  ASSUME LeakInv, NoFrame
  PROVE  LeaksParsed'
<1>1. /\ pc = "encoding" /\ todo # <<>> /\ Field.op = "start" /\ HeapInv
      /\ failure' = "ENOMEM" /\ UNCHANGED <<type, fields, pointer, live>>
  BY DEF LeakInv, NoFrame, At, frameVars, packetVars, memoryVars
<1>2. IsSeq(todo) /\ todo[1].field.op = "start" /\ ~Quiet(todo)
  BY <1>1, AtItem DEF QuietItem
<1>3. /\ AllFreed(type, fields, pointer)
      /\ BeforeFrame \/ BeforeTwo \/ BetweenTwo
  BY <1>1, <1>2 DEF LeakInv, LeaksEncoding, InFrame
<1>4. AllFreed(type, fields, pointer)' /\ KnownLosses' = KnownLosses
  BY <1>1, <1>3 DEF KnownLosses, FieldAt
<1>5. \E X : Lost(X) /\ Owned(live, X, pointer)
  <2>1. CASE BeforeFrame
    BY <2>1 DEF BeforeFrame, OwnedOrLost
  <2>2. CASE BeforeTwo
    BY <2>2, NoneLost DEF BeforeTwo
  <2>3. CASE BetweenTwo
    <3>1. Lost({allocated})
      BY <2>3 DEF BetweenTwo, Lost
    <3>2. Owned(live, {allocated}, pointer)
      BY <2>3 DEF BetweenTwo, Owned
    <3> QED
      BY <3>1, <3>2
  <2> QED
    BY <1>3, <2>1, <2>2, <2>3
<1>6. PICK X : Lost(X) /\ Owned(live, X, pointer)
  BY <1>5
<1>7. Lost(X)' /\ Owned(live', X, pointer')
  BY <1>1, <1>4, <1>6 DEF Lost
<1>8. OwnedOrLost'
  BY <1>7, LosesOne
<1> QED
  BY <1>1, <1>4, <1>8 DEF LeaksParsed

\* What is done to the frame or before, but for starting it.
LEMMA LeakGoesOn ==
  ASSUME LeakInv, pc = "encoding", todo # <<>>, Field.op \notin {"start", "switch"},
         NEW new, QuietItem(todo[1]) => Quiet(new), todo' = new \o Tail(todo),
         UNCHANGED <<type, fields, pointer, live, allocated>>, WroteSome => WroteSome'
  PROVE  LeaksEncoding'
<1>1. /\ HeapInv /\ IsSeq(todo) /\ Field = todo[1].field
      /\ todo[1].field.op \notin {"start", "switch"}
  BY AtItem DEF LeakInv
<1>2. IsSeq(Tail(todo))
  BY <1>1, SeqTail
<1>3. Quiet(todo) => Quiet(todo')
  BY <1>1, <1>2, AtItem, QuietTail, QuietPush
<1>4. OneStart(todo) => OneStart(todo')
  BY <1>1, <1>2, QuietTail, QuietPush
<1>5. /\ AllFreed(type, fields, pointer)
      /\ \/ BeforeFrame /\ OneStart(todo)
         \/ BetweenTwo \/ InFrame
  BY <1>1 DEF LeakInv, LeaksEncoding, BeforeFrame, ChoiceAhead, BeforeTwo
<1>6. AllFreed(type, fields, pointer)' /\ KnownLosses' = KnownLosses
  BY <1>5 DEF KnownLosses, FieldAt
<1>7. CASE BeforeFrame /\ OneStart(todo)
  <2>1. OwnedOrLost' /\ (type = Smart => Owned(live, {}, pointer))'
    BY <1>6, <1>7 DEF BeforeFrame, OwnedOrLost, Lost
  <2> QED
    BY <1>4, <1>6, <1>7, <2>1 DEF LeaksEncoding, BeforeFrame
<1>8. CASE BetweenTwo
  BY <1>4, <1>6, <1>8 DEF LeaksEncoding, BetweenTwo
<1>9. CASE InFrame
  <2>1. PICK X : Lost(X) /\ Owned(live \ {allocated}, X, pointer)
    BY <1>9 DEF InFrame
  <2>2. Lost(X)' /\ Owned(live' \ {allocated'}, X, pointer')
    BY <1>6, <2>1 DEF Lost
  <2>3. InFrame'
    BY <1>3, <1>9, <2>2 DEF InFrame
  <2> QED
    BY <1>6, <2>3 DEF LeaksEncoding
<1> QED
  BY <1>5, <1>7, <1>8, <1>9

LEMMA LeakWrites ==
  ASSUME LeakInv, WriteField \/ WriteBytes \/ AddLength
  PROVE  LeaksEncoding'
<1>1. /\ pc = "encoding" /\ todo # <<>> /\ Field.op \in {"put", "putbytes", "add"}
      /\ todo' = Tail(todo) /\ UNCHANGED <<type, fields, pointer, live, allocated>>
  BY DEF WriteField, WriteBytes, AddLength, Writes, At, frameVars, packetVars, memoryVars
<1>2. IsSeq(todo)
  BY <1>1, AtItem DEF LeakInv
<1>3. Quiet(<<>>) /\ todo' = <<>> \o Tail(todo)
  <2>1. IsSeq(Tail(todo)) /\ IsSeq(<<>>) /\ Len(<<>>) = 0
    BY <1>1, <1>2, SeqTail, NoItems
  <2>2. Quiet(<<>>)
    BY <2>1 DEF Quiet
  <2>3. <<>> \o Tail(todo) = Tail(todo)
    BY <2>1, EmptyEnds
  <2> QED
    BY <1>1, <2>2, <2>3
<1>4. ASSUME NEW block, IsSeq(block), written' = written \o block, WroteSome
      PROVE  WroteSome'
  <2>1. /\ IsSeq(written) /\ Len(written) > 0 /\ Len(written) \in Nat /\ Len(block) \in Nat
    BY <1>4, SeqTail, SeqLen DEF WroteSome
  <2>2. IsSeq(written \o block) /\ Len(written \o block) = Len(written) + Len(block)
    BY <1>4, <2>1, SeqConcat
  <2>3. Len(<<>>) = 0
    OBVIOUS
  <2>4. written \o block # <<>>
    BY <2>1, <2>2, <2>3
  <2> QED
    BY <1>4, <2>2, <2>4 DEF WroteSome
<1>5. WroteSome => WroteSome'
  <2>1. CASE WriteField
    <3>1. written' = written \o <<Value(Field.name)>> /\ IsSeq(<<Value(Field.name)>>)
      BY <2>1, Tuple1 DEF WriteField, Writes
    <3> QED
      BY <1>4, <3>1
  <2>2. CASE WriteBytes
    <3> DEFINE data == bytes[Here(Field.name)]
               n == Value(Field.count)
               block == [i \in 1..n |-> IF i <= Len(data) THEN data[i] ELSE Unset]
    <3>1. written' = written \o block
      BY <2>2 DEF WriteBytes, Writes
    <3>2. n \in Nat
      <4>1. \A q \in DOMAIN fields : fields[q] \in Byte
        BY DEF LeakInv, HeapInv, IInv, TypeOK
      <4>2. \A b \in Byte : b \in Nat
        BY DEF Byte
      <4> QED
        BY <4>1, <4>2 DEF Value, FieldAt
    <3> HIDE DEF n, data
    <3>3. block = [i \in 1..n |-> block[i]]
      OBVIOUS
    <3> HIDE DEF block
    <3>4. IsSeq(block)
      BY <3>2, <3>3, SeqMade
    <3> QED
      BY <1>4, <3>1, <3>4
  <2>3. CASE AddLength
    BY <2>3 DEF AddLength, WroteSome
  <2> QED
    BY <2>1, <2>2, <2>3
<1> QED
  BY <1>1, <1>3, <1>5, LeakGoesOn

LEMMA LeakArrays ==
  ASSUME LeakInv, WriteForEach \/ (Repeat /\ pc = "encoding")
  PROVE  LeaksEncoding'
<1> DEFINE h == todo[1]
<1>1. /\ pc = "encoding" /\ todo # <<>> /\ Field.op \in {"each", "loop"} /\ HeapInv
      /\ UNCHANGED <<type, fields, pointer, live, allocated>> /\ written' = written
      /\ WriteForEach => Field.op = "each" /\ todo' = Loop \o Tail(todo)
      /\ Repeat => Field.op = "loop"
  BY DEF LeakInv, WriteForEach, Repeat, At, frameVars, packetVars, memoryVars, writeVars
<1>2. /\ IsSeq(todo) /\ Field = h.field /\ Loop = LoopOf(h) /\ 1 \in 1..Len(todo)
      /\ Ready(todo, fields, pointer)
  BY <1>1, AtItem DEF HeapInv, WhileEncoding
<1>3. WroteSome => WroteSome'
  BY <1>1 DEF WroteSome
<1>4. CASE WriteForEach
  <2>1. QuietItem(h) => Quiet(LoopOf(h))
    BY <1>1, <1>2, <1>4, QuietLoop
  <2>2. todo' = LoopOf(h) \o Tail(todo)
    BY <1>1, <1>2, <1>4
  <2> QED
    BY <1>1, <1>3, <2>1, <2>2, LeakGoesOn
<1>5. CASE Repeat
  <2>1. ItemSupported(h, fields, pointer)
    BY <1>2 DEF Ready
  <2>2. /\ h.field.op = "loop" /\ h = [path |-> h.path, field |-> LoopField(h.field, h.field.done)]
        /\ Append(h.path, h.field.count) \in DOMAIN fields
    BY <1>1, <1>2, <1>5, <2>1 DEF ItemSupported
  <2>3. todo' = Tail(todo) \/ todo' = TurnOf(h) \o Tail(todo)
    BY <1>2, <1>5, <2>2, RepeatIs
  <2>4. CASE todo' = Tail(todo)
    <3>1. IsSeq(Tail(todo)) /\ IsSeq(<<>>) /\ Len(<<>>) = 0
      BY <1>1, <1>2, SeqTail, NoItems
    <3>2. Quiet(<<>>)
      BY <3>1 DEF Quiet
    <3>3. todo' = <<>> \o Tail(todo)
      BY <2>4, <3>1, EmptyEnds
    <3> QED
      BY <1>1, <1>3, <3>2, <3>3, LeakGoesOn
  <2>5. CASE todo' = TurnOf(h) \o Tail(todo)
    <3>1. QuietItem(h) => Quiet(TurnOf(h))
      BY <2>2, QuietTurn
    <3> QED
      BY <1>1, <1>3, <2>5, <3>1, LeakGoesOn
  <2> QED
    BY <2>3, <2>4, <2>5
<1> QED
  BY <1>4, <1>5

LEMMA LeakHandsOver ==
  ASSUME LeakInv, EncodeEnds
  PROVE  LeaksParsed'
<1>1. /\ pc = "encoding" /\ todo = <<>> /\ live' = live \ {allocated}
      /\ UNCHANGED <<type, fields, pointer, written, failure>>
  BY DEF EncodeEnds, frameVars, packetVars, writeVars
<1>2. ~OneStart(<<>>)
  <2>1. Len(<<>>) = 0
    OBVIOUS
  <2> QED
    BY <2>1 DEF OneStart
<1>3. /\ AllFreed(type, fields, pointer)
      /\ BeforeFrame \/ InFrame
  BY <1>1, <1>2 DEF LeakInv, LeaksEncoding, BeforeTwo, BetweenTwo
<1>4. AllFreed(type, fields, pointer)' /\ KnownLosses' = KnownLosses
  BY <1>1, <1>3 DEF KnownLosses, FieldAt
<1>5. \A X : Owned(live, X, pointer) => Owned(live', X, pointer')
  BY <1>1 DEF Owned
<1>6. CASE BeforeFrame
  <2>1. PICK X : Lost(X) /\ Owned(live, X, pointer)
    BY <1>6 DEF BeforeFrame, OwnedOrLost
  <2>2. Lost(X)' /\ Owned(live', X, pointer')
    BY <1>4, <1>5, <2>1 DEF Lost
  <2>3. OwnedOrLost'
    BY <2>2, LosesOne
  <2>4. (type = Smart => Owned(live, {}, pointer))'
    BY <1>1, <1>5, <1>6 DEF BeforeFrame
  <2> QED
    BY <1>4, <2>3, <2>4 DEF LeaksParsed
<1>7. CASE InFrame
  <2>1. PICK X : Lost(X) /\ Owned(live \ {allocated}, X, pointer)
    BY <1>7 DEF InFrame
  <2>2. Lost(X)' /\ Owned(live', X, pointer')
    BY <1>1, <1>4, <2>1 DEF Lost
  <2>3. OwnedOrLost'
    BY <2>2, LosesOne
  <2>4. written' # <<>>
    BY <1>1, <1>7 DEF InFrame, WroteSome
  <2> QED
    BY <1>4, <2>3, <2>4 DEF LeaksParsed
<1> QED
  BY <1>3, <1>6, <1>7

-----------------------------------------------------------------------------
(* The parsers.                                                            *)

LEMMA LeakBegins ==
  ASSUME LeakInv, Parse
  PROVE  LeaksParsing'
BY PlainBegins, InfoBegins DEF LeakInv, LeaksParsing

\* The fields that a parser is at, other than those of a device info.
LEMMA AtOthers ==
  ASSUME LeakInv, pc = "parsing", todo # <<>>
  PROVE  /\ ParsesPlainly \/ ParsesInfo \/ ParsesName
         /\ Field.op \notin {"enum", "switch"} => ~ParsesInfo
         /\ Field.op \notin {"count", "zeros", "name"} => ~ParsesName
         /\ Field.op = "zeros" => ~ParsesPlainly
<1>1. HeapInv /\ (ParsesPlainly \/ ParsesInfo \/ ParsesName)
  BY DEF LeakInv, LeaksParsing
<1>2. Field.op \notin {"enum", "switch"} => ~ParsesInfo
  BY <1>1, InfoAt
<1>3. Field.op \notin {"count", "zeros", "name"} => ~ParsesName
  BY <1>1, NameAt
<1>4. ParsesPlainly => Field.op # "zeros"
  <2>1. ASSUME ParsesPlainly
        PROVE  Field.op \in Readers \cup Several \cup {"bytes", "name", "switch"}
    BY <1>1, <2>1, PlainField
  <2> QED
    BY <2>1 DEF Readers, Several
<1> QED
  BY <1>1, <1>2, <1>3, <1>4

\* A byte is read.
LEMMA LeakReads ==
  ASSUME LeakInv, ParseEnum \/ ParsePlain \/ ParseCount \/ ParseClamped
  PROVE  LeaksParsing' /\ LeaksFreeing'
<1>1. /\ pc = "parsing" /\ todo # <<>> /\ HeapInv /\ pc' \in {"parsing", "freeing"}
      /\ Field.op \in Readers
      /\ ParseEnum => Field.op = "enum"
      /\ ParsePlain => Field.op = "plain" /\ pc' = "parsing"
      /\ ParseCount => Field.op = "count" /\ pc' = "parsing"
      /\ ParseClamped => Field.op = "clamped" /\ pc' = "parsing"
  BY DEF LeakInv, ParseEnum, ParsePlain, ParseCount, ParseClamped, Proceeds, GivesUp, At, Readers
<1>2. ASSUME ParsesPlainly
      PROVE  (pc' = "parsing" => ParsesPlainly') /\ (pc' = "freeing" => Leaves')
  <2>1. CASE pc' = "parsing"
    <3>1. PICK v : fields' = Set(fields, Here(Field.name), v)
      BY DEF ParseEnum, ParsePlain, ParseCount, ParseClamped, Reads
    <3>2. type' = type /\ UNCHANGED <<pointer, live>> /\ todo' = Tail(todo)
      BY <2>1 DEF ParseEnum, ParsePlain, ParseCount, ParseClamped, Reads, Proceeds, GivesUp,
                  frameVars, memoryVars
    <3> QED
      BY <1>1, <1>2, <2>1, <3>1, <3>2, PlainReader
  <2>2. CASE pc' = "freeing"
    <3>1. ParseEnum
      BY <1>1, <2>2
    <3> QED
      BY <1>1, <1>2, <2>2, <3>1, PlainFails
  <2> QED
    BY <1>1, <2>1, <2>2
<1>3. CASE ParseEnum
  <2>1. ParsesPlainly \/ ParsesInfo
    BY <1>1, <1>3, AtOthers
  <2>2. ASSUME ParsesInfo
        PROVE  (pc' = "parsing" => ParsesInfo') /\ (pc' = "freeing" => Leaves')
    BY <1>1, <1>3, <2>2, InfoReads
  <2> QED
    BY <1>2, <2>1, <2>2 DEF LeaksParsing, LeaksFreeing
<1>4. CASE ParsePlain \/ ParseClamped
  <2>1. ParsesPlainly
    BY <1>1, <1>4, AtOthers
  <2> QED
    BY <1>2, <2>1 DEF LeaksParsing, LeaksFreeing
<1>5. CASE ParseCount
  <2>1. (ParsesPlainly \/ ParsesName) /\ pc' = "parsing"
    BY <1>1, <1>5, AtOthers
  <2>2. ParsesName => ParsesName'
    BY <1>1, <1>5, NameCounts
  <2> QED
    BY <1>2, <2>1, <2>2 DEF LeaksParsing, LeaksFreeing
<1> QED
  BY <1>3, <1>4, <1>5

\* A block is allocated.
LEMMA LeakAllocates ==
  ASSUME LeakInv, ParseBytes \/ ParseZeros \/ ParseForEach
  PROVE  LeaksParsing'
<1>1. /\ pc = "parsing" /\ todo # <<>> /\ HeapInv /\ Allocates
      /\ type' = type /\ fields' = fields
      /\ ParseBytes => Field.op \in {"bytes", "name"} /\ todo' = Tail(todo)
      /\ ParseZeros => Field.op = "zeros"
      /\ ParseForEach => Field.op = "each"
  BY DEF LeakInv, ParseBytes, ParseZeros, ParseForEach, IsBlock, Proceeds, At, frameVars
<1>2. CASE ParseBytes
  <2>1. ParsesPlainly \/ ParsesName
    BY <1>1, <1>2, AtOthers
  <2>2. ParsesPlainly => ParsesPlainly'
    BY <1>1, <1>2, PlainBlock
  <2>3. ParsesName => ParsesName'
    BY <1>1, <1>2, NameAllocates
  <2> QED
    BY <2>1, <2>2, <2>3 DEF LeaksParsing
<1>3. CASE ParseZeros
  <2>1. ParsesName
    BY <1>1, <1>3, AtOthers
  <2> QED
    BY <1>1, <1>3, <2>1, NameAllocates DEF LeaksParsing
<1>4. CASE ParseForEach
  <2>1. ParsesPlainly
    BY <1>1, <1>4, AtOthers
  <2> QED
    BY <1>1, <1>4, <2>1, PlainArray DEF LeaksParsing
<1> QED
  BY <1>2, <1>3, <1>4

\* A parser gives up.
LEMMA LeakFails ==
  ASSUME LeakInv, TooShort \/ OutOfMemory
  PROVE  Leaves'
<1>1. /\ pc = "parsing" /\ todo # <<>> /\ HeapInv /\ pc' = "freeing"
      /\ OutOfMemory => Field.op \notin {"enum", "switch"}
  BY DEF LeakInv, TooShort, OutOfMemory, IsBlock, GivesUp, At
<1>2. CASE ParsesPlainly
  BY <1>1, <1>2, PlainFails
<1>3. CASE ParsesInfo
  <2>1. TooShort
    BY <1>1, <1>3, AtOthers
  <2> QED
    BY <1>1, <1>3, <2>1, InfoReads
<1>4. CASE ParsesName
  BY <1>1, <1>4, NameFails
<1> QED
  BY <1>1, <1>2, <1>3, <1>4, AtOthers

LEMMA LeakWalksOn ==
  ASSUME LeakInv, Branch \/ Repeat, pc = "parsing"
  PROVE  LeaksParsing'
<1>1. /\ todo # <<>> /\ HeapInv
      /\ Branch => Field.op = "switch"
      /\ Repeat => Field.op = "loop"
  BY DEF LeakInv, Branch, Repeat, At
<1>2. CASE Branch
  <2>1. ParsesPlainly \/ ParsesInfo
    BY <1>1, <1>2, AtOthers
  <2>2. ParsesPlainly => ParsesPlainly'
    BY <1>1, <1>2, PlainBranch
  <2>3. ParsesInfo => ParsesPlainly' \/ ParsesName'
    BY <1>1, <1>2, InfoChooses
  <2> QED
    BY <2>1, <2>2, <2>3 DEF LeaksParsing
<1>3. CASE Repeat
  <2>1. ParsesPlainly
    BY <1>1, <1>3, AtOthers
  <2> QED
    BY <1>1, <1>3, <2>1, PlainRepeat DEF LeaksParsing
<1> QED
  BY <1>2, <1>3

\* A packet is parsed.
LEMMA LeakParses ==
  ASSUME LeakInv, ParseEnds
  PROVE  LeaksParsed'
<1>1. /\ pc = "parsing" /\ todo = <<>> /\ HeapInv
      /\ UNCHANGED <<type, fields, pointer, live, written, failure>>
      /\ ParsesPlainly \/ ParsesInfo \/ ParsesName
  BY DEF LeakInv, LeaksParsing, ParseEnds, frameVars, packetVars, memoryVars, writeVars
<1>2. ~ParsesInfo
  BY <1>1, InfoAt
<1>3. CASE ParsesPlainly
  <2>1. AllFreed(type, fields, pointer) /\ Owned(live, {}, pointer)
    BY <1>3 DEF ParsesPlainly
  <2>2. AllFreed(type, fields, pointer)' /\ Owned(live', {}, pointer')
    BY <1>1, <2>1
  <2>3. OwnedOrLost'
    BY <2>2, NoneLost, LosesOne
  <2> QED
    BY <2>2, <2>3 DEF LeaksParsed
<1>4. CASE ParsesName
  <2>1. /\ type = "CONNECT_RET_DEVICE_INFO" /\ <<"inquired_type">> \in DOMAIN fields
        /\ DOMAIN pointer = {<<"string">>} /\ OwnedOrLost
    <3>1. \A k \in {0, 1, 2} : ~Suffix(todo, NameParse, k)
      <4> SUFFICES ASSUME NEW k \in {0, 1, 2}, Suffix(todo, NameParse, k) PROVE FALSE
        OBVIOUS
      <4>1. k \in Nat /\ IsSeq(NameParse) /\ Len(NameParse) = 3
        BY InfoLayouts
      <4>2. Len(NameParse) = k
        BY <1>1, <4>1, SuffixIs
      <4> QED
        BY <4>1, <4>2
    <3> QED
      BY <1>4, <3>1 DEF ParsesName
  <2>2. \A q \in DOMAIN pointer' : q = <<"string">>
    BY <1>1, <2>1
  <2>3. AllFreed(type', fields', pointer')
    BY <1>1, <1>4, <2>1, <2>2, NameKept
  <2>4. OwnedOrLost'
    BY <1>1, <2>1 DEF OwnedOrLost, Lost, KnownLosses, FieldAt
  <2>5. type' # Smart
    BY <1>1, <2>1 DEF Smart
  <2> QED
    BY <2>3, <2>4, <2>5 DEF LeaksParsed
<1> QED
  BY <1>1, <1>2, <1>3, <1>4

-----------------------------------------------------------------------------
(* The free.                                                               *)

LEMMA LeakReleases ==
  ASSUME LeakInv, Release
  PROVE  Leaves'
<1>1. /\ pc = "parsed" /\ todo' = Enter(<<>>, mdr_packet_free(type))
      /\ UNCHANGED <<type, fields, pointer, live>>
  BY DEF Release, frameVars, packetVars, memoryVars
<1>2. AllFreed(type, fields, pointer) /\ OwnedOrLost
  BY <1>1 DEF LeakInv, LeaksParsed
<1>3. PICK X : Lost(X) /\ Owned(live, X, pointer)
  BY <1>2 DEF OwnedOrLost
<1>4. Lost(X)' /\ Owned(live', X, pointer') /\ AllFreed(type, fields', pointer')
  BY <1>1, <1>2, <1>3 DEF Lost, KnownLosses, FieldAt
<1> QED
  BY <1>1, <1>4, GiveUpLeaves

LEMMA LeakFrees ==
  ASSUME LeakInv, pc = "freeing", Branch \/ Repeat \/ FreeForEach \/ FreeField
  PROVE  Leaves'
<1>1. /\ HeapInv /\ Leaves /\ Stack(todo) /\ UNCHANGED <<type, fields, pointer>>
  BY DEF LeakInv, LeaksFreeing, HeapInv, WhileFreeing, Branch, Repeat, FreeForEach, FreeField,
         frameVars, packetVars
<1>2. PICK X : Lost(X) /\ WillBeFreed(live, X, todo, fields, pointer)
  BY <1>1 DEF Leaves
<1>3. Lost(X)'
  BY <1>1, <1>2 DEF Lost, KnownLosses, FieldAt
<1>4. CASE Branch \/ Repeat \/ FreeForEach
  <2>1. live' = live
    BY <1>4 DEF Branch, Repeat, FreeForEach, memoryVars
  <2>2. \A q : Frees(todo, q, fields, pointer) => Frees(todo', q, fields, pointer)
    <3>1. \A q \in DOMAIN fields : fields[q] \in Nat
      <4>1. \A q \in DOMAIN fields : fields[q] \in Byte
        BY <1>1 DEF HeapInv, IInv, TypeOK
      <4>2. \A b \in Byte : b \in Nat
        BY DEF Byte
      <4> QED
        BY <4>1, <4>2
    <3> QED
      BY <1>1, <1>4, <3>1, FreesBranch, FreesTurn, FreesLoop
  <2>3. WillBeFreed(live', X, todo', fields', pointer')
    BY <1>1, <1>2, <2>1, <2>2 DEF WillBeFreed
  <2> QED
    BY <1>3, <2>3 DEF Leaves
<1>5. CASE FreeField
  <2>1. /\ \A q : Frees(todo, q, fields, pointer) =>
             Frees(todo', q, fields, pointer) \/ q = Spot(todo[1])
        /\ live' = live \ {PointerAt(Spot(todo[1]))}
    BY <1>1, <1>5, FreesField
  <2>2. WillBeFreed(live', X, todo', fields', pointer')
    BY <1>1, <1>2, <2>1 DEF WillBeFreed, PointerAt
  <2> QED
    BY <1>3, <2>2 DEF Leaves
<1> QED
  BY <1>4, <1>5

LEMMA LeakReturns ==
  ASSUME LeakInv, Refuse \/ NoPacket \/ FreePacket
  PROVE  LeaksReturned'
<1>1. UNCHANGED <<type, fields, pointer>>
  BY DEF Refuse, NoPacket, FreePacket, frameVars, packetVars
<1>2. CASE Refuse \/ NoPacket
  <2>1. live' = {}
    BY <1>2 DEF LeakInv, Refuse, NoPacket, memoryVars
  <2> QED
    BY <2>1, NoneLost DEF LeaksReturned
<1>3. CASE FreePacket
  <2>1. pc = "freeing" /\ todo = <<>> /\ live' = live \ {PACKET}
    BY <1>3 DEF FreePacket
  <2>2. PICK X : Lost(X) /\ WillBeFreed(live, X, todo, fields, pointer)
    BY <2>1 DEF LeakInv, LeaksFreeing, Leaves
  <2>3. live' \subseteq X
    BY <2>1, <2>2, ComesNowhere DEF WillBeFreed
  <2>4. Lost(X)'
    BY <1>1, <2>2 DEF Lost, KnownLosses, FieldAt
  <2> QED
    BY <2>3, <2>4 DEF LeaksReturned
<1> QED
  BY <1>2, <1>3

-----------------------------------------------------------------------------
(* Every step keeps the invariant.                                         *)

LEMMA LeakStep == LeakInv /\ [Next]_vars => LeakInv'
<1> SUFFICES ASSUME LeakInv, [Next]_vars PROVE LeakInv'
  OBVIOUS
<1> USE DEF LeaksParsing, LeaksParsed, LeaksEncoding, LeaksFreeing, LeaksReturned
<1>1. HeapInv'
  BY HeapStep DEF LeakInv
<1>2. CASE UNCHANGED vars
  <2>1. /\ UNCHANGED <<type, pc, todo, fields, pointer, live, allocated, failure, written>>
        /\ KnownLosses' = KnownLosses
    BY <1>2 DEF vars, frameVars, packetVars, memoryVars, writeVars, KnownLosses, FieldAt
  <2>2. \A X : Lost(X) => Lost(X)'
    BY <2>1 DEF Lost
  <2>3. LeaksParsing'
    <3>1. ParsesPlainly => ParsesPlainly'
      BY <2>1 DEF ParsesPlainly
    <3>2. ParsesInfo => ParsesInfo'
      BY <2>1 DEF ParsesInfo
    <3>3. OwnedOrLost => OwnedOrLost'
      BY <2>1, <2>2 DEF OwnedOrLost
    <3>4. ParsesName => ParsesName'
      BY <2>1, <3>3 DEF ParsesName
    <3> QED
      BY <2>1, <3>1, <3>2, <3>4 DEF LeakInv
  <2>4. OwnedOrLost => OwnedOrLost'
    BY <2>1, <2>2 DEF OwnedOrLost
  <2>5. LeaksParsed'
    BY <2>1, <2>4 DEF LeakInv
  <2>6. LeaksEncoding'
    <3>1. ChoiceAhead => ChoiceAhead'
      BY <2>1 DEF ChoiceAhead
    <3>2. BeforeFrame => BeforeFrame'
      BY <2>1, <2>4, <3>1 DEF BeforeFrame
    <3>3. BeforeTwo => BeforeTwo'
      BY <2>1 DEF BeforeTwo
    <3>4. BetweenTwo => BetweenTwo'
      BY <2>1 DEF BetweenTwo, WroteSome
    <3>5. InFrame => InFrame'
      BY <2>1, <2>2 DEF InFrame, WroteSome
    <3> QED
      BY <2>1, <3>2, <3>3, <3>4, <3>5 DEF LeakInv
  <2>7. LeaksFreeing'
    BY <2>1, <2>2 DEF LeakInv, Leaves
  <2>8. LeaksReturned'
    BY <2>1, <2>2 DEF LeakInv
  <2> QED
    BY <1>1, <2>1, <2>3, <2>5, <2>6, <2>7, <2>8 DEF LeakInv
<1>3. CASE Branch \/ Repeat
  <2>1. pc' = pc /\ pc \in {"parsing", "encoding", "freeing"}
    BY <1>3 DEF Branch, Repeat, At
  <2> QED
    BY <1>1, <1>3, <2>1, LeakWalksOn, LeakBranches, LeakArrays, LeakFrees DEF LeakInv
<1>4. CASE ParseEnum \/ ParsePlain \/ ParseCount \/ ParseClamped
  <2>1. pc' \in {"parsing", "freeing"}
    BY <1>4 DEF ParseEnum, ParsePlain, ParseCount, ParseClamped, Proceeds, GivesUp, At
  <2> QED
    BY <1>1, <1>4, <2>1, LeakReads DEF LeakInv
<1>5. CASE ParseBytes \/ ParseZeros \/ ParseForEach
  <2>1. pc' = "parsing"
    BY <1>5 DEF ParseBytes, ParseZeros, ParseForEach, IsBlock, Proceeds, At
  <2> QED
    BY <1>1, <1>5, <2>1, LeakAllocates DEF LeakInv
<1>6. CASE TooShort \/ OutOfMemory
  <2>1. pc' = "freeing"
    BY <1>6 DEF TooShort, OutOfMemory, GivesUp
  <2> QED
    BY <1>1, <1>6, <2>1, LeakFails DEF LeakInv
<1>7. CASE Parse
  <2>1. pc' = "parsing"
    BY <1>7 DEF Parse
  <2> QED
    BY <1>1, <1>7, <2>1, LeakBegins DEF LeakInv
<1>8. CASE ParseEnds \/ NoFrame \/ EncodeEnds
  <2>1. pc' = "parsed"
    BY <1>8 DEF ParseEnds, NoFrame, EncodeEnds
  <2> QED
    BY <1>1, <1>8, <2>1, LeakParses, LeakStops, LeakHandsOver DEF LeakInv
<1>9. CASE Encode \/ StartFrame \/ WriteField \/ WriteBytes \/ AddLength \/ WriteForEach
  <2>1. pc' = "encoding"
    BY <1>9 DEF Encode, StartFrame, WriteField, WriteBytes, AddLength, WriteForEach, Writes, At
  <2> QED
    BY <1>1, <1>9, <2>1, LeakEncodes, LeakStarts, LeakWrites, LeakArrays DEF LeakInv
<1>10. CASE Release
  <2>1. pc' = "freeing"
    BY <1>10 DEF Release
  <2> QED
    BY <1>1, <1>10, <2>1, LeakReleases DEF LeakInv
<1>11. CASE FreeField \/ FreeForEach
  <2>1. pc = "freeing" /\ pc' = "freeing"
    BY <1>11 DEF FreeField, FreeForEach, At
  <2> QED
    BY <1>1, <1>11, <2>1, LeakFrees DEF LeakInv
<1>12. CASE Refuse \/ NoPacket \/ FreePacket
  <2>1. pc' = "returned"
    BY <1>12 DEF Refuse, NoPacket, FreePacket
  <2> QED
    BY <1>1, <1>12, <2>1, LeakReturns DEF LeakInv
<1> QED
  BY <1>2, <1>3, <1>4, <1>5, <1>6, <1>7, <1>8, <1>9, <1>10, <1>11, <1>12 DEF Next, Walk

\* However a call ends, all the memory is given back: with a packet that is
\* freed, in an invalid frame, or out of memory at any allocation (util.h:38, 41).
\* The only losses are the first block of a name, which is allocated twice
\* (connect.h:144), and the first frame of the capability of smart talking, whose
\* case runs on into the next one (system.h:568), and of each at most one block.
\* So it is for every type and every payload, and whether the packet was encoded
\* before or not.
THEOREM NothingElseIsLost == Spec => []NothingElseLeaks
<1>1. Spec => []LeakInv
  <2>1. Init => LeakInv
    BY LeakInit
  <2> QED
    BY <2>1, LeakStep, PTL DEF Spec
<1>2. LeakInv => NothingElseLeaks
  BY LeakImplies
<1> QED
  BY <1>1, <1>2, PTL
=============================================================================
