-------------------------- MODULE MessageCodecProofs --------------------------
(***************************************************************************)
(* What is read from a datagram is what was written, for any servers, ids, *)
(* lines, clocks and buffers: uncut, all of it, and cut, all that the      *)
(* order of delivery depends on.                                           *)
(***************************************************************************)
EXTENDS MessageCodec, FiniteSetTheorems, SequenceTheorems, TLAPS

-----------------------------------------------------------------------------
(* Induction, with a set in the place of the property.                     *)

\* A set of naturals with 0 and every successor is all of them.
LEMMA SetInduction ==
  ASSUME NEW T, T \subseteq Nat, 0 \in T, \A n \in T : n + 1 \in T
  PROVE  T = Nat
<1> DEFINE Less == {p \in Nat \X Nat : p[1] < p[2]}
<1>1. IsWellFoundedOn(Less, Nat)
  <2>1. OpToRel(<, Nat) = Less
    BY DEF OpToRel
  <2> QED BY <2>1, NatLessThanWellFounded
<1>2. SUFFICES ASSUME Nat \ T # {} PROVE FALSE
  OBVIOUS
<1>3. PICK x \in Nat \ T : \A y \in Nat \ T : <<y, x>> \notin Less
  <2> HIDE DEF Less
  <2> QED BY <1>1, <1>2, WFMin
<1>4. x # 0 /\ x - 1 \in Nat /\ x - 1 < x
  OBVIOUS
<1>5. <<x - 1, x>> \in Less
  BY <1>4
<1>6. x - 1 \in T
  BY <1>3, <1>4, <1>5
<1> QED BY <1>4, <1>6

\* The same up to a bound.
LEMMA BoundedInduction ==
  ASSUME NEW n \in Nat, NEW T, 0 \in T, \A k \in 1..n : k - 1 \in T => k \in T
  PROVE  \A k \in 0..n : k \in T
<1> DEFINE U == {k \in Nat : k <= n => k \in T}
<1>1. 0 \in U
  OBVIOUS
<1>2. ASSUME NEW k \in U
      PROVE  k + 1 \in U
  <2>1. k \in Nat /\ k + 1 \in Nat /\ (k + 1) - 1 = k
    OBVIOUS
  <2>2. CASE k + 1 <= n
    <3>1. k \in T /\ k + 1 \in 1..n
      BY <2>1, <2>2
    <3>2. k + 1 \in T
      BY <2>1, <3>1
    <3> QED BY <2>1, <3>2
  <2>3. CASE ~ (k + 1 <= n)
    BY <2>1, <2>3
  <2> QED BY <2>2, <2>3
<1>3. U = Nat
  <2>1. U \subseteq Nat
    OBVIOUS
  <2> HIDE DEF U
  <2> QED BY <1>1, <1>2, <2>1, SetInduction
<1> QED BY <1>3

-----------------------------------------------------------------------------
(* Sequences of anything, as a reader collects them.                       *)

IsSeq(g) == \E G : g \in Seq(G)

\* An appended element is the last one and leaves the others alone.
LEMMA AppendIsSeq ==
  ASSUME NEW g, IsSeq(g), NEW x
  PROVE  /\ IsSeq(Append(g, x))
         /\ Len(Append(g, x)) = Len(g) + 1 /\ Len(g) \in Nat
         /\ Last(Append(g, x)) = x
         /\ \A i \in 1..Len(g) : Append(g, x)[i] = g[i]
         /\ Append(g, x)[Len(g) + 1] = x
<1>1. PICK G : g \in Seq(G)
  BY DEF IsSeq
<1> DEFINE H == G \cup {x}
<1>2. g \in Seq(H)
  BY <1>1, SeqMonotonic
<1>3. x \in H
  OBVIOUS
<1> HIDE DEF H
<1>4. /\ Append(g, x) \in Seq(H)
      /\ Len(Append(g, x)) = Len(g) + 1 /\ Len(g) \in Nat
      /\ \A i \in 1..Len(g) : Append(g, x)[i] = g[i]
      /\ Append(g, x)[Len(g) + 1] = x
  BY <1>2, <1>3, AppendProperties, LenProperties
<1>5. IsSeq(Append(g, x))
  BY <1>4 DEF IsSeq
<1>6. Last(Append(g, x)) = x
  BY <1>4 DEF Last
<1> QED BY <1>4, <1>5, <1>6

\* A sequence with one more element is the other one with it appended.
LEMMA AppendEquals ==
  ASSUME NEW G, NEW s \in Seq(G), NEW t \in Seq(G), Len(t) = Len(s) + 1,
         \A i \in 1..Len(s) : t[i] = s[i]
  PROVE  Append(s, t[Len(s) + 1]) = t
<1>1. Len(s) \in Nat /\ t[Len(s) + 1] \in G
  BY ElementOfSeq
<1> DEFINE u == Append(s, t[Len(s) + 1])
<1>2. u \in Seq(G) /\ Len(u) = Len(t)
  BY <1>1, AppendProperties
<1>3. \A i \in 1..Len(u) : u[i] = t[i]
  BY <1>1, <1>2, AppendProperties
<1> HIDE DEF u
<1>4. u = t
  BY <1>2, <1>3, SeqEqual
<1> QED BY <1>4 DEF u

\* The tuples a decoder collects.
LEMMA Tuples ==
  ASSUME NEW a, NEW b, NEW c, NEW d, NEW e, NEW f
  PROVE  /\ IsSeq(<<>>) /\ IsSeq(<<a>>) /\ IsSeq(<<a, b>>) /\ IsSeq(<<a, b, c>>)
         /\ IsSeq(<<a, b, c, d>>) /\ IsSeq(<<a, b, c, d, e>>)
         /\ Append(<<>>, a) = <<a>>
         /\ Append(<<a>>, b) = <<a, b>>
         /\ Append(<<a, b>>, c) = <<a, b, c>>
         /\ Append(<<a, b, c>>, d) = <<a, b, c, d>>
         /\ Append(<<a, b, c, d>>, e) = <<a, b, c, d, e>>
         /\ Append(<<a, b, c, d, e>>, f) = <<a, b, c, d, e, f>>
<1> DEFINE G == {a, b, c, d, e, f}
<1>1. /\ <<>> \in Seq(G) /\ <<a>> \in Seq(G) /\ <<a, b>> \in Seq(G) /\ <<a, b, c>> \in Seq(G)
      /\ <<a, b, c, d>> \in Seq(G) /\ <<a, b, c, d, e>> \in Seq(G)
      /\ <<a, b, c, d, e, f>> \in Seq(G)
  OBVIOUS
<1>2. /\ IsSeq(<<>>) /\ IsSeq(<<a>>) /\ IsSeq(<<a, b>>) /\ IsSeq(<<a, b, c>>)
      /\ IsSeq(<<a, b, c, d>>) /\ IsSeq(<<a, b, c, d, e>>)
  BY <1>1 DEF IsSeq
<1> HIDE DEF G
<1>3. Append(<<>>, a) = <<a>>
  OBVIOUS
<1>4. Append(<<a>>, b) = <<a, b>>
  <2> DEFINE s == <<a>>
             t == <<a, b>>
  <2>1. /\ s \in Seq(G) /\ t \in Seq(G) /\ Len(s) = 1 /\ Len(t) = 2
        /\ t[2] = b /\ \A i \in 1..1 : t[i] = s[i]
    BY <1>1
  <2> HIDE DEF s, t
  <2>2. Len(t) = Len(s) + 1 /\ \A i \in 1..Len(s) : t[i] = s[i]
    BY <2>1
  <2>3. Append(s, t[Len(s) + 1]) = t
    BY <2>1, <2>2, AppendEquals
  <2> QED BY <2>1, <2>3 DEF s, t
<1>5. Append(<<a, b>>, c) = <<a, b, c>>
  <2> DEFINE s == <<a, b>>
             t == <<a, b, c>>
  <2>1. /\ s \in Seq(G) /\ t \in Seq(G) /\ Len(s) = 2 /\ Len(t) = 3
        /\ t[3] = c /\ \A i \in 1..2 : t[i] = s[i]
    BY <1>1
  <2> HIDE DEF s, t
  <2>2. Len(t) = Len(s) + 1 /\ \A i \in 1..Len(s) : t[i] = s[i]
    BY <2>1
  <2>3. Append(s, t[Len(s) + 1]) = t
    BY <2>1, <2>2, AppendEquals
  <2> QED BY <2>1, <2>3 DEF s, t
<1>6. Append(<<a, b, c>>, d) = <<a, b, c, d>>
  <2> DEFINE s == <<a, b, c>>
             t == <<a, b, c, d>>
  <2>1. /\ s \in Seq(G) /\ t \in Seq(G) /\ Len(s) = 3 /\ Len(t) = 4
        /\ t[4] = d /\ \A i \in 1..3 : t[i] = s[i]
    BY <1>1
  <2> HIDE DEF s, t
  <2>2. Len(t) = Len(s) + 1 /\ \A i \in 1..Len(s) : t[i] = s[i]
    BY <2>1
  <2>3. Append(s, t[Len(s) + 1]) = t
    BY <2>1, <2>2, AppendEquals
  <2> QED BY <2>1, <2>3 DEF s, t
<1>7. Append(<<a, b, c, d>>, e) = <<a, b, c, d, e>>
  <2> DEFINE s == <<a, b, c, d>>
             t == <<a, b, c, d, e>>
  <2>1. /\ s \in Seq(G) /\ t \in Seq(G) /\ Len(s) = 4 /\ Len(t) = 5
        /\ t[5] = e /\ \A i \in 1..4 : t[i] = s[i]
    BY <1>1
  <2> HIDE DEF s, t
  <2>2. Len(t) = Len(s) + 1 /\ \A i \in 1..Len(s) : t[i] = s[i]
    BY <2>1
  <2>3. Append(s, t[Len(s) + 1]) = t
    BY <2>1, <2>2, AppendEquals
  <2> QED BY <2>1, <2>3 DEF s, t
<1>8. Append(<<a, b, c, d, e>>, f) = <<a, b, c, d, e, f>>
  <2> DEFINE s == <<a, b, c, d, e>>
             t == <<a, b, c, d, e, f>>
  <2>1. /\ s \in Seq(G) /\ t \in Seq(G) /\ Len(s) = 5 /\ Len(t) = 6
        /\ t[6] = f /\ \A i \in 1..5 : t[i] = s[i]
    BY <1>1
  <2> HIDE DEF s, t
  <2>2. Len(t) = Len(s) + 1 /\ \A i \in 1..Len(s) : t[i] = s[i]
    BY <2>1
  <2>3. Append(s, t[Len(s) + 1]) = t
    BY <2>1, <2>2, AppendEquals
  <2> QED BY <2>1, <2>3 DEF s, t
<1> QED BY <1>2, <1>3, <1>4, <1>5, <1>6, <1>7, <1>8

-----------------------------------------------------------------------------
(* Reading what is there.                                                  *)

\* A reader with s before it, of which the datagram holds the first k cells.
At(s, k, g) == [rest |-> SubSeq(s, 1, k), ok |-> TRUE, got |-> g]

\* A string of which k cells arrived.
Filled(s, k) == [i \in 1..Len(s) |-> IF i <= k THEN s[i] ELSE NUL]

\* Concatenation is associative.
LEMMA Associative ==
  \A a, b, c \in Seq(Nat) : (a \o b) \o c = a \o (b \o c)
BY ConcatAssociative

\* Three values that were read.
LEMMA Triple ==
  ASSUME NEW a, NEW b, NEW c
  PROVE  Append(Append(<<a>>, b), c) = <<a, b, c>>
<1> DEFINE G == {a, b, c}
           s == <<a, b>>
           t == <<a, b, c>>
<1>1. Append(<<a>>, b) = s
  BY Tuples, Zenon
<1>2. /\ s \in Seq(G) /\ t \in Seq(G) /\ Len(s) = 2 /\ Len(t) = 3
      /\ t[3] = c /\ \A i \in 1..2 : t[i] = s[i]
  OBVIOUS
<1> HIDE DEF s, t
<1>3. Len(t) = Len(s) + 1 /\ \A i \in 1..Len(s) : t[i] = s[i]
  BY <1>2
<1>4. Append(s, t[Len(s) + 1]) = t
  BY <1>2, <1>3, AppendEquals
<1>5. Append(Append(<<a>>, b), c) = t
  BY <1>1, <1>2, <1>4
<1> QED BY <1>5 DEF t

\* From two to three.
LEMMA Third ==
  ASSUME NEW a, NEW b, NEW c
  PROVE  Append(<<a, b>>, c) = <<a, b, c>>
<1>1. Append(<<a>>, b) = <<a, b>>
  BY Tuples, Zenon
<1> QED BY <1>1, Triple, Zenon

\* The first cells of a concatenation.
LEMMA Cells ==
  ASSUME NEW x \in Seq(Nat), NEW y \in Seq(Nat), NEW k \in 0..(Len(x) + Len(y))
  PROVE  /\ x \o y \in Seq(Nat) /\ Len(x \o y) = Len(x) + Len(y)
         /\ SubSeq(x \o y, 1, k) \in Seq(Nat)
         /\ Len(SubSeq(x \o y, 1, k)) = k
         /\ \A i \in 1..k : SubSeq(x \o y, 1, k)[i] = IF i <= Len(x) THEN x[i] ELSE y[i - Len(x)]
<1>1. /\ x \o y \in Seq(Nat) /\ Len(x \o y) = Len(x) + Len(y)
      /\ \A i \in 1..Len(x) + Len(y) :
           (x \o y)[i] \in Nat /\ (x \o y)[i] = IF i <= Len(x) THEN x[i] ELSE y[i - Len(x)]
  BY ConcatProperties, ElementOfSeq
<1> DEFINE s == x \o y
<1> HIDE DEF s
<1>2. Len(x) \in Nat /\ Len(y) \in Nat
  OBVIOUS
<1>3. /\ SubSeq(s, 1, k) \in Seq(Nat)
      /\ Len(SubSeq(s, 1, k)) = k
      /\ \A i \in 1..k : SubSeq(s, 1, k)[i] = s[i]
  <2>1. \A i \in 1..k : s[i] \in Nat
    BY <1>1, <1>2 DEF s
  <2>2. /\ SubSeq(s, 1, k) \in Seq(Nat)
        /\ Len(SubSeq(s, 1, k)) = IF 1 <= k THEN k - 1 + 1 ELSE 0
        /\ \A i \in 1..k - 1 + 1 : SubSeq(s, 1, k)[i] = s[1 + i - 1]
    BY <2>1, <1>2, SubSeqProperties
  <2> QED BY <2>2, <1>2
<1> QED BY <1>1, <1>2, <1>3 DEF s

\* An integer is read.
LEMMA TakeIntAt ==
  ASSUME NEW x \in Nat, NEW y \in Seq(Nat), NEW k \in 1..(Len(y) + 1), NEW g
  PROVE  TakeInt(At(<<x>> \o y, k, g)) = At(y, k - 1, Append(g, x))
<1> DEFINE u == SubSeq(<<x>> \o y, 1, k)
           v == SubSeq(y, 1, k - 1)
<1>1. <<x>> \in Seq(Nat) /\ Len(<<x>>) = 1 /\ <<x>>[1] = x /\ Len(y) \in Nat
  OBVIOUS
<1>2. /\ u \in Seq(Nat) /\ Len(u) = k
      /\ \A i \in 1..k : u[i] = IF i <= 1 THEN x ELSE y[i - 1]
  BY <1>1, Cells
<1>3. v \in Seq(Nat) /\ Len(v) = k - 1 /\ \A i \in 1..(k - 1) : v[i] = y[i]
  <2>1. <<>> \in Seq(Nat) /\ Len(<<>>) = 0 /\ <<>> \o y = y
    BY ConcatEmptySeq
  <2>2. k - 1 \in 0..(0 + Len(y))
    BY <1>1
  <2>3. \A i \in 1..(k - 1) : ~ (i <= 0) /\ i - 0 = i
    OBVIOUS
  <2> QED BY <2>1, <2>2, <2>3, Cells
<1> HIDE DEF u, v
<1>4. u # <<>> /\ Head(u) = x /\ Tail(u) = v
  <2>1. u # <<>> /\ u[1] = x /\ Head(u) = u[1]
    BY <1>2
  <2>2. Tail(u) \in Seq(Nat) /\ Len(Tail(u)) = k - 1 /\ \A i \in 1..(k - 1) : Tail(u)[i] = u[i + 1]
    BY <2>1, <1>2, HeadTailProperties
  <2>3. \A i \in 1..(k - 1) : Tail(u)[i] = v[i]
    <3> TAKE i \in 1..(k - 1)
    <3>1. i + 1 \in 1..k /\ ~ (i + 1 <= 1) /\ (i + 1) - 1 = i
      OBVIOUS
    <3> QED BY <3>1, <2>2, <1>2, <1>3
  <2> QED BY <2>1, <2>2, <2>3, <1>3, SeqEqual
<1>5. TakeInt([rest |-> u, ok |-> TRUE, got |-> g]) = [rest |-> v, ok |-> TRUE, got |-> Append(g, x)]
  BY <1>4 DEF TakeInt
<1> QED BY <1>5 DEF At, u, v

\* A string of known length is read whole.
LEMMA TakeAt ==
  ASSUME NEW x \in Seq(Nat), NEW y \in Seq(Nat), NEW k \in Len(x)..(Len(x) + Len(y)), k > 0, NEW g
  PROVE  Take(At(x \o y, k, g), Len(x)) = At(y, k - Len(x), Append(g, x))
<1> DEFINE u == SubSeq(x \o y, 1, k)
           v == SubSeq(y, 1, k - Len(x))
<1>1. Len(x) \in Nat /\ Len(y) \in Nat /\ k \in Nat
  OBVIOUS
<1>2. /\ u \in Seq(Nat) /\ Len(u) = k
      /\ \A i \in 1..k : u[i] = IF i <= Len(x) THEN x[i] ELSE y[i - Len(x)]
  BY <1>1, Cells
<1>3. v \in Seq(Nat) /\ Len(v) = k - Len(x) /\ \A i \in 1..(k - Len(x)) : v[i] = y[i]
  <2>1. <<>> \in Seq(Nat) /\ Len(<<>>) = 0 /\ <<>> \o y = y
    BY ConcatEmptySeq
  <2>2. k - Len(x) \in 0..(0 + Len(y))
    BY <1>1
  <2>3. \A i \in 1..(k - Len(x)) : ~ (i <= 0) /\ i - 0 = i
    OBVIOUS
  <2> QED BY <2>1, <2>2, <2>3, Cells
<1> HIDE DEF u, v
<1>4. u # <<>>
  BY <1>1, <1>2
<1>5. SubSeq(u, Len(x) + 1, Len(u)) = v
  <2> DEFINE w == SubSeq(u, Len(x) + 1, k)
  <2>1. \A i \in (Len(x) + 1)..k : u[i] \in Nat
    <3> TAKE i \in (Len(x) + 1)..k
    <3>1. i \in 1..Len(u)
      BY <1>1, <1>2
    <3> QED BY <3>1, <1>2, ElementOfSeq
  <2>2. /\ w \in Seq(Nat)
        /\ Len(w) = IF Len(x) + 1 <= k THEN k - (Len(x) + 1) + 1 ELSE 0
        /\ \A i \in 1..(k - (Len(x) + 1) + 1) : w[i] = u[(Len(x) + 1) + i - 1]
    BY <2>1, <1>1, SubSeqProperties
  <2>3. Len(w) = Len(v)
    BY <2>2, <1>1, <1>3
  <2>4. \A i \in 1..Len(w) : w[i] = v[i]
    <3> TAKE i \in 1..Len(w)
    <3>1. /\ i \in 1..(k - (Len(x) + 1) + 1) /\ i \in 1..(k - Len(x))
          /\ (Len(x) + 1) + i - 1 = Len(x) + i /\ Len(x) + i \in 1..k
          /\ ~ (Len(x) + i <= Len(x)) /\ (Len(x) + i) - Len(x) = i
      BY <2>3, <1>1, <1>3
    <3> HIDE DEF w
    <3> QED BY <3>1, <2>2, <1>2, <1>3
  <2> HIDE DEF w
  <2>5. w = v
    BY <2>2, <2>3, <2>4, <1>3, SeqEqual
  <2> QED BY <2>5, <1>2 DEF w
<1>6. [i \in 1..Len(x) |-> IF i <= Len(u) THEN u[i] ELSE NUL] = x
  <2>1. \A i \in 1..Len(x) : (IF i <= Len(u) THEN u[i] ELSE NUL) = x[i]
    BY <1>1, <1>2
  <2>2. x = [i \in 1..Len(x) |-> x[i]]
    OBVIOUS
  <2> QED BY <2>1, <2>2
<1>7. Take([rest |-> u, ok |-> TRUE, got |-> g], Len(x)) = [rest |-> v, ok |-> TRUE, got |-> Append(g, x)]
  BY <1>4, <1>5, <1>6 DEF Take
<1> QED BY <1>7 DEF At, u, v

\* A string that was cut is filled up, and nothing is left.
LEMMA TakeCut ==
  ASSUME NEW x \in Seq(Nat), NEW y \in Seq(Nat), NEW k \in 1..Len(x), NEW g
  PROVE  Take(At(x \o y, k, g), Len(x))
           = [rest |-> <<>>, ok |-> TRUE, got |-> Append(g, Filled(x, k))]
<1> DEFINE u == SubSeq(x \o y, 1, k)
<1>1. Len(x) \in Nat /\ Len(y) \in Nat /\ k \in 0..(Len(x) + Len(y))
  OBVIOUS
<1>2. /\ u \in Seq(Nat) /\ Len(u) = k
      /\ \A i \in 1..k : u[i] = IF i <= Len(x) THEN x[i] ELSE y[i - Len(x)]
  BY <1>1, Cells
<1> HIDE DEF u
<1>3. u # <<>>
  BY <1>1, <1>2
<1>4. SubSeq(u, Len(x) + 1, Len(u)) = <<>>
  BY <1>1, <1>2, SubSeqEmpty
<1>5. [i \in 1..Len(x) |-> IF i <= Len(u) THEN u[i] ELSE NUL] = Filled(x, k)
  <2>1. \A i \in 1..Len(x) : (IF i <= Len(u) THEN u[i] ELSE NUL) = IF i <= k THEN x[i] ELSE NUL
    BY <1>1, <1>2
  <2> QED BY <2>1 DEF Filled
<1>6. Take([rest |-> u, ok |-> TRUE, got |-> g], Len(x))
        = [rest |-> <<>>, ok |-> TRUE, got |-> Append(g, Filled(x, k))]
  BY <1>3, <1>4, <1>5 DEF Take
<1> QED BY <1>6 DEF At, u

\* A reader with an error, and one that has one or nothing before it.
Failed(r) == \E a, g : r = [rest |-> a, ok |-> FALSE, got |-> g]
Spent(r) == Failed(r) \/ \E g : r = [rest |-> <<>>, ok |-> TRUE, got |-> g]

\* Nothing can be read at the end of the data or after an error.
LEMMA SpentFails ==
  ASSUME NEW r, Spent(r), NEW n
  PROVE  Failed(TakeInt(r)) /\ Failed(Take(r, n)) /\ Failed(TakeStr(r))
<1>1. \A q : Spent(q) => Failed(TakeInt(q))
  <2> SUFFICES ASSUME NEW q, Spent(q) PROVE Failed(TakeInt(q))
    OBVIOUS
  <2>1. CASE Failed(q)
    <3>1. PICK a, g : q = [rest |-> a, ok |-> FALSE, got |-> g]
      BY <2>1 DEF Failed
    <3>2. TakeInt(q) = [rest |-> a, ok |-> FALSE, got |-> Append(g, 0)]
      BY <3>1 DEF TakeInt
    <3> QED BY <3>2 DEF Failed
  <2>2. CASE ~ Failed(q)
    <3>1. PICK g : q = [rest |-> <<>>, ok |-> TRUE, got |-> g]
      BY <2>2 DEF Spent
    <3>2. TakeInt(q) = [rest |-> <<>>, ok |-> FALSE, got |-> Append(g, 0)]
      BY <3>1 DEF TakeInt
    <3> QED BY <3>2 DEF Failed
  <2> QED BY <2>1, <2>2
<1>2. \A q, m : Spent(q) => Failed(Take(q, m))
  <2> SUFFICES ASSUME NEW q, NEW m, Spent(q) PROVE Failed(Take(q, m))
    OBVIOUS
  <2>1. CASE Failed(q)
    <3>1. PICK a, g : q = [rest |-> a, ok |-> FALSE, got |-> g]
      BY <2>1 DEF Failed
    <3>2. Take(q, m) = [rest |-> a, ok |-> FALSE, got |-> Append(g, <<>>)]
      BY <3>1 DEF Take
    <3> QED BY <3>2 DEF Failed
  <2>2. CASE ~ Failed(q)
    <3>1. PICK g : q = [rest |-> <<>>, ok |-> TRUE, got |-> g]
      BY <2>2 DEF Spent
    <3>2. Take(q, m) = [rest |-> <<>>, ok |-> FALSE, got |-> Append(g, <<>>)]
      BY <3>1 DEF Take
    <3> QED BY <3>2 DEF Failed
  <2> QED BY <2>1, <2>2
<1>3. Failed(TakeStr(r))
  <2>1. Failed(Take(TakeInt(r), Last(TakeInt(r).got)))
    BY <1>1, <1>2 DEF Spent
  <2>2. PICK a, g : Take(TakeInt(r), Last(TakeInt(r).got)) = [rest |-> a, ok |-> FALSE, got |-> g]
    BY <2>1 DEF Failed
  <2>3. TakeStr(r) = [[rest |-> a, ok |-> FALSE, got |-> g] EXCEPT !.got = Append(r.got, Last(@))]
    BY <2>2 DEF TakeStr
  <2>4. TakeStr(r) = [rest |-> a, ok |-> FALSE, got |-> Append(r.got, Last(g))]
    BY <2>3
  <2> QED BY <2>4 DEF Failed
<1> QED BY <1>1, <1>2, <1>3

\* At no cells there is nothing to read.
LEMMA AtEnd ==
  ASSUME NEW s, NEW g
  PROVE  At(s, 0, g) = [rest |-> <<>>, ok |-> TRUE, got |-> g] /\ Spent(At(s, 0, g))
<1>1. SubSeq(s, 1, 0) = <<>>
  BY SubSeqEmpty
<1> QED BY <1>1 DEF At, Spent

\* A string and its length: whole, cut, or not there.
LEMMA TakeStrAt ==
  ASSUME NEW x \in Seq(Nat), x # <<>>, NEW y \in Seq(Nat), NEW k \in 0..(1 + Len(x) + Len(y)),
         NEW g, IsSeq(g)
  PROVE  /\ k >= 1 + Len(x) =>
              TakeStr(At(PutStr(x) \o y, k, g)) = At(y, k - 1 - Len(x), Append(g, x))
         /\ k \in 2..(1 + Len(x)) =>
              TakeStr(At(PutStr(x) \o y, k, g))
                = [rest |-> <<>>, ok |-> TRUE, got |-> Append(g, Filled(x, k - 1))]
         /\ k <= 1 => Failed(TakeStr(At(PutStr(x) \o y, k, g)))
<1> DEFINE r == At(PutStr(x) \o y, k, g)
<1>1. Len(x) \in Nat \ {0} /\ Len(y) \in Nat /\ x \o y \in Seq(Nat)
      /\ Len(x \o y) = Len(x) + Len(y)
  BY ConcatProperties
<1>2. PutStr(x) \o y = <<Len(x)>> \o (x \o y)
  <2>1. <<Len(x)>> \in Seq(Nat)
    BY <1>1
  <2>2. (<<Len(x)>> \o x) \o y = <<Len(x)>> \o (x \o y)
    BY <2>1, Associative, Zenon
  <2> QED BY <2>2 DEF PutStr
<1>3. CASE k = 0
  <2>1. Failed(TakeStr(r))
    BY <1>3, AtEnd, SpentFails
  <2> QED BY <2>1, <1>1, <1>3
<1>4. CASE k > 0
  <2> DEFINE z == x \o y
             h == Append(g, Len(x))
             t == Take(At(z, k - 1, h), Len(x))
  <2>1. TakeInt(r) = At(z, k - 1, h)
    <3>1. r = At(<<Len(x)>> \o z, k, g)
      BY <1>2
    <3>2. z \in Seq(Nat) /\ Len(x) \in Nat /\ k \in 1..(Len(z) + 1)
      BY <1>1, <1>4
    <3> HIDE DEF z, r
    <3> QED BY <3>1, <3>2, TakeIntAt
  <2>2. r.got = g /\ At(z, k - 1, h).got = h
    BY DEF At
  <2>3. Last(h) = Len(x) /\ IsSeq(h)
    BY AppendIsSeq
  <2>4. TakeStr(r) = [t EXCEPT !.got = Append(g, Last(@))]
    <3> HIDE DEF r, z, h
    <3> QED BY <2>1, <2>2, <2>3 DEF TakeStr
  <2>5. CASE k = 1
    <3>1. Spent(At(z, k - 1, h))
      BY <2>5, AtEnd
    <3>2. Spent(TakeInt(r))
      BY <3>1, <2>1
    <3>3. Failed(t)
      BY <3>1, SpentFails
    <3>4. PICK a, b : t = [rest |-> a, ok |-> FALSE, got |-> b]
      BY <3>3 DEF Failed
    <3>5. TakeStr(r) = [[rest |-> a, ok |-> FALSE, got |-> b] EXCEPT !.got = Append(g, Last(@))]
      <4> HIDE DEF t, r
      <4> QED BY <2>4, <3>4
    <3>6. TakeStr(r) = [rest |-> a, ok |-> FALSE, got |-> Append(g, Last(b))]
      <4> HIDE DEF t, r
      <4> QED BY <3>5
    <3>7. Failed(TakeStr(r))
      <4> HIDE DEF t, r
      <4> QED BY <3>6 DEF Failed
    <3> QED BY <2>5, <3>7, <1>1
  <2>6. CASE k \in 2..(1 + Len(x))  /\ k # 1 + Len(x)
    <3>1. k - 1 \in 1..Len(x)
      BY <2>6, <1>1
    <3>2. t = [rest |-> <<>>, ok |-> TRUE, got |-> Append(h, Filled(x, k - 1))]
      BY <3>1, TakeCut
    <3>3. Last(Append(h, Filled(x, k - 1))) = Filled(x, k - 1)
      BY <2>3, AppendIsSeq
    <3>4. TakeStr(r) = [[rest |-> <<>>, ok |-> TRUE, got |-> Append(h, Filled(x, k - 1))]
                          EXCEPT !.got = Append(g, Last(@))]
      <4> HIDE DEF t, r, h, z
      <4> QED BY <2>4, <3>2
    <3>5. TakeStr(r) = [rest |-> <<>>, ok |-> TRUE, got |-> Append(g, Filled(x, k - 1))]
      <4> HIDE DEF t, r, h, z
      <4> QED BY <3>4, <3>3
    <3> QED BY <2>6, <3>5, <1>1
  <2>7. CASE k >= 1 + Len(x)
    <3>1. k - 1 \in Len(x)..(Len(x) + Len(y)) /\ k - 1 > 0
      BY <2>7, <1>1
    <3>2. t = At(y, (k - 1) - Len(x), Append(h, x))
      BY <3>1, TakeAt
    <3>3. Last(Append(h, x)) = x
      BY <2>3, AppendIsSeq
    <3>4. TakeStr(r) = At(y, (k - 1) - Len(x), Append(g, x))
      <4>1. TakeStr(r) = [At(y, (k - 1) - Len(x), Append(h, x)) EXCEPT !.got = Append(g, Last(@))]
        <5> HIDE DEF t, r, h, z
        <5> QED BY <2>4, <3>2
      <4> HIDE DEF t, r, h, z
      <4> QED BY <4>1, <3>3 DEF At
    <3>5. (k - 1) - Len(x) = k - 1 - Len(x)
      OBVIOUS
    <3>6. k = 1 + Len(x) => /\ At(y, k - 1 - Len(x), Append(g, x)) = [rest |-> <<>>, ok |-> TRUE, got |-> Append(g, x)]
                            /\ Filled(x, k - 1) = x
      <4> SUFFICES ASSUME k = 1 + Len(x)
                   PROVE  /\ At(y, k - 1 - Len(x), Append(g, x)) = [rest |-> <<>>, ok |-> TRUE, got |-> Append(g, x)]
                          /\ Filled(x, k - 1) = x
        OBVIOUS
      <4>1. k - 1 - Len(x) = 0 /\ k - 1 = Len(x)
        BY <1>1
      <4>2. Filled(x, Len(x)) = x
        BY <1>1 DEF Filled
      <4> QED BY <4>1, <4>2, AtEnd
    <3>7. ~ (k <= 1)
      BY <2>7, <1>1
    <3>8. k \in 2..(1 + Len(x)) => k = 1 + Len(x)
      BY <2>7, <1>1
    <3>9. TakeStr(r) = At(y, k - 1 - Len(x), Append(g, x))
      <4> HIDE DEF t, r
      <4> QED BY <3>4, <3>5
    <3> HIDE DEF t
    <3> QED BY <3>6, <3>7, <3>8, <3>9, Zenon
  <2>8. k = 1 \/ (k \in 2..(1 + Len(x)) /\ k # 1 + Len(x)) \/ k >= 1 + Len(x)
    BY <1>1, <1>4
  <2> HIDE DEF t, h, z
  <2> QED BY <2>5, <2>6, <2>7, <2>8
<1> QED BY <1>3, <1>4

-----------------------------------------------------------------------------
(* Loops: what a recursive function computes.                              *)

\* The recursion of FlattenSeq.
FlattenRound(n, s) == LET f[i \in 1..n] == IF i = 1 THEN s[i] ELSE f[i - 1] \o s[i] IN f

\* Its rounds.
LEMMA FlattenRounds ==
  ASSUME NEW n \in Nat, NEW s
  PROVE  \A i \in 1..n :
           FlattenRound(n, s)[i] = IF i = 1 THEN s[i] ELSE FlattenRound(n, s)[i - 1] \o s[i]
<1> DEFINE Upto(k, f) == f = [i \in 1..k |-> IF i = 1 THEN s[i] ELSE f[i - 1] \o s[i]]
           P(k) == \E f : Upto(k, f)
           T == {k \in 0..n : P(k)}
<1>1. P(0)
  <2>1. Upto(0, <<>>)
    OBVIOUS
  <2> QED BY <2>1
<1>2. ASSUME NEW k \in 1..n, P(k - 1)
      PROVE  P(k)
  <2>1. PICK f : Upto(k - 1, f)
    BY <1>2
  <2> DEFINE h == [i \in 1..k |-> IF i = 1 THEN s[i] ELSE f[i - 1] \o s[i]]
  <2>2. \A i \in 1..k - 1 : f[i] = IF i = 1 THEN s[i] ELSE f[i - 1] \o s[i]
    BY <2>1
  <2>3. \A i \in 1..k : i # 1 => h[i - 1] = f[i - 1]
    <3> SUFFICES ASSUME NEW i \in 1..k, i # 1 PROVE h[i - 1] = f[i - 1]
      OBVIOUS
    <3>1. i - 1 \in 1..k - 1 /\ i - 1 \in 1..k
      OBVIOUS
    <3> QED BY <3>1, <2>2
  <2>4. Upto(k, h)
    BY <2>3
  <2> QED BY <2>4
<1> HIDE DEF P
<1>3. 0 \in T /\ \A k \in 1..n : k - 1 \in T => k \in T
  BY <1>1, <1>2
<1> HIDE DEF T
<1>4. \A k \in 0..n : k \in T
  BY <1>3, BoundedInduction, Zenon
<1>5. P(n)
  <2>1. n \in 0..n
    OBVIOUS
  <2> QED BY <1>4, <2>1 DEF T
<1> DEFINE g == CHOOSE f : Upto(n, f)
<1>6. Upto(n, g)
  BY <1>5 DEF P
<1> HIDE DEF g
<1>7. \A i \in 1..n : g[i] = IF i = 1 THEN s[i] ELSE g[i - 1] \o s[i]
  BY <1>6
<1> QED BY <1>7 DEF g, FlattenRound

\* The parts of a sequence put together from the back: w[i] is what follows the
\* first i of them.
Behind(w, s, n) ==
  /\ w[n] = <<>>
  /\ \A i \in 0..n : w[i] \in Seq(Nat)
  /\ \A i \in 1..n : w[i - 1] = s[i] \o w[i]

\* Any parts can be.
LEMMA PartsBehind ==
  ASSUME NEW n \in Nat, NEW s, \A i \in 1..n : s[i] \in Seq(Nat)
  PROVE  \E w : Behind(w, s, n)
<1> DEFINE Back(k, w) == /\ w[n] = <<>>
                         /\ \A i \in (n - k)..n : w[i] \in Seq(Nat)
                         /\ \A i \in (n - k + 1)..n : w[i - 1] = s[i] \o w[i]
           P(k) == \E w : Back(k, w)
           T == {k \in 0..n : P(k)}
<1>1. P(0)
  <2> DEFINE v == [i \in n..n |-> <<>>]
  <2>1. n \in n..n /\ n - 0 = n /\ (\A i \in n..n : i = n) /\ \A i \in (n + 1)..n : FALSE
    OBVIOUS
  <2>2. v[n] = <<>> /\ <<>> \in Seq(Nat)
    OBVIOUS
  <2> HIDE DEF v
  <2>3. Back(0, v)
    BY <2>1, <2>2
  <2> QED BY <2>3
<1>2. ASSUME NEW k \in 1..n, P(k - 1)
      PROVE  P(k)
  <2>1. PICK w : Back(k - 1, w)
    BY <1>2
  <2> DEFINE v == [i \in (n - k)..n |-> IF i = n - k THEN s[i + 1] \o w[i + 1] ELSE w[i]]
  <2>2. /\ n - k \in Nat /\ n - (k - 1) = n - k + 1 /\ n - k + 1 \in 1..n
        /\ n \in (n - k)..n /\ n # n - k
    OBVIOUS
  <2>3. /\ w[n] = <<>>
        /\ \A i \in (n - k + 1)..n : w[i] \in Seq(Nat)
        /\ \A i \in (n - k + 2)..n : w[i - 1] = s[i] \o w[i]
    <3>1. n - (k - 1) + 1 = n - k + 2
      OBVIOUS
    <3> QED BY <2>1, <2>2, <3>1
  <2>4. \A i \in (n - k)..n : v[i] = IF i = n - k THEN s[i + 1] \o w[i + 1] ELSE w[i]
    OBVIOUS
  <2> HIDE DEF v
  <2>5. v[n] = <<>>
    BY <2>2, <2>3, <2>4
  <2>6. \A i \in (n - k)..n : v[i] \in Seq(Nat)
    <3> SUFFICES ASSUME NEW i \in (n - k)..n PROVE v[i] \in Seq(Nat)
      OBVIOUS
    <3>1. CASE i = n - k
      <4>1. i + 1 \in (n - k + 1)..n /\ i + 1 \in 1..n
        BY <3>1
      <4>2. w[i + 1] \in Seq(Nat) /\ s[i + 1] \in Seq(Nat)
        BY <4>1, <2>3
      <4>3. s[i + 1] \o w[i + 1] \in Seq(Nat)
        BY <4>2, ConcatProperties
      <4> QED BY <3>1, <4>3, <2>4
    <3>2. CASE i # n - k
      <4>1. i \in (n - k + 1)..n
        BY <3>2
      <4> QED BY <3>2, <4>1, <2>3, <2>4
    <3> QED BY <3>1, <3>2
  <2>7. \A i \in (n - k + 1)..n : v[i - 1] = s[i] \o v[i]
    <3> SUFFICES ASSUME NEW i \in (n - k + 1)..n PROVE v[i - 1] = s[i] \o v[i]
      OBVIOUS
    <3>1. i - 1 \in (n - k)..n /\ i \in (n - k)..n /\ i # n - k /\ (i - 1) + 1 = i
      OBVIOUS
    <3>2. v[i] = w[i]
      BY <3>1, <2>4
    <3>3. v[i - 1] = IF i - 1 = n - k THEN s[(i - 1) + 1] \o w[(i - 1) + 1] ELSE w[i - 1]
      BY <3>1, <2>4
    <3>4. i - 1 # n - k => i \in (n - k + 2)..n
      OBVIOUS
    <3> QED BY <3>1, <3>2, <3>3, <3>4, <2>3
  <2> QED BY <2>5, <2>6, <2>7
<1> HIDE DEF P
<1>3. 0 \in T /\ \A k \in 1..n : k - 1 \in T => k \in T
  BY <1>1, <1>2
<1> HIDE DEF T
<1>4. \A k \in 0..n : k \in T
  BY <1>3, BoundedInduction, Zenon
<1>5. n \in 0..n
  OBVIOUS
<1>6. P(n)
  BY <1>4, <1>5 DEF T
<1>7. PICK w : Back(n, w)
  BY <1>6 DEF P
<1>8. n - n = 0 /\ n - n + 1 = 1
  OBVIOUS
<1>9. Behind(w, s, n)
  BY <1>7, <1>8 DEF Behind
<1> QED BY <1>9

\* The parts of a flattened sequence.
LEMMA FlattenParts ==
  ASSUME NEW n \in Nat, NEW s, s \in Seq(Seq(Nat)), Len(s) = n
  PROVE  \E w : Behind(w, s, n) /\ w[0] = FlattenSeq(s)
<1>1. \A i \in 1..n : s[i] \in Seq(Nat)
  BY ElementOfSeq
<1>2. PICK w : Behind(w, s, n)
  BY <1>1, PartsBehind, Zenon
<1>3. /\ w[n] = <<>>
      /\ \A i \in 0..n : w[i] \in Seq(Nat)
      /\ \A i \in 1..n : w[i - 1] = s[i] \o w[i]
  BY <1>2 DEF Behind
<1>4. CASE n = 0
  <2>1. s = <<>>
    BY <1>4, EmptySeq
  <2>2. FlattenSeq(s) = s
    BY <1>4 DEF FlattenSeq
  <2> QED BY <1>2, <1>3, <1>4, <2>1, <2>2
<1>5. CASE n # 0
  <2> DEFINE f == FlattenRound(n, s)
  <2>1. FlattenSeq(s) = f[n]
    BY <1>5 DEF FlattenSeq, FlattenRound
  <2>2. \A i \in 1..n : f[i] = IF i = 1 THEN s[i] ELSE f[i - 1] \o s[i]
    BY FlattenRounds
  <2> HIDE DEF f
  <2> DEFINE P(k) == k # 0 => f[k] \in Seq(Nat) /\ f[k] \o w[k] = w[0]
             T == {k \in 0..n : P(k)}
  <2>3. P(0)
    OBVIOUS
  <2>4. ASSUME NEW k \in 1..n, P(k - 1)
        PROVE  P(k)
    <3>1. s[k] \in Seq(Nat) /\ w[k] \in Seq(Nat) /\ w[k - 1] = s[k] \o w[k]
      BY <1>1, <1>3
    <3>2. f[k] \in Seq(Nat) /\ f[k] \o w[k] = w[0]
      <4>1. CASE k = 1
        <5>1. f[k] = s[k] /\ k - 1 = 0
          BY <4>1, <2>2
        <5> QED BY <5>1, <3>1
      <4>2. CASE k # 1
        <5>1. f[k - 1] \in Seq(Nat) /\ f[k - 1] \o w[k - 1] = w[0]
          <6>1. k - 1 # 0
            BY <4>2
          <6> QED BY <6>1, <2>4
        <5>2. f[k] = f[k - 1] \o s[k]
          BY <4>2, <2>2
        <5>3. f[k] \in Seq(Nat)
          BY <5>1, <5>2, <3>1, ConcatProperties
        <5>4. (f[k - 1] \o s[k]) \o w[k] = f[k - 1] \o (s[k] \o w[k])
          BY <5>1, <3>1, Associative, Zenon
        <5> QED BY <5>1, <5>2, <5>3, <5>4, <3>1
      <4> QED BY <4>1, <4>2
    <3> QED BY <3>2
  <2> HIDE DEF P
  <2>5. 0 \in T /\ \A k \in 1..n : k - 1 \in T => k \in T
    BY <2>3, <2>4
  <2> HIDE DEF T
  <2>6. \A k \in 0..n : k \in T
    BY <2>5, BoundedInduction, Zenon
  <2>7. f[n] \in Seq(Nat) /\ f[n] \o w[n] = w[0]
    <3>1. n \in 0..n
      OBVIOUS
    <3>2. P(n)
      BY <2>6, <3>1 DEF T
    <3> QED BY <1>5, <3>2 DEF P
  <2>8. f[n] \o <<>> = f[n]
    BY <2>7, ConcatEmptySeq
  <2>9. w[0] = FlattenSeq(s)
    BY <2>1, <2>7, <2>8, <1>3
  <2> QED BY <2>9, <1>2
<1> QED BY <1>4, <1>5

\* The loop over the peers of a list.
PeersRound(n, b) == LET round[i \in 0..n] == IF i = 0 THEN b ELSE GetPeer(round[i - 1]) IN round

\* Its rounds.
LEMMA PeerRounds ==
  ASSUME NEW n \in Nat, NEW b
  PROVE  /\ PeersRound(n, b)[0] = b
         /\ \A i \in 1..n : PeersRound(n, b)[i] = GetPeer(PeersRound(n, b)[i - 1])
<1> DEFINE Upto(k, f) == f = [i \in 0..k |-> IF i = 0 THEN b ELSE GetPeer(f[i - 1])]
           P(k) == \E f : Upto(k, f)
           T == {k \in 0..n : P(k)}
<1>1. P(0)
  <2>1. Upto(0, [i \in 0..0 |-> b])
    OBVIOUS
  <2> QED BY <2>1
<1>2. ASSUME NEW k \in 1..n, P(k - 1)
      PROVE  P(k)
  <2>1. PICK f : Upto(k - 1, f)
    BY <1>2
  <2> DEFINE h == [i \in 0..k |-> IF i = 0 THEN b ELSE GetPeer(f[i - 1])]
  <2>2. \A i \in 0..k - 1 : f[i] = IF i = 0 THEN b ELSE GetPeer(f[i - 1])
    BY <2>1
  <2>3. \A i \in 0..k : i # 0 => h[i - 1] = f[i - 1]
    <3> SUFFICES ASSUME NEW i \in 0..k, i # 0 PROVE h[i - 1] = f[i - 1]
      OBVIOUS
    <3>1. i - 1 \in 0..k - 1 /\ i - 1 \in 0..k
      OBVIOUS
    <3> QED BY <3>1, <2>2
  <2>4. Upto(k, h)
    BY <2>3
  <2> QED BY <2>4
<1> HIDE DEF P
<1>3. 0 \in T /\ \A k \in 1..n : k - 1 \in T => k \in T
  BY <1>1, <1>2
<1> HIDE DEF T
<1>4. \A k \in 0..n : k \in T
  BY <1>3, BoundedInduction, Zenon
<1>5. P(n)
  <2>1. n \in 0..n
    OBVIOUS
  <2> QED BY <1>4, <2>1 DEF T
<1> DEFINE g == CHOOSE f : Upto(n, f)
<1>6. Upto(n, g)
  BY <1>5 DEF P
<1> HIDE DEF g
<1>7. g[0] = b /\ \A i \in 1..n : g[i] = GetPeer(g[i - 1])
  BY <1>6
<1>8. PeersRound(n, b) = g
  BY DEF PeersRound, g
<1> QED BY <1>7, <1>8

\* The loop over the entries of a clock.
ClockRound(n, b) ==
  LET round[i \in 0..n] == IF i = 0 THEN b ELSE Take(TakeInt(round[i - 1]), IdLen) IN round

\* Its rounds.
LEMMA ClockRounds ==
  ASSUME NEW n \in Nat, NEW b
  PROVE  /\ ClockRound(n, b)[0] = b
         /\ \A i \in 1..n : ClockRound(n, b)[i] = Take(TakeInt(ClockRound(n, b)[i - 1]), IdLen)
<1> DEFINE Upto(k, f) == f = [i \in 0..k |-> IF i = 0 THEN b ELSE Take(TakeInt(f[i - 1]), IdLen)]
           P(k) == \E f : Upto(k, f)
           T == {k \in 0..n : P(k)}
<1>1. P(0)
  <2>1. Upto(0, [i \in 0..0 |-> b])
    OBVIOUS
  <2> QED BY <2>1
<1>2. ASSUME NEW k \in 1..n, P(k - 1)
      PROVE  P(k)
  <2>1. PICK f : Upto(k - 1, f)
    BY <1>2
  <2> DEFINE h == [i \in 0..k |-> IF i = 0 THEN b ELSE Take(TakeInt(f[i - 1]), IdLen)]
  <2>2. \A i \in 0..k - 1 : f[i] = IF i = 0 THEN b ELSE Take(TakeInt(f[i - 1]), IdLen)
    BY <2>1
  <2>3. \A i \in 0..k : i # 0 => h[i - 1] = f[i - 1]
    <3> SUFFICES ASSUME NEW i \in 0..k, i # 0 PROVE h[i - 1] = f[i - 1]
      OBVIOUS
    <3>1. i - 1 \in 0..k - 1 /\ i - 1 \in 0..k
      OBVIOUS
    <3> QED BY <3>1, <2>2
  <2>4. Upto(k, h)
    BY <2>3
  <2> QED BY <2>4
<1> HIDE DEF P
<1>3. 0 \in T /\ \A k \in 1..n : k - 1 \in T => k \in T
  BY <1>1, <1>2
<1> HIDE DEF T
<1>4. \A k \in 0..n : k \in T
  BY <1>3, BoundedInduction, Zenon
<1>5. P(n)
  <2>1. n \in 0..n
    OBVIOUS
  <2> QED BY <1>4, <2>1 DEF T
<1> DEFINE g == CHOOSE f : Upto(n, f)
<1>6. Upto(n, g)
  BY <1>5 DEF P
<1> HIDE DEF g
<1>7. g[0] = b /\ \A i \in 1..n : g[i] = Take(TakeInt(g[i - 1]), IdLen)
  BY <1>6
<1>8. ClockRound(n, b) = g
  BY DEF ClockRound, g
<1> QED BY <1>7, <1>8

-----------------------------------------------------------------------------
(* Reading a message that was cut and filled up.                           *)

\* A reader that has y before it, true up to cell k and NUL after it.
Padded(r, y, k, g) ==
  \E a \in Seq(Nat) :
    /\ r = [rest |-> a, ok |-> TRUE, got |-> g]
    /\ Len(a) >= Len(y)
    /\ \A i \in 1..Len(a) : a[i] = IF i <= k /\ i <= Len(y) THEN y[i] ELSE NUL

\* An integer is read, as it was or as 0.
LEMMA PaddedInt ==
  ASSUME NEW r, NEW g, NEW x \in Nat, NEW z \in Seq(Nat), NEW k \in Int,
         Padded(r, <<x>> \o z, k, g)
  PROVE  Padded(TakeInt(r), z, k - 1, Append(g, IF k >= 1 THEN x ELSE 0))
<1> DEFINE y == <<x>> \o z
<1>1. /\ y \in Seq(Nat) /\ Len(y) = 1 + Len(z) /\ y[1] = x /\ Len(z) \in Nat
      /\ \A i \in 1..Len(z) : y[i + 1] = z[i]
  <2>1. <<x>> \in Seq(Nat) /\ Len(<<x>>) = 1 /\ <<x>>[1] = x /\ Len(z) \in Nat
    OBVIOUS
  <2>2. /\ y \in Seq(Nat) /\ Len(y) = 1 + Len(z)
        /\ \A i \in 1..(1 + Len(z)) : y[i] = IF i <= 1 THEN <<x>>[i] ELSE z[i - 1]
    BY <2>1, ConcatProperties
  <2>3. y[1] = x
    BY <2>1, <2>2
  <2>4. \A i \in 1..Len(z) : y[i + 1] = z[i]
    <3> TAKE i \in 1..Len(z)
    <3>1. i + 1 \in 1..(1 + Len(z)) /\ ~ (i + 1 <= 1) /\ (i + 1) - 1 = i
      BY <2>1
    <3> HIDE DEF y
    <3> QED BY <3>1, <2>2
  <2> QED BY <2>1, <2>2, <2>3, <2>4
<1> HIDE DEF y
<1>2. PICK a \in Seq(Nat) :
        /\ r = [rest |-> a, ok |-> TRUE, got |-> g]
        /\ Len(a) >= Len(y)
        /\ \A i \in 1..Len(a) : a[i] = IF i <= k /\ i <= Len(y) THEN y[i] ELSE NUL
  BY DEF Padded, y
<1>3. Len(a) \in Nat /\ Len(a) >= 1 + Len(z) /\ a # <<>>
  BY <1>1, <1>2
<1>4. a[1] = (IF k >= 1 THEN x ELSE 0) /\ Head(a) = a[1]
  <2>1. 1 \in 1..Len(a) /\ 1 <= Len(y)
    BY <1>1, <1>3
  <2> QED BY <2>1, <1>1, <1>2, <1>3 DEF NUL
<1> DEFINE b == Tail(a)
<1>5. b \in Seq(Nat) /\ Len(b) = Len(a) - 1 /\ \A i \in 1..Len(b) : b[i] = a[i + 1]
  BY <1>3, HeadTailProperties
<1>6. TakeInt(r) = [rest |-> b, ok |-> TRUE, got |-> Append(g, IF k >= 1 THEN x ELSE 0)]
  BY <1>2, <1>3, <1>4 DEF TakeInt
<1> HIDE DEF b
<1>7. \A i \in 1..Len(b) : b[i] = IF i <= k - 1 /\ i <= Len(z) THEN z[i] ELSE NUL
  <2> TAKE i \in 1..Len(b)
  <2>1. i + 1 \in 1..Len(a) /\ (i + 1 <= k <=> i <= k - 1) /\ (i + 1 <= 1 + Len(z) <=> i <= Len(z))
    BY <1>1, <1>3, <1>5
  <2>2. i <= Len(z) => y[i + 1] = z[i]
    BY <1>1
  <2> QED BY <2>1, <2>2, <1>1, <1>2, <1>5
<1>8. Len(b) >= Len(z)
  BY <1>1, <1>3, <1>5
<1> QED BY <1>5, <1>6, <1>7, <1>8 DEF Padded

\* Before nothing, or before nothing but NULs, anything shorter can be.
LEMMA PaddedLess ==
  ASSUME NEW r, NEW g, NEW x \in Seq(Nat), NEW z \in Seq(Nat), NEW k \in Int, k <= 0,
         Padded(r, x \o z, k, g), NEW j \in Int, j <= 0
  PROVE  Padded(r, z, j, g)
<1>1. Len(x) \in Nat /\ Len(z) \in Nat /\ Len(x \o z) = Len(x) + Len(z)
  BY ConcatProperties
<1>2. PICK a \in Seq(Nat) :
        /\ r = [rest |-> a, ok |-> TRUE, got |-> g]
        /\ Len(a) >= Len(x \o z)
        /\ \A i \in 1..Len(a) : a[i] = IF i <= k /\ i <= Len(x \o z) THEN (x \o z)[i] ELSE NUL
  BY DEF Padded
<1>3. Len(a) \in Nat /\ Len(a) >= Len(z)
  BY <1>1, <1>2
<1>4. \A i \in 1..Len(a) : a[i] = IF i <= j /\ i <= Len(z) THEN z[i] ELSE NUL
  <2> TAKE i \in 1..Len(a)
  <2>1. ~ (i <= k) /\ ~ (i <= j)
    BY <1>3
  <2> QED BY <2>1, <1>2
<1> QED BY <1>2, <1>3, <1>4 DEF Padded

\* A string of known length is read whole, true up to cell k.
LEMMA PaddedTake ==
  ASSUME NEW r, NEW g, NEW x \in Seq(Nat), x # <<>>, NEW z \in Seq(Nat), NEW k \in Int,
         Padded(r, x \o z, k, g)
  PROVE  Padded(Take(r, Len(x)), z, k - Len(x), Append(g, Filled(x, k)))
<1> DEFINE y == x \o z
<1>1. /\ y \in Seq(Nat) /\ Len(y) = Len(x) + Len(z) /\ Len(x) \in Nat \ {0} /\ Len(z) \in Nat
      /\ \A i \in 1..(Len(x) + Len(z)) : y[i] = IF i <= Len(x) THEN x[i] ELSE z[i - Len(x)]
  BY ConcatProperties
<1> HIDE DEF y
<1>2. Len(x) \in Nat \ {0} /\ Len(z) \in Nat /\ Len(y) = Len(x) + Len(z)
  BY <1>1
<1>3. PICK a \in Seq(Nat) :
        /\ r = [rest |-> a, ok |-> TRUE, got |-> g]
        /\ Len(a) >= Len(y)
        /\ \A i \in 1..Len(a) : a[i] = IF i <= k /\ i <= Len(y) THEN y[i] ELSE NUL
  BY DEF Padded, y
<1>4. Len(a) \in Nat /\ Len(a) >= Len(x) + Len(z)
  BY <1>2, <1>3
<1>5. a # <<>>
  BY <1>2, <1>4
<1>6. [i \in 1..Len(x) |-> IF i <= Len(a) THEN a[i] ELSE NUL] = Filled(x, k)
  <2>1. \A i \in 1..Len(x) : (IF i <= Len(a) THEN a[i] ELSE NUL) = IF i <= k THEN x[i] ELSE NUL
    <3> TAKE i \in 1..Len(x)
    <3>1. i \in 1..Len(a) /\ i <= Len(y) /\ i \in 1..(Len(x) + Len(z)) /\ i <= Len(x) /\ i <= Len(a)
      BY <1>2, <1>4
    <3> QED BY <3>1, <1>1, <1>3
  <2> QED BY <2>1 DEF Filled
<1> DEFINE b == SubSeq(a, Len(x) + 1, Len(a))
<1>7. b \in Seq(Nat) /\ Len(b) = Len(a) - Len(x) /\ \A i \in 1..Len(b) : b[i] = a[Len(x) + i]
  <2>1. \A i \in (Len(x) + 1)..Len(a) : a[i] \in Nat
    <3> TAKE i \in (Len(x) + 1)..Len(a)
    <3>1. i \in 1..Len(a)
      BY <1>2, <1>4
    <3> QED BY <3>1, ElementOfSeq
  <2>2. /\ b \in Seq(Nat)
        /\ Len(b) = IF Len(x) + 1 <= Len(a) THEN Len(a) - (Len(x) + 1) + 1 ELSE 0
        /\ \A i \in 1..(Len(a) - (Len(x) + 1) + 1) : b[i] = a[(Len(x) + 1) + i - 1]
    <3>1. Len(x) + 1 \in Int /\ Len(a) \in Int /\ Len(x) + 1 \in Nat
      BY <1>2, <1>4
    <3> DEFINE m == Len(x) + 1
               n == Len(a)
    <3>2. m \in Int /\ n \in Int /\ \A i \in m..n : a[i] \in Nat
      BY <2>1, <3>1
    <3> HIDE DEF m, n
    <3>3. /\ SubSeq(a, m, n) \in Seq(Nat)
          /\ Len(SubSeq(a, m, n)) = IF m <= n THEN n - m + 1 ELSE 0
          /\ \A i \in 1..(n - m + 1) : SubSeq(a, m, n)[i] = a[m + i - 1]
      BY <3>2, SubSeqProperties
    <3> QED BY <3>3 DEF m, n
  <2> HIDE DEF b
  <2>3. Len(b) = Len(a) - Len(x)
    BY <2>2, <1>2, <1>4
  <2>4. \A i \in 1..Len(b) : b[i] = a[Len(x) + i]
    <3> TAKE i \in 1..Len(b)
    <3>1. i \in 1..(Len(a) - (Len(x) + 1) + 1) /\ (Len(x) + 1) + i - 1 = Len(x) + i
      BY <2>3, <1>2, <1>4
    <3> QED BY <3>1, <2>2
  <2> QED BY <2>2, <2>3, <2>4
<1>8. Take(r, Len(x)) = [rest |-> b, ok |-> TRUE, got |-> Append(g, Filled(x, k))]
  BY <1>3, <1>5, <1>6 DEF Take
<1> HIDE DEF b
<1>9. \A i \in 1..Len(b) : b[i] = IF i <= k - Len(x) /\ i <= Len(z) THEN z[i] ELSE NUL
  <2> TAKE i \in 1..Len(b)
  <2>1. /\ Len(x) + i \in 1..Len(a)
        /\ (Len(x) + i <= k <=> i <= k - Len(x))
        /\ (Len(x) + i <= Len(y) <=> i <= Len(z))
        /\ ~ (Len(x) + i <= Len(x)) /\ (Len(x) + i) - Len(x) = i
        /\ (i <= Len(z) => Len(x) + i \in 1..(Len(x) + Len(z)))
    BY <1>2, <1>4, <1>7, SMTT(30)
  <2>2. i <= Len(z) => y[Len(x) + i] = z[i]
    BY <2>1, <1>1
  <2> QED BY <2>1, <2>2, <1>3, <1>7
<1>10. Len(b) >= Len(z)
  BY <1>2, <1>4, <1>7
<1> QED BY <1>7, <1>8, <1>9, <1>10 DEF Padded

\* No cells are read from what is not empty.
LEMMA PaddedTakeNone ==
  ASSUME NEW r, NEW g, NEW z \in Seq(Nat), z # <<>>, NEW k \in Int, Padded(r, z, k, g)
  PROVE  Padded(Take(r, 0), z, k, Append(g, <<>>))
<1>1. PICK a \in Seq(Nat) :
        /\ r = [rest |-> a, ok |-> TRUE, got |-> g]
        /\ Len(a) >= Len(z)
        /\ \A i \in 1..Len(a) : a[i] = IF i <= k /\ i <= Len(z) THEN z[i] ELSE NUL
  BY DEF Padded
<1>2. Len(z) \in Nat \ {0} /\ Len(a) \in Nat
  OBVIOUS
<1>3. a # <<>>
  BY <1>1, <1>2
<1>4. SubSeq(a, 0 + 1, Len(a)) = a
  <2>1. \A i \in 1..Len(a) : a[i] \in Nat
    BY ElementOfSeq
  <2> DEFINE b == SubSeq(a, 1, Len(a))
  <2>2. b \in Seq(Nat) /\ Len(b) = (IF 1 <= Len(a) THEN Len(a) - 1 + 1 ELSE 0)
        /\ \A i \in 1..(Len(a) - 1 + 1) : b[i] = a[1 + i - 1]
    BY <2>1, <1>2, SubSeqProperties
  <2> HIDE DEF b
  <2>3. Len(b) = Len(a)
    BY <2>2, <1>2
  <2>4. \A i \in 1..Len(b) : b[i] = a[i]
    <3> TAKE i \in 1..Len(b)
    <3>1. i \in 1..(Len(a) - 1 + 1) /\ 1 + i - 1 = i
      BY <2>3, <1>2
    <3> QED BY <3>1, <2>2
  <2>5. b = a
    BY <2>2, <2>3, <2>4, SeqEqual
  <2> QED BY <2>5 DEF b
<1>5. [i \in 1..0 |-> IF i <= Len(a) THEN a[i] ELSE NUL] = <<>>
  OBVIOUS
<1>6. Take(r, 0) = [rest |-> a, ok |-> TRUE, got |-> Append(g, <<>>)]
  BY <1>1, <1>3, <1>4, <1>5 DEF Take
<1> QED BY <1>1, <1>6 DEF Padded

\* A string is read true up to a cell, or is empty because its length was lost.
LEMMA PaddedStr ==
  ASSUME NEW r, NEW g, IsSeq(g), NEW x \in Seq(Nat), x # <<>>, NEW z \in Seq(Nat), NEW k \in Int,
         Padded(r, PutStr(x) \o z, k, g)
  PROVE  Padded(TakeStr(r), z, k - 1 - Len(x), Append(g, IF k >= 1 THEN Filled(x, k - 1) ELSE <<>>))
<1> DEFINE v == IF k >= 1 THEN Len(x) ELSE 0
           h == Append(g, v)
           s == IF k >= 1 THEN Filled(x, k - 1) ELSE <<>>
           l == TakeInt(r)
<1>1. Len(x) \in Nat \ {0} /\ Len(z) \in Nat /\ x \o z \in Seq(Nat)
      /\ Len(x \o z) = Len(x) + Len(z)
  BY ConcatProperties
<1>2. PutStr(x) \o z = <<Len(x)>> \o (x \o z)
  <2>1. <<Len(x)>> \in Seq(Nat)
    BY <1>1
  <2> QED BY <2>1, Associative, Zenon DEF PutStr
<1>3. Padded(l, x \o z, k - 1, h)
  <2>1. Padded(r, <<Len(x)>> \o (x \o z), k, g)
    BY <1>2
  <2> QED BY <2>1, <1>1, PaddedInt
<1>4. r.got = g
  BY DEF Padded
<1>5. Last(h) = v /\ IsSeq(h)
  BY AppendIsSeq
<1>6. l.got = h
  <2> HIDE DEF l, h
  <2> QED BY <1>3 DEF Padded
<1>7. TakeStr(r) = [Take(l, v) EXCEPT !.got = Append(g, Last(@))]
  <2> HIDE DEF h, v
  <2> QED BY <1>4, <1>5, <1>6 DEF TakeStr
<1> HIDE DEF l
<1>8. Padded(Take(l, v), z, k - 1 - Len(x), Append(h, s))
  <2>1. CASE k >= 1
    <3>1. v = Len(x) /\ s = Filled(x, k - 1)
      BY <2>1
    <3>2. Padded(Take(l, Len(x)), z, (k - 1) - Len(x), Append(h, Filled(x, k - 1)))
      <4> HIDE DEF h
      <4> QED BY <1>3, PaddedTake
    <3> HIDE DEF h, s, v
    <3> QED BY <3>1, <3>2
  <2>2. CASE ~ (k >= 1)
    <3>1. v = 0 /\ s = <<>>
      BY <2>2
    <3>2. k - 1 \in Int /\ k - 1 <= 0 /\ k - 1 - Len(x) \in Int /\ k - 1 - Len(x) <= 0
      BY <2>2, <1>1
    <3> HIDE DEF h, s, v
    <3>3. x \o z # <<>>
      BY <1>1
    <3>4. Padded(Take(l, 0), x \o z, k - 1, Append(h, <<>>))
      BY <1>1, <1>3, <3>2, <3>3, PaddedTakeNone
    <3>5. Padded(Take(l, 0), z, k - 1 - Len(x), Append(h, <<>>))
      BY <3>2, <3>4, PaddedLess
    <3> QED BY <3>1, <3>5
  <2> QED BY <2>1, <2>2
<1>9. Last(Append(h, s)) = s
  BY <1>5, AppendIsSeq
<1> HIDE DEF h, s, v
<1>10. PICK a \in Seq(Nat) :
        /\ Take(l, v) = [rest |-> a, ok |-> TRUE, got |-> Append(h, s)]
        /\ Len(a) >= Len(z)
        /\ \A i \in 1..Len(a) : a[i] = IF i <= k - 1 - Len(x) /\ i <= Len(z) THEN z[i] ELSE NUL
  BY <1>8 DEF Padded
<1>11. TakeStr(r) = [[rest |-> a, ok |-> TRUE, got |-> Append(h, s)] EXCEPT !.got = Append(g, Last(@))]
  BY <1>7, <1>10
<1>12. TakeStr(r) = [rest |-> a, ok |-> TRUE, got |-> Append(g, s)]
  BY <1>9, <1>11
<1>13. Padded(TakeStr(r), z, k - 1 - Len(x), Append(g, s))
  BY <1>10, <1>12 DEF Padded
<1> QED BY <1>13 DEF s

\* A string of which everything arrived.
LEMMA FilledWhole ==
  ASSUME NEW x \in Seq(Nat), NEW k \in Int, k >= Len(x)
  PROVE  Filled(x, k) = x
<1>1. \A i \in 1..Len(x) : i <= k
  OBVIOUS
<1>2. x = [i \in 1..Len(x) |-> x[i]]
  OBVIOUS
<1> QED BY <1>1, <1>2 DEF Filled

\* An encoded string.
LEMMA PutStrType ==
  ASSUME NEW x \in Seq(Nat)
  PROVE  PutStr(x) \in Seq(Nat) /\ Len(PutStr(x)) = 1 + Len(x) /\ Len(x) \in Nat
<1>1. Len(x) \in Nat /\ <<Len(x)>> \in Seq(Nat) /\ Len(<<Len(x)>>) = 1
  OBVIOUS
<1> QED BY <1>1, ConcatProperties DEF PutStr

\* A peer as lists of them hold it.
IsPeer(q) ==
  /\ q = [id |-> q.id, ip |-> q.ip, clock |-> q.clock]
  /\ q.id \in Seq(Nat) /\ q.id # <<>> /\ q.ip \in Seq(Nat) /\ q.ip # <<>> /\ q.clock \in Nat

\* An encoded peer.
LEMMA PutPeerType ==
  ASSUME NEW q, IsPeer(q)
  PROVE  /\ PutPeer(q) \in Seq(Nat)
         /\ Len(PutPeer(q)) = 3 + Len(q.id) + Len(q.ip)
         /\ Len(q.id) \in Nat /\ Len(q.ip) \in Nat
         /\ \A z \in Seq(Nat) :
              /\ PutPeer(q) \o z = PutStr(q.id) \o (PutStr(q.ip) \o (<<q.clock>> \o z))
              /\ PutStr(q.ip) \o (<<q.clock>> \o z) \in Seq(Nat)
              /\ <<q.clock>> \o z \in Seq(Nat)
<1> DEFINE a == PutStr(q.id)
           b == PutStr(q.ip)
           c == <<q.clock>>
<1>1. /\ a \in Seq(Nat) /\ Len(a) = 1 + Len(q.id) /\ Len(q.id) \in Nat
      /\ b \in Seq(Nat) /\ Len(b) = 1 + Len(q.ip) /\ Len(q.ip) \in Nat
      /\ c \in Seq(Nat) /\ Len(c) = 1
  BY PutStrType DEF IsPeer
<1>2. PutPeer(q) = (a \o b) \o c
  BY DEF PutPeer
<1> HIDE DEF a, b, c
<1>3. a \o b \in Seq(Nat) /\ Len(a \o b) = Len(a) + Len(b)
  BY <1>1, ConcatProperties
<1>4. (a \o b) \o c \in Seq(Nat) /\ Len((a \o b) \o c) = Len(a \o b) + Len(c)
  <2> DEFINE ab == a \o b
  <2>1. ab \in Seq(Nat)
    BY <1>3
  <2> HIDE DEF ab
  <2>2. ab \o c \in Seq(Nat) /\ Len(ab \o c) = Len(ab) + Len(c)
    BY <1>1, <2>1, ConcatProperties
  <2> QED BY <2>2 DEF ab
<1>5. ASSUME NEW z \in Seq(Nat)
      PROVE  /\ PutPeer(q) \o z = a \o (b \o (c \o z))
             /\ b \o (c \o z) \in Seq(Nat)
             /\ c \o z \in Seq(Nat)
  <2>1. c \o z \in Seq(Nat)
    BY <1>1, ConcatProperties
  <2>2. b \o (c \o z) \in Seq(Nat)
    BY <1>1, <2>1, ConcatProperties
  <2>3. ((a \o b) \o c) \o z = (a \o b) \o (c \o z)
    BY <1>1, <1>3, Associative, ZenonT(30)
  <2>4. (a \o b) \o (c \o z) = a \o (b \o (c \o z))
    BY <1>1, <2>1, Associative, ZenonT(30)
  <2> QED BY <1>2, <2>1, <2>2, <2>3, <2>4
<1>6. Len(PutPeer(q)) = 3 + Len(q.id) + Len(q.ip)
  <2>1. Len(PutPeer(q)) = (Len(a) + Len(b)) + Len(c)
    BY <1>2, <1>3, <1>4
  <2> DEFINE m == Len(q.id)
             n == Len(q.ip)
  <2>2. Len(a) = 1 + m /\ Len(b) = 1 + n /\ Len(c) = 1 /\ m \in Nat /\ n \in Nat
    BY <1>1
  <2> HIDE DEF m, n
  <2>3. (1 + m) + (1 + n) + 1 = 3 + m + n
    BY <2>2
  <2> QED BY <2>1, <2>2, <2>3 DEF m, n
<1>7. PutPeer(q) \in Seq(Nat)
  BY <1>2, <1>4
<1>8. \A z \in Seq(Nat) :
        /\ PutPeer(q) \o z = PutStr(q.id) \o (PutStr(q.ip) \o (<<q.clock>> \o z))
        /\ PutStr(q.ip) \o (<<q.clock>> \o z) \in Seq(Nat)
        /\ <<q.clock>> \o z \in Seq(Nat)
  BY <1>5 DEF a, b, c
<1> QED BY <1>1, <1>6, <1>7, <1>8

\* One round: a peer is read, and the peer that was written if all of it arrived.
LEMMA PaddedPeer ==
  ASSUME NEW r, NEW g, NEW q, IsPeer(q), NEW z \in Seq(Nat), NEW k \in Int,
         Padded(r, PutPeer(q) \o z, k, g)
  PROVE  \E p : /\ Padded(GetPeer(r), z, k - Len(PutPeer(q)), Append(g, p))
                /\ k >= Len(PutPeer(q)) => p = q
<1> DEFINE r0 == [r EXCEPT !.got = <<>>]
           r1 == TakeStr(r0)
           r2 == TakeStr(r1)
           r3 == TakeInt(r2)
           y2 == <<q.clock>> \o z
           y1 == PutStr(q.ip) \o y2
           k1 == k - 1 - Len(q.id)
           k2 == k1 - 1 - Len(q.ip)
           id == IF k >= 1 THEN Filled(q.id, k - 1) ELSE <<>>
           ip == IF k1 >= 1 THEN Filled(q.ip, k1 - 1) ELSE <<>>
           clock == IF k2 >= 1 THEN q.clock ELSE 0
           p == [id |-> id, ip |-> ip, clock |-> clock]
<1>1. /\ y1 \in Seq(Nat) /\ y2 \in Seq(Nat) /\ PutPeer(q) \o z = PutStr(q.id) \o y1
      /\ Len(PutPeer(q)) = 3 + Len(q.id) + Len(q.ip)
      /\ Len(q.id) \in Nat /\ Len(q.ip) \in Nat
  BY PutPeerType
<1>2. /\ q = [id |-> q.id, ip |-> q.ip, clock |-> q.clock] /\ q.id \in Seq(Nat) /\ q.id # <<>>
      /\ q.ip \in Seq(Nat) /\ q.ip # <<>> /\ q.clock \in Nat
  BY DEF IsPeer
<1>3. k1 \in Int /\ k2 \in Int
  BY <1>1
<1>4. Padded(r0, PutStr(q.id) \o y1, k, <<>>)
  <2> HIDE DEF y1
  <2>1. PICK a \in Seq(Nat) :
          /\ r = [rest |-> a, ok |-> TRUE, got |-> g]
          /\ Len(a) >= Len(PutPeer(q) \o z)
          /\ \A i \in 1..Len(a) :
               a[i] = IF i <= k /\ i <= Len(PutPeer(q) \o z) THEN (PutPeer(q) \o z)[i] ELSE NUL
    BY DEF Padded
  <2>2. r0 = [rest |-> a, ok |-> TRUE, got |-> <<>>]
    <3>1. r = [rest |-> a, ok |-> TRUE, got |-> g]
      BY <2>1
    <3>2. r0 = [[rest |-> a, ok |-> TRUE, got |-> g] EXCEPT !.got = <<>>]
      BY <3>1
    <3> HIDE DEF r0
    <3> QED BY <3>2
  <2> HIDE DEF r0
  <2> QED BY <1>1, <2>1, <2>2 DEF Padded
<1> HIDE DEF r0
<1>5. Padded(r1, y1, k1, <<id>>)
  <2>1. Padded(r1, y1, k - 1 - Len(q.id), Append(<<>>, id))
    <3>1. IsSeq(<<>>)
      BY Tuples
    <3> HIDE DEF y1
    <3> QED BY <1>1, <1>2, <1>4, <3>1, PaddedStr
  <2>2. Append(<<>>, id) = <<id>>
    BY Tuples
  <2> HIDE DEF r1, y1, id
  <2> QED BY <2>1, <2>2
<1> HIDE DEF r1
<1>6. Padded(r2, y2, k2, <<id, ip>>)
  <2>1. Padded(r2, y2, k1 - 1 - Len(q.ip), Append(<<id>>, ip))
    <3> HIDE DEF y2, id, k1
    <3>1. IsSeq(<<id>>)
      BY Tuples
    <3> QED BY <1>1, <1>2, <1>3, <1>5, <3>1, PaddedStr
  <2>2. Append(<<id>>, ip) = <<id, ip>>
    <3> HIDE DEF id, ip
    <3> QED BY Tuples, Zenon
  <2> HIDE DEF r2, y2, id, ip, k1
  <2> QED BY <2>1, <2>2
<1> HIDE DEF r2
<1>7. Padded(r3, z, k2 - 1, <<id, ip, clock>>)
  <2>1. Padded(r3, z, k2 - 1, Append(<<id, ip>>, clock))
    <3> HIDE DEF id, ip, k1, k2
    <3> QED BY <1>2, <1>3, <1>6, PaddedInt
  <2>2. Append(<<id, ip>>, clock) = <<id, ip, clock>>
    <3> HIDE DEF id, ip, clock
    <3> QED BY Third
  <2> HIDE DEF r3, id, ip, clock
  <2> QED BY <2>1, <2>2
<1> HIDE DEF r3
<1>8. k2 - 1 = k - Len(PutPeer(q))
  BY <1>1
<1>9. k >= Len(PutPeer(q)) => p = q
  <2> SUFFICES ASSUME k >= Len(PutPeer(q)) PROVE p = q
    OBVIOUS
  <2>1. /\ k >= 1 /\ k - 1 >= Len(q.id) /\ k1 >= 1 /\ k1 - 1 >= Len(q.ip) /\ k2 >= 1
        /\ k - 1 \in Int /\ k1 - 1 \in Int
    <3> DEFINE m == Len(q.id)
               n == Len(q.ip)
    <3>1. k >= 3 + m + n /\ m \in Nat /\ n \in Nat
      BY <1>1
    <3> HIDE DEF m, n
    <3>2. /\ k >= 1 /\ k - 1 >= m /\ k - 1 - m >= 1 /\ k - 1 - m - 1 >= n
          /\ k - 1 - m - 1 - n >= 1
          /\ k - 1 \in Int /\ k - 1 - m - 1 \in Int
      BY <3>1
    <3> HIDE DEF id, ip, clock, p, y1, y2
    <3> QED BY <3>2, Zenon DEF m, n
  <2> HIDE DEF k1, k2
  <2>2. Filled(q.id, k - 1) = q.id /\ Filled(q.ip, k1 - 1) = q.ip
    BY <1>2, <2>1, FilledWhole
  <2>3. id = q.id /\ ip = q.ip /\ clock = q.clock
    BY <2>1, <2>2
  <2> HIDE DEF id, ip, clock
  <2> QED BY <1>2, <2>3
<1>10. r.got = g
  BY DEF Padded
<1> HIDE DEF k1, k2, id, ip, clock
<1>11. GetPeer(r) = [r3 EXCEPT !.got = Append(g, [id |-> r3.got[1], ip |-> r3.got[2], clock |-> r3.got[3]])]
  BY <1>10 DEF GetPeer, r3, r2, r1, r0
<1>12. PICK a \in Seq(Nat) :
         /\ r3 = [rest |-> a, ok |-> TRUE, got |-> <<id, ip, clock>>]
         /\ Len(a) >= Len(z)
         /\ \A i \in 1..Len(a) : a[i] = IF i <= k2 - 1 /\ i <= Len(z) THEN z[i] ELSE NUL
  BY <1>7 DEF Padded
<1>13. GetPeer(r) = [rest |-> a, ok |-> TRUE, got |-> Append(g, p)]
  <2>1. r3.got[1] = id /\ r3.got[2] = ip /\ r3.got[3] = clock
    BY <1>12
  <2>2. GetPeer(r) = [r3 EXCEPT !.got = Append(g, p)]
    BY <1>11, <2>1
  <2> HIDE DEF p
  <2> QED BY <1>12, <2>2
<1>14. Padded(GetPeer(r), z, k2 - 1, Append(g, p))
  <2> HIDE DEF p
  <2> QED BY <1>12, <1>13 DEF Padded
<1> HIDE DEF p
<1> QED BY <1>8, <1>9, <1>14

\* Another record of what was read.
LEMMA Forgotten ==
  ASSUME NEW a, NEW g, NEW h
  PROVE  [[rest |-> a, ok |-> TRUE, got |-> g] EXCEPT !.got = h] = [rest |-> a, ok |-> TRUE, got |-> h]
<1>1. PICK r : r = [[rest |-> a, ok |-> TRUE, got |-> g] EXCEPT !.got = h]
  OBVIOUS
<1>2. r = [rest |-> a, ok |-> TRUE, got |-> h]
  BY <1>1
<1> QED BY <1>1, <1>2

\* A reader that forgets what it collected.
LEMMA PaddedFresh ==
  ASSUME NEW r, NEW g, NEW y, NEW k, Padded(r, y, k, g), NEW h
  PROVE  Padded([r EXCEPT !.got = h], y, k, h)
<1>1. PICK a \in Seq(Nat) :
        /\ r = [rest |-> a, ok |-> TRUE, got |-> g]
        /\ Len(a) >= Len(y)
        /\ \A i \in 1..Len(a) : a[i] = IF i <= k /\ i <= Len(y) THEN y[i] ELSE NUL
  BY DEF Padded
<1>2. [r EXCEPT !.got = h] = [rest |-> a, ok |-> TRUE, got |-> h]
  <2>1. r = [rest |-> a, ok |-> TRUE, got |-> g]
    BY <1>1
  <2>2. [r EXCEPT !.got = h] = [[rest |-> a, ok |-> TRUE, got |-> g] EXCEPT !.got = h]
    BY <2>1
  <2>3. [[rest |-> a, ok |-> TRUE, got |-> g] EXCEPT !.got = h] = [rest |-> a, ok |-> TRUE, got |-> h]
    BY Forgotten
  <2> QED BY <2>2, <2>3
<1> QED BY <1>1, <1>2 DEF Padded

\* What was collected in the first i rounds.
LEMMA Collected ==
  ASSUME NEW p, NEW i \in Nat \ {0}
  PROVE  Append([m \in 1..(i - 1) |-> p[m]], p[i]) = [m \in 1..i |-> p[m]]
<1> DEFINE G == {p[m] : m \in 1..i}
           s == [m \in 1..(i - 1) |-> p[m]]
           t == [m \in 1..i |-> p[m]]
<1>1. /\ i - 1 \in Nat /\ \A m \in 1..(i - 1) : m \in 1..i
      /\ \A m \in 1..i : p[m] \in G
  OBVIOUS
<1>2. s \in [1..(i - 1) -> G] /\ t \in [1..i -> G]
  <2> HIDE DEF G
  <2> QED BY <1>1
<1>3. s \in Seq(G) /\ t \in Seq(G) /\ Len(s) = i - 1 /\ Len(t) = i
  <2> HIDE DEF G, s, t
  <2> QED BY <1>1, <1>2
<1>4. t[i] = p[i] /\ \A m \in 1..(i - 1) : t[m] = s[m]
  BY <1>1
<1> HIDE DEF s, t, G
<1>5. Len(t) = Len(s) + 1 /\ Len(s) + 1 = i /\ \A m \in 1..Len(s) : t[m] = s[m]
  BY <1>3, <1>4
<1>6. Append(s, t[Len(s) + 1]) = t
  BY <1>3, <1>5, AppendEquals
<1>7. Append(s, p[i]) = t
  BY <1>4, <1>5, <1>6
<1> QED BY <1>7 DEF s, t

\* A list of peers as it is written.
PutPeers(peers, n) == FlattenSeq([i \in 1..n |-> PutPeer(peers[i])])

\* Its parts: w[i] is what follows the first i peers.
BehindPeers(w, peers, n) ==
  /\ w[0] = PutPeers(peers, n) /\ w[n] = <<>>
  /\ \A i \in 0..n : w[i] \in Seq(Nat)
  /\ \A i \in 1..n : w[i - 1] = PutPeer(peers[i]) \o w[i]

\* Every list has them.
LEMMA PeerParts ==
  ASSUME NEW n \in Nat, NEW peers, \A i \in 1..n : IsPeer(peers[i])
  PROVE  \E w : BehindPeers(w, peers, n)
<1> DEFINE s == [i \in 1..n |-> PutPeer(peers[i])]
<1>1. \A i \in 1..n : PutPeer(peers[i]) \in Seq(Nat)
  BY PutPeerType
<1>2. s \in [1..n -> Seq(Nat)]
  BY <1>1
<1>3. \A i \in 1..n : s[i] = PutPeer(peers[i])
  OBVIOUS
<1>4. FlattenSeq(s) = PutPeers(peers, n)
  BY DEF PutPeers
<1> HIDE DEF s
<1>5. s \in Seq(Seq(Nat)) /\ Len(s) = n
  BY <1>2
<1>6. PICK w : Behind(w, s, n) /\ w[0] = FlattenSeq(s)
  BY <1>5, FlattenParts
<1> QED BY <1>3, <1>4, <1>6 DEF Behind, BehindPeers

\* What the rounds of GetPeers come to: v rounds that start from b.
PeersTaken(c, b, v, g) ==
  \E round : /\ round[0] = b /\ \A i \in 1..v : round[i] = GetPeer(round[i - 1])
             /\ c = [round[v] EXCEPT !.got = Append(g, round[v].got)]

\* GetPeers counts to the number that it reads.
LEMMA PeersRead ==
  ASSUME NEW r, NEW v \in Nat, v = Last(TakeInt(r).got), NEW b, b = [TakeInt(r) EXCEPT !.got = <<>>]
  PROVE  PeersTaken(GetPeers(r), b, v, r.got)
<1> DEFINE round == PeersRound(v, b)
<1>1. round[0] = b /\ \A i \in 1..v : round[i] = GetPeer(round[i - 1])
  BY PeerRounds
<1>2. GetPeers(r) = [round[v] EXCEPT !.got = Append(r.got, round[v].got)]
  BY DEF GetPeers, PeersRound
<1> HIDE DEF round
<1> QED BY <1>1, <1>2 DEF PeersTaken

\* A list of n peers.
IsPeers(ps, n) == ps = [i \in 1..n |-> ps[i]] /\ \A i \in 1..n : IsPeer(ps[i])

\* The reader behind a list of peers, before the port: the peers that were read
\* are those that were written if all of it arrived.
ListRead(c, peers, n, port, k, g) ==
  \E ps : \E j \in Int :
    /\ Padded(c, <<port>>, j, Append(g, ps))
    /\ k >= 2 + Len(PutPeers(peers, n)) => j >= 1 /\ ps = peers

\* The loop: as many peers as there were, unless their number was lost.
LEMMA PaddedPeers ==
  ASSUME NEW n \in Nat, NEW peers, IsPeers(peers, n), NEW port \in Nat,
         NEW r, NEW g, IsSeq(g), NEW k \in Int,
         Padded(r, <<n>> \o (PutPeers(peers, n) \o <<port>>), k, g)
  PROVE  ListRead(GetPeers(r), peers, n, port, k, g)
<1>1. \A i \in 1..n : IsPeer(peers[i])
  BY DEF IsPeers
<1>2. peers = [i \in 1..n |-> peers[i]]
  BY DEF IsPeers
<1>3. PICK w : BehindPeers(w, peers, n)
  BY <1>1, PeerParts
<1>4. /\ w[0] = PutPeers(peers, n) /\ w[n] = <<>>
      /\ \A i \in 0..n : w[i] \in Seq(Nat)
      /\ \A i \in 1..n : w[i - 1] = PutPeer(peers[i]) \o w[i]
  BY <1>3 DEF BehindPeers
<1> DEFINE flat == PutPeers(peers, n)
           end == <<port>>
           count == TakeInt(r)
           v == IF k >= 1 THEN n ELSE 0
           b == [count EXCEPT !.got = <<>>]
           full == k >= 2 + Len(flat)
<1>5. end \in Seq(Nat) /\ Len(end) = 1
  OBVIOUS
<1>6. w[0] = flat
  BY <1>4
<1> HIDE DEF flat, end
<1>7. /\ flat \in Seq(Nat) /\ Len(flat) \in Nat /\ flat \o end \in Seq(Nat)
  <2>1. 0 \in 0..n
    OBVIOUS
  <2>2. flat \in Seq(Nat)
    BY <1>4, <1>6, <2>1
  <2> QED BY <1>5, <2>2, ConcatProperties
<1>8. Padded(count, flat \o end, k - 1, Append(g, v))
  <2>1. Padded(r, <<n>> \o (flat \o end), k, g)
    BY DEF flat, end
  <2> QED BY <1>7, <2>1, PaddedInt
<1>9. Last(Append(g, v)) = v
  BY AppendIsSeq
<1>10. count.got = Append(g, v)
  <2> HIDE DEF count, v
  <2> QED BY <1>8 DEF Padded
<1>11. Padded(b, flat \o end, k - 1, <<>>)
  <2> HIDE DEF count, v
  <2> QED BY <1>8, PaddedFresh
<1>12. v \in Nat
  OBVIOUS
<1>13. r.got = g
  BY DEF Padded
<1>14. PICK round : /\ round[0] = b /\ \A i \in 1..v : round[i] = GetPeer(round[i - 1])
                    /\ GetPeers(r) = [round[v] EXCEPT !.got = Append(g, round[v].got)]
  <2>1. v = Last(TakeInt(r).got) /\ b = [TakeInt(r) EXCEPT !.got = <<>>]
    <3> HIDE DEF v
    <3> QED BY <1>9, <1>10
  <2> HIDE DEF v, b, count
  <2>2. PeersTaken(GetPeers(r), b, v, g)
    BY <2>1, <1>12, <1>13, PeersRead
  <2> QED BY <2>2 DEF PeersTaken
<1>15. round[0] = b /\ \A i \in 1..v : round[i] = GetPeer(round[i - 1])
  BY <1>14
<1> HIDE DEF b, count
<1>16. ASSUME NEW c, NEW j \in Int, Padded(round[v], end, j, c), full => j >= 1 /\ c = peers
       PROVE  ListRead(GetPeers(r), peers, n, port, k, g)
  <2>1. round[v].got = c
    <3> HIDE DEF v
    <3> QED BY <1>16 DEF Padded
  <2>2. Padded(GetPeers(r), end, j, Append(g, c))
    <3> HIDE DEF v
    <3>1. Padded([round[v] EXCEPT !.got = Append(g, c)], end, j, Append(g, c))
      BY <1>16, PaddedFresh
    <3> QED BY <3>1, <2>1, <1>14
  <2>3. k >= 2 + Len(PutPeers(peers, n)) => j >= 1 /\ c = peers
    BY <1>16 DEF flat
  <2>4. Padded(GetPeers(r), <<port>>, j, Append(g, c))
    BY <2>2 DEF end
  <2> QED BY <2>3, <2>4 DEF ListRead
<1>17. CASE ~ (k >= 1)
  <2>1. v = 0 /\ k - 1 \in Int /\ k - 1 <= 0 /\ ~ full
    BY <1>17, <1>7
  <2>2. Padded(b, end, 0, <<>>)
    BY <1>5, <1>7, <1>11, <2>1, PaddedLess
  <2>3. Padded(round[v], end, 0, <<>>)
    BY <2>1, <2>2, <1>15
  <2> HIDE DEF full, v
  <2> QED BY <2>1, <2>3, <1>16
<1>18. CASE k >= 1
  <2>1. v = n
    BY <1>18
  <2> DEFINE P(i) == \E c : \E j \in Int :
                       /\ Padded(round[i], w[i] \o end, j, c) /\ IsSeq(c)
                       /\ full => j >= Len(w[i]) + 1 /\ c = [m \in 1..i |-> peers[m]]
             T == {i \in 0..n : P(i)}
  <2>2. P(0)
    <3>1. IsSeq(<<>>) /\ <<>> = [m \in 1..0 |-> peers[m]]
      <4>1. IsSeq(<<>>)
        BY Tuples
      <4>2. <<>> = [m \in 1..0 |-> peers[m]]
        OBVIOUS
      <4> QED BY <4>1, <4>2
    <3>2. k - 1 \in Int /\ (full => k - 1 >= Len(flat) + 1)
      BY <1>7
    <3>3. Padded(round[0], w[0] \o end, k - 1, <<>>)
      BY <1>6, <1>11, <1>15
    <3>4. full => k - 1 >= Len(w[0]) + 1
      BY <3>2, <1>6
    <3> HIDE DEF full
    <3> QED BY <3>1, <3>2, <3>3, <3>4
  <2>3. ASSUME NEW i \in 1..n, P(i - 1)
        PROVE  P(i)
    <3> DEFINE q == peers[i]
               u == w[i]
    <3>1. /\ IsPeer(q) /\ u \in Seq(Nat) /\ w[i - 1] = PutPeer(q) \o u
          /\ PutPeer(q) \in Seq(Nat) /\ Len(u) \in Nat /\ Len(PutPeer(q)) \in Nat
      <4>1. i \in 0..n
        OBVIOUS
      <4>2. IsPeer(q) /\ u \in Seq(Nat) /\ w[i - 1] = PutPeer(q) \o u
        <5>1. IsPeer(q)
          BY <1>1
        <5>2. u \in Seq(Nat)
          BY <4>1, <1>4
        <5>3. w[i - 1] = PutPeer(q) \o u
          BY <1>4
        <5> QED BY <5>1, <5>2, <5>3
      <4> HIDE DEF q, u
      <4>3. PutPeer(q) \in Seq(Nat)
        BY <4>2, PutPeerType
      <4>4. Len(u) \in Nat /\ Len(PutPeer(q)) \in Nat
        BY <4>2, <4>3
      <4> QED BY <4>2, <4>3, <4>4
    <3> HIDE DEF full
    <3>2. PICK c : \E j \in Int :
             /\ Padded(round[i - 1], w[i - 1] \o end, j, c) /\ IsSeq(c)
             /\ full => j >= Len(w[i - 1]) + 1 /\ c = [m \in 1..(i - 1) |-> peers[m]]
      BY <2>3
    <3>3. PICK j \in Int :
             /\ Padded(round[i - 1], w[i - 1] \o end, j, c) /\ IsSeq(c)
             /\ full => j >= Len(w[i - 1]) + 1 /\ c = [m \in 1..(i - 1) |-> peers[m]]
      BY <3>2
    <3> HIDE DEF q, u
    <3>4. w[i - 1] \o end = PutPeer(q) \o (u \o end)
      <4>1. (PutPeer(q) \o u) \o end = PutPeer(q) \o (u \o end)
        BY <3>1, <1>5, Associative, Zenon
      <4> QED BY <4>1, <3>1
    <3>5. Len(w[i - 1]) = Len(PutPeer(q)) + Len(u)
      <4>1. Len(PutPeer(q) \o u) = Len(PutPeer(q)) + Len(u)
        BY <3>1, ConcatProperties
      <4> QED BY <4>1, <3>1
    <3>6. u \o end \in Seq(Nat)
      BY <3>1, <1>5, ConcatProperties
    <3>7. PICK p : /\ Padded(GetPeer(round[i - 1]), u \o end, j - Len(PutPeer(q)), Append(c, p))
                   /\ j >= Len(PutPeer(q)) => p = q
      <4>1. Padded(round[i - 1], PutPeer(q) \o (u \o end), j, c)
        BY <3>3, <3>4
      <4> QED BY <4>1, <3>1, <3>6, PaddedPeer
    <3>8. Padded(round[i], u \o end, j - Len(PutPeer(q)), Append(c, p))
      BY <3>7, <1>15, <2>1
    <3>9. full => /\ j - Len(PutPeer(q)) >= Len(u) + 1
                  /\ Append(c, p) = [m \in 1..i |-> peers[m]]
      <4> SUFFICES ASSUME full
                   PROVE  /\ j - Len(PutPeer(q)) >= Len(u) + 1
                          /\ Append(c, p) = [m \in 1..i |-> peers[m]]
        OBVIOUS
      <4>1. j >= Len(w[i - 1]) + 1 /\ c = [m \in 1..(i - 1) |-> peers[m]]
        BY <3>3
      <4>2. j >= Len(PutPeer(q)) /\ j - Len(PutPeer(q)) >= Len(u) + 1
        BY <4>1, <3>1, <3>5
      <4>3. p = peers[i]
        BY <4>2, <3>7 DEF q
      <4>4. i \in Nat \ {0}
        OBVIOUS
      <4>5. Append([m \in 1..(i - 1) |-> peers[m]], peers[i]) = [m \in 1..i |-> peers[m]]
        BY <4>4, Collected
      <4> QED BY <4>1, <4>2, <4>3, <4>5
    <3>10. IsSeq(Append(c, p)) /\ j - Len(PutPeer(q)) \in Int
      BY <3>1, <3>3, AppendIsSeq
    <3>11. /\ Padded(round[i], w[i] \o end, j - Len(PutPeer(q)), Append(c, p))
           /\ full => j - Len(PutPeer(q)) >= Len(w[i]) + 1
      BY <3>8, <3>9 DEF u
    <3> QED BY <3>9, <3>10, <3>11
  <2> HIDE DEF P
  <2>4. 0 \in T /\ \A i \in 1..n : i - 1 \in T => i \in T
    BY <2>2, <2>3
  <2> HIDE DEF T
  <2>5. \A i \in 0..n : i \in T
    BY <2>4, BoundedInduction, Zenon
  <2>6. P(n)
    <3>1. n \in 0..n
      OBVIOUS
    <3> QED BY <2>5, <3>1 DEF T
  <2> HIDE DEF full
  <2>7. PICK c : \E j \in Int :
           /\ Padded(round[n], w[n] \o end, j, c) /\ IsSeq(c)
           /\ full => j >= Len(w[n]) + 1 /\ c = [m \in 1..n |-> peers[m]]
    BY <2>6 DEF P
  <2>8. PICK j \in Int :
           /\ Padded(round[n], w[n] \o end, j, c) /\ IsSeq(c)
           /\ full => j >= Len(w[n]) + 1 /\ c = [m \in 1..n |-> peers[m]]
    BY <2>7
  <2>9. w[n] \o end = end /\ Len(w[n]) = 0
    BY <1>4, <1>5, ConcatEmptySeq
  <2>10. Padded(round[v], end, j, c) /\ (full => j >= 1 /\ c = peers)
    <3>1. Padded(round[v], end, j, c)
      BY <2>1, <2>8, <2>9
    <3>2. full => j >= 1
      BY <2>8, <2>9
    <3>3. full => c = peers
      BY <2>8, <1>2
    <3> QED BY <3>1, <3>2, <3>3
  <2> HIDE DEF v
  <2> QED BY <2>10, <1>16
<1> QED BY <1>17, <1>18

-----------------------------------------------------------------------------
(* Messages.                                                               *)

\* A message by its fields.
Fields(type, uuid, ip, frame, msg, peers, port) ==
  [type |-> type, uuid |-> uuid, ip |-> ip, frame |-> frame, msg |-> msg, peers |-> peers,
   port |-> port]

\* A message with nothing but a type.
LEMMA BlankFields ==
  ASSUME NEW t
  PROVE  [Blank EXCEPT !.type = t] = Fields(t, <<>>, <<>>, 0, <<>>, <<>>, 0)
<1>1. PICK m : m = [Blank EXCEPT !.type = t]
  OBVIOUS
<1>2. m = [type |-> t, uuid |-> <<>>, ip |-> <<>>, frame |-> 0, msg |-> <<>>,
           peers |-> <<>>, port |-> 0]
  BY <1>1 DEF Blank
<1> QED BY <1>1, <1>2 DEF Fields

\* What Decode makes of each type of message.
LEMMA DecodeByType ==
  ASSUME NEW data, NEW type, type = TakeInt(Reader(data)), type.ok = TRUE
  PROVE  LET t == type.got[1]
             frame == TakeInt(type)
             msg == TakeStr(type)
             dead == TakeStr(TakeStr(type))
             change == TakeInt(GetPeers(type))
         IN  /\ t \in {0, 1, 3} =>
                  Decode(data) = [ok |-> TRUE, m |-> Fields(t, <<>>, <<>>, 0, <<>>, <<>>, 0)]
             /\ t = 10 =>
                  Decode(data) = [ok |-> frame.ok,
                                  m |-> Fields(10, <<>>, <<>>, frame.got[2], <<>>, <<>>, 0)]
             /\ t = 5 =>
                  Decode(data) = [ok |-> msg.ok,
                                  m |-> Fields(5, <<>>, <<>>, 0, msg.got[2], <<>>, 0)]
             /\ t = 6 =>
                  Decode(data) = [ok |-> dead.ok,
                                  m |-> Fields(6, dead.got[2], dead.got[3], 0, <<>>, <<>>, 0)]
             /\ t \in {8, 9} =>
                  Decode(data) = [ok |-> change.ok,
                                  m |-> Fields(t, <<>>, <<>>, 0, <<>>, change.got[2], change.got[3])]
<1> DEFINE t == type.got[1]
<1>1. PICK m : m = [Blank EXCEPT !.type = t]
  OBVIOUS
<1> DEFINE frame == TakeInt(type)
           msg == TakeStr(type)
           dead == TakeStr(TakeStr(type))
           change == TakeInt(GetPeers(type))
           f == frame.got[2]
           x == msg.got[2]
           u == dead.got[2]
           v == dead.got[3]
           ps == change.got[2]
           p == change.got[3]
           ack == [ok |-> frame.ok, m |-> [m EXCEPT !.frame = f]]
           line == [ok |-> msg.ok, m |-> [m EXCEPT !.msg = x]]
           node == [ok |-> dead.ok, m |-> [m EXCEPT !.uuid = u, !.ip = v]]
           list == [ok |-> change.ok, m |-> [m EXCEPT !.peers = ps, !.port = p]]
           none == [ok |-> FALSE, m |-> Blank]
           plain == [ok |-> TRUE, m |-> m]
<1>2. Decode(data) = CASE ~ type.ok -> none
                       [] m.type = MulticastAck -> ack
                       [] m.type = Application -> line
                       [] m.type = DeadNode -> node
                       [] m.type \in {PeerInfo, MulticastSessionChange} -> list
                       [] OTHER -> plain
  BY <1>1 DEF Decode
<1> HIDE DEF t, frame, msg, dead, change, f, x, u, v, ps, p
<1>3. /\ m.type = t
      /\ ack = [ok |-> frame.ok, m |-> Fields(t, <<>>, <<>>, f, <<>>, <<>>, 0)]
      /\ line = [ok |-> msg.ok, m |-> Fields(t, <<>>, <<>>, 0, x, <<>>, 0)]
      /\ node = [ok |-> dead.ok, m |-> Fields(t, u, v, 0, <<>>, <<>>, 0)]
      /\ list = [ok |-> change.ok, m |-> Fields(t, <<>>, <<>>, 0, <<>>, ps, p)]
      /\ plain = [ok |-> TRUE, m |-> Fields(t, <<>>, <<>>, 0, <<>>, <<>>, 0)]
  <2>1. m = Fields(t, <<>>, <<>>, 0, <<>>, <<>>, 0)
    BY <1>1, BlankFields
  <2>2. m.type = t
    BY <2>1 DEF Fields
  <2>3. [m EXCEPT !.frame = f] = Fields(t, <<>>, <<>>, f, <<>>, <<>>, 0)
    <3>1. PICK n : n = [m EXCEPT !.frame = f]
      OBVIOUS
    <3>2. n = Fields(t, <<>>, <<>>, f, <<>>, <<>>, 0)
      BY <3>1, <2>1 DEF Fields
    <3> QED BY <3>1, <3>2, Zenon
  <2>4. [m EXCEPT !.msg = x] = Fields(t, <<>>, <<>>, 0, x, <<>>, 0)
    <3>1. PICK n : n = [m EXCEPT !.msg = x]
      OBVIOUS
    <3>2. n = Fields(t, <<>>, <<>>, 0, x, <<>>, 0)
      BY <3>1, <2>1 DEF Fields
    <3> QED BY <3>1, <3>2, Zenon
  <2>5. [m EXCEPT !.uuid = u, !.ip = v] = Fields(t, u, v, 0, <<>>, <<>>, 0)
    <3>1. PICK o : o = [m EXCEPT !.uuid = u]
      OBVIOUS
    <3>2. o = Fields(t, u, <<>>, 0, <<>>, <<>>, 0)
      BY <3>1, <2>1 DEF Fields
    <3>3. PICK n : n = [o EXCEPT !.ip = v]
      OBVIOUS
    <3>4. n = Fields(t, u, v, 0, <<>>, <<>>, 0)
      BY <3>2, <3>3 DEF Fields
    <3>5. [m EXCEPT !.uuid = u, !.ip = v] = n
      BY <3>1, <3>3
    <3> QED BY <3>4, <3>5
  <2>6. [m EXCEPT !.peers = ps, !.port = p] = Fields(t, <<>>, <<>>, 0, <<>>, ps, p)
    <3>1. PICK o : o = [m EXCEPT !.peers = ps]
      OBVIOUS
    <3>2. o = Fields(t, <<>>, <<>>, 0, <<>>, ps, 0)
      BY <3>1, <2>1 DEF Fields
    <3>3. PICK n : n = [o EXCEPT !.port = p]
      OBVIOUS
    <3>4. n = Fields(t, <<>>, <<>>, 0, <<>>, ps, p)
      BY <3>2, <3>3 DEF Fields
    <3>5. [m EXCEPT !.peers = ps, !.port = p] = n
      BY <3>1, <3>3
    <3> QED BY <3>4, <3>5
  <2> QED BY <2>1, <2>2, <2>3, <2>4, <2>5, <2>6, Zenon
<1> HIDE DEF ack, line, node, list, none, plain
<1>4. /\ t \in {0, 1, 3} => Decode(data) = plain
      /\ t = 10 => Decode(data) = ack
      /\ t = 5 => Decode(data) = line
      /\ t = 6 => Decode(data) = node
      /\ t \in {8, 9} => Decode(data) = list
  BY <1>2, <1>3 DEF MulticastAck, Application, DeadNode, PeerInfo, MulticastSessionChange
<1>5. /\ t \in {0, 1, 3} => Decode(data) = [ok |-> TRUE, m |-> Fields(t, <<>>, <<>>, 0, <<>>, <<>>, 0)]
      /\ t = 10 => Decode(data) = [ok |-> frame.ok, m |-> Fields(10, <<>>, <<>>, f, <<>>, <<>>, 0)]
      /\ t = 5 => Decode(data) = [ok |-> msg.ok, m |-> Fields(5, <<>>, <<>>, 0, x, <<>>, 0)]
      /\ t = 6 => Decode(data) = [ok |-> dead.ok, m |-> Fields(6, u, v, 0, <<>>, <<>>, 0)]
      /\ t \in {8, 9} => Decode(data) = [ok |-> change.ok, m |-> Fields(t, <<>>, <<>>, 0, <<>>, ps, p)]
  BY <1>3, <1>4
<1> QED BY <1>5, Zenon DEF t, frame, msg, dead, change, f, x, u, v, ps, p

\* A reader at the start of a string of which k cells arrived.
LEMMA PaddedStart ==
  ASSUME NEW y \in Seq(Nat), NEW k \in Int
  PROVE  Padded(Reader(Filled(y, k)), y, k, <<>>)
<1> DEFINE a == Filled(y, k)
<1>1. \A i \in 1..Len(y) : (IF i <= k THEN y[i] ELSE NUL) \in Nat
  BY ElementOfSeq DEF NUL
<1>2. a \in [1..Len(y) -> Nat]
  BY <1>1 DEF Filled
<1>3. \A i \in 1..Len(y) : a[i] = IF i <= k THEN y[i] ELSE NUL
  BY DEF Filled
<1>4. Len(y) \in Nat
  OBVIOUS
<1> HIDE DEF a
<1>5. a \in Seq(Nat) /\ Len(a) = Len(y)
  BY <1>2, <1>4
<1>6. \A i \in 1..Len(a) : a[i] = IF i <= k /\ i <= Len(y) THEN y[i] ELSE NUL
  <2> TAKE i \in 1..Len(a)
  <2>1. i \in 1..Len(y) /\ i <= Len(y)
    BY <1>4, <1>5
  <2> QED BY <2>1, <1>3
<1>7. Reader(a) = [rest |-> a, ok |-> TRUE, got |-> <<>>]
  BY DEF Reader
<1>8. Padded(Reader(a), y, k, <<>>)
  <2>1. Len(a) >= Len(y)
    BY <1>4, <1>5
  <2> QED BY <1>5, <1>6, <1>7, <2>1 DEF Padded
<1> QED BY <1>8 DEF a

\* The type of a message is the first thing that is read.
LEMMA TypeRead ==
  ASSUME NEW t \in Nat, NEW body \in Seq(Nat), NEW k \in Int, k >= 1
  PROVE  /\ <<t>> \o body \in Seq(Nat) /\ Len(<<t>> \o body) = 1 + Len(body)
         /\ Padded(TakeInt(Reader(Filled(<<t>> \o body, k))), body, k - 1, <<t>>)
<1>1. <<t>> \in Seq(Nat) /\ Len(<<t>>) = 1
  OBVIOUS
<1>2. <<t>> \o body \in Seq(Nat) /\ Len(<<t>> \o body) = 1 + Len(body)
  BY <1>1, ConcatProperties
<1>3. Padded(Reader(Filled(<<t>> \o body, k)), <<t>> \o body, k, <<>>)
  BY <1>2, PaddedStart
<1>4. Padded(TakeInt(Reader(Filled(<<t>> \o body, k))), body, k - 1, Append(<<>>, IF k >= 1 THEN t ELSE 0))
  BY <1>3, PaddedInt
<1>5. Append(<<>>, IF k >= 1 THEN t ELSE 0) = <<t>>
  BY Tuples
<1> QED BY <1>2, <1>4, <1>5

\* The messages that servers send: no type but these, no string or id or address
\* that is empty.
Sendable(m) ==
  \/ \E t \in {0, 1, 3} : m = Fields(t, <<>>, <<>>, 0, <<>>, <<>>, 0)
  \/ \E f \in Nat : m = Fields(10, <<>>, <<>>, f, <<>>, <<>>, 0)
  \/ \E x \in Seq(Nat) : x # <<>> /\ m = Fields(5, <<>>, <<>>, 0, x, <<>>, 0)
  \/ \E u, v \in Seq(Nat) : u # <<>> /\ v # <<>> /\ m = Fields(6, u, v, 0, <<>>, <<>>, 0)
  \/ \E t \in {8, 9}, n \in Nat, p \in Nat : \E ps :
       IsPeers(ps, n) /\ m = Fields(t, <<>>, <<>>, 0, <<>>, ps, p)

\* A message is encoded as its type and what its type calls for.
LEMMA EncodeByType ==
  ASSUME NEW m, NEW t, m.type = t
  PROVE  /\ t \in {0, 1, 3} => Encode(m) = <<t>> \o <<>>
         /\ t = 10 => Encode(m) = <<t>> \o (<<m.frame>> \o m.msg)
         /\ t = 5 => Encode(m) = <<t>> \o PutStr(m.msg)
         /\ t = 6 => Encode(m) = <<t>> \o (PutStr(m.uuid) \o PutStr(m.ip))
         /\ t \in {8, 9} =>
              Encode(m) = <<t>> \o ((<<Len(m.peers)>>
                                       \o FlattenSeq([i \in DOMAIN m.peers |-> PutPeer(m.peers[i])]))
                                      \o <<m.port>>)
<1> DEFINE ack == <<m.frame>> \o m.msg
           line == PutStr(m.msg)
           node == PutStr(m.uuid) \o PutStr(m.ip)
           list == (<<Len(m.peers)>> \o FlattenSeq([i \in DOMAIN m.peers |-> PutPeer(m.peers[i])]))
                     \o <<m.port>>
           none == <<>>
<1>1. Encode(m) =
        <<t>> \o CASE t = MulticastAck -> ack
                   [] t = Application -> line
                   [] t = DeadNode -> node
                   [] t \in {PeerInfo, MulticastSessionChange} -> list
                   [] OTHER -> none
  BY DEF Encode
<1> HIDE DEF ack, line, node, list, none
<1>2. /\ t \in {0, 1, 3} => Encode(m) = <<t>> \o none
      /\ t = 10 => Encode(m) = <<t>> \o ack
      /\ t = 5 => Encode(m) = <<t>> \o line
      /\ t = 6 => Encode(m) = <<t>> \o node
      /\ t \in {8, 9} => Encode(m) = <<t>> \o list
  BY <1>1 DEF MulticastAck, Application, DeadNode, PeerInfo, MulticastSessionChange
<1> QED BY <1>2, Zenon DEF ack, line, node, list, none

\* What a reader before something holds.
LEMMA PaddedGot ==
  ASSUME NEW r, NEW y, NEW k, NEW g, Padded(r, y, k, g)
  PROVE  r.ok = TRUE /\ r.got = g
BY DEF Padded

\* What is made of a message of which k cells arrived.
Decodes(d, m, k) ==
  /\ d.ok = TRUE /\ d.m.type = m.type
  /\ k >= Len(Encode(m)) => d.m = m
  /\ m.type = Application =>
       /\ Len(d.m.msg) \in {0, Len(m.msg)}
       /\ \E j \in 0..Len(m.msg) : \A i \in DOMAIN d.m.msg :
            d.m.msg[i] = IF i <= j THEN m.msg[i] ELSE NUL

\* The same for any message but a line.
LEMMA DecodesFields ==
  ASSUME NEW m, NEW t, m.type = t, t # 5, NEW y, y = Encode(m), NEW k, NEW n, n.type = t,
         k >= Len(y) => n = m, NEW d, d = [ok |-> TRUE, m |-> n]
  PROVE  Decodes(d, m, k)
<1>1. d.ok = TRUE /\ d.m = n
  OBVIOUS
<1> QED BY <1>1 DEF Decodes, Application

\* The reader after the type of a message.
Opened(type, y, t, body, k) ==
  /\ y \in Seq(Nat) /\ y # <<>> /\ Len(y) = 1 + Len(body) /\ k - 1 \in Int
  /\ type = TakeInt(Reader(Filled(y, k)))
  /\ type.ok = TRUE /\ type.got[1] = t
  /\ Padded(type, body, k - 1, <<t>>)

\* The type is read from any message of which something arrived.
LEMMA TypeKnown ==
  ASSUME NEW t \in Nat, NEW body \in Seq(Nat), NEW k \in Int, k >= 1
  PROVE  Opened(TakeInt(Reader(Filled(<<t>> \o body, k))), <<t>> \o body, t, body, k)
<1> DEFINE y == <<t>> \o body
           type == TakeInt(Reader(Filled(y, k)))
<1>1. y \in Seq(Nat) /\ Len(y) = 1 + Len(body) /\ Padded(type, body, k - 1, <<t>>)
  BY TypeRead
<1> HIDE DEF y
<1>2. type.ok = TRUE /\ type.got[1] = t
  <2> HIDE DEF type
  <2>1. type.ok = TRUE /\ type.got = <<t>>
    BY <1>1, PaddedGot, Zenon
  <2> QED BY <2>1
<1>3. y # <<>> /\ k - 1 \in Int
  BY <1>1
<1>4. Opened(type, y, t, body, k)
  BY <1>1, <1>2, <1>3 DEF Opened
<1> QED BY <1>4 DEF y

\* A message that is only a type.
LEMMA DecodePlain ==
  ASSUME NEW t \in {0, 1, 3}, NEW m, m = Fields(t, <<>>, <<>>, 0, <<>>, <<>>, 0),
         NEW k \in Int, k >= 1
  PROVE  Encode(m) \in Seq(Nat) /\ Encode(m) # <<>> /\ Decodes(Decode(Filled(Encode(m), k)), m, k)
<1> DEFINE y == Encode(m)
<1>1. m.type = t /\ t \in Nat /\ t # 5 /\ <<>> \in Seq(Nat)
  BY DEF Fields
<1>2. y = <<t>> \o <<>>
  BY <1>1, EncodeByType
<1> HIDE DEF y
<1>3. PICK type : Opened(type, y, t, <<>>, k)
  BY <1>1, <1>2, TypeKnown
<1>4. Decode(Filled(y, k)) = [ok |-> TRUE, m |-> m]
  BY <1>3, DecodeByType DEF Opened
<1>5. Decodes(Decode(Filled(y, k)), m, k)
  BY <1>1, <1>4, DecodesFields DEF y
<1> QED BY <1>3, <1>5 DEF y, Opened

\* An acknowledgement.
LEMMA DecodeAck ==
  ASSUME NEW f \in Nat, NEW m, m = Fields(10, <<>>, <<>>, f, <<>>, <<>>, 0),
         NEW k \in Int, k >= 1
  PROVE  Encode(m) \in Seq(Nat) /\ Encode(m) # <<>> /\ Decodes(Decode(Filled(Encode(m), k)), m, k)
<1> DEFINE y == Encode(m)
           body == <<f>> \o <<>>
           g == IF k - 1 >= 1 THEN f ELSE 0
<1>1. m.type = 10 /\ m.frame = f /\ m.msg = <<>>
  BY DEF Fields
<1>2. y = <<10>> \o body
  BY <1>1, EncodeByType
<1>3. <<>> \in Seq(Nat) /\ body \in Seq(Nat) /\ Len(body) = 1
  OBVIOUS
<1> HIDE DEF y, body
<1>4. PICK type : Opened(type, y, 10, body, k)
  BY <1>2, <1>3, TypeKnown
<1>5. /\ y \in Seq(Nat) /\ y # <<>> /\ Len(y) = 1 + Len(body) /\ k - 1 \in Int
      /\ type = TakeInt(Reader(Filled(y, k))) /\ type.ok = TRUE /\ type.got[1] = 10
      /\ Padded(type, body, k - 1, <<10>>)
  BY <1>4 DEF Opened
<1>6. PICK frame : frame = TakeInt(type)
  OBVIOUS
<1>7. Padded(frame, <<>>, k - 1 - 1, Append(<<10>>, g))
  <2>1. Padded(type, <<f>> \o <<>>, k - 1, <<10>>)
    BY <1>5 DEF body
  <2> QED BY <1>3, <1>5, <1>6, <2>1, PaddedInt
<1>8. k >= Len(y) => g = f
  BY <1>3, <1>5
<1> HIDE DEF g
<1>9. frame.ok = TRUE /\ frame.got[2] = g
  <2>1. frame.ok = TRUE /\ frame.got = Append(<<10>>, g)
    BY <1>7, PaddedGot, Zenon
  <2>2. Append(<<10>>, g) = <<10, g>>
    BY Tuples, Zenon
  <2> QED BY <2>1, <2>2
<1> DEFINE n == Fields(10, <<>>, <<>>, g, <<>>, <<>>, 0)
<1>10. Decode(Filled(y, k)) = [ok |-> TRUE, m |-> n]
  <2>1. Decode(Filled(y, k)) = [ok |-> frame.ok, m |-> Fields(10, <<>>, <<>>, frame.got[2], <<>>, <<>>, 0)]
    BY <1>5, <1>6, DecodeByType
  <2> QED BY <2>1, <1>9
<1>11. n.type = 10
  BY DEF Fields
<1>12. k >= Len(y) => n = m
  BY <1>8
<1> HIDE DEF n
<1>13. Decodes(Decode(Filled(y, k)), m, k)
  <2>1. y = Encode(m) /\ 10 # 5
    BY DEF y
  <2> QED BY <2>1, <1>1, <1>10, <1>11, <1>12, DecodesFields
<1> QED BY <1>5, <1>13 DEF y

\* A line: whole, true up to the cut, or lost.
LEMMA DecodeLine ==
  ASSUME NEW x \in Seq(Nat), x # <<>>, NEW m, m = Fields(5, <<>>, <<>>, 0, x, <<>>, 0),
         NEW k \in Int, k >= 1
  PROVE  Encode(m) \in Seq(Nat) /\ Encode(m) # <<>> /\ Decodes(Decode(Filled(Encode(m), k)), m, k)
<1> DEFINE y == Encode(m)
           body == PutStr(x)
           s == IF k - 1 >= 1 THEN Filled(x, k - 1 - 1) ELSE <<>>
<1>1. m.type = 5 /\ m.msg = x
  BY DEF Fields
<1>2. y = <<5>> \o body
  BY <1>1, EncodeByType
<1>3. body \in Seq(Nat) /\ Len(body) = 1 + Len(x) /\ Len(x) \in Nat /\ body \o <<>> = body
  <2>1. body \in Seq(Nat) /\ Len(body) = 1 + Len(x) /\ Len(x) \in Nat
    BY PutStrType
  <2> HIDE DEF body
  <2> QED BY <2>1, ConcatEmptySeq
<1> HIDE DEF y, body
<1>4. PICK type : Opened(type, y, 5, body, k)
  BY <1>2, <1>3, TypeKnown
<1>5. /\ y \in Seq(Nat) /\ y # <<>> /\ Len(y) = 1 + Len(body) /\ k - 1 \in Int
      /\ type = TakeInt(Reader(Filled(y, k))) /\ type.ok = TRUE /\ type.got[1] = 5
      /\ Padded(type, body, k - 1, <<5>>)
  BY <1>4 DEF Opened
<1>6. PICK msg : msg = TakeStr(type)
  OBVIOUS
<1>7. Padded(msg, <<>>, k - 1 - 1 - Len(x), Append(<<5>>, s))
  <2>1. Padded(type, PutStr(x) \o <<>>, k - 1, <<5>>)
    BY <1>3, <1>5 DEF body
  <2>2. <<>> \in Seq(Nat) /\ IsSeq(<<5>>)
    <3>1. <<>> \in Seq(Nat)
      OBVIOUS
    <3>2. IsSeq(<<5>>)
      BY Tuples, Zenon
    <3> QED BY <3>1, <3>2
  <2> QED BY <1>5, <1>6, <2>1, <2>2, PaddedStr
<1>8. k >= Len(y) => s = x
  <2> SUFFICES ASSUME k >= Len(y) PROVE s = x
    OBVIOUS
  <2>1. k - 1 >= 1 /\ k - 1 - 1 \in Int /\ k - 1 - 1 >= Len(x)
    BY <1>3, <1>5
  <2> QED BY <2>1, FilledWhole
<1>9. /\ Len(s) \in {0, Len(x)}
      /\ \E j \in 0..Len(x) : \A i \in DOMAIN s : s[i] = IF i <= j THEN x[i] ELSE NUL
  <2>1. CASE ~ (k - 1 >= 1)
    <3>1. s = <<>>
      BY <2>1
    <3> HIDE DEF s
    <3>2. Len(s) = 0 /\ DOMAIN s = {} /\ 0 \in 0..Len(x)
      BY <3>1, <1>3
    <3> QED BY <3>2
  <2>2. CASE k - 1 >= 1
    <3> DEFINE l == k - 1 - 1
               j == IF l <= Len(x) THEN l ELSE Len(x)
    <3>1. s = Filled(x, l) /\ l \in Nat
      BY <2>2
    <3>2. j \in 0..Len(x) /\ \A i \in 1..Len(x) : i <= l <=> i <= j
      BY <3>1, <1>3
    <3> HIDE DEF j, l, s
    <3>3. s = [i \in 1..Len(x) |-> IF i <= l THEN x[i] ELSE NUL]
      BY <3>1 DEF Filled
    <3>4. DOMAIN s = 1..Len(x) /\ \A i \in 1..Len(x) : s[i] = IF i <= l THEN x[i] ELSE NUL
      BY <3>3
    <3>5. Len(s) = Len(x)
      BY <3>4, <1>3
    <3>6. \A i \in DOMAIN s : s[i] = IF i <= j THEN x[i] ELSE NUL
      BY <3>2, <3>4
    <3> QED BY <3>2, <3>5, <3>6
  <2> QED BY <2>1, <2>2
<1> HIDE DEF s
<1>10. msg.ok = TRUE /\ msg.got[2] = s
  <2>1. msg.ok = TRUE /\ msg.got = Append(<<5>>, s)
    BY <1>7, PaddedGot, Zenon
  <2>2. Append(<<5>>, s) = <<5, s>>
    BY Tuples, Zenon
  <2> QED BY <2>1, <2>2
<1> DEFINE n == Fields(5, <<>>, <<>>, 0, s, <<>>, 0)
           d == Decode(Filled(y, k))
<1>11. d = [ok |-> TRUE, m |-> n]
  <2>1. d = [ok |-> msg.ok, m |-> Fields(5, <<>>, <<>>, 0, msg.got[2], <<>>, 0)]
    BY <1>5, <1>6, DecodeByType
  <2> HIDE DEF d
  <2> QED BY <2>1, <1>10
<1>12. n.type = 5 /\ n.msg = s
  BY DEF Fields
<1>13. k >= Len(y) => n = m
  BY <1>8
<1> HIDE DEF n, d
<1>14. d.ok = TRUE /\ d.m = n
  BY <1>11
<1>15. /\ d.ok = TRUE /\ d.m.type = m.type
       /\ k >= Len(Encode(m)) => d.m = m
       /\ Len(d.m.msg) \in {0, Len(m.msg)}
       /\ \E j \in 0..Len(m.msg) : \A i \in DOMAIN d.m.msg :
            d.m.msg[i] = IF i <= j THEN m.msg[i] ELSE NUL
  BY <1>1, <1>9, <1>12, <1>13, <1>14 DEF y
<1>16. Decodes(d, m, k)
  BY <1>15 DEF Decodes
<1> QED BY <1>5, <1>16 DEF y, d

\* The notice of a dead node.
LEMMA DecodeDead ==
  ASSUME NEW u \in Seq(Nat), u # <<>>, NEW v \in Seq(Nat), v # <<>>,
         NEW m, m = Fields(6, u, v, 0, <<>>, <<>>, 0), NEW k \in Int, k >= 1
  PROVE  Encode(m) \in Seq(Nat) /\ Encode(m) # <<>> /\ Decodes(Decode(Filled(Encode(m), k)), m, k)
<1> DEFINE y == Encode(m)
           body == PutStr(u) \o PutStr(v)
           k1 == k - 1
           k2 == k1 - 1 - Len(u)
           a == IF k1 >= 1 THEN Filled(u, k1 - 1) ELSE <<>>
           b == IF k2 >= 1 THEN Filled(v, k2 - 1) ELSE <<>>
<1>1. m.type = 6 /\ m.uuid = u /\ m.ip = v
  BY DEF Fields
<1>2. y = <<6>> \o body
  BY <1>1, EncodeByType
<1>3. /\ PutStr(u) \in Seq(Nat) /\ Len(PutStr(u)) = 1 + Len(u) /\ Len(u) \in Nat
      /\ PutStr(v) \in Seq(Nat) /\ Len(PutStr(v)) = 1 + Len(v) /\ Len(v) \in Nat
      /\ PutStr(v) \o <<>> = PutStr(v)
  <2>1. /\ PutStr(u) \in Seq(Nat) /\ Len(PutStr(u)) = 1 + Len(u) /\ Len(u) \in Nat
        /\ PutStr(v) \in Seq(Nat) /\ Len(PutStr(v)) = 1 + Len(v) /\ Len(v) \in Nat
    BY PutStrType
  <2>2. PutStr(v) \o <<>> = PutStr(v)
    BY <2>1, ConcatEmptySeq
  <2> QED BY <2>1, <2>2
<1>4. body \in Seq(Nat) /\ Len(body) = 2 + Len(u) + Len(v)
  <2>1. body \in Seq(Nat) /\ Len(body) = Len(PutStr(u)) + Len(PutStr(v))
    BY <1>3, ConcatProperties
  <2> HIDE DEF body
  <2>2. (1 + Len(u)) + (1 + Len(v)) = 2 + Len(u) + Len(v)
    BY <1>3
  <2> QED BY <2>1, <2>2, <1>3
<1> HIDE DEF y, body
<1>5. PICK type : Opened(type, y, 6, body, k)
  BY <1>2, <1>4, TypeKnown
<1>6. /\ y \in Seq(Nat) /\ y # <<>> /\ Len(y) = 1 + Len(body) /\ k1 \in Int
      /\ type = TakeInt(Reader(Filled(y, k))) /\ type.ok = TRUE /\ type.got[1] = 6
      /\ Padded(type, body, k1, <<6>>)
  BY <1>5 DEF Opened
<1>7. PICK dead1 : dead1 = TakeStr(type)
  OBVIOUS
<1>8. PICK dead : dead = TakeStr(dead1)
  OBVIOUS
<1>9. k2 \in Int
  BY <1>3, <1>6
<1>10. k >= Len(y) => a = u /\ b = v
  <2> SUFFICES ASSUME k >= Len(y) PROVE a = u /\ b = v
    OBVIOUS
  <2>1. k1 >= 1 /\ k1 - 1 \in Int /\ k1 - 1 >= Len(u)
    BY <1>3, <1>4, <1>6
  <2>2. k2 >= 1 /\ k2 - 1 \in Int /\ k2 - 1 >= Len(v)
    <3> DEFINE p == Len(u)
               q == Len(v)
    <3>1. k >= 1 + (2 + p + q) /\ p \in Nat /\ q \in Nat
      BY <1>3, <1>4, <1>6
    <3> HIDE DEF p, q
    <3>2. k - 1 - 1 - p >= 1 /\ k - 1 - 1 - p - 1 \in Int /\ k - 1 - 1 - p - 1 >= q
      BY <3>1
    <3> QED BY <3>2, Zenon DEF p, q
  <2> HIDE DEF k1, k2
  <2>3. Filled(u, k1 - 1) = u /\ Filled(v, k2 - 1) = v
    BY <2>1, <2>2, FilledWhole
  <2> QED BY <2>1, <2>2, <2>3
<1> HIDE DEF k1
<1>11. Padded(dead1, PutStr(v), k2, <<6, a>>)
  <2>1. Padded(type, PutStr(u) \o PutStr(v), k1, <<6>>)
    BY <1>6 DEF body
  <2>2. IsSeq(<<6>>)
    BY Tuples
  <2>3. Padded(dead1, PutStr(v), k1 - 1 - Len(u), Append(<<6>>, a))
    BY <1>3, <1>6, <1>7, <2>1, <2>2, PaddedStr
  <2> HIDE DEF a
  <2>4. Append(<<6>>, a) = <<6, a>>
    BY Tuples, Zenon
  <2> QED BY <2>3, <2>4
<1> HIDE DEF k2, a
<1>12. Padded(dead, <<>>, k2 - 1 - Len(v), <<6, a, b>>)
  <2>1. Padded(dead1, PutStr(v) \o <<>>, k2, <<6, a>>)
    BY <1>3, <1>11
  <2>2. <<>> \in Seq(Nat) /\ IsSeq(<<6, a>>)
    <3>1. <<>> \in Seq(Nat)
      OBVIOUS
    <3>2. IsSeq(<<6, a>>)
      BY Tuples, Zenon
    <3> QED BY <3>1, <3>2
  <2>3. Padded(dead, <<>>, k2 - 1 - Len(v), Append(<<6, a>>, b))
    BY <1>8, <1>9, <2>1, <2>2, PaddedStr
  <2> HIDE DEF b
  <2>4. Append(<<6, a>>, b) = <<6, a, b>>
    BY Tuples, Zenon
  <2> QED BY <2>3, <2>4
<1> HIDE DEF b
<1>13. dead.ok = TRUE /\ dead.got[2] = a /\ dead.got[3] = b
  <2>1. dead.ok = TRUE /\ dead.got = <<6, a, b>>
    BY <1>12, PaddedGot, Zenon
  <2> QED BY <2>1
<1> DEFINE n == Fields(6, a, b, 0, <<>>, <<>>, 0)
           d == Decode(Filled(y, k))
<1>14. d = [ok |-> TRUE, m |-> n]
  <2>1. dead = TakeStr(TakeStr(type))
    BY <1>7, <1>8
  <2>2. d = [ok |-> dead.ok, m |-> Fields(6, dead.got[2], dead.got[3], 0, <<>>, <<>>, 0)]
    BY <1>6, <2>1, DecodeByType
  <2> HIDE DEF d
  <2> QED BY <2>2, <1>13
<1>15. n.type = 6
  BY DEF Fields
<1>16. k >= Len(y) => n = m
  BY <1>10
<1> HIDE DEF n, d
<1>17. Decodes(d, m, k)
  <2>1. y = Encode(m) /\ 6 # 5
    BY DEF y
  <2> QED BY <2>1, <1>1, <1>14, <1>15, <1>16, DecodesFields
<1> QED BY <1>6, <1>17 DEF y, d

\* A list of peers.
LEMMA DecodeList ==
  ASSUME NEW t \in {8, 9}, NEW n \in Nat, NEW p \in Nat, NEW ps, IsPeers(ps, n), NEW m, m = Fields(t, <<>>, <<>>, 0, <<>>, ps, p),
         NEW k \in Int, k >= 1
  PROVE  Encode(m) \in Seq(Nat) /\ Encode(m) # <<>> /\ Decodes(Decode(Filled(Encode(m), k)), m, k)
<1> DEFINE y == Encode(m)
           flat == PutPeers(ps, n)
           end == <<p>>
           body == <<n>> \o (flat \o end)
<1>1. m.type = t /\ m.peers = ps /\ m.port = p /\ t \in Nat /\ t # 5
  BY DEF Fields
<1>2. Len(ps) = n /\ DOMAIN ps = 1..n
  <2>1. ps = [i \in 1..n |-> ps[i]]
    BY DEF IsPeers
  <2>2. DOMAIN ps = 1..n
    BY <2>1
  <2> QED BY <2>2
<1>3. /\ flat \in Seq(Nat) /\ <<n>> \in Seq(Nat) /\ Len(<<n>>) = 1 /\ end \in Seq(Nat)
      /\ Len(end) = 1
  <2>1. \A i \in 1..n : IsPeer(ps[i])
    BY DEF IsPeers
  <2>2. PICK w : BehindPeers(w, ps, n)
    BY <2>1, PeerParts
  <2>3. 0 \in 0..n
    OBVIOUS
  <2>4. flat \in Seq(Nat)
    BY <2>2, <2>3 DEF BehindPeers
  <2> HIDE DEF flat
  <2> QED BY <2>4
<1>4. body \in Seq(Nat) /\ Len(body) = 2 + Len(flat) /\ Len(flat) \in Nat
      /\ (<<n>> \o flat) \o end = body
  <2> HIDE DEF flat, end
  <2>1. flat \o end \in Seq(Nat) /\ Len(flat \o end) = Len(flat) + 1 /\ Len(flat) \in Nat
    <3>1. flat \o end \in Seq(Nat) /\ Len(flat \o end) = Len(flat) + Len(end)
      BY <1>3, ConcatProperties
    <3>2. Len(flat) \in Nat
      BY <1>3
    <3> QED BY <3>1, <3>2, <1>3
  <2>2. body \in Seq(Nat) /\ Len(body) = 1 + Len(flat \o end)
    BY <1>3, <2>1, ConcatProperties
  <2>3. (<<n>> \o flat) \o end = <<n>> \o (flat \o end)
    BY <1>3, Associative, Zenon
  <2> HIDE DEF body
  <2>4. Len(body) = 2 + Len(flat)
    BY <2>1, <2>2
  <2> QED BY <2>1, <2>2, <2>3, <2>4 DEF body
<1>5. y = <<t>> \o body
  <2>1. y = <<t>> \o ((<<Len(m.peers)>> \o FlattenSeq([i \in DOMAIN m.peers |-> PutPeer(m.peers[i])]))
                        \o <<m.port>>)
    BY <1>1, EncodeByType
  <2>2. FlattenSeq([i \in DOMAIN m.peers |-> PutPeer(m.peers[i])]) = flat
    BY <1>1, <1>2 DEF PutPeers
  <2> HIDE DEF y, flat, body
  <2>3. y = <<t>> \o ((<<n>> \o flat) \o end)
    BY <1>1, <1>2, <2>1, <2>2
  <2> QED BY <2>3, <1>4
<1> HIDE DEF y, body
<1>6. PICK type : Opened(type, y, t, body, k)
  BY <1>1, <1>4, <1>5, TypeKnown
<1>7. /\ y \in Seq(Nat) /\ y # <<>> /\ Len(y) = 1 + Len(body) /\ k - 1 \in Int
      /\ type = TakeInt(Reader(Filled(y, k))) /\ type.ok = TRUE /\ type.got[1] = t
      /\ Padded(type, body, k - 1, <<t>>)
  BY <1>6 DEF Opened
<1>8. ListRead(GetPeers(type), ps, n, p, k - 1, <<t>>)
  <2>1. Padded(type, <<n>> \o (PutPeers(ps, n) \o <<p>>), k - 1, <<t>>)
    BY <1>7 DEF body
  <2>2. IsSeq(<<t>>)
    BY Tuples, Zenon
  <2> HIDE DEF flat, end
  <2>3. k - 1 \in Int
    BY <1>7
  <2> QED BY <2>1, <2>2, <2>3, PaddedPeers
<1>9. PICK got : \E j \in Int :
         /\ Padded(GetPeers(type), end, j, Append(<<t>>, got))
         /\ k - 1 >= 2 + Len(flat) => j >= 1 /\ got = ps
  BY <1>8 DEF ListRead
<1>10. PICK j \in Int :
         /\ Padded(GetPeers(type), end, j, Append(<<t>>, got))
         /\ k - 1 >= 2 + Len(flat) => j >= 1 /\ got = ps
  BY <1>9
<1>11. PICK change : change = TakeInt(GetPeers(type))
  OBVIOUS
<1> DEFINE q == IF j >= 1 THEN p ELSE 0
<1>12. Padded(change, <<>>, j - 1, Append(Append(<<t>>, got), q))
  <2>1. <<>> \in Seq(Nat) /\ <<p>> \o <<>> = end
    OBVIOUS
  <2>2. Padded(GetPeers(type), <<p>> \o <<>>, j, Append(<<t>>, got))
    BY <1>10, <2>1
  <2> QED BY <1>11, <2>1, <2>2, PaddedInt
<1>13. k >= Len(y) => got = ps /\ q = p
  <2> SUFFICES ASSUME k >= Len(y) PROVE got = ps /\ q = p
    OBVIOUS
  <2> HIDE DEF flat
  <2>1. k - 1 >= 2 + Len(flat)
    BY <1>4, <1>7
  <2> QED BY <2>1, <1>10
<1> HIDE DEF q
<1>14. change.ok = TRUE /\ change.got[2] = got /\ change.got[3] = q
  <2>1. change.ok = TRUE /\ change.got = Append(Append(<<t>>, got), q)
    BY <1>12, PaddedGot, Zenon
  <2>2. Append(Append(<<t>>, got), q) = <<t, got, q>>
    BY Triple
  <2> QED BY <2>1, <2>2
<1> DEFINE o == Fields(t, <<>>, <<>>, 0, <<>>, got, q)
           d == Decode(Filled(y, k))
<1>15. d = [ok |-> TRUE, m |-> o]
  <2>1. d = [ok |-> change.ok, m |-> Fields(t, <<>>, <<>>, 0, <<>>, change.got[2], change.got[3])]
    BY <1>7, <1>11, DecodeByType
  <2> HIDE DEF d
  <2> QED BY <2>1, <1>14
<1>16. o.type = t
  BY DEF Fields
<1>17. k >= Len(y) => o = m
  BY <1>13
<1> HIDE DEF o, d
<1>18. Decodes(d, m, k)
  <2>1. y = Encode(m)
    BY DEF y
  <2> QED BY <2>1, <1>1, <1>15, <1>16, <1>17, DecodesFields
<1> QED BY <1>7, <1>18 DEF y, d

\* Every message.
LEMMA DecodeEncoded ==
  ASSUME NEW m, Sendable(m), NEW k \in Int, k >= 1
  PROVE  Encode(m) \in Seq(Nat) /\ Encode(m) # <<>> /\ Decodes(Decode(Filled(Encode(m), k)), m, k)
<1> DEFINE C == Encode(m) \in Seq(Nat) /\ Encode(m) # <<>> /\ Decodes(Decode(Filled(Encode(m), k)), m, k)
<1>1. ASSUME NEW t \in {0, 1, 3}, m = Fields(t, <<>>, <<>>, 0, <<>>, <<>>, 0)
      PROVE  C
  BY <1>1, DecodePlain
<1>2. ASSUME NEW f \in Nat, m = Fields(10, <<>>, <<>>, f, <<>>, <<>>, 0)
      PROVE  C
  BY <1>2, DecodeAck
<1>3. ASSUME NEW x \in Seq(Nat), x # <<>>, m = Fields(5, <<>>, <<>>, 0, x, <<>>, 0)
      PROVE  C
  BY <1>3, DecodeLine
<1>4. ASSUME NEW u \in Seq(Nat), NEW v \in Seq(Nat), u # <<>>, v # <<>>,
             m = Fields(6, u, v, 0, <<>>, <<>>, 0)
      PROVE  C
  BY <1>4, DecodeDead
<1>5. ASSUME NEW t \in {8, 9}, NEW n \in Nat, NEW p \in Nat, NEW ps, IsPeers(ps, n),
             m = Fields(t, <<>>, <<>>, 0, <<>>, ps, p)
      PROVE  C
  BY <1>5, DecodeList
<1> HIDE DEF C
<1>6. C
  BY <1>1, <1>2, <1>3, <1>4, <1>5 DEF Sendable
<1> QED BY <1>6 DEF C

\* One more value is read.
LEMMA Fourth ==
  ASSUME NEW a, NEW b, NEW c, NEW d
  PROVE  Append(<<a, b, c>>, d) = <<a, b, c, d>>
<1> DEFINE G == {a, b, c, d}
           s == <<a, b, c>>
           t == <<a, b, c, d>>
<1>1. /\ s \in Seq(G) /\ t \in Seq(G) /\ Len(s) = 3 /\ Len(t) = 4
      /\ t[4] = d /\ \A i \in 1..3 : t[i] = s[i]
  OBVIOUS
<1> HIDE DEF s, t
<1>2. Len(t) = Len(s) + 1 /\ \A i \in 1..Len(s) : t[i] = s[i]
  BY <1>1
<1>3. Append(s, t[Len(s) + 1]) = t
  BY <1>1, <1>2, AppendEquals
<1>4. Append(s, d) = t
  BY <1>1, <1>3
<1> QED BY <1>4 DEF s, t

\* And another.
LEMMA Fifth ==
  ASSUME NEW a, NEW b, NEW c, NEW d, NEW e
  PROVE  Append(<<a, b, c, d>>, e) = <<a, b, c, d, e>>
<1> DEFINE G == {a, b, c, d, e}
           s == <<a, b, c, d>>
           t == <<a, b, c, d, e>>
<1>1. /\ s \in Seq(G) /\ t \in Seq(G) /\ Len(s) = 4 /\ Len(t) = 5
      /\ t[5] = e /\ \A i \in 1..4 : t[i] = s[i]
  OBVIOUS
<1> HIDE DEF s, t
<1>2. Len(t) = Len(s) + 1 /\ \A i \in 1..Len(s) : t[i] = s[i]
  BY <1>1
<1>3. Append(s, t[Len(s) + 1]) = t
  BY <1>1, <1>2, AppendEquals
<1>4. Append(s, e) = t
  BY <1>1, <1>3
<1> QED BY <1>4 DEF s, t


\* An id has its length, and is written as it is.
IsId(u) == u \in Seq(Nat) /\ u # <<>> /\ Len(u) = IdLen /\ PutId(u) = u

\* So is every id of the model.
LEMMA IdIsId ==
  ASSUME NEW n \in Nat
  PROVE  IsId(Id(n))
<1>1. Id(n) \in [1..IdLen -> Nat] /\ \A i \in 1..IdLen : Id(n)[i] = n
  BY DEF Id
<1>2. Id(n) \in Seq(Nat) /\ Len(Id(n)) = IdLen
  <2> DEFINE u == Id(n)
  <2>1. u \in [1..IdLen -> Nat]
    BY <1>1
  <2> HIDE DEF u
  <2>2. u \in Seq(Nat) /\ Len(u) = IdLen
    BY <2>1, LengthAssumption
  <2> QED BY <2>2 DEF u
<1>3. PutId(Id(n)) = Id(n)
  <2>1. \A i \in 1..IdLen : i <= Len(Id(n))
    BY <1>2
  <2>2. PutId(Id(n)) = [i \in 1..IdLen |-> n]
    BY <1>1, <2>1 DEF PutId
  <2> QED BY <2>2 DEF Id
<1>4. Id(n) # <<>>
  BY <1>2, LengthAssumption
<1> QED BY <1>2, <1>3, <1>4 DEF IsId

\* Two sequences make a third.
LEMMA Joined ==
  ASSUME NEW s \in Seq(Nat), NEW t \in Seq(Nat), NEW u \in Seq(Nat), Len(u) = Len(s) + Len(t),
         \A i \in 1..Len(u) : u[i] = IF i <= Len(s) THEN s[i] ELSE t[i - Len(s)]
  PROVE  s \o t = u
<1> DEFINE v == s \o t
<1>1. /\ v \in Seq(Nat) /\ Len(v) = Len(u)
      /\ \A i \in 1..Len(u) : v[i] = IF i <= Len(s) THEN s[i] ELSE t[i - Len(s)]
  BY ConcatProperties
<1> HIDE DEF v
<1>2. \A i \in 1..Len(v) : v[i] = u[i]
  BY <1>1
<1>3. v = u
  BY <1>1, <1>2, SeqEqual
<1> QED BY <1>3 DEF v

\* Three integers in front of something.
LEMMA ThreeInFront ==
  ASSUME NEW a \in Nat, NEW b \in Nat, NEW c \in Nat, NEW y \in Seq(Nat)
  PROVE  <<a, b, c>> \o y = <<a>> \o (<<b>> \o (<<c>> \o y))
<1>1. /\ <<a>> \in Seq(Nat) /\ <<b>> \in Seq(Nat) /\ <<c>> \in Seq(Nat) /\ <<b, c>> \in Seq(Nat)
      /\ <<a>> \o <<b, c>> = <<a, b, c>> /\ <<b>> \o <<c>> = <<b, c>>
  <2>1. /\ <<a>> \in Seq(Nat) /\ <<b>> \in Seq(Nat) /\ <<c>> \in Seq(Nat) /\ <<b, c>> \in Seq(Nat)
    OBVIOUS
  <2>2. <<b>> \o <<c>> = <<b, c>>
    <3> DEFINE s == <<b>>
               t == <<c>>
               u == <<b, c>>
    <3>1. /\ s \in Seq(Nat) /\ t \in Seq(Nat) /\ u \in Seq(Nat) /\ Len(s) = 1 /\ Len(t) = 1
          /\ Len(u) = 2 /\ s[1] = b /\ t[1] = c /\ u[1] = b /\ u[2] = c
      OBVIOUS
    <3> HIDE DEF s, t, u
    <3>2. \A i \in 1..Len(u) : u[i] = IF i <= Len(s) THEN s[i] ELSE t[i - Len(s)]
      BY <3>1
    <3>3. Len(u) = Len(s) + Len(t)
      BY <3>1
    <3>4. s \o t = u
      BY <3>1, <3>2, <3>3, Joined
    <3> QED BY <3>4 DEF s, t, u
  <2>3. <<a>> \o <<b, c>> = <<a, b, c>>
    <3> DEFINE s == <<a>>
               t == <<b, c>>
               u == <<a, b, c>>
    <3>1. /\ s \in Seq(Nat) /\ t \in Seq(Nat) /\ u \in Seq(Nat) /\ Len(s) = 1 /\ Len(t) = 2
          /\ Len(u) = 3 /\ s[1] = u[1] /\ t[1] = u[2] /\ t[2] = u[3]
      OBVIOUS
    <3> HIDE DEF s, t, u
    <3>2. \A i \in 1..Len(u) : u[i] = IF i <= Len(s) THEN s[i] ELSE t[i - Len(s)]
      BY <3>1
    <3>3. Len(u) = Len(s) + Len(t)
      BY <3>1
    <3>4. s \o t = u
      BY <3>1, <3>2, <3>3, Joined
    <3> QED BY <3>4 DEF s, t, u
  <2> QED BY <2>1, <2>2, <2>3
<1>2. (<<a>> \o <<b, c>>) \o y = <<a>> \o (<<b, c>> \o y)
  BY <1>1, Associative, ZenonT(30)
<1>3. (<<b>> \o <<c>>) \o y = <<b>> \o (<<c>> \o y)
  BY <1>1, Associative, ZenonT(30)
<1>4. <<a, b, c>> \o y = <<a>> \o (<<b, c>> \o y)
  BY <1>1, <1>2, Zenon
<1>5. <<b, c>> \o y = <<b>> \o (<<c>> \o y)
  BY <1>1, <1>3, Zenon
<1> QED BY <1>4, <1>5, Zenon

\* What the decoder of an envelope has before its length.
UnicastHead(data) == Take(Take(TakeInt(TakeInt(TakeInt(Reader(data)))), IdLen), IdLen)

\* It is always whole: g was read of s before y, of which j cells arrived.
Headed(s, y, j, g) ==
  /\ s \in Seq(Nat) /\ Len(s) = 3 + 2 * IdLen + Len(y)
  /\ UnicastHead(SubSeq(s, 1, j + 3 + 2 * IdLen)) = At(y, j, g)

\* What precedes the message is read back.
LEMMA HeadAt ==
  ASSUME NEW a \in Nat, NEW b \in Nat, NEW c \in Nat, NEW u, NEW v, IsId(u), IsId(v),
         NEW y \in Seq(Nat), NEW j \in 0..Len(y)
  PROVE  Headed(((<<a, b, c>> \o u) \o v) \o y, y, j, <<a, b, c, u, v>>)
<1> DEFINE s == ((<<a, b, c>> \o u) \o v) \o y
           y2 == v \o y
           y3 == u \o y2
           y4 == <<c>> \o y3
           y5 == <<b>> \o y4
           k == j + 3 + 2 * IdLen
<1>1. u \in Seq(Nat) /\ v \in Seq(Nat) /\ Len(u) = IdLen /\ Len(v) = IdLen
  BY DEF IsId
<1>2. /\ IdLen \in Nat /\ IdLen > 0 /\ Len(y) \in Nat /\ j \in Nat /\ j <= Len(y)
      /\ j + IdLen \in Nat /\ j + 2 * IdLen \in Nat
  BY LengthAssumption
<1>3. y2 \in Seq(Nat) /\ Len(y2) = IdLen + Len(y)
  <2>1. \A a1, b1 \in Seq(Nat) : a1 \o b1 \in Seq(Nat) /\ Len(a1 \o b1) = Len(a1) + Len(b1)
    BY ConcatProperties
  <2> QED BY <1>1, <2>1, Zenon
<1> HIDE DEF y2
<1>4. y3 \in Seq(Nat) /\ Len(y3) = 2 * IdLen + Len(y)
  <2>1. y3 \in Seq(Nat) /\ Len(y3) = Len(u) + Len(y2)
    BY <1>1, <1>3, ConcatProperties
  <2> HIDE DEF y3
  <2> QED BY <1>1, <1>2, <1>3, <2>1
<1>5. s = <<a>> \o y5
  <2>1. <<a, b, c>> \in Seq(Nat)
    OBVIOUS
  <2>2. <<a, b, c>> \o u \in Seq(Nat)
    BY <1>1, <2>1, ConcatProperties
  <2>3. s = (<<a, b, c>> \o u) \o y2
    BY <1>1, <2>2, Associative, Zenon DEF y2
  <2>4. (<<a, b, c>> \o u) \o y2 = <<a, b, c>> \o y3
    BY <1>1, <1>3, <2>1, Associative, Zenon
  <2> HIDE DEF y3
  <2>5. <<a, b, c>> \o y3 = <<a>> \o y5
    BY <1>4, ThreeInFront
  <2> QED BY <2>3, <2>4, <2>5
<1> HIDE DEF y3
<1>6. y4 \in Seq(Nat) /\ Len(y4) = 1 + 2 * IdLen + Len(y)
  <2>1. <<c>> \in Seq(Nat) /\ Len(<<c>>) = 1
    OBVIOUS
  <2>2. y4 \in Seq(Nat) /\ Len(y4) = 1 + Len(y3)
    BY <1>4, <2>1, ConcatProperties
  <2> HIDE DEF y4
  <2> QED BY <1>2, <1>4, <2>2
<1> HIDE DEF y4
<1>7. y5 \in Seq(Nat) /\ Len(y5) = 2 + 2 * IdLen + Len(y)
  <2>1. <<b>> \in Seq(Nat) /\ Len(<<b>>) = 1
    OBVIOUS
  <2>2. y5 \in Seq(Nat) /\ Len(y5) = 1 + Len(y4)
    BY <1>6, <2>1, ConcatProperties
  <2> HIDE DEF y5
  <2> QED BY <1>2, <1>6, <2>2
<1> HIDE DEF y5
<1>8. s \in Seq(Nat) /\ Len(s) = 3 + 2 * IdLen + Len(y)
  <2>1. <<a>> \in Seq(Nat) /\ Len(<<a>>) = 1
    OBVIOUS
  <2>2. <<a>> \o y5 \in Seq(Nat) /\ Len(<<a>> \o y5) = 1 + Len(y5)
    BY <1>7, <2>1, ConcatProperties
  <2> HIDE DEF s
  <2> QED BY <1>2, <1>5, <1>7, <2>2
<1> HIDE DEF s
<1>9. TakeInt(Reader(SubSeq(s, 1, k))) = At(y5, j + 2 + 2 * IdLen, <<a>>)
  <2> DEFINE r == At(<<a>> \o y5, k, <<>>)
  <2>1. Reader(SubSeq(s, 1, k)) = r
    BY <1>5 DEF Reader, At
  <2>2. k \in 1..(Len(y5) + 1) /\ k - 1 = j + 2 + 2 * IdLen
    BY <1>2, <1>7
  <2>3. Append(<<>>, a) = <<a>>
    OBVIOUS
  <2> HIDE DEF k
  <2>4. TakeInt(r) = At(y5, k - 1, Append(<<>>, a))
    BY <1>7, <2>2, TakeIntAt
  <2> HIDE DEF r
  <2> QED BY <2>1, <2>2, <2>3, <2>4
<1>10. TakeInt(At(y5, j + 2 + 2 * IdLen, <<a>>)) = At(y4, j + 1 + 2 * IdLen, <<a, b>>)
  <2> DEFINE l == j + 2 + 2 * IdLen
  <2>1. l \in 1..(Len(y4) + 1) /\ l - 1 = j + 1 + 2 * IdLen
    BY <1>2, <1>6
  <2>2. Append(<<a>>, b) = <<a, b>>
    BY Tuples, Zenon
  <2> HIDE DEF l
  <2>3. TakeInt(At(<<b>> \o y4, l, <<a>>)) = At(y4, l - 1, Append(<<a>>, b))
    BY <1>6, <2>1, TakeIntAt
  <2> QED BY <2>1, <2>2, <2>3 DEF l, y5
<1>11. TakeInt(At(y4, j + 1 + 2 * IdLen, <<a, b>>)) = At(y3, j + 2 * IdLen, <<a, b, c>>)
  <2> DEFINE l == j + 1 + 2 * IdLen
  <2>1. l \in 1..(Len(y3) + 1) /\ l - 1 = j + 2 * IdLen
    BY <1>2, <1>4
  <2>2. Append(<<a, b>>, c) = <<a, b, c>>
    BY Third
  <2> HIDE DEF l
  <2>3. TakeInt(At(<<c>> \o y3, l, <<a, b>>)) = At(y3, l - 1, Append(<<a, b>>, c))
    BY <1>4, <2>1, TakeIntAt
  <2> QED BY <2>1, <2>2, <2>3 DEF l, y4
<1>12. Take(At(y3, j + 2 * IdLen, <<a, b, c>>), IdLen) = At(y2, j + IdLen, <<a, b, c, u>>)
  <2> DEFINE l == j + 2 * IdLen
  <2>1. l \in Len(u)..(Len(u) + Len(y2)) /\ l > 0 /\ l - Len(u) = j + IdLen
    BY <1>1, <1>2, <1>3
  <2>2. Append(<<a, b, c>>, u) = <<a, b, c, u>>
    BY Fourth, Zenon
  <2> HIDE DEF l
  <2>3. Take(At(u \o y2, l, <<a, b, c>>), Len(u)) = At(y2, l - Len(u), Append(<<a, b, c>>, u))
    BY <1>1, <1>3, <2>1, TakeAt
  <2> QED BY <1>1, <2>1, <2>2, <2>3 DEF l, y3
<1>13. Take(At(y2, j + IdLen, <<a, b, c, u>>), IdLen) = At(y, j, <<a, b, c, u, v>>)
  <2> DEFINE l == j + IdLen
  <2>1. l \in Len(v)..(Len(v) + Len(y)) /\ l > 0 /\ l - Len(v) = j
    BY <1>1, <1>2
  <2>2. Append(<<a, b, c, u>>, v) = <<a, b, c, u, v>>
    BY Fifth, Zenon
  <2> HIDE DEF l
  <2>3. Take(At(v \o y, l, <<a, b, c, u>>), Len(v)) = At(y, l - Len(v), Append(<<a, b, c, u>>, v))
    BY <1>1, <2>1, TakeAt
  <2> QED BY <1>1, <2>1, <2>2, <2>3 DEF l, y2
<1>14. UnicastHead(SubSeq(s, 1, k)) = At(y, j, <<a, b, c, u, v>>)
  BY <1>9, <1>10, <1>11, <1>12, <1>13 DEF UnicastHead
<1>15. Headed(s, y, j, <<a, b, c, u, v>>)
  BY <1>8, <1>14 DEF Headed
<1> QED BY <1>15 DEF s

\* What a unicast envelope holds.
Envelope(response, frame, tries, from, to) ==
  [response |-> response, frame |-> frame, tries |-> tries, from |-> from, to |-> to]

\* A failed reader is not ok.
LEMMA FailedNotOk ==
  ASSUME NEW r, Failed(r)
  PROVE  r.ok = FALSE
BY DEF Failed

\* What a listener has of a message: it is not taken for whole, or it is filled
\* up behind the cut, of at least one cell.
Held(d, message, whole) ==
  /\ d.ok = FALSE \/ d.ok = TRUE
  /\ d.ok = TRUE => \E j \in Int : /\ j >= 1 /\ d.message = Filled(message, j)
                                   /\ whole => j >= Len(message)
  /\ whole => d.ok = TRUE

\* The end of an envelope, where a message x and its length were written, of which
\* j cells and no more arrived.
EndRead(r, x, j, g) ==
  /\ r.ok = FALSE \/ r.ok = TRUE
  /\ r.ok = TRUE => \E i \in Int : /\ i >= 1 /\ r.got = Append(g, Filled(x, i))
                                   /\ j = 1 + Len(x) => i >= Len(x)
  /\ j = 1 + Len(x) => r.ok = TRUE
  /\ j >= 2 => r.ok = TRUE

\* That is how TakeStr ends.
LEMMA MessageAt ==
  ASSUME NEW x \in Seq(Nat), x # <<>>, NEW j \in 0..(1 + Len(x)), NEW g, IsSeq(g),
         NEW r, r = TakeStr(At(PutStr(x), j, g))
  PROVE  EndRead(r, x, j, g)
<1>1. <<>> \in Seq(Nat) /\ Len(<<>>) = 0 /\ Len(x) \in Nat \ {0}
  OBVIOUS
<1>2. PutStr(x) \o <<>> = PutStr(x)
  <2>1. PutStr(x) \in Seq(Nat)
    BY PutStrType
  <2> QED BY <2>1, ConcatEmptySeq
<1>3. j \in 0..(1 + Len(x) + Len(<<>>))
  BY <1>1
<1>4. /\ j >= 1 + Len(x) =>
           TakeStr(At(PutStr(x) \o <<>>, j, g)) = At(<<>>, j - 1 - Len(x), Append(g, x))
      /\ j \in 2..(1 + Len(x)) =>
           TakeStr(At(PutStr(x) \o <<>>, j, g))
             = [rest |-> <<>>, ok |-> TRUE, got |-> Append(g, Filled(x, j - 1))]
      /\ j <= 1 => Failed(TakeStr(At(PutStr(x) \o <<>>, j, g)))
  BY <1>1, <1>3, TakeStrAt
<1>5. /\ j \in 2..(1 + Len(x)) => r = [rest |-> <<>>, ok |-> TRUE, got |-> Append(g, Filled(x, j - 1))]
      /\ j <= 1 => Failed(r)
  BY <1>2, <1>4
<1>6. CASE j <= 1
  <2>1. Failed(r) /\ j # 1 + Len(x) /\ ~ (j >= 2)
    BY <1>1, <1>5, <1>6
  <2>2. r.ok = FALSE
    BY <2>1, FailedNotOk, Zenon
  <2> QED BY <2>1, <2>2 DEF EndRead
<1>7. CASE j > 1
  <2>1. j \in 2..(1 + Len(x)) /\ j - 1 \in Int /\ j - 1 >= 1 /\ (j = 1 + Len(x) => j - 1 >= Len(x))
    BY <1>1, <1>7
  <2>2. r.ok = TRUE /\ r.got = Append(g, Filled(x, j - 1))
    BY <1>5, <2>1
  <2> QED BY <2>1, <2>2 DEF EndRead
<1>8. j <= 1 \/ j > 1
  BY <1>1
<1> QED BY <1>6, <1>7, <1>8

\* What is decoded of an envelope and its message.
UnicastTaken(d, e, x, a, whole) ==
  /\ d.e = e
  /\ a = 1 => d.ok = TRUE
  /\ a = 0 => Held(d, x, whole)

\* DecodeUnicast returns that.
LEMMA UnicastRead ==
  ASSUME NEW a \in {0, 1}, NEW b \in Nat, NEW c \in Nat, NEW u, NEW v, IsId(u), IsId(v),
         NEW e, e = Envelope(a, b, c, u, v), NEW x \in Seq(Nat), x # <<>>,
         NEW s, s = EncodeUnicast(e, x), NEW k \in Nat, k <= Len(s),
         k >= 3 + 2 * IdLen \/ k = Len(s),
         NEW d, d = DecodeUnicast(SubSeq(s, 1, k)), NEW whole \in BOOLEAN, whole <=> k = Len(s)
  PROVE  UnicastTaken(d, e, x, a, whole)
<1> DEFINE y == IF a = 1 THEN <<>> ELSE PutStr(x)
           g == <<a, b, c, u, v>>
           j == k - (3 + 2 * IdLen)
<1>1. /\ e.response = a /\ e.frame = b /\ e.tries = c /\ e.from = u /\ e.to = v
      /\ a \in Nat /\ PutId(u) = u /\ PutId(v) = v
  BY DEF Envelope, IsId
<1>2. s = ((<<a, b, c>> \o u) \o v) \o y
  BY <1>1 DEF EncodeUnicast
<1>3. y \in Seq(Nat) /\ Len(y) = (IF a = 1 THEN 0 ELSE 1 + Len(x)) /\ Len(x) \in Nat
  <2>1. PutStr(x) \in Seq(Nat) /\ Len(PutStr(x)) = 1 + Len(x) /\ Len(x) \in Nat
    BY PutStrType
  <2>2. <<>> \in Seq(Nat) /\ Len(<<>>) = 0
    OBVIOUS
  <2> QED BY <2>1, <2>2
<1> HIDE DEF y
<1>4. \A i \in 0..Len(y) : /\ s \in Seq(Nat) /\ Len(s) = 3 + 2 * IdLen + Len(y)
                           /\ UnicastHead(SubSeq(s, 1, i + 3 + 2 * IdLen)) = At(y, i, g)
  <2> TAKE i \in 0..Len(y)
  <2>1. a \in Nat /\ y \in Seq(Nat)
    BY <1>1, <1>3
  <2>2. Headed(((<<a, b, c>> \o u) \o v) \o y, y, i, <<a, b, c, u, v>>)
    BY <2>1, HeadAt
  <2>3. Headed(s, y, i, g)
    BY <1>2, <2>2
  <2> HIDE DEF g
  <2> QED BY <2>3 DEF Headed
<1>5. s \in Seq(Nat) /\ Len(s) = 3 + 2 * IdLen + Len(y) /\ Len(y) \in Nat /\ 2 * IdLen \in Nat
  <2>1. 0 \in 0..Len(y) /\ Len(y) \in Nat
    BY <1>3
  <2>2. 2 * IdLen \in Nat
    BY LengthAssumption
  <2> QED BY <1>4, <2>1, <2>2
<1>6. j \in 0..Len(y) /\ j + 3 + 2 * IdLen = k /\ (k = Len(s) <=> j = Len(y))
  <2> DEFINE l == 2 * IdLen
             n == Len(y)
             m == Len(s)
  <2>1. l \in Nat /\ n \in Nat /\ m = 3 + l + n /\ (k >= 3 + l \/ k = m) /\ k <= m
    BY <1>5
  <2> HIDE DEF l, n, m
  <2>2. k - (3 + l) \in 0..n /\ (k - (3 + l)) + 3 + l = k /\ (k = m <=> k - (3 + l) = n)
    BY <2>1
  <2> QED BY <2>2, Zenon DEF l, n, m
<1> HIDE DEF j
<1>7. UnicastHead(SubSeq(s, 1, k)) = At(y, j, g)
  BY <1>4, <1>6
<1>8. PICK h : h = UnicastHead(SubSeq(s, 1, k))
  OBVIOUS
<1>9. PICK message : message = TakeStr(h)
  OBVIOUS
<1>10. h.ok = TRUE /\ h.got = g
  BY <1>7, <1>8 DEF At
<1>11. /\ h.got[1] = a /\ h.got[2] = b /\ h.got[3] = c /\ h.got[4] = u /\ h.got[5] = v
  BY <1>10
<1>12. d = [ok |-> (IF h.got[1] = 1 THEN h ELSE message).ok,
            e |-> [response |-> h.got[1], frame |-> h.got[2], tries |-> h.got[3],
                   from |-> h.got[4], to |-> h.got[5]],
            message |-> IF h.got[1] = 1 THEN <<>> ELSE message.got[6]]
  BY <1>8, <1>9 DEF DecodeUnicast, UnicastHead
<1>13. d.e = e
  BY <1>11, <1>12 DEF Envelope
<1>14. ASSUME a = 1
       PROVE  d.ok = TRUE
  BY <1>10, <1>11, <1>12, <1>14
<1>15. ASSUME a = 0
       PROVE  Held(d, x, whole)
  <2>1. y = PutStr(x) /\ Len(y) = 1 + Len(x)
    BY <1>3, <1>15 DEF y
  <2>2. d.ok = message.ok /\ d.message = message.got[6]
    BY <1>11, <1>12, <1>15
  <2>3. IsSeq(g)
    BY Tuples, Zenon
  <2>4. EndRead(message, x, j, g)
    <3>1. message = TakeStr(At(PutStr(x), j, g))
      BY <1>7, <1>8, <1>9, <2>1
    <3>2. j \in 0..(1 + Len(x))
      BY <1>6, <2>1
    <3> HIDE DEF g
    <3> QED BY <2>3, <3>1, <3>2, MessageAt
  <2>5. \A i : Append(g, Filled(x, i))[6] = Filled(x, i)
    <3> TAKE i
    <3> DEFINE f == Filled(x, i)
    <3> HIDE DEF f
    <3>1. Len(g) = 5 /\ Append(g, f)[Len(g) + 1] = f
      BY <2>3, AppendIsSeq
    <3> HIDE DEF g
    <3>2. Len(g) + 1 = 6
      BY <3>1
    <3>3. Append(g, f)[6] = f
      BY <3>1, <3>2, Zenon
    <3> QED BY <3>3 DEF f
  <2> HIDE DEF g
  <2>6. whole <=> j = 1 + Len(x)
    BY <1>6, <2>1
  <2>7. ASSUME d.ok = TRUE
        PROVE  \E i \in Int : /\ i >= 1 /\ d.message = Filled(x, i)
                              /\ whole => i >= Len(x)
    <3>1. PICK i \in Int : /\ i >= 1 /\ message.got = Append(g, Filled(x, i))
                           /\ j = 1 + Len(x) => i >= Len(x)
      BY <2>2, <2>4, <2>7 DEF EndRead
    <3>2. d.message = Filled(x, i)
      BY <2>2, <2>5, <3>1
    <3> QED BY <2>6, <3>1, <3>2
  <2> QED BY <2>2, <2>4, <2>6, <2>7 DEF Held, EndRead
<1> QED BY <1>13, <1>14, <1>15 DEF UnicastTaken

\* A reader that has y before it, of which q cells arrived, or that is spent.
Left(r, y, q, g) == (q >= 0 => r = At(y, q, g)) /\ (q < 0 => Spent(r))

\* One entry of a vector clock: taken if all of it is there, and nothing can be
\* read after it if not.
LEMMA EntryRead ==
  ASSUME NEW x \in Nat, NEW u, IsId(u), NEW z \in Seq(Nat),
         NEW p \in Int, p <= 1 + IdLen + Len(z), NEW g, NEW r,
         Left(r, (<<x>> \o u) \o z, p, g)
  PROVE  Left(Take(TakeInt(r), IdLen), z, p - (1 + IdLen), Append(Append(g, x), u))
<1>1. (p >= 0 => r = At((<<x>> \o u) \o z, p, g)) /\ (p < 0 => Spent(r))
  BY DEF Left
<1> SUFFICES /\ p - (1 + IdLen) >= 0 =>
                  Take(TakeInt(r), IdLen) = At(z, p - (1 + IdLen), Append(Append(g, x), u))
             /\ p - (1 + IdLen) < 0 => Spent(Take(TakeInt(r), IdLen))
  BY DEF Left
<1> DEFINE y == u \o z
           h == Append(g, x)
           l == TakeInt(r)
<1>2. u \in Seq(Nat) /\ Len(u) = IdLen /\ IdLen \in Nat \ {0} /\ Len(z) \in Nat
  BY LengthAssumption DEF IsId
<1>3. y \in Seq(Nat) /\ Len(y) = IdLen + Len(z)
  BY <1>2, ConcatProperties
<1>4. (<<x>> \o u) \o z = <<x>> \o y
  <2>1. <<x>> \in Seq(Nat)
    OBVIOUS
  <2> QED BY <1>2, <2>1, Associative, Zenon
<1> HIDE DEF y
<1>5. Spent(r) => Spent(Take(l, IdLen))
  <2> SUFFICES ASSUME Spent(r) PROVE Spent(Take(l, IdLen))
    OBVIOUS
  <2>1. Failed(l)
    BY SpentFails
  <2> HIDE DEF l
  <2>2. Spent(l)
    BY <2>1 DEF Spent
  <2>3. Failed(Take(l, IdLen))
    BY <2>2, SpentFails
  <2> QED BY <2>3 DEF Spent
<1>6. CASE p < 0
  <2>1. p - (1 + IdLen) < 0 /\ ~ (p - (1 + IdLen) >= 0)
    BY <1>2, <1>6
  <2> QED BY <1>1, <1>5, <1>6, <2>1
<1>7. CASE p = 0
  <2>1. p - (1 + IdLen) < 0 /\ ~ (p - (1 + IdLen) >= 0)
    BY <1>2, <1>7
  <2>2. Spent(r)
    BY <1>1, <1>7, AtEnd
  <2> QED BY <1>5, <2>1, <2>2
<1>8. CASE p > 0
  <2>1. p \in 1..(Len(y) + 1) /\ p >= 0
    BY <1>2, <1>3, <1>8
  <2>2. r = At(<<x>> \o y, p, g)
    BY <1>1, <1>4, <2>1
  <2>3. l = At(y, p - 1, h)
    BY <1>3, <2>1, <2>2, TakeIntAt
  <2> HIDE DEF l, h
  <2>4. CASE p = 1
    <3>1. p - (1 + IdLen) < 0 /\ ~ (p - (1 + IdLen) >= 0) /\ p - 1 = 0
      BY <1>2, <2>4
    <3>2. Spent(l)
      BY <2>3, <3>1, AtEnd
    <3>3. Failed(Take(l, IdLen))
      BY <3>2, SpentFails
    <3>4. Spent(Take(l, IdLen))
      BY <3>3 DEF Spent
    <3> QED BY <3>1, <3>4 DEF l
  <2>5. CASE p > 1 /\ p - 1 < IdLen
    <3>1. p - (1 + IdLen) < 0 /\ ~ (p - (1 + IdLen) >= 0) /\ p - 1 \in 1..Len(u)
      BY <1>2, <2>5
    <3>2. Take(At(u \o z, p - 1, h), Len(u)) = [rest |-> <<>>, ok |-> TRUE, got |-> Append(h, Filled(u, p - 1))]
      BY <1>2, <3>1, TakeCut
    <3>3. Take(l, IdLen) = [rest |-> <<>>, ok |-> TRUE, got |-> Append(h, Filled(u, p - 1))]
      BY <1>2, <2>3, <3>2 DEF y
    <3>4. Spent(Take(l, IdLen))
      BY <3>3 DEF Spent
    <3> QED BY <3>1, <3>4 DEF l
  <2>6. CASE p > 1 /\ p - 1 >= IdLen
    <3>1. /\ p - 1 \in Len(u)..(Len(u) + Len(z)) /\ p - 1 > 0
          /\ p - 1 - Len(u) = p - (1 + IdLen) /\ ~ (p - (1 + IdLen) < 0)
      BY <1>2, <2>6
    <3>2. Take(At(u \o z, p - 1, h), Len(u)) = At(z, p - 1 - Len(u), Append(h, u))
      BY <1>2, <3>1, TakeAt
    <3>3. Take(l, IdLen) = At(z, p - (1 + IdLen), Append(h, u))
      BY <1>2, <2>3, <3>1, <3>2 DEF y
    <3> QED BY <3>1, <3>3 DEF l, h
  <2>7. p = 1 \/ (p > 1 /\ p - 1 < IdLen) \/ (p > 1 /\ p - 1 >= IdLen)
    BY <1>2, <1>8
  <2> QED BY <2>4, <2>5, <2>6, <2>7
<1>9. p < 0 \/ p = 0 \/ p > 0
  OBVIOUS
<1> QED BY <1>6, <1>7, <1>8, <1>9

\* The first i entries, in the cells g.
Entries(g, clock, order, i) ==
  /\ IsSeq(g) /\ Len(g) = 2 * i
  /\ \A m \in 1..i : g[2 * m - 1] = clock[order[m]] /\ g[2 * m] = order[m]

\* One more of them.
LEMMA EntryAdded ==
  ASSUME NEW clock, NEW order, NEW i \in Nat \ {0}, NEW g, Entries(g, clock, order, i - 1)
  PROVE  Entries(Append(Append(g, clock[order[i]]), order[i]), clock, order, i)
<1> DEFINE x == clock[order[i]]
           u == order[i]
           h == Append(g, x)
           f == Append(h, u)
<1>1. IsSeq(g) /\ Len(g) = 2 * (i - 1)
      /\ \A m \in 1..(i - 1) : g[2 * m - 1] = clock[order[m]] /\ g[2 * m] = order[m]
  BY DEF Entries
<1> HIDE DEF x, u
<1>2. /\ IsSeq(h) /\ Len(h) = Len(g) + 1 /\ (\A m \in 1..Len(g) : h[m] = g[m]) /\ h[Len(g) + 1] = x
  BY <1>1, AppendIsSeq
<1> HIDE DEF h
<1>3. /\ IsSeq(f) /\ Len(f) = Len(h) + 1 /\ (\A m \in 1..Len(h) : f[m] = h[m]) /\ f[Len(h) + 1] = u
  BY <1>2, AppendIsSeq
<1> HIDE DEF f
<1>4. Len(h) = 2 * i - 1 /\ Len(f) = 2 * i /\ Len(g) + 1 = 2 * i - 1 /\ Len(h) + 1 = 2 * i
  BY <1>1, <1>2, <1>3
<1>5. ASSUME NEW m \in 1..i
      PROVE  f[2 * m - 1] = clock[order[m]] /\ f[2 * m] = order[m]
  <2>1. CASE m = i
    <3>1. 2 * i - 1 \in 1..Len(h)
      BY <1>4
    <3>2. f[2 * i - 1] = x
      BY <1>2, <1>3, <1>4, <3>1
    <3>3. f[2 * i] = u
      BY <1>3, <1>4
    <3> QED BY <2>1, <3>2, <3>3 DEF x, u
  <2>2. CASE m # i
    <3>1. /\ m \in 1..(i - 1) /\ 2 * m - 1 \in 1..Len(g) /\ 2 * m \in 1..Len(g)
          /\ 2 * m - 1 \in 1..Len(h) /\ 2 * m \in 1..Len(h)
      BY <1>1, <1>4, <2>2
    <3>2. f[2 * m - 1] = g[2 * m - 1] /\ f[2 * m] = g[2 * m]
      BY <1>2, <1>3, <3>1
    <3> QED BY <1>1, <3>1, <3>2
  <2> QED BY <2>1, <2>2
<1>6. Entries(f, clock, order, i)
  BY <1>3, <1>4, <1>5 DEF Entries
<1> QED BY <1>6 DEF f, h, x, u

\* The ids of a clock in some order, with their clocks.
IsClock(clock, order, n) ==
  /\ {order[m] : m \in 1..n} = DOMAIN clock /\ clock = [d \in DOMAIN clock |-> clock[d]]
  /\ \A i \in 1..n : IsId(order[i]) /\ clock[order[i]] \in Nat

\* All of them make the clock.
LEMMA ClockOfEntries ==
  ASSUME NEW n \in Nat, NEW order, NEW clock, IsClock(clock, order, n),
         NEW g, Entries(g, clock, order, n)
  PROVE  ClockOf(g) = clock
<1>1. PICK D : D = DOMAIN clock
  OBVIOUS
<1>2. {order[m] : m \in 1..n} = D /\ clock = [d \in D |-> clock[d]]
  BY <1>1 DEF IsClock
<1> DEFINE ids == {i \in DOMAIN g : i % 2 = 0}
           at(id) == CHOOSE i \in ids : g[i] = id
<1>3. IsSeq(g) /\ Len(g) = 2 * n
      /\ \A m \in 1..n : g[2 * m - 1] = clock[order[m]] /\ g[2 * m] = order[m]
  BY DEF Entries
<1>4. DOMAIN g = 1..(2 * n)
  BY <1>3 DEF IsSeq
<1>5. ASSUME NEW i \in ids
      PROVE  \E m \in 1..n : i = 2 * m
  <2>1. i \in 1..(2 * n) /\ i % 2 = 0
    BY <1>4
  <2>2. PICK m \in Int : i = 2 * m
    <3>1. i \in Int /\ i \div 2 \in Int
      BY <2>1
    <3>2. i = 2 * (i \div 2)
      BY <2>1
    <3> QED BY <3>1, <3>2
  <2>3. m \in 1..n
    BY <2>1, <2>2
  <2> QED BY <2>2, <2>3
<1>6. ASSUME NEW m \in 1..n
      PROVE  2 * m \in ids
  <2>1. 2 * m \in 1..(2 * n) /\ (2 * m) % 2 = 0
    OBVIOUS
  <2> QED BY <1>4, <2>1
<1>7. {g[i] : i \in ids} = D
  <2>1. ASSUME NEW i \in ids PROVE g[i] \in D
    <3>1. PICK m \in 1..n : i = 2 * m
      BY <1>5
    <3> QED BY <1>3, <1>2, <3>1
  <2>2. ASSUME NEW d \in D PROVE \E i \in ids : g[i] = d
    <3>1. PICK m \in 1..n : order[m] = d
      BY <1>2
    <3> QED BY <1>3, <1>6, <3>1
  <2> HIDE DEF ids
  <2> QED BY <2>1, <2>2
<1>8. ASSUME NEW d \in D
      PROVE  g[at(d) - 1] = clock[d]
  <2>1. \E i \in ids : g[i] = d
    BY <1>7
  <2>2. at(d) \in ids /\ g[at(d)] = d
    <3> HIDE DEF ids
    <3> QED BY <2>1
  <2>3. PICK i : i = at(d)
    OBVIOUS
  <2> HIDE DEF at
  <2>4. PICK m \in 1..n : i = 2 * m
    BY <1>5, <2>2, <2>3
  <2>5. g[i - 1] = clock[order[m]] /\ g[i] = order[m]
    BY <1>3, <2>4
  <2> QED BY <2>2, <2>3, <2>5
<1>9. ClockOf(g) = [id \in {g[i] : i \in ids} |-> g[at(id) - 1]]
  BY DEF ClockOf
<1> HIDE DEF at, ids
<1>10. ClockOf(g) = [id \in D |-> g[at(id) - 1]]
  BY <1>7, <1>9
<1>11. [id \in D |-> g[at(id) - 1]] = [d \in D |-> clock[d]]
  BY <1>8
<1> QED BY <1>10, <1>11, <1>2

\* A clock as it is written.
PutClock(clock, order, n) == FlattenSeq([i \in 1..n |-> <<clock[order[i]]>> \o PutId(order[i])])

\* Its parts: w[i] is what follows the first i entries.
BehindClock(w, clock, order, n) ==
  /\ w[0] = PutClock(clock, order, n) /\ w[n] = <<>>
  /\ \A i \in 0..n : w[i] \in Seq(Nat)
  /\ \A i \in 1..n : w[i - 1] = (<<clock[order[i]]>> \o order[i]) \o w[i]

\* Every clock has them.
LEMMA ClockParts ==
  ASSUME NEW n \in Nat, NEW clock, NEW order, IsClock(clock, order, n)
  PROVE  \E w : BehindClock(w, clock, order, n)
<1> DEFINE s == [i \in 1..n |-> <<clock[order[i]]>> \o PutId(order[i])]
<1>1. \A i \in 1..n : <<clock[order[i]]>> \o PutId(order[i]) \in Seq(Nat)
  <2> TAKE i \in 1..n
  <2>1. <<clock[order[i]]>> \in Seq(Nat)
    BY DEF IsClock
  <2>2. PutId(order[i]) \in Seq(Nat)
    BY DEF IsClock, IsId
  <2> QED BY <2>1, <2>2, ConcatProperties
<1>2. s \in [1..n -> Seq(Nat)]
  BY <1>1
<1>3. \A i \in 1..n : s[i] = <<clock[order[i]]>> \o order[i]
  BY DEF IsClock, IsId
<1>4. FlattenSeq(s) = PutClock(clock, order, n)
  BY DEF PutClock
<1> HIDE DEF s
<1>5. s \in Seq(Seq(Nat)) /\ Len(s) = n
  BY <1>2
<1>6. PICK w : Behind(w, s, n) /\ w[0] = FlattenSeq(s)
  BY <1>5, FlattenParts
<1> QED BY <1>3, <1>4, <1>6 DEF Behind, BehindClock

\* The reader behind a clock, of which all but y was taken, or which is spent.
ClockTaken(r, clock, order, n, y, q) ==
  \E g : Entries(g, clock, order, n) /\ Left(r, y, q, g)

\* The loop over the entries.
LEMMA ClockLoop ==
  ASSUME NEW n \in Nat, NEW clock, NEW order, IsClock(clock, order, n),
         NEW y \in Seq(Nat), NEW K \in Int, K <= Len(PutClock(clock, order, n)) + Len(y), K >= 0,
         NEW b, b = At(PutClock(clock, order, n) \o y, K, <<>>)
  PROVE  /\ PutClock(clock, order, n) \in Seq(Nat)
         /\ Len(PutClock(clock, order, n)) = n * (1 + IdLen)
         /\ ClockTaken(ClockRound(n, b)[n], clock, order, n, y, K - n * (1 + IdLen))
<1> DEFINE c == 1 + IdLen
           flat == PutClock(clock, order, n)
           round == ClockRound(n, b)
<1>1. PICK w : BehindClock(w, clock, order, n)
  BY ClockParts
<1>2. /\ w[0] = flat /\ w[n] = <<>>
      /\ \A i \in 0..n : w[i] \in Seq(Nat)
      /\ \A i \in 1..n : w[i - 1] = (<<clock[order[i]]>> \o order[i]) \o w[i]
  BY <1>1 DEF BehindClock
<1>3. c \in Nat
  BY LengthAssumption
<1>4. round[0] = b /\ \A i \in 1..n : round[i] = Take(TakeInt(round[i - 1]), IdLen)
  BY ClockRounds
<1>5. K <= Len(flat) + Len(y) /\ b = At(flat \o y, K, <<>>)
  OBVIOUS
<1>6. \A i \in 0..n : Len(w[i]) \in Nat
  BY <1>2
<1> HIDE DEF flat, round
<1> DEFINE P(i) == /\ Len(flat) = Len(w[i]) + i * c
                   /\ ClockTaken(round[i], clock, order, i, w[i] \o y, K - i * c)
           T == {i \in 0..n : P(i)}
<1>7. P(0)
  <2>1. Entries(<<>>, clock, order, 0)
    <3>1. IsSeq(<<>>)
      BY Tuples
    <3> QED BY <3>1 DEF Entries
  <2>2. 0 * c = 0 /\ K - 0 = K /\ ~ (K < 0)
    BY <1>3
  <2>3. Len(flat) = Len(w[0]) + 0
    <3>1. Len(flat) \in Nat /\ Len(w[0]) = Len(flat)
      BY <1>2, <1>6
    <3> QED BY <3>1
  <2>4. round[0] = At(w[0] \o y, K, <<>>)
    BY <1>2, <1>4, <1>5
  <2>5. ClockTaken(round[0], clock, order, 0, w[0] \o y, K)
    BY <2>1, <2>2, <2>4 DEF ClockTaken, Left
  <2> HIDE DEF c
  <2> QED BY <2>2, <2>3, <2>5
<1>8. ASSUME NEW i \in 1..n, P(i - 1)
      PROVE  P(i)
  <2> DEFINE x == clock[order[i]]
             u == order[i]
             z == w[i]
             p == K - (i - 1) * c
  <2>1. x \in Nat /\ IsId(u) /\ u \in Seq(Nat) /\ Len(u) = IdLen
    BY DEF IsClock, IsId
  <2>2. z \in Seq(Nat) /\ Len(z) \in Nat /\ w[i - 1] = (<<x>> \o u) \o z
    <3>1. i \in 0..n
      OBVIOUS
    <3>2. w[i - 1] = (<<x>> \o u) \o z
      BY <1>2
    <3>3. z \in Seq(Nat) /\ Len(z) \in Nat
      BY <1>2, <1>6, <3>1
    <3> QED BY <3>2, <3>3
  <2>3. Len(flat) = Len(w[i - 1]) + (i - 1) * c
        /\ ClockTaken(round[i - 1], clock, order, i - 1, w[i - 1] \o y, p)
    BY <1>8
  <2>4. i * c = (i - 1) * c + c /\ (i - 1) * c \in Nat /\ i * c \in Nat
    BY <1>3
  <2> HIDE DEF x, u, z
  <2>5. Len(w[i - 1]) = c + Len(z) /\ w[i - 1] \o y = (<<x>> \o u) \o (z \o y)
        /\ z \o y \in Seq(Nat) /\ Len(z \o y) = Len(z) + Len(y)
    <3>1. <<x>> \in Seq(Nat) /\ Len(<<x>>) = 1
      BY <2>1
    <3>2. <<x>> \o u \in Seq(Nat) /\ Len(<<x>> \o u) = c
      BY <2>1, <3>1, ConcatProperties
    <3>3. Len((<<x>> \o u) \o z) = c + Len(z)
      BY <2>2, <3>2, ConcatProperties
    <3>4. ((<<x>> \o u) \o z) \o y = (<<x>> \o u) \o (z \o y)
      BY <2>2, <3>2, Associative, Zenon
    <3>5. z \o y \in Seq(Nat) /\ Len(z \o y) = Len(z) + Len(y)
      BY <2>2, ConcatProperties
    <3> QED BY <2>2, <3>3, <3>4, <3>5
  <2>6. Len(flat) = Len(z) + i * c
    <3> DEFINE a == (i - 1) * c
               d == i * c
               e == Len(w[i - 1])
               f == Len(z)
               h == Len(flat)
    <3>1. a \in Nat /\ d = a + c /\ f \in Nat /\ h = e + a /\ e = c + f /\ c \in Nat
      BY <1>3, <2>2, <2>3, <2>4, <2>5
    <3> HIDE DEF a, d, e, f, h, c
    <3>2. h = f + d
      BY <3>1
    <3> QED BY <3>2, Zenon DEF h, f, d
  <2>7. PICK g : Entries(g, clock, order, i - 1) /\ Left(round[i - 1], w[i - 1] \o y, p, g)
    BY <2>3 DEF ClockTaken
  <2>8. p \in Int /\ p - c = K - i * c
    <3> HIDE DEF c
    <3>1. K - (i - 1) * c \in Int /\ (K - (i - 1) * c) - c = K - i * c
      <4> DEFINE a == (i - 1) * c
                 d == i * c
      <4>1. a \in Nat /\ d = a + c /\ c \in Nat
        BY <1>3, <2>4
      <4> HIDE DEF a, d
      <4>2. K - a \in Int /\ (K - a) - c = K - d
        BY <4>1
      <4> QED BY <4>2 DEF a, d
    <3> QED BY <3>1
  <2>9. p <= 1 + IdLen + Len(z \o y)
    <3>1. p <= c + Len(z \o y)
      <4> DEFINE a == (i - 1) * c
                 d == Len(w[i - 1])
                 e == Len(z)
                 f == Len(y)
                 h == Len(flat)
      <4>1. a \in Nat /\ e \in Nat /\ f \in Nat /\ h = d + a /\ d = c + e /\ K <= h + f /\ c \in Nat
        BY <1>3, <1>5, <2>2, <2>3, <2>4, <2>5
      <4> HIDE DEF a, d, e, f, h, c
      <4>2. K - a <= c + (e + f)
        BY <4>1
      <4>3. p <= c + (Len(z) + Len(y))
        BY <4>2, Zenon DEF a, e, f
      <4> HIDE DEF p
      <4> QED BY <4>3, <2>5
    <3> HIDE DEF p
    <3> QED BY <3>1
  <2> HIDE DEF p
  <2> DEFINE f == Append(Append(g, x), u)
  <2>10. Left(round[i], z \o y, p - c, f)
    <3>1. Left(round[i - 1], (<<x>> \o u) \o (z \o y), p, g)
      BY <2>5, <2>7
    <3>2. PICK r : r = round[i - 1]
      OBVIOUS
    <3>3. PICK v : v = z \o y
      OBVIOUS
    <3>4. Left(Take(TakeInt(r), IdLen), v, p - (1 + IdLen), Append(Append(g, x), u))
      BY <2>1, <2>5, <2>8, <2>9, <3>1, <3>2, <3>3, EntryRead
    <3>5. round[i] = Take(TakeInt(r), IdLen)
      BY <1>4, <3>2
    <3> QED BY <3>3, <3>4, <3>5
  <2>11. Entries(f, clock, order, i)
    <3>1. i \in Nat \ {0}
      OBVIOUS
    <3> QED BY <2>7, <3>1, EntryAdded DEF x, u
  <2> HIDE DEF f, c
  <2>12. ClockTaken(round[i], clock, order, i, w[i] \o y, K - i * c)
    BY <2>8, <2>10, <2>11 DEF ClockTaken, z
  <2> QED BY <2>6, <2>12 DEF z
<1> HIDE DEF P
<1>9. 0 \in T /\ \A i \in 1..n : i - 1 \in T => i \in T
  BY <1>7, <1>8
<1> HIDE DEF T
<1>10. \A i \in 0..n : i \in T
  BY <1>9, BoundedInduction, Zenon
<1>11. P(n)
  <2>1. n \in 0..n
    OBVIOUS
  <2> QED BY <1>10, <2>1 DEF T
<1>12. w[n] \o y = y /\ Len(w[n]) = 0 /\ flat \in Seq(Nat)
  <2>1. 0 \in 0..n
    OBVIOUS
  <2> QED BY <1>2, <2>1, ConcatEmptySeq
<1>13. n * c \in Nat
  BY <1>3
<1> HIDE DEF c
<1>14. Len(flat) = n * c /\ ClockTaken(round[n], clock, order, n, y, K - n * c)
  BY <1>11, <1>12, <1>13 DEF P
<1> QED BY <1>12, <1>14 DEF c, flat, round

\* A spent reader stays spent, whatever it is taken to have read.
LEMMA SpentForgets ==
  ASSUME NEW r, Spent(r), NEW h
  PROVE  Spent([r EXCEPT !.got = h])
<1>1. PICK a : \E t : \E g : r = [rest |-> a, ok |-> t, got |-> g] /\ (t = FALSE \/ (t = TRUE /\ a = <<>>))
  BY DEF Spent, Failed
<1>2. PICK t : \E g : r = [rest |-> a, ok |-> t, got |-> g] /\ (t = FALSE \/ (t = TRUE /\ a = <<>>))
  BY <1>1
<1>3. PICK g : r = [rest |-> a, ok |-> t, got |-> g] /\ (t = FALSE \/ (t = TRUE /\ a = <<>>))
  BY <1>2
<1>4. PICK q : q = [r EXCEPT !.got = h]
  OBVIOUS
<1>5. q = [rest |-> a, ok |-> t, got |-> h]
  BY <1>3, <1>4
<1>6. Spent(q)
  BY <1>3, <1>5 DEF Spent, Failed
<1> QED BY <1>4, <1>6

\* The same of a reader that is not.
LEMMA AtForgets ==
  ASSUME NEW s, NEW k, NEW g, NEW h
  PROVE  [At(s, k, g) EXCEPT !.got = h] = At(s, k, h)
BY Forgotten DEF At

\* What GetClock comes to.
LEMMA ClockRead ==
  ASSUME NEW n \in Nat, NEW clock, NEW order, IsClock(clock, order, n),
         NEW y \in Seq(Nat), NEW K \in Int, K <= Len(PutClock(clock, order, n)) + Len(y), K >= 0,
         NEW h, IsSeq(h), NEW r,
         r.got = h, TakeInt(r) = At(PutClock(clock, order, n) \o y, K, Append(h, n))
  PROVE  Left(GetClock(r), y, K - n * (1 + IdLen), Append(h, clock))
<1> DEFINE count == TakeInt(r)
           b == At(PutClock(clock, order, n) \o y, K, <<>>)
           q == K - n * (1 + IdLen)
           last == ClockRound(n, b)[n]
<1>1. Last(count.got) = n
  <2>1. count.got = Append(h, n)
    BY DEF At
  <2>2. Last(Append(h, n)) = n
    BY AppendIsSeq
  <2> HIDE DEF count
  <2> QED BY <2>1, <2>2
<1>2. [count EXCEPT !.got = <<>>] = b
  BY AtForgets
<1>3. ClockTaken(last, clock, order, n, y, q)
  <2> HIDE DEF b
  <2>1. b = At(PutClock(clock, order, n) \o y, K, <<>>)
    BY DEF b
  <2> QED BY <2>1, ClockLoop
<1>4. GetClock(r) = [last EXCEPT !.got = Append(h, ClockOf(last.got))]
  <2>1. GetClock(r) = [ClockRound(Last(count.got), [count EXCEPT !.got = <<>>])[Last(count.got)]
                         EXCEPT !.got = Append(r.got,
                           ClockOf(ClockRound(Last(count.got), [count EXCEPT !.got = <<>>])[Last(count.got)].got))]
    BY DEF GetClock, ClockRound
  <2> HIDE DEF count, b
  <2>2. ClockRound(Last(count.got), [count EXCEPT !.got = <<>>])[Last(count.got)] = last
    BY <1>1, <1>2
  <2> HIDE DEF last
  <2> QED BY <2>1, <2>2
<1> HIDE DEF last, q, count, b
<1>5. PICK g : Entries(g, clock, order, n) /\ Left(last, y, q, g)
  BY <1>3 DEF ClockTaken
<1>6. ClockOf(g) = clock
  BY <1>5, ClockOfEntries
<1>7. Left(GetClock(r), y, q, Append(h, clock))
  <2>1. ASSUME q >= 0
        PROVE  GetClock(r) = At(y, q, Append(h, clock))
    <3>1. last = At(y, q, g)
      BY <1>5, <2>1 DEF Left
    <3>2. last.got = g
      BY <3>1 DEF At
    <3>3. GetClock(r) = [At(y, q, g) EXCEPT !.got = Append(h, clock)]
      BY <1>4, <1>6, <3>1, <3>2
    <3>4. PICK t : t = Append(h, clock)
      OBVIOUS
    <3>5. [At(y, q, g) EXCEPT !.got = t] = At(y, q, t)
      BY AtForgets
    <3> QED BY <3>3, <3>4, <3>5
  <2>2. ASSUME q < 0
        PROVE  Spent(GetClock(r))
    <3>1. Spent(last)
      BY <1>5, <2>2 DEF Left
    <3>2. \A t : Spent([last EXCEPT !.got = t])
      BY <3>1, SpentForgets
    <3> QED BY <1>4, <3>2
  <2> QED BY <2>1, <2>2 DEF Left
<1> QED BY <1>7 DEF q

\* A sequence of cells.
AreCells(s) == s \in Seq(Nat)

\* Three sequences of cells, taken from behind.
LEMMA Regroup ==
  ASSUME NEW a, NEW b, NEW c, AreCells(a), AreCells(b), AreCells(c)
  PROVE  (a \o b) \o c = a \o (b \o c) /\ AreCells(a \o b)
<1>1. a \in Seq(Nat) /\ b \in Seq(Nat) /\ c \in Seq(Nat)
  BY DEF AreCells
<1>2. (a \o b) \o c = a \o (b \o c)
  BY <1>1, Associative, Zenon
<1>3. a \o b \in Seq(Nat)
  BY <1>1, ConcatProperties
<1> QED BY <1>2, <1>3 DEF AreCells

\* Five of them.
FromBehind(a, b, c, d, e) == (((a \o b) \o c) \o d) \o e = a \o (b \o (c \o (d \o e)))

\* The same for five parts.
LEMMA FiveParts ==
  ASSUME NEW a, NEW b, NEW c, NEW d, NEW e,
         AreCells(a), AreCells(b), AreCells(c), AreCells(d), AreCells(e)
  PROVE  FromBehind(a, b, c, d, e)
<1>1. AreCells(a \o b) /\ AreCells(d \o e)
  BY Regroup
<1>2. AreCells((a \o b) \o c) /\ AreCells(c \o (d \o e))
  BY <1>1, Regroup
<1>3. (((a \o b) \o c) \o d) \o e = ((a \o b) \o c) \o (d \o e)
  BY <1>2, Regroup
<1>4. ((a \o b) \o c) \o (d \o e) = (a \o b) \o (c \o (d \o e))
  <2>1. PICK p : p = a \o b
    OBVIOUS
  <2>2. PICK q : q = d \o e
    OBVIOUS
  <2>3. AreCells(p) /\ AreCells(q)
    BY <1>1, <2>1, <2>2
  <2>4. (p \o c) \o q = p \o (c \o q)
    BY <2>3, Regroup
  <2> QED BY <2>1, <2>2, <2>4
<1>5. (a \o b) \o (c \o (d \o e)) = a \o (b \o (c \o (d \o e)))
  BY <1>2, Regroup
<1> QED BY <1>3, <1>4, <1>5, Zenon DEF FromBehind
\* What a multicast envelope holds.
MulticastEnvelope(frame, uuid, clock) == [frame |-> frame, uuid |-> uuid, clock |-> clock]

\* An encoded envelope: its frame, its sender, the number of entries and y, which
\* is a clock with so many entries and the message x.
Splits(s, f, u, n, y, x) ==
  /\ s = <<f>> \o (u \o (<<n>> \o y)) /\ s \in Seq(Nat)
  /\ y \in Seq(Nat) /\ Len(y) = n * (1 + IdLen) + (1 + Len(x))
  /\ Len(s) = 1 + (IdLen + (1 + Len(y)))

\* EncodeMulticast makes them.
LEMMA MulticastParts ==
  ASSUME NEW f \in Nat, NEW u, IsId(u), NEW n \in Nat, NEW clock, NEW order,
         IsClock(clock, order, n), Len(order) = n, DOMAIN order = 1..n,
         NEW e, e = MulticastEnvelope(f, u, clock), NEW x \in Seq(Nat)
  PROVE  Splits(EncodeMulticast(e, order, x), f, u, n, PutClock(clock, order, n) \o PutStr(x), x)
<1> DEFINE y == PutStr(x)
           flat == PutClock(clock, order, n)
           y1 == flat \o y
           y2 == <<n>> \o y1
           y3 == u \o y2
<1>1. e.frame = f /\ e.uuid = u /\ e.clock = clock /\ PutId(u) = u /\ u \in Seq(Nat) /\ Len(u) = IdLen
  BY DEF MulticastEnvelope, IsId
<1>2. y \in Seq(Nat) /\ Len(y) = 1 + Len(x)
  BY PutStrType
<1>3. flat \in Seq(Nat) /\ Len(flat) = n * (1 + IdLen)
  <2>1. 0 \in Int /\ 0 >= 0
    OBVIOUS
  <2>2. PICK w : BehindClock(w, clock, order, n)
    BY ClockParts
  <2>3. 0 \in 0..n
    OBVIOUS
  <2>4. flat \in Seq(Nat)
    BY <2>2, <2>3 DEF BehindClock
  <2>5. 0 <= Len(flat) + Len(y)
    <3> HIDE DEF flat, y
    <3> QED BY <1>2, <2>4
  <2>6. PICK b : b = At(flat \o y, 0, <<>>)
    OBVIOUS
  <2> HIDE DEF y
  <2>7. Len(PutClock(clock, order, n)) = n * (1 + IdLen)
    BY <1>2, <2>1, <2>5, <2>6, ClockLoop
  <2> QED BY <2>4, <2>7
<1>4. EncodeMulticast(e, order, x) = (((<<f>> \o u) \o <<n>>) \o flat) \o y
  BY <1>1 DEF EncodeMulticast, PutClock
<1> HIDE DEF flat, y
<1>5. y1 \in Seq(Nat) /\ Len(y1) = n * (1 + IdLen) + (1 + Len(x))
  <2>1. y1 \in Seq(Nat) /\ Len(y1) = Len(flat) + Len(y)
    BY <1>2, <1>3, ConcatProperties
  <2> HIDE DEF y1
  <2> QED BY <1>2, <1>3, <2>1
<1>6. /\ <<f>> \in Seq(Nat) /\ Len(<<f>>) = 1 /\ <<n>> \in Seq(Nat) /\ Len(<<n>>) = 1
  OBVIOUS
<1>7. (((<<f>> \o u) \o <<n>>) \o flat) \o y = <<f>> \o y3
  <2> DEFINE a == <<f>>
             c == <<n>>
  <2>1. a \in Seq(Nat) /\ c \in Seq(Nat)
    BY <1>6
  <2> HIDE DEF a, c
  <2>2. (((a \o u) \o c) \o flat) \o y = a \o (u \o (c \o (flat \o y)))
    <3>1. AreCells(a) /\ AreCells(u) /\ AreCells(c) /\ AreCells(flat) /\ AreCells(y)
      BY <1>1, <1>2, <1>3, <2>1 DEF AreCells
    <3>2. FromBehind(a, u, c, flat, y)
      BY <3>1, FiveParts
    <3> QED BY <3>2 DEF FromBehind
  <2> QED BY <2>2 DEF a, c
<1> HIDE DEF y1
<1>8. y2 \in Seq(Nat) /\ Len(y2) = 1 + Len(y1)
  BY <1>5, <1>6, ConcatProperties
<1> HIDE DEF y2
<1>9. y3 \in Seq(Nat) /\ Len(y3) = IdLen + Len(y2)
  BY <1>1, <1>8, ConcatProperties
<1> HIDE DEF y3
<1>10. <<f>> \o y3 \in Seq(Nat) /\ Len(<<f>> \o y3) = 1 + Len(y3)
  BY <1>6, <1>9, ConcatProperties
<1>11. EncodeMulticast(e, order, x) = <<f>> \o y3
  BY <1>4, <1>7
<1> DEFINE s == EncodeMulticast(e, order, x)
<1>12. s = <<f>> \o y3
  BY <1>11
<1> HIDE DEF s
<1>13. Len(s) = 1 + (IdLen + (1 + Len(y1))) /\ s \in Seq(Nat)
  BY <1>8, <1>9, <1>10, <1>12
<1>14. Splits(s, f, u, n, y1, x)
  <2>1. s = <<f>> \o (u \o (<<n>> \o y1))
    BY <1>12 DEF y3, y2
  <2> QED BY <1>5, <1>13, <2>1 DEF Splits
<1> QED BY <1>14 DEF s, y1, flat, y

\* What is before the clock.
MulticastHead(data) == Take(TakeInt(Reader(data)), IdLen)

\* It is h, and the number n and K cells of y are behind it.
HeadRead(r, y, K, h, n) == r.got = h /\ TakeInt(r) = At(y, K, Append(h, n))

\* So it is of every envelope.
LEMMA MulticastHeadAt ==
  ASSUME NEW f \in Nat, NEW u, IsId(u), NEW n \in Nat, NEW y1 \in Seq(Nat),
         NEW K \in 0..Len(y1)
  PROVE  HeadRead(MulticastHead(SubSeq(<<f>> \o (u \o (<<n>> \o y1)), 1, K + 2 + IdLen)),
                  y1, K, <<f, u>>, n)
<1> DEFINE y2 == <<n>> \o y1
           y3 == u \o y2
           s == <<f>> \o y3
           k == K + 2 + IdLen
           r == MulticastHead(SubSeq(s, 1, k))
<1>1. u \in Seq(Nat) /\ Len(u) = IdLen /\ IdLen \in Nat \ {0} /\ Len(y1) \in Nat /\ K \in Nat /\ K <= Len(y1)
  BY LengthAssumption DEF IsId
<1>2. y2 \in Seq(Nat) /\ Len(y2) = 1 + Len(y1)
  <2>1. <<n>> \in Seq(Nat) /\ Len(<<n>>) = 1
    OBVIOUS
  <2> QED BY <2>1, ConcatProperties
<1> HIDE DEF y2
<1>3. y3 \in Seq(Nat) /\ Len(y3) = IdLen + Len(y2)
  BY <1>1, <1>2, ConcatProperties
<1> HIDE DEF y3
<1>4. TakeInt(Reader(SubSeq(s, 1, k))) = At(y3, K + 1 + IdLen, <<f>>)
  <2> DEFINE q == At(<<f>> \o y3, k, <<>>)
  <2>1. Reader(SubSeq(s, 1, k)) = q
    BY DEF Reader, At
  <2>2. k \in 1..(Len(y3) + 1) /\ k - 1 = K + 1 + IdLen
    BY <1>1, <1>2, <1>3
  <2>3. Append(<<>>, f) = <<f>>
    OBVIOUS
  <2> HIDE DEF k
  <2>4. TakeInt(q) = At(y3, k - 1, Append(<<>>, f))
    BY <1>3, <2>2, TakeIntAt
  <2> HIDE DEF q
  <2> QED BY <2>1, <2>2, <2>3, <2>4
<1>5. Take(At(y3, K + 1 + IdLen, <<f>>), IdLen) = At(y2, K + 1, <<f, u>>)
  <2> DEFINE l == K + 1 + IdLen
  <2>1. l \in Len(u)..(Len(u) + Len(y2)) /\ l > 0 /\ l - Len(u) = K + 1
    BY <1>1, <1>2
  <2>2. Append(<<f>>, u) = <<f, u>>
    BY Tuples, Zenon
  <2> HIDE DEF l
  <2>3. Take(At(u \o y2, l, <<f>>), Len(u)) = At(y2, l - Len(u), Append(<<f>>, u))
    BY <1>1, <1>2, <2>1, TakeAt
  <2> QED BY <1>1, <2>1, <2>2, <2>3 DEF l, y3
<1>6. r = At(y2, K + 1, <<f, u>>)
  BY <1>4, <1>5 DEF MulticastHead
<1> HIDE DEF r
<1>7. TakeInt(r) = At(y1, K, Append(<<f, u>>, n))
  <2> DEFINE l == K + 1
             h == <<f, u>>
  <2>1. l \in 1..(Len(y1) + 1) /\ l - 1 = K
    BY <1>1
  <2> HIDE DEF l, h
  <2>2. TakeInt(At(<<n>> \o y1, l, h)) = At(y1, l - 1, Append(h, n))
    BY <2>1, TakeIntAt
  <2> QED BY <1>6, <2>1, <2>2 DEF l, h, y2
<1>8. r.got = <<f, u>>
  BY <1>6 DEF At
<1>9. HeadRead(r, y1, K, <<f, u>>, n)
  BY <1>7, <1>8 DEF HeadRead
<1> QED BY <1>9 DEF r, k, s, y3, y2

\* The end of DecodeMulticast.
LEMMA MulticastEnd ==
  ASSUME NEW x \in Seq(Nat), x # <<>>, NEW q \in Int, q <= 1 + Len(x), NEW f, NEW u, NEW clock,
         NEW c, Left(c, PutStr(x), q, <<f, u, clock>>), NEW r, r = TakeStr(c)
  PROVE  EndRead(r, x, q, <<f, u, clock>>)
<1> DEFINE g == <<f, u, clock>>
<1>1. IsSeq(g)
  BY Tuples, Zenon
<1>2. Len(x) \in Nat
  OBVIOUS
<1> HIDE DEF g
<1>3. CASE q >= 0
  <2>1. c = At(PutStr(x), q, g)
    BY <1>3 DEF Left, g
  <2>2. q \in 0..(1 + Len(x)) /\ r = TakeStr(At(PutStr(x), q, g))
    BY <1>2, <1>3, <2>1
  <2>3. EndRead(r, x, q, g)
    BY <1>1, <2>2, MessageAt
  <2> QED BY <2>3 DEF g
<1>4. CASE q < 0
  <2>1. Spent(c)
    BY <1>4 DEF Left
  <2>2. Failed(r)
    BY <2>1, SpentFails
  <2>3. r.ok = FALSE
    BY <2>2, FailedNotOk
  <2>4. ~ (q >= 2) /\ q # 1 + Len(x)
    BY <1>2, <1>4
  <2> QED BY <2>3, <2>4 DEF EndRead
<1>5. q >= 0 \/ q < 0
  OBVIOUS
<1> QED BY <1>3, <1>4, <1>5

\* What is decoded of an envelope and its message.
MulticastTaken(d, e, x, n, k, whole) ==
  /\ d.ok = TRUE => d.e = e
  /\ Held(d, x, whole)
  /\ d.ok = FALSE => k <= 3 + IdLen + n * (1 + IdLen)

\* DecodeMulticast returns that.
LEMMA MulticastRead ==
  ASSUME NEW f \in Nat, NEW u, IsId(u), NEW n \in Nat \ {0}, NEW clock, NEW order,
         IsClock(clock, order, n), Len(order) = n, DOMAIN order = 1..n,
         NEW e, e = MulticastEnvelope(f, u, clock), NEW x \in Seq(Nat), x # <<>>,
         NEW s, s = EncodeMulticast(e, order, x), NEW k \in Nat, k <= Len(s),
         k >= 3 + 2 * IdLen \/ k = Len(s),
         NEW d, d = DecodeMulticast(SubSeq(s, 1, k)), NEW whole \in BOOLEAN, whole <=> k = Len(s)
  PROVE  MulticastTaken(d, e, x, n, k, whole)
<1> DEFINE flat == PutClock(clock, order, n)
           y == PutStr(x)
           y1 == flat \o y
           m == n * (1 + IdLen)
           K == k - (2 + IdLen)
           q == K - m
<1>1. /\ s = <<f>> \o (u \o (<<n>> \o y1)) /\ s \in Seq(Nat)
      /\ y1 \in Seq(Nat) /\ Len(y1) = m + (1 + Len(x)) /\ Len(s) = 1 + (IdLen + (1 + Len(y1)))
  <2>1. Splits(s, f, u, n, y1, x)
    BY MulticastParts
  <2> HIDE DEF y1
  <2> QED BY <2>1 DEF Splits
<1>2. m \in Nat /\ m >= 1 + IdLen /\ IdLen \in Nat \ {0} /\ Len(x) \in Nat \ {0}
  <2>1. IdLen \in Nat \ {0} /\ Len(x) \in Nat \ {0}
    BY LengthAssumption
  <2> DEFINE c == 1 + IdLen
  <2>2. c \in Nat
    BY <2>1
  <2> HIDE DEF c
  <2>3. n * c \in Nat /\ n * c >= c
    BY <2>2
  <2> QED BY <2>1, <2>3 DEF c
<1>3. /\ y \in Seq(Nat) /\ Len(y) = 1 + Len(x)
  BY PutStrType
<1>4. flat \in Seq(Nat) /\ Len(flat) = m
  <2>1. PICK w : BehindClock(w, clock, order, n)
    BY ClockParts
  <2>2. 0 \in 0..n
    OBVIOUS
  <2>3. flat \in Seq(Nat)
    BY <2>1, <2>2 DEF BehindClock
  <2> HIDE DEF flat, y, m
  <2>4. Len(y1) = Len(flat) + Len(y)
    <3>1. \A a, b \in Seq(Nat) : Len(a \o b) = Len(a) + Len(b)
      BY ConcatProperties
    <3> QED BY <1>3, <2>3, <3>1, Zenon
  <2>5. Len(flat) \in Nat
    BY <2>3
  <2> HIDE DEF y1
  <2> QED BY <1>1, <1>2, <1>3, <2>3, <2>4, <2>5
<1> HIDE DEF m, y, flat
<1>5. /\ K \in 0..Len(y1) /\ K + 2 + IdLen = k /\ q \in Int /\ q <= 1 + Len(x) /\ K \in Int /\ K >= 0
      /\ K <= Len(flat) + Len(y)
      /\ k = Len(s) <=> q = 1 + Len(x)
      /\ ~ (q >= 2) => k <= 3 + IdLen + m
  <2> HIDE DEF y1
  <2> DEFINE a == Len(y1)
             b == Len(s)
             l == Len(x)
  <2>1. /\ a = m + (1 + l) /\ b = 1 + (IdLen + (1 + a)) /\ m \in Nat /\ m >= 1 + IdLen
        /\ IdLen \in Nat \ {0} /\ l \in Nat \ {0} /\ k \in Nat /\ k <= b /\ (k >= 3 + 2 * IdLen \/ k = b)
        /\ Len(flat) + Len(y) = m + (1 + l)
    BY <1>1, <1>2, <1>3, <1>4
  <2> HIDE DEF a, b, l
  <2>2. /\ K \in 0..a /\ K + 2 + IdLen = k /\ q \in Int /\ q <= 1 + l /\ K \in Int /\ K >= 0
        /\ K <= m + (1 + l)
        /\ k = b <=> q = 1 + l
        /\ ~ (q >= 2) => k <= 3 + IdLen + m
    BY <2>1
  <2> HIDE DEF K, q
  <2> QED BY <2>1, <2>2 DEF a, b, l
<1> HIDE DEF K
<1>6. PICK r : r = MulticastHead(SubSeq(s, 1, k))
  OBVIOUS
<1>7. r.got = <<f, u>> /\ TakeInt(r) = At(y1, K, Append(<<f, u>>, n))
  <2> HIDE DEF y1
  <2>1. HeadRead(MulticastHead(SubSeq(<<f>> \o (u \o (<<n>> \o y1)), 1, K + 2 + IdLen)), y1, K, <<f, u>>, n)
    BY <1>1, <1>5, MulticastHeadAt
  <2>2. HeadRead(r, y1, K, <<f, u>>, n)
    BY <1>1, <1>5, <1>6, <2>1
  <2> QED BY <2>2 DEF HeadRead
<1>8. Left(GetClock(r), y, q, <<f, u, clock>>)
  <2> DEFINE h == <<f, u>>
  <2>1. IsSeq(h)
    BY Tuples, Zenon
  <2>2. Append(h, clock) = <<f, u, clock>>
    BY Third
  <2>3. r.got = h /\ TakeInt(r) = At(flat \o y, K, Append(h, n))
    BY <1>7
  <2> HIDE DEF h
  <2>4. Left(GetClock(r), y, K - n * (1 + IdLen), Append(h, clock))
    BY <1>3, <1>5, <2>1, <2>3, ClockRead DEF flat
  <2> QED BY <2>2, <2>4 DEF m
<1>9. PICK g : g = TakeStr(GetClock(r))
  OBVIOUS
<1>10. /\ g.ok = FALSE \/ g.ok = TRUE
       /\ g.ok = TRUE => \E i \in Int : /\ i >= 1 /\ g.got = Append(<<f, u, clock>>, Filled(x, i))
                                        /\ q = 1 + Len(x) => i >= Len(x)
       /\ q = 1 + Len(x) => g.ok = TRUE
       /\ q >= 2 => g.ok = TRUE
  <2>1. Left(GetClock(r), PutStr(x), q, <<f, u, clock>>)
    BY <1>8 DEF y
  <2> HIDE DEF q
  <2>2. EndRead(g, x, q, <<f, u, clock>>)
    BY <1>5, <1>9, <2>1, MulticastEnd
  <2> QED BY <2>2 DEF EndRead
<1>11. d = [ok |-> g.ok, e |-> [frame |-> g.got[1], uuid |-> g.got[2], clock |-> g.got[3]],
            message |-> g.got[4]]
  BY <1>6, <1>9 DEF DecodeMulticast, MulticastHead
<1>12. ASSUME d.ok = TRUE
       PROVE  d.e = e /\ \E i \in Int : /\ i >= 1 /\ d.message = Filled(x, i)
                                        /\ whole => i >= Len(x)
  <2>1. g.ok = TRUE
    BY <1>11, <1>12
  <2>2. PICK i \in Int : /\ i >= 1 /\ g.got = Append(<<f, u, clock>>, Filled(x, i))
                         /\ q = 1 + Len(x) => i >= Len(x)
    BY <1>10, <2>1
  <2>3. PICK v : v = Filled(x, i)
    OBVIOUS
  <2>4. Append(<<f, u, clock>>, v) = <<f, u, clock, v>>
    BY Fourth
  <2>5. g.got = <<f, u, clock, v>>
    BY <2>2, <2>3, <2>4
  <2>6. g.got[1] = f /\ g.got[2] = u /\ g.got[3] = clock /\ g.got[4] = v
    BY <2>5
  <2>7. d.e = e /\ d.message = v
    BY <1>11, <2>6 DEF MulticastEnvelope
  <2> HIDE DEF q
  <2> QED BY <1>5, <2>2, <2>3, <2>7
<1>13. d.ok = g.ok
  BY <1>11
<1> HIDE DEF q
<1>14. Held(d, x, whole)
  BY <1>5, <1>10, <1>12, <1>13 DEF Held
<1>15. d.ok = FALSE => k <= 3 + IdLen + n * (1 + IdLen)
  BY <1>5, <1>10, <1>13 DEF m
<1> QED BY <1>12, <1>14, <1>15 DEF MulticastTaken

\* What SetToSeqs gives: all of a finite set.
LEMMA OrderOf ==
  ASSUME NEW S, IsFiniteSet(S), NEW f \in SetToSeqs(S)
  PROVE  /\ Cardinality(S) \in Nat /\ DOMAIN f = 1..Cardinality(S) /\ Len(f) = Cardinality(S)
         /\ {f[i] : i \in 1..Cardinality(S)} = S
<1> DEFINE n == Cardinality(S)
<1>1. n \in Nat
  BY FS_CardinalityType
<1>2. f \in [1..n -> S] /\ \A i, j \in 1..n : i # j => f[i] # f[j]
  BY DEF SetToSeqs
<1> HIDE DEF n
<1>3. f \in Injection(1..n, S)
  BY <1>2 DEF Injection, IsInjective
<1>4. Cardinality(1..n) = n
  BY <1>1, FS_Interval
<1>5. f \in Surjection(1..n, S)
  BY <1>3, <1>4, FS_Injection DEF n
<1>6. \A x \in S : \E i \in 1..n : f[i] = x
  BY <1>2, <1>5 DEF Surjection
<1>7. {f[i] : i \in 1..n} = S
  BY <1>2, <1>6
<1>8. DOMAIN f = 1..n
  BY <1>2
<1>9. Len(f) = n
  BY <1>1, <1>8
<1> QED BY <1>1, <1>7, <1>8, <1>9 DEF n

\* The ids of some servers.
LEMMA IdsFinite ==
  ASSUME NEW S, S \subseteq Member
  PROVE  IsFiniteSet({Id(n) : n \in S})
<1> DEFINE T == {Id(n) : n \in S}
           f == [n \in S |-> Id(n)]
<1>1. IsFiniteSet(S)
  BY MemberAssumption, FS_Subset
<1>2. f \in [S -> T] /\ \A t \in T : \E n \in S : f[n] = t
  OBVIOUS
<1> HIDE DEF f, T
<1>3. f \in Surjection(S, T)
  BY <1>2 DEF Surjection
<1>4. IsFiniteSet(T)
  BY <1>1, <1>3, FS_Surjection
<1> QED BY <1>4 DEF T

\* An address is written with at least one character.
LEMMA IpType ==
  ASSUME NEW n \in Nat \ {0}
  PROVE  Ip(n) \in Seq(Nat) /\ Ip(n) # <<>>
<1> DEFINE s == Ip(n)
<1>1. s \in [1..n -> Nat]
  BY DEF Ip
<1> HIDE DEF s
<1>2. s \in Seq(Nat) /\ Len(s) = n
  BY <1>1
<1>3. s # <<>>
  BY <1>2
<1> QED BY <1>2, <1>3 DEF s

\* A list of members is one of peers.
LEMMA PeerListType ==
  ASSUME NEW n \in Nat, NEW order, DOMAIN order = 1..n, \A i \in 1..n : order[i] \in Member
  PROVE  IsPeers(PeerList(order), n)
<1> DEFINE ps == PeerList(order)
<1>1. ps = [i \in 1..n |-> [id |-> Id(order[i]), ip |-> Ip(order[i]), clock |-> 0]]
  BY DEF PeerList
<1> HIDE DEF ps
<1>2. ps = [i \in 1..n |-> ps[i]]
  BY <1>1
<1>3. ASSUME NEW i \in 1..n
      PROVE  IsPeer(ps[i])
  <2> DEFINE o == order[i]
             a == Id(o)
             b == Ip(o)
  <2>1. o \in Nat \ {0}
    BY MemberAssumption
  <2>2. a \in Seq(Nat) /\ a # <<>>
    BY <2>1, IdIsId DEF IsId
  <2>3. b \in Seq(Nat) /\ b # <<>>
    BY <2>1, IpType
  <2>4. ps[i] = [id |-> a, ip |-> b, clock |-> 0]
    BY <1>1
  <2> HIDE DEF a, b
  <2> QED BY <2>2, <2>3, <2>4 DEF IsPeer
<1>4. IsPeers(ps, n)
  BY <1>2, <1>3 DEF IsPeers
<1> QED BY <1>4 DEF ps

\* A line that is sent.
LEMMA LineType ==
  ASSUME NEW t \in Text
  PROVE  Line(t) \in Seq(Nat) /\ Line(t) # <<>>
<1>1. t \in Seq(Nat)
  BY ContentAssumption
<1>2. <<Space>> \in Seq(Nat) /\ <<Space>> # <<>>
  BY DEF Space
<1> QED BY <1>1, <1>2 DEF Line

\* The fields of the messages that are more than a type.
LEMMA BlankAck ==
  ASSUME NEW t, NEW f
  PROVE  [Blank EXCEPT !.type = t, !.frame = f] = Fields(t, <<>>, <<>>, f, <<>>, <<>>, 0)
<1>1. PICK o : o = [Blank EXCEPT !.type = t]
  OBVIOUS
<1>2. o = Fields(t, <<>>, <<>>, 0, <<>>, <<>>, 0)
  BY <1>1, BlankFields
<1>3. PICK n : n = [o EXCEPT !.frame = f]
  OBVIOUS
<1>4. n = Fields(t, <<>>, <<>>, f, <<>>, <<>>, 0)
  BY <1>2, <1>3 DEF Fields
<1>5. [Blank EXCEPT !.type = t, !.frame = f] = n
  BY <1>1, <1>3
<1> QED BY <1>4, <1>5

\* A line.
LEMMA BlankLine ==
  ASSUME NEW t, NEW x
  PROVE  [Blank EXCEPT !.type = t, !.msg = x] = Fields(t, <<>>, <<>>, 0, x, <<>>, 0)
<1>1. PICK o : o = [Blank EXCEPT !.type = t]
  OBVIOUS
<1>2. o = Fields(t, <<>>, <<>>, 0, <<>>, <<>>, 0)
  BY <1>1, BlankFields
<1>3. PICK n : n = [o EXCEPT !.msg = x]
  OBVIOUS
<1>4. n = Fields(t, <<>>, <<>>, 0, x, <<>>, 0)
  BY <1>2, <1>3 DEF Fields
<1>5. [Blank EXCEPT !.type = t, !.msg = x] = n
  BY <1>1, <1>3
<1> QED BY <1>4, <1>5

\* A death.
LEMMA BlankDead ==
  ASSUME NEW t, NEW u, NEW v
  PROVE  [Blank EXCEPT !.type = t, !.uuid = u, !.ip = v] = Fields(t, u, v, 0, <<>>, <<>>, 0)
<1>1. PICK o : o = [Blank EXCEPT !.type = t]
  OBVIOUS
<1>2. o = Fields(t, <<>>, <<>>, 0, <<>>, <<>>, 0)
  BY <1>1, BlankFields
<1>3. PICK p : p = [o EXCEPT !.uuid = u]
  OBVIOUS
<1>4. p = Fields(t, u, <<>>, 0, <<>>, <<>>, 0)
  BY <1>2, <1>3 DEF Fields
<1>5. PICK n : n = [p EXCEPT !.ip = v]
  OBVIOUS
<1>6. n = Fields(t, u, v, 0, <<>>, <<>>, 0)
  BY <1>4, <1>5 DEF Fields
<1>7. [Blank EXCEPT !.type = t, !.uuid = u, !.ip = v] = n
  BY <1>1, <1>3, <1>5
<1> QED BY <1>6, <1>7

\* A list of peers.
LEMMA BlankList ==
  ASSUME NEW t, NEW u, NEW v
  PROVE  PeersMessage(t, u, v) = Fields(t, <<>>, <<>>, 0, <<>>, u, v)
<1>1. PICK o : o = [Blank EXCEPT !.type = t]
  OBVIOUS
<1>2. o = Fields(t, <<>>, <<>>, 0, <<>>, <<>>, 0)
  BY <1>1, BlankFields
<1>3. PICK p : p = [o EXCEPT !.peers = u]
  OBVIOUS
<1>4. p = Fields(t, <<>>, <<>>, 0, <<>>, u, 0)
  BY <1>2, <1>3 DEF Fields
<1>5. PICK n : n = [p EXCEPT !.port = v]
  OBVIOUS
<1>6. n = Fields(t, <<>>, <<>>, 0, <<>>, u, v)
  BY <1>4, <1>5 DEF Fields
<1>7. [Blank EXCEPT !.type = t, !.peers = u, !.port = v] = n
  BY <1>1, <1>3, <1>5
<1> QED BY <1>6, <1>7 DEF PeersMessage

\* What goes by unicast.
LEMMA UnicastSendable ==
  ASSUME NEW m \in UnicastMessage
  PROVE  Sendable(m)
<1> DEFINE A == {[Blank EXCEPT !.type = t] : t \in {ConnectToLeader, Election}}
           B == {[Blank EXCEPT !.type = MulticastAck, !.frame = f] : f \in Clocks}
<1>1. m \in A \/ m \in B \/ m \in PeersMessages
  BY DEF UnicastMessage
<1>2. ASSUME NEW t \in {0, 1}, m = [Blank EXCEPT !.type = t]
      PROVE  Sendable(m)
  <2>1. m = Fields(t, <<>>, <<>>, 0, <<>>, <<>>, 0) /\ t \in {0, 1, 3}
    BY <1>2, BlankFields
  <2> QED BY <2>1 DEF Sendable
<1>3. ASSUME NEW f \in Clocks, m = [Blank EXCEPT !.type = 10, !.frame = f]
      PROVE  Sendable(m)
  <2>1. m = Fields(10, <<>>, <<>>, f, <<>>, <<>>, 0) /\ f \in Nat
    BY <1>3, BlankAck, ContentAssumption
  <2> QED BY <2>1 DEF Sendable
<1>4. ASSUME NEW t \in {8, 9}, NEW p \in {1, 2}, NEW S \in SUBSET Member, NEW order \in SetToSeqs(S),
             m = PeersMessage(t, PeerList(order), p)
      PROVE  Sendable(m)
  <2>1. IsFiniteSet(S)
    BY MemberAssumption, FS_Subset
  <2>2. PICK n \in Nat : DOMAIN order = 1..n /\ {order[i] : i \in 1..n} = S
    BY <2>1, OrderOf
  <2>3. \A i \in 1..n : order[i] \in Member
    BY <2>2
  <2>4. IsPeers(PeerList(order), n)
    BY <2>2, <2>3, PeerListType
  <2>5. PICK ps : ps = PeerList(order)
    OBVIOUS
  <2>6. m = Fields(t, <<>>, <<>>, 0, <<>>, ps, p) /\ p \in Nat
    <3>1. m = PeersMessage(t, ps, p)
      BY <1>4, <2>5
    <3>2. PeersMessage(t, ps, p) = Fields(t, <<>>, <<>>, 0, <<>>, ps, p)
      BY BlankList
    <3> QED BY <3>1, <3>2
  <2> QED BY <2>4, <2>5, <2>6 DEF Sendable
<1>5. CASE m \in A
  <2>1. PICK t \in {ConnectToLeader, Election} : m = [Blank EXCEPT !.type = t]
    BY <1>5
  <2>2. t \in {0, 1}
    BY DEF ConnectToLeader, Election
  <2> QED BY <1>2, <2>1, <2>2
<1>6. CASE m \in B
  <2>1. PICK f \in Clocks : m = [Blank EXCEPT !.type = MulticastAck, !.frame = f]
    BY <1>6
  <2>2. m = [Blank EXCEPT !.type = 10, !.frame = f]
    BY <2>1 DEF MulticastAck
  <2> QED BY <1>3, <2>2
<1>7. CASE m \in PeersMessages
  <2>1. PICK t \in {PeerInfo, MulticastSessionChange}, p \in {1, 2}, o \in Orders :
          m = PeersMessage(t, PeerList(o), p)
    BY <1>7 DEF PeersMessages
  <2>2. PICK S \in SUBSET Member : o \in SetToSeqs(S)
    BY DEF Orders
  <2>3. t \in {8, 9}
    BY DEF PeerInfo, MulticastSessionChange
  <2> QED BY <1>4, <2>1, <2>2, <2>3
<1> HIDE DEF A, B
<1> QED BY <1>1, <1>5, <1>6, <1>7

\* What goes by multicast.
LEMMA MulticastSendable ==
  ASSUME NEW m \in MulticastMessage
  PROVE  Sendable(m)
<1>1. \/ m = [Blank EXCEPT !.type = 3]
      \/ \E t \in Text : m = [Blank EXCEPT !.type = 5, !.msg = Line(t)]
      \/ \E n \in Member : m = [Blank EXCEPT !.type = 6, !.uuid = Id(n), !.ip = Ip(n)]
  BY DEF MulticastMessage, ElectionVictory, Application, DeadNode
<1>2. ASSUME m = [Blank EXCEPT !.type = 3]
      PROVE  Sendable(m)
  <2>1. m = Fields(3, <<>>, <<>>, 0, <<>>, <<>>, 0) /\ 3 \in {0, 1, 3}
    BY <1>2, BlankFields
  <2> QED BY <2>1 DEF Sendable
<1>3. ASSUME NEW t \in Text, m = [Blank EXCEPT !.type = 5, !.msg = Line(t)]
      PROVE  Sendable(m)
  <2>1. PICK x : x = Line(t)
    OBVIOUS
  <2>2. m = Fields(5, <<>>, <<>>, 0, x, <<>>, 0) /\ x \in Seq(Nat) /\ x # <<>>
    BY <1>3, <2>1, BlankLine, LineType
  <2> QED BY <2>2 DEF Sendable
<1>4. ASSUME NEW n \in Member, m = [Blank EXCEPT !.type = 6, !.uuid = Id(n), !.ip = Ip(n)]
      PROVE  Sendable(m)
  <2>1. n \in Nat \ {0}
    BY MemberAssumption
  <2>2. PICK u : u = Id(n)
    OBVIOUS
  <2>3. PICK v : v = Ip(n)
    OBVIOUS
  <2>4. u \in Seq(Nat) /\ u # <<>> /\ v \in Seq(Nat) /\ v # <<>>
    BY <2>1, <2>2, <2>3, IdIsId, IpType DEF IsId
  <2>5. m = Fields(6, u, v, 0, <<>>, <<>>, 0)
    BY <1>4, <2>2, <2>3, BlankDead
  <2> QED BY <2>4, <2>5 DEF Sendable
<1> QED BY <1>1, <1>2, <1>3, <1>4

-----------------------------------------------------------------------------
(* Every datagram                                                          *)

\* What the three properties say of an outcome o of the datagram w, sent as p, in
\* a buffer of length r.
Arrived(o, p, w, r) ==
  /\ Len(w) <= r => o.as = "message" /\ o.e = p.e /\ o.m = p.m
  /\ o.as = "panic" =>
       /\ p.as = "multicast"
       /\ r <= 3 + IdLen + Cardinality(DOMAIN p.e.clock) * (1 + IdLen)
  /\ o.as = "message" =>
       /\ o.e = p.e
       /\ p.m.type = Application =>
            /\ o.m.type = Application
            /\ Len(o.m.msg) \in {0, Len(p.m.msg)}
            /\ \E k \in 0..Len(p.m.msg) : \A i \in DOMAIN o.m.msg :
                 o.m.msg[i] = IF i <= k THEN p.m.msg[i] ELSE NUL

\* How much of a datagram of length l arrives in a buffer of length r.
LEMMA Arriving ==
  ASSUME NEW l \in Nat, NEW r \in BufLens, NEW k, k = IF r < l THEN r ELSE l
  PROVE  /\ k \in Nat /\ k <= l /\ (k >= 3 + 2 * IdLen \/ k = l)
         /\ l <= r => k = l
         /\ k # l => k = r
<1>1. r \in Nat /\ r >= 3 + 2 * IdLen
  BY LengthAssumption
<1> DEFINE b == 3 + 2 * IdLen
<1> HIDE DEF b
<1>2. r \in Nat /\ r >= b
  BY <1>1 DEF b
<1>3. /\ k \in Nat /\ k <= l /\ (k >= b \/ k = l)
      /\ l <= r => k = l
      /\ k # l => k = r
  BY <1>2
<1> QED BY <1>3 DEF b

\* A message n that was decoded of what is left of m.
TakenFor(n, m, whole) ==
  /\ whole => n = m
  /\ m.type = Application =>
       /\ n.type = Application
       /\ Len(n.msg) \in {0, Len(m.msg)}
       /\ \E k \in 0..Len(m.msg) : \A i \in DOMAIN n.msg :
            n.msg[i] = IF i <= k THEN m.msg[i] ELSE NUL

\* The message inside, from what is left of it.
LEMMA HeldDecodes ==
  ASSUME NEW p, Sendable(p), NEW x, x = Encode(p), NEW whole \in BOOLEAN,
         NEW d, Held(d, x, whole), d.ok = TRUE,
         NEW n, n = Decode(d.message)
  PROVE  n.ok = TRUE /\ TakenFor(n.m, p, whole)
<1>1. PICK j \in Int : /\ j >= 1 /\ d.message = Filled(x, j)
                       /\ whole => j >= Len(x)
  BY DEF Held
<1>2. Decodes(n, p, j)
  BY <1>1, DecodeEncoded
<1> QED BY <1>1, <1>2 DEF Decodes, TakenFor

\* An outcome that is a message.
LEMMA MessageArrived ==
  ASSUME NEW p, NEW w, NEW r, NEW whole \in BOOLEAN, Len(w) <= r => whole,
         NEW n, TakenFor(n, p.m, whole),
         NEW o, o = [as |-> "message", e |-> p.e, m |-> n]
  PROVE  Arrived(o, p, w, r)
<1>1. o.as = "message" /\ o.e = p.e /\ o.m = n
  OBVIOUS
<1> QED BY <1>1 DEF Arrived, TakenFor

\* A unicast datagram is one of cells.
LEMMA UnicastCells ==
  ASSUME NEW a \in {0, 1}, NEW b \in Nat, NEW c \in Nat, NEW u, NEW v, IsId(u), IsId(v),
         NEW e, e = Envelope(a, b, c, u, v), NEW x \in Seq(Nat), NEW s, s = EncodeUnicast(e, x)
  PROVE  s \in Seq(Nat)
<1> DEFINE y == IF a = 1 THEN <<>> ELSE PutStr(x)
<1>1. /\ e.response = a /\ e.frame = b /\ e.tries = c /\ e.from = u /\ e.to = v
      /\ a \in Nat /\ PutId(u) = u /\ PutId(v) = v
  BY DEF Envelope, IsId
<1>2. s = ((<<a, b, c>> \o u) \o v) \o y
  BY <1>1 DEF EncodeUnicast
<1>3. y \in Seq(Nat) /\ 0 \in 0..Len(y)
  <2>1. PutStr(x) \in Seq(Nat)
    BY PutStrType
  <2>2. y \in Seq(Nat)
    BY <2>1
  <2> HIDE DEF y
  <2> QED BY <2>2
<1> HIDE DEF y
<1>4. Headed(((<<a, b, c>> \o u) \o v) \o y, y, 0, <<a, b, c, u, v>>)
  BY <1>1, <1>3, HeadAt
<1> QED BY <1>2, <1>4 DEF Headed

\* What the unicast listener makes of a datagram.
UnicastOutcome(o, d, n) ==
  o = IF ~ d.ok THEN [as |-> "ignored"]
      ELSE IF d.e.response = 1 THEN [as |-> "message", e |-> d.e, m |-> Blank]
      ELSE IF n.ok THEN [as |-> "message", e |-> d.e, m |-> n.m]
      ELSE [as |-> "panic"]

ByUnicast(e, m, a) == [as |-> "unicast", e |-> e, m |-> IF a = 1 THEN Blank ELSE m]

\* The three properties hold of it.
LEMMA UnicastArrives ==
  ASSUME NEW m, Sendable(m), NEW from \in Member, NEW to \in Member, NEW f \in Nat,
         NEW a \in {0, 1}, NEW e, e = Envelope(a, f, 0, Id(from), Id(to)),
         NEW p, p = ByUnicast(e, m, a),
         NEW w, w = EncodeUnicast(e, Encode(m)), NEW r \in BufLens,
         NEW k, k = IF r < Len(w) THEN r ELSE Len(w),
         NEW d, d = DecodeUnicast(SubSeq(w, 1, k)),
         NEW n, n = Decode(d.message), NEW o, UnicastOutcome(o, d, n)
  PROVE  Arrived(o, p, w, r)
<1>1. PICK x : x = Encode(m)
  OBVIOUS
<1>2. x \in Seq(Nat) /\ x # <<>>
  BY <1>1, DecodeEncoded
<1>3. PICK u : u = Id(from)
  OBVIOUS
<1>4. PICK v : v = Id(to)
  OBVIOUS
<1>5. IsId(u) /\ IsId(v)
  BY <1>3, <1>4, IdIsId, MemberAssumption
<1>6. e = Envelope(a, f, 0, u, v) /\ w = EncodeUnicast(e, x)
  BY <1>1, <1>3, <1>4
<1>7. w \in Seq(Nat)
  BY <1>2, <1>5, <1>6, UnicastCells
<1>8. /\ k \in Nat /\ k <= Len(w) /\ (k >= 3 + 2 * IdLen \/ k = Len(w))
      /\ Len(w) <= r => k = Len(w)
  <2>1. Len(w) \in Nat
    BY <1>7
  <2> QED BY <2>1, Arriving
<1>9. PICK whole \in BOOLEAN : whole <=> k = Len(w)
  OBVIOUS
<1>10. UnicastTaken(d, e, x, a, whole)
  <2>1. 0 \in Nat
    OBVIOUS
  <2> QED BY <1>2, <1>5, <1>6, <1>8, <1>9, <2>1, UnicastRead
<1>11. /\ d.e = e /\ d.e.response = a /\ p.e = e /\ p.m = (IF a = 1 THEN Blank ELSE m)
       /\ a = 1 => d.ok = TRUE
       /\ a = 0 => Held(d, x, whole)
  BY <1>10 DEF Envelope, UnicastTaken, ByUnicast
<1>12. whole \in BOOLEAN /\ (Len(w) <= r => whole) /\ (~ whole => k # Len(w))
  BY <1>8, <1>9
<1>13. CASE a = 1
  <2>1. PICK q : q = Blank
    OBVIOUS
  <2>2. o = [as |-> "message", e |-> p.e, m |-> q] /\ p.m = q
    BY <1>11, <1>13, <2>1 DEF UnicastOutcome
  <2>3. q.type # Application
    BY <2>1 DEF Blank, Application
  <2>4. TakenFor(q, p.m, whole)
    BY <2>2, <2>3 DEF TakenFor
  <2> QED BY <1>12, <2>2, <2>4, MessageArrived
<1>14. CASE a = 0 /\ d.ok = TRUE
  <2>1. p.m = m /\ Held(d, x, whole)
    BY <1>11, <1>14
  <2>2. d.ok = TRUE
    BY <1>14
  <2>3. n.ok = TRUE /\ TakenFor(n.m, m, whole)
    BY <1>1, <1>9, <2>1, <2>2, HeldDecodes, ZenonT(60)
  <2>4. PICK q : q = n.m
    OBVIOUS
  <2>5. o = [as |-> "message", e |-> p.e, m |-> q]
    BY <1>11, <1>14, <2>3, <2>4 DEF UnicastOutcome
  <2>6. TakenFor(q, p.m, whole)
    BY <2>1, <2>3, <2>4
  <2> QED BY <1>12, <2>5, <2>6, MessageArrived
<1>15. CASE a = 0 /\ d.ok = FALSE
  <2>1. o = [as |-> "ignored"]
    BY <1>15 DEF UnicastOutcome
  <2>2. ~ whole
    BY <1>11, <1>15 DEF Held
  <2>3. o.as = "ignored" /\ ~ (Len(w) <= r)
    BY <1>12, <2>1, <2>2
  <2> QED BY <2>3 DEF Arrived
<1>16. a = 0 => d.ok = TRUE \/ d.ok = FALSE
  BY <1>11 DEF Held
<1> QED BY <1>13, <1>14, <1>15, <1>16

\* What a multicast listener makes of a datagram.
MulticastOutcome(o, d, n) ==
  o = IF d.ok /\ n.ok THEN [as |-> "message", e |-> d.e, m |-> n.m] ELSE [as |-> "panic"]

ByMulticast(e, m) == [as |-> "multicast", e |-> e, m |-> m]

\* The three properties hold of it.
LEMMA MulticastArrives ==
  ASSUME NEW m, Sendable(m), NEW S \in SUBSET Member, NEW from \in S, NEW f \in Nat,
         NEW clock \in [{Id(i) : i \in S} -> Clocks], NEW order \in SetToSeqs({Id(i) : i \in S}),
         NEW e, e = MulticastEnvelope(f, Id(from), clock),
         NEW p, p = ByMulticast(e, m),
         NEW w, w = EncodeMulticast(e, order, Encode(m)), NEW r \in BufLens,
         NEW k, k = IF r < Len(w) THEN r ELSE Len(w),
         NEW d, d = DecodeMulticast(SubSeq(w, 1, k)),
         NEW n, n = Decode(d.message), NEW o, MulticastOutcome(o, d, n)
  PROVE  Arrived(o, p, w, r)
<1>1. PICK x : x = Encode(m)
  OBVIOUS
<1>2. x \in Seq(Nat) /\ x # <<>>
  BY <1>1, DecodeEncoded
<1>3. PICK u : u = Id(from)
  OBVIOUS
<1>4. IsId(u)
  BY <1>3, IdIsId, MemberAssumption
<1>5. PICK T : T = {Id(i) : i \in S}
  OBVIOUS
<1>6. \A t \in T : IsId(t)
  BY <1>5, IdIsId, MemberAssumption
<1>7. u \in T
  BY <1>3, <1>5
<1>8. IsFiniteSet(T)
  BY <1>5, IdsFinite
<1>9. PICK c \in Nat : /\ c = Cardinality(T) /\ DOMAIN order = 1..c /\ Len(order) = c
                       /\ {order[i] : i \in 1..c} = T
  BY <1>5, <1>8, OrderOf
<1>10. c \in Nat \ {0}
  BY <1>7, <1>9
<1>11. DOMAIN clock = T /\ clock = [t \in T |-> clock[t]] /\ \A t \in T : clock[t] \in Nat
  BY <1>5, ContentAssumption
<1>12. IsClock(clock, order, c)
  <2>1. \A i \in 1..c : order[i] \in T
    BY <1>9
  <2> QED BY <1>6, <1>9, <1>11, <2>1 DEF IsClock
<1>13. e = MulticastEnvelope(f, u, clock) /\ w = EncodeMulticast(e, order, x)
  BY <1>1, <1>3
<1>14. w \in Seq(Nat)
  <2>1. Splits(EncodeMulticast(e, order, x), f, u, c, PutClock(clock, order, c) \o PutStr(x), x)
    BY <1>2, <1>4, <1>9, <1>12, <1>13, MulticastParts
  <2> QED BY <1>13, <2>1 DEF Splits
<1>15. /\ k \in Nat /\ k <= Len(w) /\ (k >= 3 + 2 * IdLen \/ k = Len(w))
       /\ Len(w) <= r => k = Len(w)
       /\ k # Len(w) => k = r
  <2>1. Len(w) \in Nat
    BY <1>14
  <2> QED BY <2>1, Arriving
<1>16. PICK whole \in BOOLEAN : whole <=> k = Len(w)
  OBVIOUS
<1>17. MulticastTaken(d, e, x, c, k, whole)
  BY <1>2, <1>4, <1>9, <1>10, <1>12, <1>13, <1>15, <1>16, MulticastRead
<1>18. /\ d.ok = TRUE => d.e = e
       /\ Held(d, x, whole)
       /\ d.ok = FALSE => k <= 3 + IdLen + c * (1 + IdLen)
  BY <1>17 DEF MulticastTaken
<1>19. p.e = e /\ p.m = m /\ p.as = "multicast" /\ p.e.clock = clock
  BY DEF MulticastEnvelope, ByMulticast
<1>20. whole \in BOOLEAN /\ (Len(w) <= r => whole) /\ (~ whole => k = r)
  BY <1>15, <1>16
<1>21. CASE d.ok = TRUE
  <2>1. n.ok = TRUE /\ TakenFor(n.m, m, whole)
    BY <1>1, <1>18, <1>21, <1>20, HeldDecodes
  <2>2. PICK q : q = n.m
    OBVIOUS
  <2>3. o = [as |-> "message", e |-> p.e, m |-> q]
    BY <1>18, <1>19, <1>21, <2>1, <2>2 DEF MulticastOutcome
  <2>4. TakenFor(q, p.m, whole)
    BY <1>19, <2>1, <2>2
  <2> QED BY <1>20, <2>3, <2>4, MessageArrived
<1>22. CASE d.ok = FALSE
  <2>1. o = [as |-> "panic"]
    BY <1>22 DEF MulticastOutcome
  <2>2. ~ whole
    BY <1>18, <1>22 DEF Held
  <2>3. o.as = "panic" /\ ~ (Len(w) <= r)
    BY <1>20, <2>1, <2>2
  <2>4. r <= 3 + IdLen + Cardinality(DOMAIN p.e.clock) * (1 + IdLen)
    <3>1. Cardinality(DOMAIN p.e.clock) = c
      BY <1>9, <1>11, <1>19
    <3>2. k = r /\ k <= 3 + IdLen + c * (1 + IdLen)
      BY <1>18, <1>22, <1>20, <2>2
    <3> QED BY <3>1, <3>2
  <2> QED BY <1>19, <2>3, <2>4 DEF Arrived
<1> QED BY <1>18, <1>21, <1>22 DEF Held

-----------------------------------------------------------------------------
(* Every state                                                             *)

\* The datagrams that a server sends by unicast, and by multicast.
SentUnicast(p, w) ==
  \E m \in UnicastMessage, from \in Member, to \in Member, f \in Clocks, a \in {0, 1} :
    LET e == Envelope(a, f, 0, Id(from), Id(to))
    IN  /\ p = ByUnicast(e, m, a)
        /\ w = EncodeUnicast(e, Encode(m))

SentMulticast(p, w) ==
  \E m \in MulticastMessage, S \in SUBSET Member, f \in Clocks :
    \E from \in S, clock \in [{Id(i) : i \in S} -> Clocks], order \in SetToSeqs({Id(i) : i \in S}) :
      LET e == MulticastEnvelope(f, Id(from), clock)
      IN  p = ByMulticast(e, m) /\ w = EncodeMulticast(e, order, Encode(m))

\* What arrived is what the listener makes of a datagram that was sent.
Wire ==
  /\ room \in BufLens
  /\ \/ sent = Nothing /\ received = Nothing
     \/ SentUnicast(sent, datagram)
     \/ SentMulticast(sent, datagram)
  /\ received # Nothing => Arrived(received, sent, datagram, room)

\* What is sent is one of them.
LEMMA SendUnicastSent ==
  ASSUME SendUnicast
  PROVE  SentUnicast(sent', datagram') /\ UNCHANGED <<room, received>> /\ sent = Nothing
<1>1. PICK m \in UnicastMessage, from \in Member, to \in Member, f \in Clocks, a \in {0, 1} :
        LET e == [response |-> a, frame |-> f, tries |-> 0, from |-> Id(from), to |-> Id(to)]
        IN  /\ sent = Nothing
            /\ sent' = [as |-> "unicast", e |-> e, m |-> IF a = 1 THEN Blank ELSE m]
            /\ datagram' = EncodeUnicast(e, Encode(m))
            /\ UNCHANGED <<room, received>>
  BY ZenonT(30) DEF SendUnicast
<1> QED BY <1>1 DEF SentUnicast, Envelope, ByUnicast

\* By multicast.
LEMMA SendMulticastSent ==
  ASSUME SendMulticast
  PROVE  SentMulticast(sent', datagram') /\ UNCHANGED <<room, received>> /\ sent = Nothing
<1>1. PICK m \in MulticastMessage, S \in SUBSET Member, f \in Clocks :
        \E from \in S, clock \in [{Id(i) : i \in S} -> Clocks], order \in SetToSeqs({Id(i) : i \in S}) :
          LET e == [frame |-> f, uuid |-> Id(from), clock |-> clock]
          IN  /\ sent = Nothing
              /\ sent' = [as |-> "multicast", e |-> e, m |-> m]
              /\ datagram' = EncodeMulticast(e, order, Encode(m))
              /\ UNCHANGED <<room, received>>
  BY ZenonT(30) DEF SendMulticast
<1> QED BY <1>1 DEF SentMulticast, MulticastEnvelope, ByMulticast

\* They differ in how they go, and from nothing.
LEMMA SentAs ==
  ASSUME NEW p, NEW w
  PROVE  /\ SentUnicast(p, w) => p.as = "unicast" /\ p # Nothing
         /\ SentMulticast(p, w) => p.as = "multicast" /\ p # Nothing
<1>1. \A e, m, a : ByUnicast(e, m, a).as = "unicast" /\ ByMulticast(e, m).as = "multicast"
  BY DEF ByUnicast, ByMulticast
<1>2. Nothing.as = "nothing"
  BY DEF Nothing
<1>3. ASSUME SentUnicast(p, w)
      PROVE  p.as = "unicast"
  BY <1>1, <1>3 DEF SentUnicast
<1>4. ASSUME SentMulticast(p, w)
      PROVE  p.as = "multicast"
  <2>1. PICK e, m : p = ByMulticast(e, m)
    BY <1>4, Zenon DEF SentMulticast
  <2> QED BY <1>1, <2>1
<1> QED BY <1>2, <1>3, <1>4

\* The listener's outcome.
LEMMA ReadUnicastArrives ==
  ASSUME Wire, ReadUnicast
  PROVE  Arrived(received', sent, datagram, room)
<1>1. PICK p : p = sent
  OBVIOUS
<1>2. PICK w : w = datagram
  OBVIOUS
<1>3. PICK r \in BufLens : r = room
  BY DEF Wire
<1>4. PICK o : o = received'
  OBVIOUS
<1>5. PICK k : k = IF r < Len(w) THEN r ELSE Len(w)
  OBVIOUS
<1>6. PICK d : d = DecodeUnicast(SubSeq(w, 1, k))
  OBVIOUS
<1>7. PICK n : n = Decode(d.message)
  OBVIOUS
<1>8. UnicastOutcome(o, d, n)
  BY <1>2, <1>3, <1>4, <1>6, <1>7, <1>5 DEF ReadUnicast, Cut, UnicastOutcome
<1>9. SentUnicast(p, w)
  <2>1. p.as = "unicast" /\ p # Nothing
    BY <1>1 DEF ReadUnicast, Nothing
  <2>2. ~ SentMulticast(p, w)
    BY <2>1, SentAs
  <2> QED BY <1>1, <1>2, <2>1, <2>2 DEF Wire
<1>10. PICK m \in UnicastMessage, from \in Member, to \in Member, f \in Clocks, a \in {0, 1} :
        LET e == Envelope(a, f, 0, Id(from), Id(to))
        IN  /\ p = ByUnicast(e, m, a)
            /\ w = EncodeUnicast(e, Encode(m))
  BY <1>9 DEF SentUnicast
<1>11. PICK e : e = Envelope(a, f, 0, Id(from), Id(to))
  OBVIOUS
<1>12. /\ p = ByUnicast(e, m, a)
       /\ w = EncodeUnicast(e, Encode(m))
  BY <1>10, <1>11
<1>13. f \in Nat /\ Sendable(m)
  BY ContentAssumption, UnicastSendable
<1>14. Arrived(o, p, w, r)
  BY <1>6, <1>7, <1>8, <1>5, <1>11, <1>12, <1>13, UnicastArrives
<1> QED BY <1>1, <1>2, <1>3, <1>4, <1>14

\* The multicast listener's.
LEMMA ReadMulticastArrives ==
  ASSUME Wire, ReadMulticast
  PROVE  Arrived(received', sent, datagram, room)
<1>1. PICK p : p = sent
  OBVIOUS
<1>2. PICK w : w = datagram
  OBVIOUS
<1>3. PICK r \in BufLens : r = room
  BY DEF Wire
<1>4. PICK o : o = received'
  OBVIOUS
<1>5. PICK k : k = IF r < Len(w) THEN r ELSE Len(w)
  OBVIOUS
<1>6. PICK d : d = DecodeMulticast(SubSeq(w, 1, k))
  OBVIOUS
<1>7. PICK n : n = Decode(d.message)
  OBVIOUS
<1>8. MulticastOutcome(o, d, n)
  BY <1>2, <1>3, <1>4, <1>6, <1>7, <1>5 DEF ReadMulticast, Cut, MulticastOutcome
<1>9. SentMulticast(p, w)
  <2>1. p.as = "multicast" /\ p # Nothing
    BY <1>1 DEF ReadMulticast, Nothing
  <2>2. ~ SentUnicast(p, w)
    BY <2>1, SentAs
  <2> QED BY <1>1, <1>2, <2>1, <2>2 DEF Wire
<1>10. PICK m \in MulticastMessage, S \in SUBSET Member, f \in Clocks :
        \E from \in S, clock \in [{Id(i) : i \in S} -> Clocks], order \in SetToSeqs({Id(i) : i \in S}) :
          LET e == MulticastEnvelope(f, Id(from), clock)
          IN  p = ByMulticast(e, m) /\ w = EncodeMulticast(e, order, Encode(m))
  BY <1>9 DEF SentMulticast
<1>11. PICK from \in S, clock \in [{Id(i) : i \in S} -> Clocks], order \in SetToSeqs({Id(i) : i \in S}) :
          LET e == MulticastEnvelope(f, Id(from), clock)
          IN  p = ByMulticast(e, m) /\ w = EncodeMulticast(e, order, Encode(m))
  BY <1>10
<1>12. PICK e : e = MulticastEnvelope(f, Id(from), clock)
  OBVIOUS
<1>13. p = ByMulticast(e, m) /\ w = EncodeMulticast(e, order, Encode(m))
  BY <1>11, <1>12
<1>14. f \in Nat /\ Sendable(m)
  BY ContentAssumption, MulticastSendable
<1>15. Arrived(o, p, w, r)
  BY <1>6, <1>7, <1>8, <1>5, <1>12, <1>13, <1>14, MulticastArrives
<1> QED BY <1>1, <1>2, <1>3, <1>4, <1>15

\* Wire is inductive.
LEMMA WireInit == Init => Wire
BY DEF Init, Wire

\* Every step keeps it.
LEMMA WireNext == Wire /\ [Next]_vars => Wire'
<1> SUFFICES ASSUME Wire, [Next]_vars
             PROVE  Wire'
  OBVIOUS
<1>1. CASE SendUnicast
  <2>1. SentUnicast(sent', datagram') /\ room' = room /\ received' = received /\ sent = Nothing
    BY <1>1, SendUnicastSent
  <2>2. received = Nothing
    <3>1. ~ SentUnicast(Nothing, datagram) /\ ~ SentMulticast(Nothing, datagram)
      BY SentAs
    <3> QED BY <2>1, <3>1 DEF Wire
  <2> QED BY <2>1, <2>2 DEF Wire
<1>2. CASE SendMulticast
  <2>1. SentMulticast(sent', datagram') /\ room' = room /\ received' = received /\ sent = Nothing
    BY <1>2, SendMulticastSent
  <2>2. received = Nothing
    <3>1. ~ SentUnicast(Nothing, datagram) /\ ~ SentMulticast(Nothing, datagram)
      BY SentAs
    <3> QED BY <2>1, <3>1 DEF Wire
  <2> QED BY <2>1, <2>2 DEF Wire
<1>3. CASE ReadUnicast
  <2>1. Arrived(received', sent, datagram, room)
    BY <1>3, ReadUnicastArrives
  <2>2. UNCHANGED <<sent, datagram, room>> /\ sent # Nothing
    BY <1>3 DEF ReadUnicast, Nothing
  <2> QED BY <2>1, <2>2 DEF Wire
<1>4. CASE ReadMulticast
  <2>1. Arrived(received', sent, datagram, room)
    BY <1>4, ReadMulticastArrives
  <2>2. UNCHANGED <<sent, datagram, room>> /\ sent # Nothing
    BY <1>4 DEF ReadMulticast, Nothing
  <2> QED BY <2>1, <2>2 DEF Wire
<1>5. CASE UNCHANGED vars
  BY <1>5 DEF Wire, vars
<1> QED BY <1>1, <1>2, <1>3, <1>4, <1>5 DEF Next

(* Every datagram on the wire is one that a server encoded, and the outcome *)
(* of its listener is what the three properties say, whatever the servers,  *)
(* the length of an id, the buffer, the lines and the clocks.               *)
THEOREM WireCorrect == Spec => []Wire
BY WireInit, WireNext, PTL DEF Spec

(* What fits into the listener's buffer arrives as it was sent: Encode and  *)
(* Decode of message.go and of both envelopes are inverse to each other for  *)
(* every message, every peer list, every vector clock and every order in     *)
(* which a map gives its entries.                                            *)
THEOREM RoundTripCorrect == Spec => []RoundTrip
<1>1. Wire => RoundTrip
  BY DEF Wire, RoundTrip, Arrived, Uncut
<1> QED BY <1>1, WireCorrect, PTL

(* A cut datagram never stops the unicast handler, and a multicast listener *)
(* only if nothing of the message was left.                                  *)
THEOREM PanicsOnlyHeadlessCorrect == Spec => []PanicsOnlyHeadless
<1>1. Wire => PanicsOnlyHeadless
  BY DEF Wire, PanicsOnlyHeadless, Arrived, Nothing
<1> QED BY <1>1, WireCorrect, PTL

(* A cut datagram that is taken for whole has its true envelope, and a line  *)
(* its length and its first characters.                                      *)
THEOREM CutOnlyPadsCorrect == Spec => []CutOnlyPads
<1>1. Wire => CutOnlyPads
  BY DEF Wire, CutOnlyPads, Arrived, Nothing
<1> QED BY <1>1, WireCorrect, PTL
=============================================================================
