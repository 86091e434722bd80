------------------------ MODULE PatternPipelineProofs --------------------------
(***************************************************************************)
(* Theorems about PatternPipeline, for every set of files, scripts,        *)
(* patterns, curves and parameters, and for all limits that are to each    *)
(* other as the code's.                                                    *)
(*                                                                         *)
(* What the model computes along a sequence it computes by recursive       *)
(* functions, so the lemmas begin with induction over the naturals and     *)
(* with the existence of such functions.  A lemma cannot have an operator  *)
(* as a parameter here: sets stand for predicates and functions for        *)
(* operators.                                                              *)
(*                                                                         *)
(* In order:                                                               *)
(*   laws of sequences, of sequences of sequences, and of sums;            *)
(*   modulation, the decoders, the copy to the application, seeking;       *)
(*   the invariant of what the application has, and from it Lossless,      *)
(*     SeekPlaysOn and ModulatesPointwise;                                 *)
(*   parcels, the invariant of what is sent, and CallsArrive;              *)
(*   the line of events, the invariant of what is played, and              *)
(*     EffectsFollowTheirEvents.                                           *)
(***************************************************************************)
EXTENDS PatternPipeline, SequenceTheorems, FiniteSetTheorems, WellFoundedInduction, TLAPS

-----------------------------------------------------------------------------
(* Induction and recursive functions.                                        *)

\* A set of naturals from a on that has a, and with a number the next up to
\* n, has all of them.
LEMMA UpTo ==
  ASSUME NEW a \in Int, NEW n \in Int, NEW S,
         a \in S, \A i \in a + 1 .. n : i - 1 \in S => i \in S
  PROVE  \A i \in a .. n : i \in S
<1> SUFFICES ASSUME NEW k \in a .. n, k \notin S
             PROVE  FALSE
  OBVIOUS
<1> DEFINE Less == {ss \in Nat \X Nat : ss[1] < ss[2]}
           Out  == {m \in Nat : a + m <= n /\ a + m \notin S}
<1>1. OpToRel(<, Nat) = Less
  BY Zenon DEF OpToRel
<1>2. IsWellFoundedOn(Less, Nat)
  BY <1>1, NatLessThanWellFounded, Zenon
<1>3. Out \subseteq Nat /\ k - a \in Out
  OBVIOUS
<1>4. \E m \in Out : \A x \in Out : <<x, m>> \notin Less
  <2> HIDE DEF Less, Out
  <2> QED
    BY <1>2, <1>3, WFMin, Zenon
<1>5. PICK m \in Out : \A x \in Out : <<x, m>> \notin Less
  BY <1>4
<1>6. m # 0
  BY a + 0 = a
<1>7. m - 1 \in Nat /\ a + m \in a + 1 .. n /\ a + (m - 1) = (a + m) - 1
  BY <1>6
<1>8. a + (m - 1) \notin S
  BY <1>7
<1>9. m - 1 \in Out
  BY <1>7, <1>8
<1>10. <<m - 1, m>> \in Less
  BY <1>7
<1> QED
  BY <1>5, <1>9, <1>10

\* The same from 0 on.
LEMMA UpFromZero ==
  ASSUME NEW n \in Nat, NEW S,
         0 \in S, \A i \in 1 .. n : i - 1 \in S => i \in S
  PROVE  \A i \in 0 .. n : i \in S
BY UpTo, 0 \in Int, n \in Int, 0 + 1 = 1

\* f runs from a to n in S: it has a given first value, and makes each other
\* of the one before by a given step.
Steps(a, n, S) == [(a + 1 .. n) \X S -> S]

IsRun(f, a, n, S, first, step) ==
  /\ f \in [a .. n -> S]
  /\ f[a] = first
  /\ \A i \in a + 1 .. n : f[i] = step[<<i, f[i - 1]>>]

\* There is such a function.
LEMMA RunExists ==
  ASSUME NEW a \in Int, NEW n \in Int, a <= n,
         NEW S, NEW first \in S, NEW step \in Steps(a, n, S)
  PROVE  \E f : IsRun(f, a, n, S, first, step)
<1> DEFINE Good(m) == {f \in [a .. m -> S] :
                         /\ f[a] = first
                         /\ \A i \in a + 1 .. m : f[i] = step[<<i, f[i - 1]>>]}
           Done == {m \in a .. n : Good(m) # {}}
<1>1. a \in Done
  <2>1. [i \in a .. a |-> first] \in Good(a)
    OBVIOUS
  <2> QED
    <3> HIDE DEF Good
    <3> QED
      BY <2>1
<1>2. ASSUME NEW m \in a + 1 .. n, m - 1 \in Done
      PROVE  m \in Done
  <2>1. PICK f \in Good(m - 1) : TRUE
    BY <1>2
  <2> DEFINE g == [i \in a .. m |-> IF i = m THEN step[<<m, f[m - 1]>>] ELSE f[i]]
  <2>2. f[m - 1] \in S /\ step[<<m, f[m - 1]>>] \in S
    BY <2>1 DEF Steps
  <2>3. g \in [a .. m -> S]
    BY <2>1, <2>2
  <2>4. g[a] = first
    BY <2>1
  <2>5. ASSUME NEW i \in a + 1 .. m
        PROVE  g[i] = step[<<i, g[i - 1]>>]
    <3>1. g[i - 1] = f[i - 1]
      OBVIOUS
    <3>2. g[i] = step[<<i, f[i - 1]>>]
      <4>1. CASE i = m
        BY <4>1
      <4>2. CASE i # m
        <5>1. i \in a + 1 .. m - 1
          BY <4>2
        <5> QED
          BY <2>1, <4>2, <5>1
      <4> QED
        BY <4>1, <4>2
    <3> HIDE DEF g
    <3> QED
      BY <3>1, <3>2
  <2>6. g \in Good(m)
    <3> HIDE DEF g
    <3> QED
      BY <2>3, <2>4, <2>5
  <2> QED
    <3> HIDE DEF Good
    <3> QED
      BY <2>6
<1>3. n \in Done
  <2> HIDE DEF Done
  <2> QED
    BY <1>1, <1>2, UpTo, n \in a .. n
<1> QED
  BY <1>3 DEF IsRun

-----------------------------------------------------------------------------
(* Sequences.  Concatenation and Append under names the provers do not see   *)
(* through: the laws below are what most proofs need of them.                *)

Cat(s, t) == s \o t

Add(s, x) == Append(s, x)

\* Cat makes a sequence of both lengths.
LEMMA CatType ==
  ASSUME NEW T
  PROVE  \A s, t \in Seq(T) : Cat(s, t) \in Seq(T) /\ Len(Cat(s, t)) = Len(s) + Len(t)
BY DEF Cat

\* Add makes a sequence longer by one.
LEMMA AddType ==
  ASSUME NEW T
  PROVE  \A s \in Seq(T) : \A x \in T : Add(s, x) \in Seq(T) /\ Len(Add(s, x)) = Len(s) + 1
BY DEF Add

\* Adding after concatenating is concatenating after adding.
LEMMA AddCat ==
  ASSUME NEW T
  PROVE  \A s, t \in Seq(T) : \A x \in T : Add(Cat(s, t), x) = Cat(s, Add(t, x))
BY DEF Cat, Add

\* Concatenation is associative.
LEMMA CatCat ==
  ASSUME NEW T
  PROVE  \A s, t, u \in Seq(T) : Cat(Cat(s, t), u) = Cat(s, Cat(t, u))
BY ConcatAssociative DEF Cat

\* The empty sequence is its unit.
LEMMA CatEmpty ==
  ASSUME NEW T
  PROVE  /\ <<>> \in Seq(T)
         /\ \A s \in Seq(T) : Cat(s, <<>>) = s /\ Cat(<<>>, s) = s
BY ConcatEmptySeq DEF Cat

\* The elements of a concatenation.
LEMMA CatElements ==
  ASSUME NEW T, NEW s \in Seq(T), NEW t \in Seq(T)
  PROVE  /\ \A i \in 1 .. Len(s) : Cat(s, t)[i] = s[i]
         /\ \A i \in 1 .. Len(t) : Cat(s, t)[Len(s) + i] = t[i]
BY DEF Cat

\* w is s and then t.
Joins(w, s, t) ==
  /\ \A i \in 1 .. Len(s) : w[i] = s[i]
  /\ \A i \in 1 .. Len(t) : w[Len(s) + i] = t[i]

\* A concatenation joins its parts.
LEMMA CatJoins ==
  ASSUME NEW T
  PROVE  \A s, t \in Seq(T) : Joins(Cat(s, t), s, t)
BY CatElements DEF Joins

\* Those of a sequence with one element more.
LEMMA AddElements ==
  ASSUME NEW T, NEW s \in Seq(T), NEW x \in T
  PROVE  /\ \A i \in 1 .. Len(s) : Add(s, x)[i] = s[i]
         /\ Add(s, x)[Len(s) + 1] = x
BY DEF Add

-----------------------------------------------------------------------------
(* Sequences of sequences.                                                   *)

\* f concatenates the first sequences of ss.
Concats(f, ss, T) ==
  /\ f \in [0 .. Len(ss) -> Seq(T)]
  /\ f[0] = <<>>
  /\ \A i \in 1 .. Len(ss) : f[i] = f[i - 1] \o ss[i]

\* FlattenSeq is what the concatenations end with.
LEMMA FlattenRuns ==
  ASSUME NEW T, NEW ss \in Seq(Seq(T))
  PROVE  \E f : Concats(f, ss, T) /\ f[Len(ss)] = FlattenSeq(ss)
<1> DEFINE n == Len(ss)
<1>1. n \in Nat
  OBVIOUS
<1> USE <1>1
<1>2. CASE n = 0
  <2> DEFINE f == [i \in 0 .. 0 |-> <<>>]
  <2>1. FlattenSeq(ss) = <<>>
    BY <1>2 DEF FlattenSeq
  <2>2. f \in [0 .. 0 -> Seq(T)] /\ f[0] = <<>>
    OBVIOUS
  <2> HIDE DEF f
  <2> QED
    BY <1>2, <2>1, <2>2 DEF Concats
<1>3. CASE n # 0
  <2> DEFINE Eq(g) == g = [i \in 1 .. n |-> IF i = 1 THEN ss[i] ELSE g[i - 1] \o ss[i]]
             F == CHOOSE g : Eq(g)
             step == [x \in (1 + 1 .. n) \X Seq(T) |-> x[2] \o ss[x[1]]]
  <2>1. FlattenSeq(ss) = F[n]
    BY <1>3 DEF FlattenSeq
  <2>2. /\ 1 \in Int /\ n \in Int /\ 1 <= n /\ ss[1] \in Seq(T)
        /\ \A i \in 1 + 1 .. n : ss[i] \in Seq(T) /\ i - 1 \in 1 .. n /\ i # 1
    BY <1>3
  <2> HIDE DEF n
  <2>3. step \in [(1 + 1 .. n) \X Seq(T) -> Seq(T)]
    BY <2>2
  <2>4. \A i \in 1 + 1 .. n, s \in Seq(T) : step[<<i, s>>] = s \o ss[i]
    OBVIOUS
  <2> HIDE DEF step
  <2>5. \E g : IsRun(g, 1, n, Seq(T), ss[1], step)
    <3>1. /\ 1 \in Int /\ n \in Int /\ 1 <= n /\ ss[1] \in Seq(T)
      BY <2>2
    <3> QED
      BY <2>3, <3>1, RunExists, Zenon DEF Steps
  <2>6. PICK g \in [1 .. n -> Seq(T)] :
          /\ g[1] = ss[1]
          /\ \A i \in 1 + 1 .. n : g[i] = step[<<i, g[i - 1]>>]
    BY <2>5 DEF IsRun
  <2>7. ASSUME NEW i \in 1 .. n, i # 1
        PROVE  g[i] = g[i - 1] \o ss[i]
    <3>1. i \in 1 + 1 .. n
      BY <2>7
    <3>2. g[i - 1] \in Seq(T)
      BY <2>2, <3>1
    <3> QED
      BY <2>4, <2>6, <3>1, <3>2, Zenon
  <2>8. Eq(F)
    <3>1. ASSUME NEW i \in 1 .. n
          PROVE  g[i] = IF i = 1 THEN ss[i] ELSE g[i - 1] \o ss[i]
      BY <2>6, <2>7, Zenon
    <3>2. Eq(g)
      BY <3>1, Zenon
    <3> HIDE DEF Eq
    <3> QED
      BY <3>2, Zenon
  <2> HIDE DEF F
  <2>9. /\ F[1] = ss[1]
        /\ \A i \in 1 + 1 .. n : F[i] = F[i - 1] \o ss[i]
    <3>1. \A i \in 1 .. n : F[i] = IF i = 1 THEN ss[i] ELSE F[i - 1] \o ss[i]
      BY <2>8, Zenon
    <3>2. 1 \in 1 .. n /\ \A i \in 1 + 1 .. n : i \in 1 .. n /\ i # 1
      BY <2>2
    <3> QED
      BY <3>1, <3>2, Zenon
  <2> HIDE DEF Eq
  <2> DEFINE S == {i \in 1 .. n : F[i] \in Seq(T)}
  <2>10. \A i \in 1 .. n : i \in S
    <3>1. 1 \in S
      BY <2>2, <2>9
    <3>2. ASSUME NEW i \in 1 + 1 .. n, i - 1 \in S
          PROVE  i \in S
      <4>1. F[i] = F[i - 1] \o ss[i] /\ ss[i] \in Seq(T) /\ i \in 1 .. n
        <5>1. i \in 1 .. n
          OBVIOUS
        <5> QED
          BY <2>2, <2>9, <5>1, Zenon
      <4>2. F[i] \in Seq(T)
        <5>1. F[i - 1] \in Seq(T)
          BY <3>2
        <5>2. \A s1, s2 \in Seq(T) : s1 \o s2 \in Seq(T)
          OBVIOUS
        <5> QED
          BY <4>1, <5>1, <5>2, Zenon
      <4> QED
        BY <4>1, <4>2
    <3> HIDE DEF S
    <3> QED
      BY <2>2, <3>1, <3>2, UpTo
  <2> DEFINE f == [i \in 0 .. n |-> IF i = 0 THEN <<>> ELSE F[i]]
  <2>11. f \in [0 .. n -> Seq(T)]
    BY <2>10
  <2>12. f[0] = <<>> /\ \A i \in 1 .. n : f[i] = F[i]
    BY <2>2
  <2> HIDE DEF f, S
  <2>13. ASSUME NEW i \in 1 .. n
         PROVE  f[i] = f[i - 1] \o ss[i]
    <3>1. CASE i = 1
      <4>1. f[1] = ss[1] /\ f[1 - 1] = <<>> /\ <<>> \o ss[1] = ss[1]
        BY <2>2, <2>9, <2>12
      <4> QED
        BY <3>1, <4>1, Zenon
    <3>2. CASE i # 1
      <4>1. i - 1 \in 1 .. n /\ i \in 1 + 1 .. n
        BY <3>2
      <4> QED
        BY <2>9, <2>12, <4>1, Zenon
    <3> QED
      BY <3>1, <3>2
  <2>14. f[n] = FlattenSeq(ss)
    BY <2>1, <2>2, <2>12
  <2> QED
    BY <2>11, <2>12, <2>13, <2>14 DEF n, Concats
<1> QED
  BY <1>2, <1>3

\* Induction over the sequences of a set.
LEMMA SeqInduction ==
  ASSUME NEW T, NEW S,
         <<>> \in S,
         \A s \in Seq(T), x \in T : s \in S => Add(s, x) \in S
  PROVE  Seq(T) \subseteq S
<1> SUFFICES ASSUME NEW s \in Seq(T)
             PROVE  s \in S
  OBVIOUS
<1> DEFINE n == Len(s)
           K == {k \in 0 .. n : SubSeq(s, 1, k) \in S}
<1>1. n \in Nat
  OBVIOUS
<1>2. 0 \in K
  <2>1. SubSeq(s, 1, 0) = <<>>
    OBVIOUS
  <2>2. 0 \in 0 .. n
    BY <1>1
  <2> QED
    BY <2>1, <2>2, Zenon
<1>3. ASSUME NEW k \in 0 + 1 .. n, k - 1 \in K
      PROVE  k \in K
  <2>1. SubSeq(s, 1, k - 1) \in Seq(T) /\ s[k] \in T
    BY <1>1
  <2>2. SubSeq(s, 1, k) = Append(SubSeq(s, 1, k - 1), s[k])
    <3>1. SubSeq(s, 1, k) = SubSeq(s, 1, k - 1) \o <<s[k]>>
      BY SubSeqRecursiveSecond, 1 \in 1 .. Len(s), k \in 1 .. Len(s)
    <3>2. Append(SubSeq(s, 1, k - 1), s[k]) = SubSeq(s, 1, k - 1) \o <<s[k]>>
      BY <2>1, AppendIsConcat, Zenon
    <3> QED
      BY <3>1, <3>2
  <2>3. SubSeq(s, 1, k) \in S
    <3>1. SubSeq(s, 1, k) = Add(SubSeq(s, 1, k - 1), s[k])
      BY <2>2, Zenon DEF Add
    <3> QED
      BY <1>3, <2>1, <3>1
  <2> QED
    BY <1>1, <2>3
<1>4. n \in K
  <2> HIDE DEF K, n
  <2> QED
    BY <1>1, <1>2, <1>3, UpTo
<1>5. SubSeq(s, 1, n) = s
  <2>1. \A u \in Seq(T) : SubSeq(u, 1, Len(u)) = u
    BY SubSeqFull
  <2> QED
    BY <2>1, Zenon
<1> QED
  BY <1>4, <1>5

\* Flattening no sequences.
LEMMA FlattenEmpty ==
  FlattenSeq(<<>>) = <<>>
BY DEF FlattenSeq

\* Flattening makes a sequence.
LEMMA FlattenType ==
  ASSUME NEW T, NEW ss \in Seq(Seq(T))
  PROVE  FlattenSeq(ss) \in Seq(T)
<1>1. PICK f : Concats(f, ss, T) /\ f[Len(ss)] = FlattenSeq(ss)
  BY FlattenRuns
<1> QED
  BY <1>1 DEF Concats

\* FlattenSeq concatenates from the left.
LEMMA FlattenAppend ==
  ASSUME NEW T, NEW ss \in Seq(Seq(T)), NEW s \in Seq(T)
  PROVE  FlattenSeq(Append(ss, s)) = FlattenSeq(ss) \o s
<1> DEFINE n == Len(ss)
           tt == Append(ss, s)
<1>1. /\ n \in Nat /\ tt \in Seq(Seq(T)) /\ Len(tt) = n + 1
      /\ \A i \in 1 .. n : tt[i] = ss[i]
      /\ tt[n + 1] = s
  OBVIOUS
<1>2. PICK f \in [0 .. n -> Seq(T)] :
        /\ f[0] = <<>>
        /\ \A i \in 1 .. n : f[i] = f[i - 1] \o ss[i]
        /\ f[n] = FlattenSeq(ss)
  <2>1. \E f : Concats(f, ss, T) /\ f[n] = FlattenSeq(ss)
    BY FlattenRuns
  <2> QED
    BY <2>1 DEF Concats
<1> HIDE DEF tt
<1>3. PICK g \in [0 .. n + 1 -> Seq(T)] :
        /\ g[0] = <<>>
        /\ \A i \in 1 .. n + 1 : g[i] = g[i - 1] \o tt[i]
        /\ g[n + 1] = FlattenSeq(tt)
  <2>1. \E g : Concats(g, tt, T) /\ g[Len(tt)] = FlattenSeq(tt)
    BY <1>1, FlattenRuns
  <2> QED
    BY <1>1, <2>1 DEF Concats
<1> HIDE DEF n
<1> DEFINE S == {i \in 0 .. n : f[i] = g[i]}
<1>4. 0 \in S
  BY <1>1, <1>2, <1>3
<1>5. ASSUME NEW i \in 1 .. n, i - 1 \in S
      PROVE  i \in S
  <2>1. i \in 1 .. n /\ i \in 1 .. n + 1 /\ i \in 0 .. n
    BY <1>1
  <2>2. f[i] = f[i - 1] \o ss[i] /\ g[i] = g[i - 1] \o ss[i]
    BY <1>1, <1>2, <1>3, <2>1, Zenon
  <2>3. f[i - 1] = g[i - 1]
    BY <1>5
  <2> QED
    BY <2>1, <2>2, <2>3, Zenon
<1>6. f[n] = g[n]
  <2>1. n \in Nat
    BY <1>1
  <2>2. \A i \in 0 .. n : i \in S
    <3> HIDE DEF S
    <3> QED
      BY <1>4, <1>5, <2>1, UpFromZero, Zenon
  <2> QED
    BY <2>1, <2>2
<1>7. g[n + 1] = g[n] \o s
  <2>1. n + 1 \in 1 .. n + 1 /\ (n + 1) - 1 = n
    BY <1>1
  <2>2. g[n + 1] = g[(n + 1) - 1] \o tt[n + 1]
    BY <1>3, <2>1, Zenon
  <2> QED
    BY <1>1, <2>1, <2>2, Zenon
<1> QED
  BY <1>2, <1>3, <1>6, <1>7 DEF tt

\* A function applied to each element, and one that gives a sequence for each.
Apply(h, s) == [i \in DOMAIN s |-> h[s[i]]]

Bind(g, s) == FlattenSeq(Apply(g, s))

\* What results is of the same length.
LEMMA ApplyType ==
  ASSUME NEW T, NEW U, NEW h \in [T -> U], NEW s \in Seq(T)
  PROVE  /\ Apply(h, s) \in Seq(U)
         /\ Len(Apply(h, s)) = Len(s)
         /\ \A i \in 1 .. Len(s) : Apply(h, s)[i] = h[s[i]]
<1>1. DOMAIN s = 1 .. Len(s) /\ Len(s) \in Nat
  OBVIOUS
<1>2. Apply(h, s) = [i \in 1 .. Len(s) |-> h[s[i]]]
  BY <1>1 DEF Apply
<1> QED
  BY <1>1, <1>2

\* The same, one thing at a time and for all sequences at once, which is how
\* the provers can use it.
LEMMA ApplySeq ==
  ASSUME NEW T, NEW U, NEW h \in [T -> U]
  PROVE  \A s \in Seq(T) : Apply(h, s) \in Seq(U)
BY ApplyType

\* The length.
LEMMA ApplyLen ==
  ASSUME NEW T, NEW h
  PROVE  \A s \in Seq(T) : Len(Apply(h, s)) = Len(s)
<1> SUFFICES ASSUME NEW s \in Seq(T)
             PROVE  Len(Apply(h, s)) = Len(s)
  OBVIOUS
<1>1. DOMAIN s = 1 .. Len(s) /\ Len(s) \in Nat
  OBVIOUS
<1>2. Apply(h, s) = [i \in 1 .. Len(s) |-> h[s[i]]]
  BY <1>1 DEF Apply
<1> QED
  BY <1>1, <1>2

\* The elements.
LEMMA ApplyAt ==
  ASSUME NEW T, NEW h
  PROVE  \A s \in Seq(T) : \A i \in 1 .. Len(s) : Apply(h, s)[i] = h[s[i]]
BY DEF Apply

\* Applying it to nothing.
LEMMA ApplyEmpty ==
  ASSUME NEW h
  PROVE  Apply(h, <<>>) = <<>>
BY DEF Apply

\* Applying it to one element more.
LEMMA ApplyAppend ==
  ASSUME NEW T, NEW h, NEW s \in Seq(T), NEW x \in T
  PROVE  Apply(h, Append(s, x)) = Append(Apply(h, s), h[x])
<1> DEFINE n == Len(s)
           a == Apply(h, s)
           b == Apply(h, Append(s, x))
           W == {h[y] : y \in T}
<1>1. /\ n \in Nat /\ Len(Append(s, x)) = n + 1
      /\ DOMAIN s = 1 .. n /\ DOMAIN Append(s, x) = 1 .. n + 1
      /\ \A i \in 1 .. n : Append(s, x)[i] = s[i]
      /\ Append(s, x)[n + 1] = x
      /\ \A i \in 1 .. n : s[i] \in T
  OBVIOUS
<1>2. a = [i \in 1 .. n |-> h[s[i]]] /\ b = [i \in 1 .. n + 1 |-> h[Append(s, x)[i]]]
  BY <1>1 DEF Apply
<1> HIDE DEF n, a, b
<1>3. a \in Seq(W) /\ Len(a) = n /\ b \in Seq(W) /\ Len(b) = n + 1 /\ h[x] \in W
  BY <1>1, <1>2
<1>4. /\ Append(a, h[x]) \in Seq(W) /\ Len(Append(a, h[x])) = n + 1
      /\ \A i \in 1 .. n : Append(a, h[x])[i] = a[i]
      /\ Append(a, h[x])[n + 1] = h[x]
  BY <1>1, <1>3
<1>5. ASSUME NEW i \in 1 .. n + 1
      PROVE  b[i] = Append(a, h[x])[i]
  <2>1. CASE i \in 1 .. n
    BY <1>1, <1>2, <1>4, <2>1
  <2>2. CASE i = n + 1
    BY <1>1, <1>2, <1>4, <2>2
  <2>3. i \in 1 .. n \/ i = n + 1
    <3>1. n \in Nat
      BY <1>1
    <3> QED
      BY <3>1
  <2> QED
    BY <2>1, <2>2, <2>3, Zenon
<1>6. b = Append(a, h[x])
  <2> HIDE DEF W
  <2> DEFINE c == Append(a, h[x])
  <2>1. c \in Seq(W) /\ Len(c) = n + 1 /\ \A i \in 1 .. n + 1 : b[i] = c[i]
    BY <1>4, <1>5
  <2> HIDE DEF c
  <2>2. b = c
    BY <1>3, <2>1, SeqEqual
  <2> QED
    BY <2>2 DEF c
<1> QED
  BY <1>6 DEF a, b

\* In terms of Add and Cat.
LEMMA FlattenAdd ==
  ASSUME NEW T
  PROVE  \A ss \in Seq(Seq(T)), s \in Seq(T) :
           FlattenSeq(Add(ss, s)) = Cat(FlattenSeq(ss), s)
BY FlattenAppend DEF Add, Cat

\* In terms of Add.
LEMMA ApplyAdd ==
  ASSUME NEW T, NEW h
  PROVE  \A s \in Seq(T), x \in T : Apply(h, Add(s, x)) = Add(Apply(h, s), h[x])
BY ApplyAppend DEF Add

\* Its values are of the function's range, whatever that is.
LEMMA ApplyRange ==
  ASSUME NEW T, NEW h, NEW s \in Seq(T)
  PROVE  Apply(h, s) \in Seq({h[x] : x \in T})
<1>1. DOMAIN s = 1 .. Len(s) /\ Len(s) \in Nat /\ \A i \in 1 .. Len(s) : s[i] \in T
  OBVIOUS
<1>2. Apply(h, s) = [i \in 1 .. Len(s) |-> h[s[i]]]
  BY <1>1 DEF Apply
<1> QED
  BY <1>1, <1>2

\* Applying a function to a concatenation.
LEMMA ApplyCat ==
  ASSUME NEW T, NEW h
  PROVE  \A s, t \in Seq(T) : Apply(h, Cat(s, t)) = Cat(Apply(h, s), Apply(h, t))
<1> SUFFICES ASSUME NEW s \in Seq(T)
             PROVE  \A t \in Seq(T) : Apply(h, Cat(s, t)) = Cat(Apply(h, s), Apply(h, t))
  OBVIOUS
<1> DEFINE S == {t \in Seq(T) : Apply(h, Cat(s, t)) = Cat(Apply(h, s), Apply(h, t))}
           W == {h[y] : y \in T}
<1>1. \A t \in Seq(T) : Apply(h, t) \in Seq(W)
  BY ApplyRange
<1>2. \A x \in T : h[x] \in W
  OBVIOUS
<1> HIDE DEF W
<1>3. <<>> \in S
  BY <1>1, ApplyEmpty, CatEmpty
<1>4. ASSUME NEW t \in Seq(T), NEW x \in T, t \in S
      PROVE  Add(t, x) \in S
  <2>1. Cat(s, t) \in Seq(T) /\ Add(t, x) \in Seq(T)
    BY CatType, AddType
  <2>2. Apply(h, Cat(s, Add(t, x))) = Add(Apply(h, Cat(s, t)), h[x])
    BY <2>1, AddCat, ApplyAdd
  <2>3. Add(Cat(Apply(h, s), Apply(h, t)), h[x]) = Cat(Apply(h, s), Add(Apply(h, t), h[x]))
    BY <1>1, <1>2, AddCat
  <2>4. Add(Apply(h, t), h[x]) = Apply(h, Add(t, x))
    BY ApplyAdd
  <2> QED
    BY <1>4, <2>1, <2>2, <2>3, <2>4
<1>5. Seq(T) \subseteq S
  <2> HIDE DEF S
  <2> QED
    BY <1>3, <1>4, SeqInduction
<1> QED
  BY <1>5

\* Flattening a concatenation.
LEMMA FlattenCat ==
  ASSUME NEW T
  PROVE  \A ss, tt \in Seq(Seq(T)) :
           FlattenSeq(Cat(ss, tt)) = Cat(FlattenSeq(ss), FlattenSeq(tt))
<1> SUFFICES ASSUME NEW ss \in Seq(Seq(T))
             PROVE  \A tt \in Seq(Seq(T)) :
                      FlattenSeq(Cat(ss, tt)) = Cat(FlattenSeq(ss), FlattenSeq(tt))
  OBVIOUS
<1> DEFINE S == {tt \in Seq(Seq(T)) :
                   FlattenSeq(Cat(ss, tt)) = Cat(FlattenSeq(ss), FlattenSeq(tt))}
<1>1. <<>> \in S
  <2>1. FlattenSeq(ss) \in Seq(T)
    BY FlattenType
  <2> QED
    BY <2>1, FlattenEmpty, CatEmpty
<1>2. ASSUME NEW tt \in Seq(Seq(T)), NEW t \in Seq(T), tt \in S
      PROVE  Add(tt, t) \in S
  <2>1. Cat(ss, tt) \in Seq(Seq(T)) /\ Add(tt, t) \in Seq(Seq(T))
    BY CatType, AddType
  <2>2. FlattenSeq(ss) \in Seq(T) /\ FlattenSeq(tt) \in Seq(T)
    BY FlattenType
  <2>3. Cat(ss, Add(tt, t)) = Add(Cat(ss, tt), t)
    BY AddCat
  <2>4. FlattenSeq(Cat(ss, Add(tt, t))) = Cat(FlattenSeq(Cat(ss, tt)), t)
    BY <2>1, <2>3, FlattenAdd
  <2>5. FlattenSeq(Add(tt, t)) = Cat(FlattenSeq(tt), t)
    BY FlattenAdd
  <2>6. Cat(Cat(FlattenSeq(ss), FlattenSeq(tt)), t)
          = Cat(FlattenSeq(ss), Cat(FlattenSeq(tt), t))
    BY <2>2, CatCat
  <2> QED
    BY <1>2, <2>1, <2>4, <2>5, <2>6
<1>3. Seq(Seq(T)) \subseteq S
  <2> HIDE DEF S
  <2> QED
    BY <1>1, <1>2, SeqInduction
<1> QED
  BY <1>3

\* Applying a function to a flattened sequence is applying it to the parts.
LEMMA ApplyFlatten ==
  ASSUME NEW T, NEW U, NEW h \in [T -> U], NEW ss \in Seq(Seq(T))
  PROVE  Apply(h, FlattenSeq(ss)) = FlattenSeq(Apply([s \in Seq(T) |-> Apply(h, s)], ss))
<1> DEFINE H == [s \in Seq(T) |-> Apply(h, s)]
           S == {tt \in Seq(Seq(T)) : Apply(h, FlattenSeq(tt)) = FlattenSeq(Apply(H, tt))}
<1>1. H \in [Seq(T) -> Seq(U)] /\ \A s \in Seq(T) : H[s] = Apply(h, s)
  BY ApplyType
<1> HIDE DEF H
<1>2. <<>> \in S
  BY FlattenEmpty, ApplyEmpty
<1>3. ASSUME NEW tt \in Seq(Seq(T)), NEW t \in Seq(T), tt \in S
      PROVE  Add(tt, t) \in S
  <2>1. FlattenSeq(Add(tt, t)) = Cat(FlattenSeq(tt), t)
    BY FlattenAdd
  <2>2. FlattenSeq(tt) \in Seq(T) /\ H[t] = Apply(h, t) /\ H[t] \in Seq(U)
    BY <1>1, FlattenType
  <2>3. Apply(h, Cat(FlattenSeq(tt), t)) = Cat(Apply(h, FlattenSeq(tt)), H[t])
    BY <2>2, ApplyCat
  <2>4. Apply(H, Add(tt, t)) = Add(Apply(H, tt), H[t])
    BY ApplyAdd
  <2>5. Apply(H, tt) \in Seq(Seq(U))
    BY <1>1, ApplyType
  <2>6. FlattenSeq(Add(Apply(H, tt), H[t])) = Cat(FlattenSeq(Apply(H, tt)), H[t])
    BY <2>2, <2>5, FlattenAdd
  <2>7. Add(tt, t) \in Seq(Seq(T))
    BY AddType
  <2> QED
    BY <1>3, <2>1, <2>3, <2>4, <2>6, <2>7
<1>4. Seq(Seq(T)) \subseteq S
  <2> HIDE DEF S
  <2> QED
    BY <1>2, <1>3, SeqInduction
<1> QED
  BY <1>4 DEF H

\* Binding a function along nothing.
LEMMA BindEmpty ==
  ASSUME NEW g
  PROVE  Bind(g, <<>>) = <<>>
BY ApplyEmpty, FlattenEmpty DEF Bind

\* Binding makes a sequence.
LEMMA BindType ==
  ASSUME NEW T, NEW U, NEW g \in [T -> Seq(U)]
  PROVE  \A s \in Seq(T) : Bind(g, s) \in Seq(U)
<1> SUFFICES ASSUME NEW s \in Seq(T)
             PROVE  Bind(g, s) \in Seq(U)
  OBVIOUS
<1>1. Apply(g, s) \in Seq(Seq(U))
  BY ApplyType
<1> QED
  BY <1>1, FlattenType DEF Bind

\* Binding along a sequence with one element more.
LEMMA BindAdd ==
  ASSUME NEW T, NEW U, NEW g \in [T -> Seq(U)]
  PROVE  \A s \in Seq(T), x \in T : Bind(g, Add(s, x)) = Cat(Bind(g, s), g[x])
<1> SUFFICES ASSUME NEW s \in Seq(T), NEW x \in T
             PROVE  Bind(g, Add(s, x)) = Cat(Bind(g, s), g[x])
  OBVIOUS
<1>1. Apply(g, Add(s, x)) = Add(Apply(g, s), g[x])
  BY ApplyAdd
<1>2. g[x] \in Seq(U) /\ Apply(g, s) \in Seq(Seq(U))
  BY ApplyType
<1> QED
  BY <1>1, <1>2, FlattenAdd DEF Bind

\* Binding along a concatenation.
LEMMA BindCat ==
  ASSUME NEW T, NEW U, NEW g \in [T -> Seq(U)]
  PROVE  \A s, t \in Seq(T) : Bind(g, Cat(s, t)) = Cat(Bind(g, s), Bind(g, t))
<1> SUFFICES ASSUME NEW s \in Seq(T), NEW t \in Seq(T)
             PROVE  Bind(g, Cat(s, t)) = Cat(Bind(g, s), Bind(g, t))
  OBVIOUS
<1>1. Apply(g, Cat(s, t)) = Cat(Apply(g, s), Apply(g, t))
  BY ApplyCat
<1>2. Apply(g, s) \in Seq(Seq(U)) /\ Apply(g, t) \in Seq(Seq(U))
  BY ApplyType
<1> QED
  BY <1>1, <1>2, FlattenCat DEF Bind

\* Binding along a flattened sequence is binding along each of its parts.
LEMMA BindFlatten ==
  ASSUME NEW T, NEW U, NEW g \in [T -> Seq(U)], NEW ss \in Seq(Seq(T))
  PROVE  Bind(g, FlattenSeq(ss)) = Bind([s \in Seq(T) |-> Bind(g, s)], ss)
<1> DEFINE G == [s \in Seq(T) |-> Bind(g, s)]
           S == {tt \in Seq(Seq(T)) : Bind(g, FlattenSeq(tt)) = Bind(G, tt)}
<1>1. G \in [Seq(T) -> Seq(U)] /\ \A s \in Seq(T) : G[s] = Bind(g, s)
  BY BindType
<1> HIDE DEF G
<1>2. <<>> \in S
  BY FlattenEmpty, BindEmpty
<1>3. ASSUME NEW tt \in Seq(Seq(T)), NEW t \in Seq(T), tt \in S
      PROVE  Add(tt, t) \in S
  <2>1. FlattenSeq(Add(tt, t)) = Cat(FlattenSeq(tt), t)
    BY FlattenAdd
  <2>2. FlattenSeq(tt) \in Seq(T) /\ G[t] = Bind(g, t)
    BY <1>1, FlattenType
  <2>3. Bind(g, Cat(FlattenSeq(tt), t)) = Cat(Bind(g, FlattenSeq(tt)), Bind(g, t))
    BY <2>2, BindCat
  <2>4. Bind(G, Add(tt, t)) = Cat(Bind(G, tt), G[t])
    BY <1>1, BindAdd
  <2>5. Add(tt, t) \in Seq(Seq(T))
    BY AddType
  <2> QED
    BY <1>3, <2>1, <2>2, <2>3, <2>4, <2>5
<1>4. Seq(Seq(T)) \subseteq S
  <2> HIDE DEF S
  <2> QED
    BY <1>2, <1>3, SeqInduction
<1> QED
  BY <1>4 DEF G

-----------------------------------------------------------------------------
(* More laws of binding.                                                     *)

\* Functions that agree on the elements.
LEMMA ApplyAgree ==
  ASSUME NEW T, NEW g, NEW h, \A x \in T : g[x] = h[x]
  PROVE  \A s \in Seq(T) : Apply(g, s) = Apply(h, s) /\ Bind(g, s) = Bind(h, s)
<1> SUFFICES ASSUME NEW s \in Seq(T)
             PROVE  Apply(g, s) = Apply(h, s)
  BY DEF Bind
<1>1. \A i \in DOMAIN s : s[i] \in T
  OBVIOUS
<1> QED
  BY <1>1 DEF Apply

AgreeOn(T, g, h) == \A x \in T : g[x] = h[x]

\* The same, with the agreement under a name.
LEMMA AgreeingApply ==
  ASSUME NEW T, NEW g, NEW h, AgreeOn(T, g, h)
  PROVE  \A s \in Seq(T) : Apply(g, s) = Apply(h, s) /\ Bind(g, s) = Bind(h, s)
BY ApplyAgree DEF AgreeOn

\* One function after another: of elements, bound or applied to each of the
\* lists the other makes.
IsAfter(T, f, g, h) == \A x \in T : h[x] = g[f[x]]

IsBindOf(T, U, V, f, g, h) ==
  /\ f \in [T -> Seq(U)] /\ g \in [U -> Seq(V)] /\ h \in [T -> Seq(V)]
  /\ \A x \in T : h[x] = Bind(g, f[x])

IsMapOf(T, U, V, f, g, h) ==
  /\ f \in [T -> Seq(U)] /\ g \in [U -> V] /\ h \in [T -> Seq(V)]
  /\ \A x \in T : h[x] = Apply(g, f[x])

\* One function after another.
LEMMA ApplyApply ==
  ASSUME NEW T, NEW f, NEW g, NEW h, IsAfter(T, f, g, h)
  PROVE  \A s \in Seq(T) : Apply(g, Apply(f, s)) = Apply(h, s) /\ Bind(g, Apply(f, s)) = Bind(h, s)
<1> SUFFICES ASSUME NEW s \in Seq(T)
             PROVE  Apply(g, Apply(f, s)) = Apply(h, s)
  BY DEF Bind
<1>1. \A i \in DOMAIN s : s[i] \in T
  OBVIOUS
<1>2. /\ DOMAIN Apply(f, s) = DOMAIN s /\ \A i \in DOMAIN s : Apply(f, s)[i] = f[s[i]]
  BY DEF Apply
<1> DEFINE y == Apply(f, s)
<1> HIDE DEF y
<1>3. DOMAIN y = DOMAIN s /\ \A i \in DOMAIN s : y[i] = f[s[i]]
  BY <1>2 DEF y
<1>4. Apply(g, y) = Apply(h, s)
  BY <1>1, <1>3 DEF Apply, IsAfter
<1> QED
  BY <1>4 DEF y

\* Binding along what binding makes.
LEMMA BindBind ==
  ASSUME NEW T, NEW U, NEW V, NEW f, NEW g, NEW h, IsBindOf(T, U, V, f, g, h)
  PROVE  \A s \in Seq(T) : Bind(g, Bind(f, s)) = Bind(h, s)
<1>0. /\ f \in [T -> Seq(U)] /\ g \in [U -> Seq(V)] /\ h \in [T -> Seq(V)]
      /\ \A x \in T : h[x] = Bind(g, f[x])
  BY DEF IsBindOf
<1> DEFINE S == {s \in Seq(T) : Bind(g, Bind(f, s)) = Bind(h, s)}
<1>1. <<>> \in S
  BY BindEmpty, CatEmpty
<1>2. ASSUME NEW s \in Seq(T), NEW x \in T, s \in S
      PROVE  Add(s, x) \in S
  <2>1. Bind(f, Add(s, x)) = Cat(Bind(f, s), f[x])
    BY <1>0, BindAdd
  <2>2. Bind(f, s) \in Seq(U) /\ f[x] \in Seq(U)
    BY <1>0, BindType
  <2>3. Bind(g, Cat(Bind(f, s), f[x])) = Cat(Bind(g, Bind(f, s)), Bind(g, f[x]))
    <3>1. \A u, w \in Seq(U) : Bind(g, Cat(u, w)) = Cat(Bind(g, u), Bind(g, w))
      BY <1>0, BindCat
    <3> QED
      BY <2>2, <3>1, Zenon
  <2>4. Bind(h, Add(s, x)) = Cat(Bind(h, s), h[x])
    BY <1>0, BindAdd
  <2>5. Add(s, x) \in Seq(T)
    BY AddType
  <2> QED
    BY <1>0, <1>2, <2>1, <2>3, <2>4, <2>5
<1>3. Seq(T) \subseteq S
  <2> HIDE DEF S
  <2> QED
    BY <1>1, <1>2, SeqInduction
<1> QED
  BY <1>3

\* Applying a function to what binding makes.
LEMMA ApplyBind ==
  ASSUME NEW T, NEW U, NEW V, NEW f, NEW g, NEW h, IsMapOf(T, U, V, f, g, h)
  PROVE  \A s \in Seq(T) : Apply(g, Bind(f, s)) = Bind(h, s)
<1>0. /\ f \in [T -> Seq(U)] /\ g \in [U -> V] /\ h \in [T -> Seq(V)]
      /\ \A x \in T : h[x] = Apply(g, f[x])
  BY DEF IsMapOf
<1> DEFINE S == {s \in Seq(T) : Apply(g, Bind(f, s)) = Bind(h, s)}
<1>1. <<>> \in S
  BY BindEmpty, ApplyEmpty, CatEmpty
<1>2. ASSUME NEW s \in Seq(T), NEW x \in T, s \in S
      PROVE  Add(s, x) \in S
  <2>1. Bind(f, Add(s, x)) = Cat(Bind(f, s), f[x])
    BY <1>0, BindAdd
  <2>2. Bind(f, s) \in Seq(U) /\ f[x] \in Seq(U)
    BY <1>0, BindType
  <2>3. Apply(g, Cat(Bind(f, s), f[x])) = Cat(Apply(g, Bind(f, s)), Apply(g, f[x]))
    BY <2>2, ApplyCat
  <2>4. Bind(h, Add(s, x)) = Cat(Bind(h, s), h[x])
    BY <1>0, BindAdd
  <2>5. Add(s, x) \in Seq(T)
    BY AddType
  <2> QED
    BY <1>0, <1>2, <2>1, <2>3, <2>4, <2>5
<1>3. Seq(T) \subseteq S
  <2> HIDE DEF S
  <2> QED
    BY <1>1, <1>2, SeqInduction
<1> QED
  BY <1>3

\* A sequence of one element.
LEMMA One ==
  ASSUME NEW T
  PROVE  \A x \in T : <<x>> = Add(<<>>, x) /\ <<x>> \in Seq(T) /\ Len(<<x>>) = 1 /\ <<x>>[1] = x
BY DEF Add

\* Binding along one element.
LEMMA BindOne ==
  ASSUME NEW T, NEW U, NEW g \in [T -> Seq(U)]
  PROVE  \A x \in T : Bind(g, <<x>>) = g[x]
<1> SUFFICES ASSUME NEW x \in T
             PROVE  Bind(g, <<x>>) = g[x]
  OBVIOUS
<1>1. <<x>> = Add(<<>>, x) /\ <<>> \in Seq(T)
  BY One, CatEmpty
<1>2. Bind(g, Add(<<>>, x)) = Cat(Bind(g, <<>>), g[x])
  BY <1>1, BindAdd
<1>3. g[x] \in Seq(U)
  OBVIOUS
<1> QED
  BY <1>1, <1>2, <1>3, BindEmpty, CatEmpty

\* Binding a function that makes each element the sequence of it alone.
LEMMA BindUnit ==
  ASSUME NEW T, NEW g \in [T -> Seq(T)], \A x \in T : g[x] = <<x>>
  PROVE  \A s \in Seq(T) : Bind(g, s) = s
<1> DEFINE S == {s \in Seq(T) : Bind(g, s) = s}
<1>1. <<>> \in S
  BY BindEmpty, CatEmpty
<1>2. ASSUME NEW s \in Seq(T), NEW x \in T, s \in S
      PROVE  Add(s, x) \in S
  <2>1. Bind(g, Add(s, x)) = Cat(s, <<x>>)
    BY <1>2, BindAdd
  <2>2. <<x>> = Add(<<>>, x) /\ <<>> \in Seq(T)
    BY One, CatEmpty
  <2>3. Cat(s, Add(<<>>, x)) = Add(Cat(s, <<>>), x)
    <3>1. \A u, w \in Seq(T) : \A y \in T : Add(Cat(u, w), y) = Cat(u, Add(w, y))
      BY AddCat
    <3> QED
      BY <2>2, <3>1, Zenon
  <2>4. Cat(s, <<>>) = s /\ Add(s, x) \in Seq(T)
    BY CatEmpty, AddType
  <2> QED
    BY <2>1, <2>2, <2>3, <2>4
<1>3. Seq(T) \subseteq S
  <2> HIDE DEF S
  <2> QED
    BY <1>1, <1>2, SeqInduction
<1> QED
  BY <1>3

-----------------------------------------------------------------------------
(* Sums.                                                                     *)

\* f adds up the first numbers of s.
Sums(f, s) ==
  /\ f \in [0 .. Len(s) -> Int]
  /\ f[0] = 0
  /\ \A i \in 1 .. Len(s) : f[i] = f[i - 1] + s[i]

\* SumOf is what the sums end with.
LEMMA SumRuns ==
  ASSUME NEW s \in Seq(Int)
  PROVE  \E f : Sums(f, s) /\ f[Len(s)] = SumOf(s)
<1> DEFINE n == Len(s)
           Eq(g) == g = [i \in 0 .. n |-> IF i = 0 THEN 0 ELSE g[i - 1] + s[i]]
           F == CHOOSE g : Eq(g)
           step == [x \in (0 + 1 .. n) \X Int |-> x[2] + s[x[1]]]
<1>1. SumOf(s) = F[n]
  BY DEF SumOf
<1>2. n \in Nat /\ \A i \in 0 + 1 .. n : s[i] \in Int /\ i # 0
  OBVIOUS
<1> HIDE DEF n
<1>3. step \in Steps(0, n, Int)
  BY <1>2 DEF Steps
<1>4. \A i \in 0 + 1 .. n, v \in Int : step[<<i, v>>] = v + s[i]
  OBVIOUS
<1> HIDE DEF step
<1>5. \E g : IsRun(g, 0, n, Int, 0, step)
  <2>1. 0 \in Int /\ n \in Int /\ 0 <= n
    BY <1>2
  <2> QED
    BY <1>3, <2>1, RunExists
<1>6. PICK g \in [0 .. n -> Int] :
        /\ g[0] = 0
        /\ \A i \in 0 + 1 .. n : g[i] = step[<<i, g[i - 1]>>]
  BY <1>5 DEF IsRun
<1>7. \A i \in 0 + 1 .. n : g[i] = g[i - 1] + s[i] /\ g[i - 1] \in Int
  <2> SUFFICES ASSUME NEW i \in 0 + 1 .. n
               PROVE  g[i] = g[i - 1] + s[i] /\ g[i - 1] \in Int
    OBVIOUS
  <2>1. i - 1 \in 0 .. n
    BY <1>2
  <2>2. g[i - 1] \in Int
    BY <2>1
  <2> QED
    BY <1>4, <1>6, <2>2
<1>8. \A i \in 0 .. n : g[i] = IF i = 0 THEN 0 ELSE g[i - 1] + s[i]
  BY <1>2, <1>6, <1>7
<1>9. Eq(F)
  <2>1. Eq(g)
    BY <1>8
  <2> HIDE DEF Eq
  <2> QED
    BY <2>1
<1> HIDE DEF F
<1>10. F[0] = 0 /\ \A i \in 0 + 1 .. n : F[i] = F[i - 1] + s[i]
  <2>1. \A i \in 0 .. n : F[i] = IF i = 0 THEN 0 ELSE F[i - 1] + s[i]
    BY <1>9
  <2> QED
    BY <1>2, <2>1
<1> DEFINE S == {i \in 0 .. n : F[i] = g[i]}
<1>11. \A i \in 0 .. n : i \in S
  <2>1. 0 \in S
    BY <1>2, <1>6, <1>10
  <2>2. ASSUME NEW i \in 1 .. n, i - 1 \in S
        PROVE  i \in S
    <3>1. i \in 0 + 1 .. n /\ i \in 0 .. n
      BY <1>2
    <3> QED
      BY <1>7, <1>10, <2>2, <3>1
  <2> HIDE DEF S
  <2> QED
    BY <1>2, <2>1, <2>2, UpFromZero
<1>12. Sums(g, s)
  BY <1>2, <1>6, <1>7 DEF Sums, n
<1>13. g[n] = F[n]
  BY <1>2, <1>11
<1> QED
  BY <1>1, <1>12, <1>13 DEF n

\* A sum is a number; that of nothing is 0.
LEMMA SumType ==
  /\ \A s \in Seq(Int) : SumOf(s) \in Int
  /\ SumOf(<<>>) = 0
<1>1. ASSUME NEW s \in Seq(Int)
      PROVE  SumOf(s) \in Int /\ (s = <<>> => SumOf(s) = 0)
  <2>1. PICK f : Sums(f, s) /\ f[Len(s)] = SumOf(s)
    BY SumRuns
  <2> QED
    BY <2>1 DEF Sums
<1>2. <<>> \in Seq(Int)
  OBVIOUS
<1> QED
  BY <1>1, <1>2

\* Two functions that add up numbers agree as far as the numbers do.
LEMMA SumsAgree ==
  ASSUME NEW s \in Seq(Int), NEW t \in Seq(Int), NEW f, NEW g,
         Sums(f, s), Sums(g, t), Len(s) <= Len(t),
         \A i \in 1 .. Len(s) : t[i] = s[i]
  PROVE  \A i \in 0 .. Len(s) : f[i] = g[i]
<1> DEFINE n == Len(s)
           S == {i \in 0 .. n : f[i] = g[i]}
<1>1. n \in Nat /\ Len(t) \in Nat
  OBVIOUS
<1>2. 0 \in S
  BY <1>1 DEF Sums
<1>3. ASSUME NEW i \in 1 .. n, i - 1 \in S
      PROVE  i \in S
  <2>1. i \in 0 .. n /\ i \in 1 .. Len(t) /\ i \in 1 .. Len(s)
    BY <1>1
  <2>2. f[i] = f[i - 1] + s[i] /\ g[i] = g[i - 1] + t[i]
    BY <2>1 DEF Sums
  <2> QED
    BY <1>3, <2>1, <2>2
<1>4. \A i \in 0 .. n : i \in S
  <2> HIDE DEF S, n
  <2> QED
    BY <1>1, <1>2, <1>3, UpFromZero
<1> QED
  BY <1>4

\* A sum with one number more.
LEMMA SumAdd ==
  \A s \in Seq(Int), x \in Int : SumOf(Add(s, x)) = SumOf(s) + x
<1> SUFFICES ASSUME NEW s \in Seq(Int), NEW x \in Int
             PROVE  SumOf(Add(s, x)) = SumOf(s) + x
  OBVIOUS
<1>1. PICK t \in Seq(Int) : t = Add(s, x)
  BY AddType
<1>2. /\ Len(s) \in Nat /\ Len(t) = Len(s) + 1
      /\ \A i \in 1 .. Len(s) : t[i] = s[i]
      /\ t[Len(s) + 1] = x
  <2>1. Len(Add(s, x)) = Len(s) + 1
    BY AddType
  <2>2. /\ \A i \in 1 .. Len(s) : Add(s, x)[i] = s[i]
        /\ Add(s, x)[Len(s) + 1] = x
    BY AddElements
  <2> QED
    BY <1>1, <2>1, <2>2
<1>3. PICK f : Sums(f, s) /\ f[Len(s)] = SumOf(s)
  BY SumRuns
<1>4. PICK g : Sums(g, t) /\ g[Len(t)] = SumOf(t)
  BY SumRuns
<1>5. \A i \in 0 .. Len(s) : f[i] = g[i]
  BY <1>2, <1>3, <1>4, SumsAgree
<1>6. f[Len(s)] = g[Len(s)]
  BY <1>2, <1>5
<1>7. g[Len(s) + 1] = g[Len(s)] + x
  <2>1. Len(s) + 1 \in 1 .. Len(t) /\ (Len(s) + 1) - 1 = Len(s)
    BY <1>2
  <2> QED
    BY <1>2, <1>4, <2>1 DEF Sums
<1> QED
  BY <1>1, <1>2, <1>3, <1>4, <1>6, <1>7

\* The sum of a concatenation.
LEMMA SumCat ==
  \A s, t \in Seq(Int) : SumOf(Cat(s, t)) = SumOf(s) + SumOf(t)
<1> SUFFICES ASSUME NEW s \in Seq(Int)
             PROVE  \A t \in Seq(Int) : SumOf(Cat(s, t)) = SumOf(s) + SumOf(t)
  OBVIOUS
<1> DEFINE S == {t \in Seq(Int) : SumOf(Cat(s, t)) = SumOf(s) + SumOf(t)}
<1>1. <<>> \in S
  BY CatEmpty, SumType
<1>2. ASSUME NEW t \in Seq(Int), NEW x \in Int, t \in S
      PROVE  Add(t, x) \in S
  <2>1. Cat(s, t) \in Seq(Int) /\ Add(t, x) \in Seq(Int)
    BY CatType, AddType
  <2>2. SumOf(Cat(s, Add(t, x))) = SumOf(Cat(s, t)) + x
    <3>1. \A u, v \in Seq(Int) : \A z \in Int : Add(Cat(u, v), z) = Cat(u, Add(v, z))
      BY AddCat
    <3>2. SumOf(Add(Cat(s, t), x)) = SumOf(Cat(s, t)) + x
      BY <2>1, SumAdd, Zenon
    <3>3. Add(Cat(s, t), x) = Cat(s, Add(t, x))
      BY <3>1, Zenon
    <3> QED
      BY <3>2, <3>3, Zenon
  <2>3. SumOf(Add(t, x)) = SumOf(t) + x
    BY SumAdd
  <2>4. SumOf(s) \in Int /\ SumOf(t) \in Int
    BY SumType
  <2> QED
    BY <1>2, <2>1, <2>2, <2>3, <2>4
<1>3. Seq(Int) \subseteq S
  <2> HIDE DEF S
  <2> QED
    BY <1>1, <1>2, SeqInduction
<1> QED
  BY <1>3

\* The sum along what a function binds is the sum of the sums.
LEMMA SumBind ==
  ASSUME NEW T, NEW g \in [T -> Seq(Int)]
  PROVE  \A s \in Seq(T) : SumOf(Bind(g, s)) = SumOf(Apply([x \in T |-> SumOf(g[x])], s))
<1> DEFINE h == [x \in T |-> SumOf(g[x])]
           S == {s \in Seq(T) : SumOf(Bind(g, s)) = SumOf(Apply(h, s))}
<1>1. h \in [T -> Int] /\ \A x \in T : h[x] = SumOf(g[x])
  BY SumType
<1> HIDE DEF h
<1>2. <<>> \in S
  BY BindEmpty, ApplyEmpty, SumType
<1>3. ASSUME NEW s \in Seq(T), NEW x \in T, s \in S
      PROVE  Add(s, x) \in S
  <2>1. Add(s, x) \in Seq(T) /\ Apply(h, s) \in Seq(Int) /\ Bind(g, s) \in Seq(Int)
    BY <1>1, AddType, ApplyType, BindType
  <2>2. SumOf(Bind(g, Add(s, x))) = SumOf(Bind(g, s)) + SumOf(g[x])
    BY <2>1, BindAdd, SumCat
  <2>3. SumOf(Apply(h, Add(s, x))) = SumOf(Apply(h, s)) + h[x]
    BY <1>1, <2>1, ApplyAdd, SumAdd
  <2> QED
    BY <1>1, <1>3, <2>1, <2>2, <2>3
<1>4. Seq(T) \subseteq S
  <2> HIDE DEF S
  <2> QED
    BY <1>2, <1>3, SeqInduction
<1> QED
  BY <1>4 DEF h

\* Sums of functions that add up to another.
LEMMA SumPlus ==
  ASSUME NEW T, NEW f \in [T -> Int], NEW g \in [T -> Int], NEW h \in [T -> Int],
         \A x \in T : f[x] + g[x] = h[x]
  PROVE  \A s \in Seq(T) : SumOf(Apply(f, s)) + SumOf(Apply(g, s)) = SumOf(Apply(h, s))
<1> DEFINE S == {s \in Seq(T) : SumOf(Apply(f, s)) + SumOf(Apply(g, s)) = SumOf(Apply(h, s))}
<1>1. <<>> \in S
  BY ApplyEmpty, SumType
<1>2. ASSUME NEW s \in Seq(T), NEW x \in T, s \in S
      PROVE  Add(s, x) \in S
  <2>1. /\ Add(s, x) \in Seq(T)
        /\ Apply(f, s) \in Seq(Int) /\ Apply(g, s) \in Seq(Int) /\ Apply(h, s) \in Seq(Int)
    BY AddType, ApplyType
  <2>2. /\ SumOf(Apply(f, Add(s, x))) = SumOf(Apply(f, s)) + f[x]
        /\ SumOf(Apply(g, Add(s, x))) = SumOf(Apply(g, s)) + g[x]
        /\ SumOf(Apply(h, Add(s, x))) = SumOf(Apply(h, s)) + h[x]
    BY <2>1, ApplyAdd, SumAdd
  <2>3. SumOf(Apply(f, s)) \in Int /\ SumOf(Apply(g, s)) \in Int /\ SumOf(Apply(h, s)) \in Int
    BY <2>1, SumType
  <2> QED
    BY <1>2, <2>1, <2>2, <2>3
<1>3. Seq(T) \subseteq S
  <2> HIDE DEF S
  <2> QED
    BY <1>1, <1>2, SeqInduction
<1> QED
  BY <1>3

\* Sums of numbers that are not negative grow.
LEMMA SumsGrow ==
  ASSUME NEW s \in Seq(Int), NEW f, Sums(f, s), \A i \in 1 .. Len(s) : s[i] >= 0
  PROVE  \A i \in 0 .. Len(s) : f[i] >= 0 /\ f[i] <= f[Len(s)]
<1> DEFINE n == Len(s)
<1>1. /\ n \in Nat /\ f \in [0 .. n -> Int]
      /\ f[0] = 0
      /\ \A i \in 1 .. n : s[i] \in Int /\ f[i] = f[i - 1] + s[i] /\ s[i] >= 0
  BY DEF Sums
<1> HIDE DEF n
<1>2. ASSUME NEW a \in 0 .. n
      PROVE  \A i \in a .. n : f[a] <= f[i]
  <2> DEFINE S == {i \in a .. n : f[a] <= f[i]}
  <2>1. a \in S /\ a \in Int /\ n \in Int
    BY <1>1
  <2>2. ASSUME NEW i \in a + 1 .. n, i - 1 \in S
        PROVE  i \in S
    <3>1. i \in 1 .. n /\ i \in a .. n /\ i - 1 \in 0 .. n
      BY <1>1
    <3>2. f[i] = f[i - 1] + s[i] /\ s[i] >= 0 /\ f[i - 1] \in Int /\ s[i] \in Int /\ f[a] \in Int
      BY <1>1, <3>1
    <3> QED
      BY <2>2, <3>1, <3>2
  <2>3. \A i \in a .. n : i \in S
    <3> HIDE DEF S
    <3> QED
      BY <2>1, <2>2, UpTo
  <2> QED
    BY <2>3
<1>3. \A i \in 0 .. n : f[i] >= 0 /\ f[i] <= f[n]
  <2> SUFFICES ASSUME NEW i \in 0 .. n
               PROVE  f[i] >= 0 /\ f[i] <= f[n]
    OBVIOUS
  <2>1. 0 \in 0 .. n /\ i \in 0 .. n /\ n \in i .. n /\ f[i] \in Int
    BY <1>1
  <2>2. f[0] <= f[i] /\ f[i] <= f[n]
    BY <1>2, <2>1
  <2> QED
    BY <1>1, <2>1, <2>2
<1> QED
  BY <1>3 DEF n

\* Such a sum is not negative.
LEMMA SumNotNegative ==
  \A s \in Seq(Int) : (\A i \in 1 .. Len(s) : s[i] >= 0) => SumOf(s) >= 0
<1> SUFFICES ASSUME NEW s \in Seq(Int), \A i \in 1 .. Len(s) : s[i] >= 0
             PROVE  SumOf(s) >= 0
  OBVIOUS
<1>1. PICK f : Sums(f, s) /\ f[Len(s)] = SumOf(s)
  BY SumRuns
<1>2. Len(s) \in 0 .. Len(s)
  OBVIOUS
<1> QED
  BY <1>1, <1>2, SumsGrow

-----------------------------------------------------------------------------
(* Sequences of equal length whose elements are related.                     *)

Alike(s, t, R) ==
  Len(s) = Len(t) /\ \A i \in 1 .. Len(s) : <<s[i], t[i]>> \in R

\* Concatenations of such sequences.
LEMMA AlikeCat ==
  ASSUME NEW T, NEW U, NEW R,
         NEW s1 \in Seq(T), NEW s2 \in Seq(T), NEW t1 \in Seq(U), NEW t2 \in Seq(U),
         Alike(s1, t1, R), Alike(s2, t2, R)
  PROVE  Alike(Cat(s1, s2), Cat(t1, t2), R)
<1>1. /\ Len(s1) \in Nat /\ Len(s2) \in Nat /\ Len(t1) = Len(s1) /\ Len(t2) = Len(s2)
      /\ \A i \in 1 .. Len(s1) : <<s1[i], t1[i]>> \in R
      /\ \A i \in 1 .. Len(s2) : <<s2[i], t2[i]>> \in R
  BY DEF Alike
<1>2. Len(Cat(s1, s2)) = Len(s1) + Len(s2) /\ Len(Cat(t1, t2)) = Len(s1) + Len(s2)
  <2>1. Len(Cat(s1, s2)) = Len(s1) + Len(s2)
    BY CatType
  <2>2. Len(Cat(t1, t2)) = Len(t1) + Len(t2)
    BY CatType
  <2> QED
    BY <1>1, <2>1, <2>2
<1>3. /\ \A i \in 1 .. Len(s1) : Cat(s1, s2)[i] = s1[i]
      /\ \A i \in 1 .. Len(s2) : Cat(s1, s2)[Len(s1) + i] = s2[i]
  BY CatElements
<1>4. /\ \A i \in 1 .. Len(s1) : Cat(t1, t2)[i] = t1[i]
      /\ \A i \in 1 .. Len(s2) : Cat(t1, t2)[Len(s1) + i] = t2[i]
  <2>1. /\ \A i \in 1 .. Len(t1) : Cat(t1, t2)[i] = t1[i]
        /\ \A i \in 1 .. Len(t2) : Cat(t1, t2)[Len(t1) + i] = t2[i]
    BY CatElements
  <2> QED
    BY <1>1, <2>1
<1>5. ASSUME NEW i \in 1 .. Len(s1) + Len(s2)
      PROVE  <<Cat(s1, s2)[i], Cat(t1, t2)[i]>> \in R
  <2>1. CASE i \in 1 .. Len(s1)
    BY <1>1, <1>3, <1>4, <2>1
  <2>2. CASE i \notin 1 .. Len(s1)
    <3>1. PICK j \in 1 .. Len(s2) : i = Len(s1) + j
      <4>1. i - Len(s1) \in 1 .. Len(s2) /\ i = Len(s1) + (i - Len(s1))
        BY <1>1, <2>2
      <4> QED
        BY <4>1
    <3> QED
      BY <1>1, <1>3, <1>4, <3>1
  <2> QED
    BY <2>1, <2>2
<1> QED
  BY <1>2, <1>5 DEF Alike

\* Flattened sequences of such sequences.
LEMMA AlikeFlatten ==
  ASSUME NEW T, NEW U, NEW R, NEW ss \in Seq(Seq(T)), NEW tt \in Seq(Seq(U)),
         Len(ss) = Len(tt), \A k \in 1 .. Len(ss) : Alike(ss[k], tt[k], R)
  PROVE  Alike(FlattenSeq(ss), FlattenSeq(tt), R)
<1>1. PICK f : Concats(f, ss, T) /\ f[Len(ss)] = FlattenSeq(ss)
  BY FlattenRuns
<1>2. PICK g : Concats(g, tt, U) /\ g[Len(tt)] = FlattenSeq(tt)
  BY FlattenRuns
<1> DEFINE n == Len(ss)
<1>3. n \in Nat /\ Len(tt) = n
  OBVIOUS
<1>4. /\ f \in [0 .. n -> Seq(T)] /\ f[0] = <<>>
      /\ \A k \in 1 .. n : f[k] = Cat(f[k - 1], ss[k])
  BY <1>1 DEF Concats, Cat
<1>5. /\ g \in [0 .. n -> Seq(U)] /\ g[0] = <<>>
      /\ \A k \in 1 .. n : g[k] = Cat(g[k - 1], tt[k])
  BY <1>2, <1>3 DEF Concats, Cat
<1>6. \A k \in 1 .. n : ss[k] \in Seq(T) /\ tt[k] \in Seq(U)
  BY <1>3
<1> HIDE DEF n
<1> DEFINE S == {k \in 0 .. n : Alike(f[k], g[k], R)}
<1>7. 0 \in S
  <2>1. Alike(<<>>, <<>>, R)
    BY DEF Alike
  <2> QED
    BY <1>3, <1>4, <1>5, <2>1
<1>8. ASSUME NEW k \in 1 .. n, k - 1 \in S
      PROVE  k \in S
  <2>1. k \in 0 .. n /\ k - 1 \in 0 .. n
    BY <1>3
  <2>2. f[k - 1] \in Seq(T) /\ g[k - 1] \in Seq(U) /\ Alike(f[k - 1], g[k - 1], R)
    BY <1>4, <1>5, <1>8, <2>1
  <2>3. Alike(ss[k], tt[k], R)
    BY DEF n
  <2>4. Alike(Cat(f[k - 1], ss[k]), Cat(g[k - 1], tt[k]), R)
    BY <1>6, <2>2, <2>3, AlikeCat
  <2> QED
    BY <1>4, <1>5, <2>1, <2>4
<1>9. \A k \in 0 .. n : k \in S
  <2> HIDE DEF S
  <2> QED
    BY <1>3, <1>7, <1>8, UpFromZero
<1> QED
  BY <1>1, <1>2, <1>3, <1>9 DEF n

-----------------------------------------------------------------------------
(* Events, patterns and packages.                                            *)

\* The fields of an event.
LEMMA EventFields ==
  ASSUME NEW e \in EventSet
  PROVE  /\ e.tag \in Int /\ e.time \in Int /\ e.duration \in Int
         /\ e.intensity \in Int /\ e.frequency \in Int /\ e.index \in Int
         /\ e.points \in Seq(PointSet)
BY DEF EventSet

\* Its points.
LEMMA PointsOf ==
  ASSUME NEW e \in EventSet
  PROVE  /\ Len(e.points) \in Nat /\ DOMAIN e.points = 1 .. Len(e.points)
         /\ \A j \in 1 .. Len(e.points) : e.points[j] \in PointSet /\ e.points[j].time \in Int
<1>1. PICK s \in Seq(PointSet) : s = e.points
  BY EventFields
<1>2. \A j \in 1 .. Len(s) : s[j] \in PointSet
  OBVIOUS
<1>3. \A x \in PointSet : x.time \in Int
  BY DEF PointSet
<1>4. Len(s) \in Nat /\ DOMAIN s = 1 .. Len(s)
  OBVIOUS
<1> QED
  BY <1>1, <1>2, <1>3, <1>4

\* An event with other points.
LEMMA WithPoints ==
  ASSUME NEW e \in EventSet, NEW s \in Seq(PointSet)
  PROVE  /\ [e EXCEPT !.points = s] \in EventSet
         /\ [e EXCEPT !.points = s].points = s
         /\ [e EXCEPT !.points = s].tag = e.tag
         /\ [e EXCEPT !.points = s].time = e.time
         /\ [e EXCEPT !.points = s].duration = e.duration
         /\ [e EXCEPT !.points = s].intensity = e.intensity
         /\ [e EXCEPT !.points = s].frequency = e.frequency
         /\ [e EXCEPT !.points = s].index = e.index
BY DEF EventSet

\* An event with its time moved, and a pattern's events at their times from
\* the start of the package.
Shift(d) == [e \in EventSet |-> [e EXCEPT !.time = @ + d]]

AtStart == [p \in PatternSet |-> Apply(Shift(p.startTime), p.events)]

\* Moving an event keeps it one.
LEMMA ShiftType ==
  ASSUME NEW d \in Int
  PROVE  /\ Shift(d) \in [EventSet -> EventSet]
         /\ \A e \in EventSet : Shift(d)[e] = [e EXCEPT !.time = @ + d]
BY DEF Shift, EventSet

\* The same of a pattern's events.
LEMMA AtStartType ==
  /\ AtStart \in [PatternSet -> Seq(EventSet)]
  /\ \A p \in PatternSet : AtStart[p] = Apply(Shift(p.startTime), p.events)
<1>1. ASSUME NEW p \in PatternSet
      PROVE  Apply(Shift(p.startTime), p.events) \in Seq(EventSet)
  <2>1. p.startTime \in Int /\ p.events \in Seq(EventSet)
    BY DEF PatternSet
  <2> QED
    BY <2>1, ShiftType, ApplyType
<1> QED
  BY <1>1 DEF AtStart

\* The events of a package are those of its patterns, one after the other.
LEMMA FlattenedIs ==
  ASSUME NEW package1 \in PackageSet
  PROVE  Flattened(package1) = Bind(AtStart, package1.patterns)
<1> DEFINE ps == package1.patterns
           m == Map(LAMBDA p : Map(LAMBDA e : [e EXCEPT !.time = @ + p.startTime], p.events), ps)
<1>1. ps \in Seq(PatternSet)
  BY DEF PackageSet
<1>2. Flattened(package1) = FlattenSeq(m)
  BY DEF Flattened
<1>3. m = [i \in DOMAIN ps |-> Map(LAMBDA e : [e EXCEPT !.time = @ + ps[i].startTime], ps[i].events)]
  BY DEF Map
<1> HIDE DEF m, ps
<1>4. ASSUME NEW i \in DOMAIN ps
      PROVE  Map(LAMBDA e : [e EXCEPT !.time = @ + ps[i].startTime], ps[i].events) = AtStart[ps[i]]
  <2>1. ps[i] \in PatternSet
    BY <1>1
  <2>2. AtStart[ps[i]] = Apply(Shift(ps[i].startTime), ps[i].events)
    BY <2>1, AtStartType
  <2>3. ps[i].startTime \in Int /\ ps[i].events \in Seq(EventSet)
    BY <2>1 DEF PatternSet
  <2>4. \A j \in DOMAIN ps[i].events : ps[i].events[j] \in EventSet
    BY <2>3
  <2>5. \A j \in DOMAIN ps[i].events :
          Shift(ps[i].startTime)[ps[i].events[j]]
            = [ps[i].events[j] EXCEPT !.time = @ + ps[i].startTime]
    BY <2>3, <2>4, ShiftType
  <2> QED
    BY <2>2, <2>5 DEF Map, Apply
<1>5. m = Apply(AtStart, ps)
  BY <1>3, <1>4 DEF Apply
<1> QED
  BY <1>2, <1>5 DEF Bind, ps

\* They are events.
LEMMA FlattenedType ==
  ASSUME NEW package1 \in PackageSet
  PROVE  Flattened(package1) \in Seq(EventSet)
<1>1. package1.patterns \in Seq(PatternSet)
  BY DEF PackageSet
<1> QED
  BY <1>1, FlattenedIs, AtStartType, BindType

\* A choice from a sequence of sets.
LEMMA ChoiceOf ==
  ASSUME NEW n \in Nat, NEW sets, DOMAIN sets = 1 .. n, NEW T,
         \A i \in 1 .. n : sets[i] \subseteq T,
         NEW c \in ChoicesOf(sets)
  PROVE  /\ c \in Seq(T) /\ Len(c) = n
         /\ \A i \in 1 .. n : c[i] \in sets[i]
<1>1. /\ c \in [1 .. n -> UNION Range(sets)]
      /\ \A i \in 1 .. n : c[i] \in sets[i]
  BY DEF ChoicesOf
<1>2. c \in [1 .. n -> T]
  BY <1>1
<1> QED
  BY <1>1, <1>2

-----------------------------------------------------------------------------
(* Modulation: the intervals of the curve and the search in them.            *)

\* A sequence of numbers that do not fall from one to the next does not fall.
LEMMA NeverFalls ==
  ASSUME NEW n \in Nat, NEW f \in [1 .. n -> Int],
         \A i \in 2 .. n : f[i - 1] <= f[i]
  PROVE  \A i, j \in 1 .. n : i <= j => f[i] <= f[j]
<1> SUFFICES ASSUME NEW i \in 1 .. n
             PROVE  \A j \in i .. n : f[i] <= f[j]
  OBVIOUS
<1> DEFINE S == {j \in i .. n : f[i] <= f[j]}
<1>1. i \in S /\ i \in Int /\ n \in Int
  OBVIOUS
<1>2. ASSUME NEW j \in i + 1 .. n, j - 1 \in S
      PROVE  j \in S
  <2>1. j \in 2 .. n /\ j \in 1 .. n /\ j - 1 \in 1 .. n /\ j \in i .. n
    OBVIOUS
  <2>2. f[j - 1] <= f[j] /\ f[j] \in Int /\ f[j - 1] \in Int /\ f[i] \in Int
    BY <2>1
  <2> QED
    BY <1>2, <2>1, <2>2
<1>3. \A j \in i .. n : j \in S
  <2> HIDE DEF S
  <2> QED
    BY <1>1, <1>2, UpTo
<1> QED
  BY <1>3

\* A set of naturals up to n that has 0 has a greatest.
LEMMA Greatest ==
  ASSUME NEW n \in Nat, NEW S, S \subseteq 0 .. n, 0 \in S
  PROVE  \E m \in S : \A k \in S : k <= m
<1> DEFINE Q == {j \in 0 .. n : \E m \in S : m <= j /\ \A k \in S : k <= j => k <= m}
<1>1. 0 \in Q
  OBVIOUS
<1>2. ASSUME NEW j \in 1 .. n, j - 1 \in Q
      PROVE  j \in Q
  <2>1. PICK m \in S : m <= j - 1 /\ \A k \in S : k <= j - 1 => k <= m
    BY <1>2
  <2>2. CASE j \in S
    BY <2>2
  <2>3. CASE j \notin S
    BY <2>1, <2>3
  <2> QED
    BY <2>2, <2>3
<1>3. \A j \in 0 .. n : j \in Q
  <2> HIDE DEF Q
  <2> QED
    BY <1>1, <1>2, UpFromZero
<1>4. n \in Q
  BY <1>3
<1> QED
  BY <1>4

IntervalSet == [beginTime : Int, endTime : Int, intensity : Int, frequency : Int]

\* iv are the intervals of a curve: one for each of its first m points.
AreIntervals(iv, m, curve) ==
  LET points == curve.points
  IN  /\ m \in 0 .. Len(points)
      /\ \A i \in 1 .. m : points[i].time < curve.duration
      /\ m < Len(points) => points[m + 1].time >= curve.duration
      /\ iv \in Seq(IntervalSet) /\ Len(iv) = m
      /\ \A i \in 1 .. m :
           /\ iv[i].beginTime = curve.time + points[i].time
           /\ iv[i].intensity = points[i].intensity
           /\ iv[i].frequency = points[i].frequency
      /\ \A i \in 1 .. m - 1 : iv[i].endTime = curve.time + points[i + 1].time
      /\ m # 0 => iv[m].endTime = curve.time + curve.duration

\* Every curve has them.
LEMMA HasIntervals ==
  ASSUME NEW curve \in CurveSet
  PROVE  \E m : AreIntervals(ConvertVibratorEventsToCurveIntervals(curve), m, curve)
<1> DEFINE points == curve.points
           l == Len(points)
           inside == {n \in 0 .. l : \A i \in 1 .. n : points[i].time < curve.duration}
           m == CHOOSE n \in inside : \A k \in inside : k <= n
           end(i) == IF i < l /\ points[i + 1].time < curve.duration
                     THEN points[i + 1].time ELSE curve.duration
           iv == [i \in 1 .. m |->
                   [beginTime |-> curve.time + points[i].time, endTime |-> curve.time + end(i),
                    intensity |-> points[i].intensity, frequency |-> points[i].frequency]]
<1>1. ConvertVibratorEventsToCurveIntervals(curve) = iv
  BY DEF ConvertVibratorEventsToCurveIntervals
<1>2. /\ points \in Seq(PointSet) /\ l \in Nat /\ curve.time \in Int /\ curve.duration \in Int
      /\ \A i \in 1 .. l : points[i] \in PointSet
  BY DEF CurveSet
<1>3. \A i \in 1 .. l : /\ points[i].time \in Int /\ points[i].intensity \in Int
                        /\ points[i].frequency \in Int
  BY <1>2 DEF PointSet
<1> HIDE DEF points, l
<1>4. \E n \in inside : \A k \in inside : k <= n
  <2>1. inside \subseteq 0 .. l /\ 0 \in inside
    BY <1>2
  <2> HIDE DEF inside
  <2> QED
    BY <1>2, <2>1, Greatest
<1>5. m \in inside /\ \A k \in inside : k <= m
  <2> HIDE DEF inside
  <2> QED
    BY <1>4
<1> HIDE DEF m
<1>6. m \in 0 .. l /\ m \in Nat /\ \A i \in 1 .. m : points[i].time < curve.duration
  BY <1>2, <1>5
<1>7. m < l => points[m + 1].time >= curve.duration
  <2> SUFFICES ASSUME m < l, points[m + 1].time < curve.duration
               PROVE  FALSE
    BY <1>2, <1>3, <1>6
  <2>1. m + 1 \in inside
    BY <1>2, <1>6
  <2> QED
    BY <1>5, <1>6, <2>1
<1>8. \A i \in 1 .. m : end(i) \in Int
  BY <1>2, <1>3, <1>6
<1>9. iv \in [1 .. m -> IntervalSet]
  <2> HIDE DEF end
  <2> QED
    BY <1>2, <1>3, <1>6, <1>8 DEF IntervalSet
<1>10. iv \in Seq(IntervalSet) /\ Len(iv) = m
  <2> HIDE DEF iv
  <2> QED
    BY <1>6, <1>9
<1>11. \A i \in 1 .. m :
         /\ iv[i].beginTime = curve.time + points[i].time
         /\ iv[i].intensity = points[i].intensity
         /\ iv[i].frequency = points[i].frequency
         /\ iv[i].endTime = curve.time + end(i)
  OBVIOUS
<1>12. \A i \in 1 .. m - 1 : end(i) = points[i + 1].time
  BY <1>2, <1>6
<1>13. m # 0 => end(m) = curve.duration
  <2>1. CASE m < l
    <3>1. ~(points[m + 1].time < curve.duration)
      <4>1. m + 1 \in 1 .. l
        BY <1>2, <1>6, <2>1
      <4> QED
        BY <1>2, <1>3, <1>7, <2>1, <4>1
    <3> QED
      BY <3>1
  <2>2. CASE ~(m < l)
    BY <2>2
  <2> QED
    BY <2>1, <2>2
<1> HIDE DEF iv, end
<1>14. \A i \in 1 .. m - 1 : iv[i].endTime = curve.time + points[i + 1].time
  <2>1. \A i \in 1 .. m - 1 : i \in 1 .. m
    BY <1>6
  <2> QED
    BY <1>11, <1>12, <2>1
<1>15. m # 0 => iv[m].endTime = curve.time + curve.duration
  <2>1. m # 0 => m \in 1 .. m
    BY <1>6
  <2> QED
    BY <1>11, <1>13, <2>1
<1>16. AreIntervals(iv, m, curve)
  BY <1>6, <1>7, <1>10, <1>11, <1>14, <1>15 DEF AreIntervals, points, l
<1> QED
  BY <1>1, <1>16

\* A part of m intervals, and one that val lies in: after the end of its
\* head, not after that of its tail.
Parts(m) == [head : 1 .. m, tail : 1 .. m]

Holds(iv, val, part) ==
  /\ part.head < part.tail
  /\ iv[part.head].endTime < val
  /\ val <= iv[part.tail].endTime

\* A round makes a part into a part.
LEMMA HalfType ==
  ASSUME NEW m \in Nat, NEW part \in Parts(m), NEW iv, NEW val
  PROVE  HalfWith(iv, val, part) \in Parts(m)
<1> DEFINE middle == part.head + (part.tail - part.head) \div 2
<1>1. part.head \in 1 .. m /\ part.tail \in 1 .. m
  BY DEF Parts
<1>2. CASE part.tail - part.head <= 1
  BY <1>2 DEF HalfWith
<1>3. CASE ~(part.tail - part.head <= 1)
  <2>1. middle \in 1 .. m
    BY <1>1, <1>3
  <2>2. /\ [part EXCEPT !.head = middle] \in Parts(m)
        /\ [part EXCEPT !.tail = middle] \in Parts(m)
    <3> HIDE DEF middle
    <3> QED
      BY <2>1 DEF Parts
  <2>3. \/ HalfWith(iv, val, part) = [part EXCEPT !.head = middle]
        \/ HalfWith(iv, val, part) = [part EXCEPT !.tail = middle]
    BY <1>3 DEF HalfWith
  <2> QED
    BY <2>2, <2>3
<1> QED
  BY <1>2, <1>3

\* A round keeps val in the part, and the part gets smaller.
LEMMA HalfHolds ==
  ASSUME NEW m \in Nat, NEW part \in Parts(m), NEW iv \in Seq(IntervalSet), Len(iv) = m,
         NEW val \in Int, Holds(iv, val, part)
  PROVE  /\ Holds(iv, val, HalfWith(iv, val, part))
         /\ \/ part.tail - part.head <= 1 /\ HalfWith(iv, val, part) = part
            \/ HalfWith(iv, val, part).tail - HalfWith(iv, val, part).head
                 <= part.tail - part.head - 1
<1> DEFINE middle == part.head + (part.tail - part.head) \div 2
           h == HalfWith(iv, val, part)
<1>1. part.head \in 1 .. m /\ part.tail \in 1 .. m /\ part.head < part.tail
  BY DEF Parts, Holds
<1>2. CASE part.tail - part.head <= 1
  BY <1>2 DEF HalfWith
<1>3. CASE ~(part.tail - part.head <= 1)
  <2>1. middle \in 1 .. m /\ part.head < middle /\ middle < part.tail
    BY <1>1, <1>3
  <2>2. iv[middle].endTime \in Int
    <3>1. iv[middle] \in IntervalSet
      <4> HIDE DEF middle
      <4> QED
        BY <2>1
    <3> QED
      BY <3>1 DEF IntervalSet
  <2>3. h = IF iv[middle].endTime < val THEN [part EXCEPT !.head = middle]
            ELSE [part EXCEPT !.tail = middle]
    BY <1>3 DEF HalfWith
  <2> HIDE DEF h, middle
  <2>4. CASE iv[middle].endTime < val
    <3>1. h.head = middle /\ h.tail = part.tail
      BY <2>3, <2>4 DEF Parts
    <3> QED
      BY <1>1, <2>1, <2>4, <3>1 DEF Holds, h
  <2>5. CASE ~(iv[middle].endTime < val)
    <3>1. h.head = part.head /\ h.tail = middle
      BY <2>3, <2>5 DEF Parts
    <3>2. val <= iv[middle].endTime
      BY <2>2, <2>5
    <3> QED
      BY <1>1, <2>1, <3>1, <3>2 DEF Holds, h
  <2> QED
    BY <2>4, <2>5
<1> QED
  BY <1>2, <1>3

\* The search ends with the interval val lies in: val is after the end of the
\* one before, or it is the first.
LEMMA SearchFinds ==
  ASSUME NEW iv \in Seq(IntervalSet), iv # <<>>, NEW val \in Int,
         iv[1].beginTime <= val, val <= iv[Len(iv)].endTime
  PROVE  \E t \in 1 .. Len(iv) :
           /\ BinarySearchInterval(iv, val) = t
           /\ val <= iv[t].endTime
           /\ t # 1 => iv[t - 1].endTime < val
<1> DEFINE m == Len(iv)
           Eq(g) == g = [n \in 0 .. m |-> IF n = 0 THEN [head |-> 1, tail |-> m]
                                          ELSE HalfWith(iv, val, g[n - 1])]
           F == CHOOSE g : Eq(g)
           first == [head |-> 1, tail |-> m]
           step == [x \in (0 + 1 .. m) \X Parts(m) |-> HalfWith(iv, val, x[2])]
<1>1. m \in Nat /\ m >= 1 /\ \A i \in 1 .. m : iv[i] \in IntervalSet
  OBVIOUS
<1>2. \A i \in 1 .. m : iv[i].endTime \in Int /\ iv[i].beginTime \in Int
  BY <1>1 DEF IntervalSet
<1>3. 1 \in 1 .. m /\ m \in 1 .. m
  BY <1>1
<1>4. BinarySearchInterval(iv, val) = IF val <= iv[1].endTime THEN 1 ELSE F[m].tail
  <2>1. ~(val < iv[1].beginTime \/ val > Last(iv).endTime)
    BY <1>2, <1>3 DEF Last
  <2> QED
    BY <2>1 DEF BinarySearchInterval
<1>5. CASE val <= iv[1].endTime
  BY <1>3, <1>4, <1>5
<1>6. CASE ~(val <= iv[1].endTime)
  <2>1. iv[1].endTime < val /\ 1 < m
    <3>1. iv[1].endTime < val
      BY <1>2, <1>3, <1>6
    <3>2. m # 1
      BY <1>2, <1>6
    <3>3. m \in Nat /\ m >= 1
      BY <1>1
    <3> HIDE DEF m
    <3> QED
      BY <3>1, <3>2, <3>3
  <2>2. first \in Parts(m) /\ Holds(iv, val, first)
    BY <1>3, <2>1 DEF Parts, Holds
  <2> HIDE DEF m
  <2>3. step \in Steps(0, m, Parts(m))
    BY <1>1, HalfType DEF Steps
  <2>4. \A i \in 0 + 1 .. m, p \in Parts(m) : step[<<i, p>>] = HalfWith(iv, val, p)
    OBVIOUS
  <2> HIDE DEF step, first
  <2>5. \E g : IsRun(g, 0, m, Parts(m), first, step)
    <3>1. 0 \in Int /\ m \in Int /\ 0 <= m
      BY <1>1
    <3> QED
      BY <2>2, <2>3, <3>1, RunExists
  <2>6. PICK g \in [0 .. m -> Parts(m)] :
          /\ g[0] = first
          /\ \A i \in 0 + 1 .. m : g[i] = step[<<i, g[i - 1]>>]
    BY <2>5 DEF IsRun
  <2>7. \A i \in 0 + 1 .. m : g[i] = HalfWith(iv, val, g[i - 1])
    <3> SUFFICES ASSUME NEW i \in 0 + 1 .. m
                 PROVE  g[i] = HalfWith(iv, val, g[i - 1])
      OBVIOUS
    <3>1. g[i - 1] \in Parts(m)
      BY <1>1
    <3> QED
      BY <2>4, <2>6, <3>1
  <2>8. Eq(F)
    <3>1. Eq(g)
      BY <1>1, <2>6, <2>7 DEF first
    <3> HIDE DEF Eq
    <3> QED
      BY <3>1
  <2> HIDE DEF F
  <2>9. F[0] = first /\ \A i \in 1 .. m : F[i] = HalfWith(iv, val, F[i - 1])
    <3>1. \A n \in 0 .. m : F[n] = IF n = 0 THEN [head |-> 1, tail |-> m]
                                   ELSE HalfWith(iv, val, F[n - 1])
      BY <2>8
    <3>2. 0 \in 0 .. m /\ \A i \in 1 .. m : i \in 0 .. m /\ i # 0
      BY <1>1
    <3> QED
      BY <3>1, <3>2 DEF first
  <2> HIDE DEF Eq
  <2> DEFINE S == {i \in 0 .. m : /\ F[i] \in Parts(m) /\ Holds(iv, val, F[i])
                                  /\ \/ F[i].tail - F[i].head = 1
                                     \/ F[i].tail - F[i].head <= m - 1 - i}
  <2>10. 0 \in S
    <3>1. first.tail - first.head <= m - 1 - 0
      BY <1>1 DEF first
    <3> QED
      BY <1>1, <2>2, <2>9, <3>1
  <2>11. ASSUME NEW i \in 1 .. m, i - 1 \in S
         PROVE  i \in S
    <3> DEFINE p == F[i - 1]
               q == F[i]
    <3>1. /\ p \in Parts(m) /\ Holds(iv, val, p)
          /\ p.tail - p.head = 1 \/ p.tail - p.head <= m - 1 - (i - 1)
      BY <2>11
    <3>2. q = HalfWith(iv, val, p) /\ i \in 0 .. m
      BY <1>1, <2>9
    <3>3. q \in Parts(m) /\ Holds(iv, val, q)
      BY <1>1, <3>1, <3>2, HalfType, HalfHolds DEF m
    <3>4. \/ p.tail - p.head <= 1 /\ q = p
          \/ q.tail - q.head <= p.tail - p.head - 1
      BY <1>1, <3>1, <3>2, HalfHolds DEF m
    <3> HIDE DEF p, q
    <3>5. /\ p.tail \in Int /\ p.head \in Int /\ p.head < p.tail
          /\ q.tail \in Int /\ q.head \in Int /\ q.head < q.tail
      BY <3>1, <3>3 DEF Parts, Holds
    <3>6. q.tail - q.head = 1 \/ q.tail - q.head <= m - 1 - i
      BY <1>1, <3>1, <3>4, <3>5
    <3> QED
      BY <3>2, <3>3, <3>6 DEF q
  <2>12. \A i \in 0 .. m : i \in S
    <3> HIDE DEF S
    <3> QED
      BY <1>1, <2>10, <2>11, UpFromZero
  <2>13. /\ F[m] \in Parts(m) /\ Holds(iv, val, F[m])
         /\ F[m].tail - F[m].head = 1 \/ F[m].tail - F[m].head <= m - 1 - m
    BY <1>1, <2>12
  <2> DEFINE t == F[m].tail
  <2>14. t \in 1 .. m /\ F[m].head = t - 1
    BY <1>1, <2>13 DEF Parts, Holds
  <2>15. val <= iv[t].endTime /\ iv[t - 1].endTime < val
    BY <2>13, <2>14 DEF Holds
  <2>16. BinarySearchInterval(iv, val) = t
    BY <1>4, <1>6
  <2> HIDE DEF t
  <2> QED
    BY <2>14, <2>15, <2>16 DEF m
<1> QED
  BY <1>5, <1>6

\* The points that govern, by number.
Governs(curve, since, i) ==
  /\ \/ curve.points[i].time < since
     \/ i = 1 /\ curve.points[1].time = since
  /\ curve.points[i].time < curve.duration

\* A point governs a time when it is the last to.
LEMMA GoverningIs ==
  ASSUME NEW curve \in CurveSet, NEW time \in Int
  PROVE  /\ \A t \in DOMAIN curve.points :
              /\ time - curve.time <= curve.duration
              /\ Governs(curve, time - curve.time, t)
              /\ \A j \in DOMAIN curve.points :
                   Governs(curve, time - curve.time, j) => j <= t
              => curve.points[t] \in Governing(curve, time)
         /\ \/ time - curve.time > curve.duration
            \/ \A j \in DOMAIN curve.points : ~Governs(curve, time - curve.time, j)
            => Governing(curve, time) = {}
<1> DEFINE since == time - curve.time
           last(i) == /\ Governs(curve, since, i)
                      /\ \A j \in DOMAIN curve.points : Governs(curve, since, j) => j <= i
<1>1. Governing(curve, time)
        = IF since > curve.duration THEN {}
          ELSE {curve.points[i] : i \in {i \in DOMAIN curve.points : last(i)}}
  BY DEF Governing, Governs
<1>2. since \in Int /\ curve.duration \in Int
  BY DEF CurveSet
<1>3. ASSUME NEW t \in DOMAIN curve.points, since <= curve.duration, last(t)
      PROVE  curve.points[t] \in Governing(curve, time)
  <2>1. ~(since > curve.duration)
    BY <1>2, <1>3
  <2> HIDE DEF last, since
  <2> QED
    BY <1>1, <1>3, <2>1
<1>4. ASSUME \/ since > curve.duration
             \/ \A j \in DOMAIN curve.points : ~Governs(curve, since, j)
      PROVE  Governing(curve, time) = {}
  <2>1. since > curve.duration \/ {i \in DOMAIN curve.points : last(i)} = {}
    BY <1>4
  <2> HIDE DEF last, since
  <2> QED
    BY <1>1, <2>1
<1> QED
  BY <1>3, <1>4

\* The interval the search finds is that of the point that governs.
LEMMA SearchGoverns ==
  ASSUME NEW curve \in CurveSet, InOrder(curve.points),
         NEW iv, NEW m, AreIntervals(iv, m, curve), iv # <<>>, NEW time \in Int
  PROVE  \/ BinarySearchInterval(iv, time) = 0 /\ Governing(curve, time) = {}
         \/ \E t \in 1 .. m :
              /\ BinarySearchInterval(iv, time) = t
              /\ curve.points[t] \in Governing(curve, time)
<1> DEFINE points == curve.points
           l == Len(points)
           since == time - curve.time
<1>1. /\ points \in Seq(PointSet) /\ l \in Nat /\ curve.time \in Int /\ curve.duration \in Int
      /\ \A i \in 1 .. l : points[i] \in PointSet
      /\ DOMAIN points = 1 .. l
  BY DEF CurveSet
<1>2. \A i \in 1 .. l : points[i].time \in Int
  BY <1>1 DEF PointSet
<1>3. /\ m \in 0 .. l
      /\ \A i \in 1 .. m : points[i].time < curve.duration
      /\ m < l => points[m + 1].time >= curve.duration
      /\ iv \in Seq(IntervalSet) /\ Len(iv) = m
      /\ \A i \in 1 .. m : iv[i].beginTime = curve.time + points[i].time
      /\ \A i \in 1 .. m - 1 : iv[i].endTime = curve.time + points[i + 1].time
      /\ m # 0 => iv[m].endTime = curve.time + curve.duration
  BY DEF AreIntervals
<1>4. \A i \in 2 .. l : points[i - 1].time <= points[i].time
  BY DEF InOrder
<1> HIDE DEF l
<1>5. m \in Nat /\ m >= 1
  <2>1. m # 0
    BY <1>3
  <2>2. m \in Nat
    BY <1>1, <1>3
  <2> HIDE <1>3
  <2> QED
    BY <2>1, <2>2
<1>6. \A i, j \in 1 .. l : i <= j => points[i].time <= points[j].time
  <2> DEFINE f == [i \in 1 .. l |-> points[i].time]
  <2>1. f \in [1 .. l -> Int] /\ \A i \in 1 .. l : f[i] = points[i].time
    BY <1>2
  <2>2. \A i \in 2 .. l : f[i - 1] <= f[i]
    BY <1>1, <1>4
  <2> HIDE DEF f
  <2>3. \A i, j \in 1 .. l : i <= j => f[i] <= f[j]
    BY <1>1, <2>1, <2>2, NeverFalls
  <2> QED
    BY <2>1, <2>3
<1>7. \A j \in 1 .. l : points[j].time < curve.duration => j <= m
  <2> SUFFICES ASSUME NEW j \in 1 .. l, points[j].time < curve.duration, j > m
               PROVE  FALSE
    BY <1>1, <1>5
  <2>1. m < l /\ m + 1 \in 1 .. l /\ m + 1 <= j
    BY <1>1, <1>5
  <2>2. points[m + 1].time <= points[j].time /\ points[m + 1].time >= curve.duration
    BY <1>3, <1>6, <2>1
  <2>3. points[m + 1].time \in Int /\ points[j].time \in Int
    BY <1>2, <2>1
  <2> QED
    BY <1>1, <2>2, <2>3
<1> DEFINE governs(i) == Governs(curve, since, i)
<1>8. \A i \in 1 .. l : governs(i) <=> /\ points[i].time < since \/ (i = 1 /\ points[1].time = since)
                                       /\ points[i].time < curve.duration
  BY DEF Governs
<1> HIDE DEF governs
<1>9. 1 \in 1 .. l /\ 1 \in 1 .. m /\ m \in 1 .. m /\ 1 .. m \subseteq 1 .. l /\ since \in Int
  BY <1>1, <1>3, <1>5
<1>10. CASE time < iv[1].beginTime \/ time > iv[m].endTime
  <2>1. BinarySearchInterval(iv, time) = 0
    BY <1>3, <1>10 DEF BinarySearchInterval, Last
  <2>2. CASE time > iv[m].endTime
    <3>1. time - curve.time > curve.duration
      BY <1>1, <1>3, <1>5, <2>2
    <3> QED
      BY <2>1, <3>1, GoverningIs
  <2>3. CASE time < iv[1].beginTime
    <3>1. ASSUME NEW j \in 1 .. l
          PROVE  ~governs(j)
      <4>1. since < points[1].time /\ points[1].time <= points[j].time
        <5>1. iv[1].beginTime = curve.time + points[1].time
          BY <1>3, <1>9
        <5>2. points[1].time \in Int
          BY <1>2, <1>9
        <5>3. points[1].time <= points[j].time
          BY <1>6, <1>9
        <5> QED
          BY <1>1, <2>3, <5>1, <5>2, <5>3
      <4>2. points[1].time \in Int /\ points[j].time \in Int
        BY <1>2, <1>9
      <4>3. ~(points[j].time < since) /\ ~(points[1].time = since)
        <5> HIDE DEF since
        <5> QED
          BY <1>9, <4>1, <4>2
      <4> QED
        BY <1>8, <4>3
    <3>2. \A j \in DOMAIN curve.points : ~Governs(curve, time - curve.time, j)
      BY <1>1, <3>1 DEF governs
    <3> QED
      BY <2>1, <3>2, GoverningIs
  <2> QED
    BY <1>10, <2>2, <2>3
<1>11. CASE ~(time < iv[1].beginTime \/ time > iv[m].endTime)
  <2>1. iv[1].beginTime \in Int /\ iv[m].endTime \in Int
    <3>1. \A k \in 1 .. m : iv[k].beginTime \in Int /\ iv[k].endTime \in Int
      <4>1. \A k \in 1 .. m : iv[k] \in IntervalSet
        BY <1>3, <1>5
      <4>2. \A x \in IntervalSet : x.beginTime \in Int /\ x.endTime \in Int
        BY DEF IntervalSet
      <4> QED
        BY <4>1, <4>2, Zenon
    <3>2. 1 \in 1 .. m /\ m \in 1 .. m
      BY <1>1, <1>9
    <3> QED
      BY <3>1, <3>2
  <2>2. iv[1].beginTime <= time /\ time <= iv[m].endTime
    BY <1>11, <2>1
  <2>3. PICK t \in 1 .. m : /\ BinarySearchInterval(iv, time) = t
                            /\ time <= iv[t].endTime
                            /\ t # 1 => iv[t - 1].endTime < time
    BY <1>3, <2>2, SearchFinds
  <2>4. t \in 1 .. l /\ points[t].time \in Int /\ points[t].time < curve.duration
    BY <1>2, <1>3, <1>9
  <2>5. governs(t)
    <3>1. CASE t = 1
      <4>1. iv[1].beginTime = curve.time + points[1].time /\ points[1].time \in Int
        BY <1>2, <1>3, <1>9
      <4>2. points[1].time < since \/ points[1].time = since
        BY <1>1, <2>2, <4>1
      <4> QED
        BY <1>8, <2>4, <3>1, <4>2
    <3>2. CASE t # 1
      <4>1. t - 1 \in 1 .. m - 1 /\ (t - 1) + 1 = t
        BY <1>5, <3>2
      <4>2. iv[t - 1].endTime = curve.time + points[t].time
        BY <1>3, <4>1
      <4>3. points[t].time < since
        BY <1>1, <2>3, <2>4, <3>2, <4>2
      <4> QED
        BY <1>8, <2>4, <4>3
    <3> QED
      BY <3>1, <3>2
  <2>6. ASSUME NEW j \in 1 .. l, governs(j)
        PROVE  j <= t
    <3> SUFFICES ASSUME j > t
                 PROVE  FALSE
      BY <1>5
    <3>1. points[j].time < curve.duration /\ j <= m /\ j # 1
      BY <1>5, <1>7, <1>8, <2>6
    <3>2. t \in 1 .. m - 1 /\ t + 1 \in 1 .. l /\ t + 1 <= j
      BY <1>1, <1>5, <3>1
    <3>3. iv[t].endTime = curve.time + points[t + 1].time
      BY <1>3, <3>2
    <3>4. points[t + 1].time <= points[j].time
      BY <1>6, <3>2
    <3>5. points[t + 1].time \in Int /\ points[j].time \in Int
      BY <1>2, <3>2
    <3>6. points[j].time < since
      BY <1>8, <2>6, <3>1
    <3> QED
      BY <1>1, <2>3, <3>3, <3>4, <3>5, <3>6
  <2>7. since <= curve.duration
    BY <1>1, <1>3, <1>5, <2>2
  <2>8. points[t] \in Governing(curve, time)
    <3>1. t \in DOMAIN points /\ Governs(curve, since, t)
      BY <1>1, <2>4, <2>5 DEF governs
    <3>2. \A j \in DOMAIN points : Governs(curve, since, j) => j <= t
      BY <1>1, <2>6 DEF governs
    <3> QED
      BY <2>7, <3>1, <3>2, GoverningIs
  <2> QED
    BY <2>3, <2>8
<1> QED
  BY <1>10, <1>11

\* The search names an interval or none.
LEMMA SearchType ==
  ASSUME NEW iv \in Seq(IntervalSet), iv # <<>>, NEW val \in Int
  PROVE  BinarySearchInterval(iv, val) \in 0 .. Len(iv)
<1>1. Len(iv) \in Nat /\ Len(iv) >= 1 /\ iv[1] \in IntervalSet /\ iv[Len(iv)] \in IntervalSet
  OBVIOUS
<1>2. iv[1].beginTime \in Int /\ iv[Len(iv)].endTime \in Int
  BY <1>1 DEF IntervalSet
<1>3. CASE val < iv[1].beginTime \/ val > iv[Len(iv)].endTime
  <2>1. BinarySearchInterval(iv, val) = 0
    BY <1>3 DEF BinarySearchInterval, Last
  <2> QED
    BY <1>1, <2>1
<1>4. CASE ~(val < iv[1].beginTime \/ val > iv[Len(iv)].endTime)
  <2>1. iv[1].beginTime <= val /\ val <= iv[Len(iv)].endTime
    BY <1>2, <1>4
  <2>2. PICK t \in 1 .. Len(iv) : BinarySearchInterval(iv, val) = t
    BY <2>1, SearchFinds
  <2> QED
    BY <1>1, <2>2
<1> QED
  BY <1>3, <1>4

\* What modulation makes of intensity and frequency.
Scaled(a, b) == Clamp((a * b) \div 100, 0, 100)

Moved(a, b, low) == Clamp(a + b, low, 100)

ByInterval(x, iv, idx) ==
  [x EXCEPT !.intensity = Scaled(@, iv[idx].intensity),
            !.frequency = Moved(@, iv[idx].frequency, -100)]

\* A time without an interval changes nothing.
LEMMA ModulatedBy ==
  ASSUME NEW iv, NEW x, NEW time
  PROVE  /\ BinarySearchInterval(iv, time) = 0 => Modulated(x, iv, time) = x
         /\ BinarySearchInterval(iv, time) # 0 =>
              Modulated(x, iv, time) = ByInterval(x, iv, BinarySearchInterval(iv, time))
BY DEF Modulated, ByInterval, Scaled, Moved, RestrictIntensityRange, RestrictFrequencyRange

\* A value brought into a range is a number.
LEMMA ClampType ==
  ASSUME NEW n \in Int, NEW low \in Int, NEW high \in Int
  PROVE  Clamp(n, low, high) \in Int
BY DEF Clamp

\* So are a scaled intensity and a moved frequency.
LEMMA ScaledType ==
  ASSUME NEW a \in Int, NEW b \in Int
  PROVE  /\ Scaled(a, b) \in Int
         /\ \A low \in Int : Moved(a, b, low) \in Int
<1>1. a * b \in Int
  OBVIOUS
<1>2. (a * b) \div 100 \in Int
  <2>1. PICK c \in Int : c = a * b
    BY <1>1
  <2> QED
    BY <2>1
<1>3. 0 \in Int /\ 100 \in Int /\ a + b \in Int
  OBVIOUS
<1> QED
  BY <1>2, <1>3, ClampType DEF Scaled, Moved

\* A modulated event is one, and nothing else of it changes.
LEMMA ModulatedEventType ==
  ASSUME NEW iv \in Seq(IntervalSet), iv # <<>>, NEW x \in EventSet, NEW time \in Int
  PROVE  /\ Modulated(x, iv, time) \in EventSet
         /\ Modulated(x, iv, time).tag = x.tag
         /\ Modulated(x, iv, time).time = x.time
         /\ Modulated(x, iv, time).duration = x.duration
         /\ Modulated(x, iv, time).points = x.points
<1> DEFINE idx == BinarySearchInterval(iv, time)
<1>1. CASE idx = 0
  <2>1. Modulated(x, iv, time) = x
    BY <1>1, ModulatedBy
  <2> QED
    BY <2>1
<1>2. CASE idx # 0
  <2>1. Modulated(x, iv, time) = ByInterval(x, iv, idx)
    BY <1>2, ModulatedBy
  <2>2. idx \in 1 .. Len(iv)
    BY <1>2, SearchType
  <2> HIDE DEF idx
  <2>3. iv[idx].intensity \in Int /\ iv[idx].frequency \in Int
    <3>1. iv[idx] \in IntervalSet
      BY <2>2
    <3> QED
      BY <3>1 DEF IntervalSet
  <2>4. x.intensity \in Int /\ x.frequency \in Int
    BY DEF EventSet
  <2>5. /\ Scaled(x.intensity, iv[idx].intensity) \in Int
        /\ Moved(x.frequency, iv[idx].frequency, -100) \in Int
    <3>1. Scaled(x.intensity, iv[idx].intensity) \in Int
      BY <2>3, <2>4, ScaledType
    <3>2. \A low \in Int : Moved(x.frequency, iv[idx].frequency, low) \in Int
      BY <2>3, <2>4, ScaledType
    <3>3. -100 \in Int
      OBVIOUS
    <3> QED
      BY <3>1, <3>2, <3>3, Zenon
  <2>6. /\ ByInterval(x, iv, idx) \in EventSet
        /\ ByInterval(x, iv, idx).tag = x.tag
        /\ ByInterval(x, iv, idx).time = x.time
        /\ ByInterval(x, iv, idx).duration = x.duration
        /\ ByInterval(x, iv, idx).points = x.points
    BY <2>5 DEF ByInterval, EventSet
  <2> QED
    BY <2>1, <2>6
<1> QED
  BY <1>1, <1>2

\* The same of a point.
LEMMA ModulatedPointType ==
  ASSUME NEW iv \in Seq(IntervalSet), iv # <<>>, NEW x \in PointSet, NEW time \in Int
  PROVE  /\ Modulated(x, iv, time) \in PointSet
         /\ Modulated(x, iv, time).time = x.time
<1> DEFINE idx == BinarySearchInterval(iv, time)
<1>1. CASE idx = 0
  <2>1. Modulated(x, iv, time) = x
    BY <1>1, ModulatedBy
  <2> QED
    BY <2>1
<1>2. CASE idx # 0
  <2>1. Modulated(x, iv, time) = ByInterval(x, iv, idx)
    BY <1>2, ModulatedBy
  <2>2. idx \in 1 .. Len(iv)
    BY <1>2, SearchType
  <2> HIDE DEF idx
  <2>3. iv[idx].intensity \in Int /\ iv[idx].frequency \in Int
    <3>1. iv[idx] \in IntervalSet
      BY <2>2
    <3> QED
      BY <3>1 DEF IntervalSet
  <2>4. x.intensity \in Int /\ x.frequency \in Int
    BY DEF PointSet
  <2>5. /\ Scaled(x.intensity, iv[idx].intensity) \in Int
        /\ Moved(x.frequency, iv[idx].frequency, -100) \in Int
    <3>1. Scaled(x.intensity, iv[idx].intensity) \in Int
      BY <2>3, <2>4, ScaledType
    <3>2. \A low \in Int : Moved(x.frequency, iv[idx].frequency, low) \in Int
      BY <2>3, <2>4, ScaledType
    <3>3. -100 \in Int
      OBVIOUS
    <3> QED
      BY <3>1, <3>2, <3>3, Zenon
  <2>6. ByInterval(x, iv, idx) \in PointSet /\ ByInterval(x, iv, idx).time = x.time
    BY <2>5 DEF ByInterval, PointSet
  <2> QED
    BY <2>1, <2>6
<1> QED
  BY <1>1, <1>2

\* It is modulated by the point of the curve that governs its time.
LEMMA ModulatedIs ==
  ASSUME NEW curve \in CurveSet, InOrder(curve.points),
         NEW iv, NEW m, AreIntervals(iv, m, curve), iv # <<>>,
         NEW time \in Int, NEW x \in EventSet \cup PointSet
  PROVE  IsModulated(x, Modulated(x, iv, time), curve, time)
<1>1. CASE BinarySearchInterval(iv, time) = 0 /\ Governing(curve, time) = {}
  <2>1. Modulated(x, iv, time) = x
    BY <1>1, ModulatedBy
  <2> QED
    BY <1>1, <2>1 DEF IsModulated
<1>2. ASSUME NEW t \in 1 .. m,
             BinarySearchInterval(iv, time) = t,
             curve.points[t] \in Governing(curve, time)
      PROVE  IsModulated(x, Modulated(x, iv, time), curve, time)
  <2>0. t # 0
    BY <1>2 DEF AreIntervals
  <2>1. Modulated(x, iv, time) = ByInterval(x, iv, t)
    BY <1>2, <2>0, ModulatedBy
  <2>2. iv[t].intensity = curve.points[t].intensity /\ iv[t].frequency = curve.points[t].frequency
    BY DEF AreIntervals
  <2>3. /\ ByInterval(x, iv, t).intensity = Scaled(x.intensity, iv[t].intensity)
        /\ ByInterval(x, iv, t).frequency = Moved(x.frequency, iv[t].frequency, -100)
    BY DEF ByInterval, EventSet, PointSet
  <2> QED
    BY <1>2, <2>1, <2>2, <2>3 DEF IsModulated, Scaled, Moved
<1> QED
  BY <1>1, <1>2, SearchGoverns

\* What modulation keeps of an event.
KeepsShape(x, y) ==
  /\ y \in EventSet
  /\ y.tag = x.tag /\ y.time = x.time /\ y.duration = x.duration
  /\ IF HasCurve(x) THEN IsCurve(x.points) /\ Len(y.points) = Len(x.points)
     ELSE y.points = <<>>

\* What ModulatedPointwise says of one event.
ModulationOf(curve, x, y) ==
  /\ x.time = y.time /\ x.duration = y.duration
  /\ IF HasCurve(x)
     THEN /\ Len(x.points) = Len(y.points)
          /\ \A j \in DOMAIN x.points :
               /\ x.points[j].time = y.points[j].time
               /\ IsModulated(x.points[j], y.points[j], curve, x.time + x.points[j].time)
     ELSE IsModulated(x, y, curve, x.time)

ModulatedPairs(curve) ==
  {pair \in EventSet \X EventSet : ModulationOf(curve, pair[1], pair[2])}

\* An event's modulated curve.
LEMMA CurveModulated ==
  ASSUME NEW iv \in Seq(IntervalSet), iv # <<>>, NEW e \in EventSet, NEW start \in Int
  PROVE  /\ GetCurveListAfterModulation(iv, e, start) \in Seq(PointSet)
         /\ Len(GetCurveListAfterModulation(iv, e, start)) = Len(e.points)
         /\ \A j \in 1 .. Len(e.points) :
              GetCurveListAfterModulation(iv, e, start)[j]
                = Modulated(e.points[j], iv, start + e.points[j].time)
<1> DEFINE n == Len(e.points)
           new == GetCurveListAfterModulation(iv, e, start)
<1>1. /\ n \in Nat /\ DOMAIN e.points = 1 .. n
      /\ \A j \in 1 .. n : e.points[j] \in PointSet /\ e.points[j].time \in Int
  BY PointsOf
<1> HIDE DEF n
<1>2. new = [j \in 1 .. n |-> Modulated(e.points[j], iv, start + e.points[j].time)]
  BY <1>1 DEF GetCurveListAfterModulation, Map
<1> HIDE DEF new
<1>3. \A j \in 1 .. n : Modulated(e.points[j], iv, start + e.points[j].time) \in PointSet
  <2> SUFFICES ASSUME NEW j \in 1 .. n
               PROVE  Modulated(e.points[j], iv, start + e.points[j].time) \in PointSet
    OBVIOUS
  <2>1. start + e.points[j].time \in Int /\ e.points[j] \in PointSet
    BY <1>1
  <2> QED
    BY <2>1, ModulatedPointType
<1>4. new \in [1 .. n -> PointSet]
  BY <1>2, <1>3
<1>5. new \in Seq(PointSet) /\ Len(new) = n
  BY <1>1, <1>4
<1>6. \A j \in 1 .. n : new[j] = Modulated(e.points[j], iv, start + e.points[j].time)
  BY <1>2
<1> QED
  BY <1>5, <1>6 DEF new, n

\* Modulating keeps an event's shape.
LEMMA EventKeepsShape ==
  ASSUME NEW curve \in CurveSet, NEW d \in Int, NEW e \in EventSet,
         NEW y \in ModulateVibratorEvent(curve, d, e)
  PROVE  KeepsShape(e, y)
<1> DEFINE iv == ConvertVibratorEventsToCurveIntervals(curve)
           start == d + e.time
<1>1. start \in Int
  BY DEF EventSet
<1>2. iv \in Seq(IntervalSet)
  BY HasIntervals DEF AreIntervals
<1>3. y \in IF HasCurve(e) THEN ModulateEventWithCurvePoints(iv, start, e)
            ELSE ModulateEventWithoutCurvePoints(iv, start, e)
  BY DEF ModulateVibratorEvent
<1> HIDE DEF iv, start
<1>4. CASE HasCurve(e)
  <2>1. /\ IsCurve(e.points) /\ iv # <<>>
        /\ y = [e EXCEPT !.points = GetCurveListAfterModulation(iv, e, start)]
    BY <1>3, <1>4 DEF ModulateEventWithCurvePoints
  <2>2. /\ GetCurveListAfterModulation(iv, e, start) \in Seq(PointSet)
        /\ Len(GetCurveListAfterModulation(iv, e, start)) = Len(e.points)
    BY <1>1, <1>2, <2>1, CurveModulated
  <2>3. /\ y \in EventSet
        /\ y.tag = e.tag /\ y.time = e.time /\ y.duration = e.duration
        /\ y.points = GetCurveListAfterModulation(iv, e, start)
    BY <2>1, <2>2 DEF EventSet
  <2> QED
    BY <1>4, <2>1, <2>2, <2>3 DEF KeepsShape
<1>5. CASE ~HasCurve(e)
  <2>1. iv # <<>> /\ y = Modulated([e EXCEPT !.points = <<>>], iv, start)
    BY <1>3, <1>5 DEF ModulateEventWithoutCurvePoints
  <2> DEFINE bare == [e EXCEPT !.points = <<>>]
  <2>2. /\ bare \in EventSet /\ bare.points = <<>>
        /\ bare.tag = e.tag /\ bare.time = e.time /\ bare.duration = e.duration
    <3>1. <<>> \in Seq(PointSet)
      BY CatEmpty
    <3> QED
      BY <3>1, WithPoints, Zenon
  <2> HIDE DEF bare
  <2>3. /\ Modulated(bare, iv, start) \in EventSet
        /\ Modulated(bare, iv, start).tag = bare.tag
        /\ Modulated(bare, iv, start).time = bare.time
        /\ Modulated(bare, iv, start).duration = bare.duration
        /\ Modulated(bare, iv, start).points = bare.points
    BY <1>1, <1>2, <2>1, <2>2, ModulatedEventType
  <2> QED
    BY <1>5, <2>1, <2>2, <2>3 DEF KeepsShape, bare
<1> QED
  BY <1>4, <1>5

\* Modulating an event by a curve in order: moved to its time in the package
\* it is modulated as the property says.
LEMMA EventModulated ==
  ASSUME NEW curve \in CurveSet, InOrder(curve.points), NEW d \in Int, NEW e \in EventSet,
         NEW y \in ModulateVibratorEvent(curve, d, e)
  PROVE  ModulationOf(curve, Shift(d)[e], Shift(d)[y])
<1> DEFINE iv == ConvertVibratorEventsToCurveIntervals(curve)
           start == d + e.time
           a == Shift(d)[e]
           b == Shift(d)[y]
<1>1. start \in Int /\ start = e.time + d /\ e.time \in Int
  BY DEF EventSet
<1>2. PICK m : AreIntervals(iv, m, curve)
  BY HasIntervals
<1>3. iv \in Seq(IntervalSet)
  BY <1>2 DEF AreIntervals
<1>4. y \in IF HasCurve(e) THEN ModulateEventWithCurvePoints(iv, start, e)
            ELSE ModulateEventWithoutCurvePoints(iv, start, e)
  BY DEF ModulateVibratorEvent
<1> HIDE DEF iv
<1>5. KeepsShape(e, y)
  BY EventKeepsShape
<1>6. /\ a.time = start /\ a.duration = e.duration /\ a.tag = e.tag /\ a.points = e.points
      /\ a.intensity = e.intensity /\ a.frequency = e.frequency
  BY <1>1 DEF Shift, EventSet
<1>7. /\ b.time = y.time + d /\ b.duration = y.duration /\ b.tag = y.tag /\ b.points = y.points
      /\ b.intensity = y.intensity /\ b.frequency = y.frequency
  BY <1>5 DEF Shift, EventSet, KeepsShape
<1>8. HasCurve(a) <=> HasCurve(e)
  BY <1>6 DEF HasCurve
<1>9. b.time = a.time /\ b.duration = a.duration
  BY <1>1, <1>5, <1>6, <1>7 DEF KeepsShape
<1> HIDE DEF a, b, start
<1>10. CASE HasCurve(e)
  <2>1. iv # <<>> /\ y = [e EXCEPT !.points = GetCurveListAfterModulation(iv, e, start)]
    BY <1>4, <1>10 DEF ModulateEventWithCurvePoints
  <2>2. y.points = GetCurveListAfterModulation(iv, e, start)
    BY <2>1 DEF EventSet
  <2>3. DOMAIN e.points = 1 .. Len(e.points) /\ \A j \in 1 .. Len(e.points) : e.points[j] \in PointSet
    BY DEF EventSet
  <2>4. ASSUME NEW j \in 1 .. Len(e.points)
        PROVE  /\ e.points[j].time = y.points[j].time
               /\ IsModulated(e.points[j], y.points[j], curve, start + e.points[j].time)
    <3>1. e.points[j] \in PointSet /\ e.points[j].time \in Int
      BY <2>3 DEF PointSet
    <3>2. start + e.points[j].time \in Int
      BY <1>1, <3>1
    <3>3. y.points[j] = Modulated(e.points[j], iv, start + e.points[j].time)
      BY <1>1, <1>3, <2>1, <2>2, CurveModulated
    <3>4. Modulated(e.points[j], iv, start + e.points[j].time).time = e.points[j].time
      BY <1>3, <2>1, <3>1, <3>2, ModulatedPointType
    <3>5. IsModulated(e.points[j], y.points[j], curve, start + e.points[j].time)
      BY <1>2, <2>1, <3>1, <3>2, <3>3, ModulatedIs
    <3> QED
      BY <3>3, <3>4, <3>5
  <2>5. Len(e.points) = Len(y.points)
    BY <1>5, <1>10 DEF KeepsShape
  <2>6. \A j \in DOMAIN a.points :
          /\ a.points[j].time = b.points[j].time
          /\ IsModulated(a.points[j], b.points[j], curve, a.time + a.points[j].time)
    BY <1>6, <1>7, <2>3, <2>4
  <2> QED
    BY <1>6, <1>7, <1>8, <1>9, <1>10, <2>5, <2>6 DEF ModulationOf, a, b
<1>11. CASE ~HasCurve(e)
  <2>1. iv # <<>> /\ y = Modulated([e EXCEPT !.points = <<>>], iv, start)
    BY <1>4, <1>11 DEF ModulateEventWithoutCurvePoints
  <2> DEFINE bare == [e EXCEPT !.points = <<>>]
  <2>2. bare \in EventSet /\ bare.intensity = e.intensity /\ bare.frequency = e.frequency
    <3>1. <<>> \in Seq(PointSet)
      BY CatEmpty
    <3> QED
      BY <3>1, WithPoints, Zenon
  <2>3. y = Modulated(bare, iv, start)
    BY <2>1
  <2> HIDE DEF bare
  <2>4. IsModulated(bare, y, curve, start)
    BY <1>1, <1>2, <2>1, <2>2, <2>3, ModulatedIs
  <2>5. IsModulated(a, b, curve, a.time)
    BY <1>6, <1>7, <2>2, <2>4 DEF IsModulated
  <2> QED
    BY <1>8, <1>9, <1>11, <2>5 DEF ModulationOf, a, b
<1> QED
  BY <1>10, <1>11

\* The fields of a pattern.
LEMMA PatternFields ==
  ASSUME NEW p \in PatternSet
  PROVE  /\ p.startTime \in Int /\ p.patternDuration \in Int /\ p.events \in Seq(EventSet)
         /\ Len(p.events) \in Nat /\ DOMAIN p.events = 1 .. Len(p.events)
         /\ \A i \in 1 .. Len(p.events) : p.events[i] \in EventSet
<1>1. p.startTime \in Int /\ p.patternDuration \in Int /\ p.events \in Seq(EventSet)
  BY DEF PatternSet
<1>2. PICK s \in Seq(EventSet) : s = p.events
  BY <1>1
<1>3. Len(s) \in Nat /\ DOMAIN s = 1 .. Len(s) /\ \A i \in 1 .. Len(s) : s[i] \in EventSet
  OBVIOUS
<1> QED
  BY <1>1, <1>2, <1>3

\* The fields of a package.
LEMMA PackageFields ==
  ASSUME NEW p \in PackageSet
  PROVE  /\ p.packageDuration \in Int /\ p.patterns \in Seq(PatternSet)
         /\ Len(p.patterns) \in Nat /\ DOMAIN p.patterns = 1 .. Len(p.patterns)
         /\ \A k \in 1 .. Len(p.patterns) : p.patterns[k] \in PatternSet
<1>1. p.packageDuration \in Int /\ p.patterns \in Seq(PatternSet)
  BY DEF PackageSet
<1>2. PICK s \in Seq(PatternSet) : s = p.patterns
  BY <1>1
<1>3. Len(s) \in Nat /\ DOMAIN s = 1 .. Len(s) /\ \A i \in 1 .. Len(s) : s[i] \in PatternSet
  OBVIOUS
<1> QED
  BY <1>1, <1>2, <1>3

\* A pattern with other events.
LEMMA WithEvents ==
  ASSUME NEW p \in PatternSet, NEW s \in Seq(EventSet)
  PROVE  /\ [p EXCEPT !.events = s] \in PatternSet
         /\ [p EXCEPT !.events = s].events = s
         /\ [p EXCEPT !.events = s].startTime = p.startTime
         /\ [p EXCEPT !.events = s].patternDuration = p.patternDuration
BY DEF PatternSet

\* A package with other patterns.
LEMMA WithPatterns ==
  ASSUME NEW p \in PackageSet, NEW s \in Seq(PatternSet)
  PROVE  /\ [p EXCEPT !.patterns = s] \in PackageSet
         /\ [p EXCEPT !.patterns = s].patterns = s
         /\ [p EXCEPT !.patterns = s].packageDuration = p.packageDuration
BY DEF PackageSet

\* A pattern's events at their times from the start of the package.
LEMMA AtStartEvents ==
  ASSUME NEW p \in PatternSet
  PROVE  /\ AtStart[p] \in Seq(EventSet) /\ Len(AtStart[p]) = Len(p.events)
         /\ \A i \in 1 .. Len(p.events) : AtStart[p][i] = Shift(p.startTime)[p.events[i]]
<1>1. PICK s \in Seq(EventSet) : s = p.events
  BY PatternFields
<1>2. PICK h \in [EventSet -> EventSet] : h = Shift(p.startTime)
  BY PatternFields, ShiftType
<1>3. AtStart[p] = Apply(h, s)
  BY <1>1, <1>2, AtStartType
<1>4. /\ Apply(h, s) \in Seq(EventSet) /\ Len(Apply(h, s)) = Len(s)
      /\ \A i \in 1 .. Len(s) : Apply(h, s)[i] = h[s[i]]
  BY ApplyType
<1> QED
  BY <1>1, <1>2, <1>3, <1>4

\* Those of each pattern of a package.
LEMMA ApplyAtStart ==
  ASSUME NEW s \in Seq(PatternSet)
  PROVE  /\ Apply(AtStart, s) \in Seq(Seq(EventSet))
         /\ Len(Apply(AtStart, s)) = Len(s)
         /\ \A k \in 1 .. Len(s) : Apply(AtStart, s)[k] = AtStart[s[k]]
BY AtStartType, ApplySeq, ApplyLen, ApplyAt

\* The same for those of a package.
LEMMA PatternsAtStart ==
  ASSUME NEW p \in PackageSet
  PROVE  /\ Apply(AtStart, p.patterns) \in Seq(Seq(EventSet))
         /\ Len(Apply(AtStart, p.patterns)) = Len(p.patterns)
         /\ \A k \in 1 .. Len(p.patterns) : Apply(AtStart, p.patterns)[k] = AtStart[p.patterns[k]]
<1>1. p.patterns \in Seq(PatternSet)
  BY PackageFields
<1> QED
  BY <1>1, ApplyAtStart, Zenon

\* Packages whose patterns have related events have such events altogether.
LEMMA FlattenedAlike ==
  ASSUME NEW old \in PackageSet, NEW new \in PackageSet, NEW R,
         Len(old.patterns) = Len(new.patterns),
         \A k \in 1 .. Len(old.patterns) :
           Alike(AtStart[old.patterns[k]], AtStart[new.patterns[k]], R)
  PROVE  Alike(Flattened(old), Flattened(new), R)
<1> DEFINE ss == Apply(AtStart, old.patterns)
           tt == Apply(AtStart, new.patterns)
<1>1. old.patterns \in Seq(PatternSet) /\ new.patterns \in Seq(PatternSet)
  BY PackageFields
<1>2. /\ ss \in Seq(Seq(EventSet)) /\ Len(ss) = Len(old.patterns)
      /\ \A k \in 1 .. Len(old.patterns) : ss[k] = AtStart[old.patterns[k]]
  BY PatternsAtStart
<1>3. /\ tt \in Seq(Seq(EventSet)) /\ Len(tt) = Len(new.patterns)
      /\ \A k \in 1 .. Len(new.patterns) : tt[k] = AtStart[new.patterns[k]]
  BY PatternsAtStart
<1>4. Flattened(old) = FlattenSeq(ss) /\ Flattened(new) = FlattenSeq(tt)
  BY FlattenedIs DEF Bind
<1> HIDE DEF ss, tt
<1>5. Len(ss) = Len(tt) /\ \A k \in 1 .. Len(ss) : Alike(ss[k], tt[k], R)
  BY <1>2, <1>3
<1>6. Alike(FlattenSeq(ss), FlattenSeq(tt), R)
  BY <1>2, <1>3, <1>5, AlikeFlatten
<1> QED
  BY <1>4, <1>6

\* A modulated pattern: its events are those of the pattern, modulated.
LEMMA PatternModulated ==
  ASSUME NEW curve \in CurveSet, NEW p \in PatternSet,
         NEW q \in ModulateVibratorPattern(curve, p)
  PROVE  /\ q \in PatternSet /\ q.startTime = p.startTime
         /\ q.patternDuration = p.patternDuration
         /\ Len(q.events) = Len(p.events)
         /\ \A i \in 1 .. Len(p.events) :
              q.events[i] \in ModulateVibratorEvent(curve, p.startTime, p.events[i])
<1> DEFINE n == Len(p.events)
           sets == Map(LAMBDA e : ModulateVibratorEvent(curve, p.startTime, e), p.events)
<1>1. PICK events \in ChoicesOf(sets) : q = [p EXCEPT !.events = events]
  BY DEF ModulateVibratorPattern
<1>2. /\ n \in Nat /\ DOMAIN p.events = 1 .. n /\ p.startTime \in Int
      /\ \A i \in 1 .. n : p.events[i] \in EventSet
  BY PatternFields
<1>3. DOMAIN sets = 1 .. n
  BY <1>2 DEF Map
<1>4. \A i \in 1 .. n : sets[i] = ModulateVibratorEvent(curve, p.startTime, p.events[i])
  BY <1>2 DEF Map
<1> HIDE DEF sets, n
<1>5. \A i \in 1 .. n : sets[i] \subseteq EventSet
  <2> SUFFICES ASSUME NEW i \in 1 .. n, NEW y \in sets[i]
               PROVE  y \in EventSet
    OBVIOUS
  <2>1. y \in ModulateVibratorEvent(curve, p.startTime, p.events[i])
    BY <1>4
  <2> QED
    BY <1>2, <2>1, EventKeepsShape DEF KeepsShape
<1>6. events \in Seq(EventSet) /\ Len(events) = n /\ \A i \in 1 .. n : events[i] \in sets[i]
  BY <1>2, <1>3, <1>5, ChoiceOf
<1>7. /\ q \in PatternSet /\ q.startTime = p.startTime
      /\ q.patternDuration = p.patternDuration /\ q.events = events
  BY <1>1, <1>6, WithEvents
<1> QED
  BY <1>4, <1>6, <1>7 DEF n

\* A modulated package: its patterns are modulated.
LEMMA PackageModulated ==
  ASSUME NEW curve \in CurveSet, NEW old \in PackageSet, NEW new \in ModulatePackage(curve, old)
  PROVE  /\ new \in PackageSet /\ new.packageDuration = old.packageDuration
         /\ Len(new.patterns) = Len(old.patterns)
         /\ \A k \in 1 .. Len(old.patterns) :
              new.patterns[k] \in ModulateVibratorPattern(curve, old.patterns[k])
<1> DEFINE n == Len(old.patterns)
           sets == Map(LAMBDA p : ModulateVibratorPattern(curve, p), old.patterns)
<1>1. PICK patterns \in ChoicesOf(sets) : new = [old EXCEPT !.patterns = patterns]
  BY DEF ModulatePackage
<1>2. /\ n \in Nat /\ DOMAIN old.patterns = 1 .. n
      /\ \A k \in 1 .. n : old.patterns[k] \in PatternSet
  BY PackageFields
<1>3. DOMAIN sets = 1 .. n
  BY <1>2 DEF Map
<1>4. \A k \in 1 .. n : sets[k] = ModulateVibratorPattern(curve, old.patterns[k])
  BY <1>2 DEF Map
<1> HIDE DEF sets, n
<1>5. \A k \in 1 .. n : sets[k] \subseteq PatternSet
  BY <1>2, <1>4, PatternModulated
<1>6. patterns \in Seq(PatternSet) /\ Len(patterns) = n /\ \A k \in 1 .. n : patterns[k] \in sets[k]
  BY <1>2, <1>3, <1>5, ChoiceOf
<1>7. /\ new \in PackageSet /\ new.packageDuration = old.packageDuration
      /\ new.patterns = patterns
  BY <1>1, <1>6, WithPatterns
<1> QED
  BY <1>4, <1>6, <1>7 DEF n

\* Its events are modulated as the property says.
LEMMA FlattenedModulated ==
  ASSUME NEW curve \in CurveSet, InOrder(curve.points),
         NEW old \in PackageSet, NEW new \in ModulatePackage(curve, old)
  PROVE  Alike(Flattened(old), Flattened(new), ModulatedPairs(curve))
<1>1. /\ new \in PackageSet /\ Len(new.patterns) = Len(old.patterns)
      /\ \A k \in 1 .. Len(old.patterns) :
           new.patterns[k] \in ModulateVibratorPattern(curve, old.patterns[k])
  BY PackageModulated
<1>2. ASSUME NEW k \in 1 .. Len(old.patterns)
      PROVE  Alike(AtStart[old.patterns[k]], AtStart[new.patterns[k]], ModulatedPairs(curve))
  <2> DEFINE p == old.patterns[k]
             q == new.patterns[k]
             d == p.startTime
             n == Len(p.events)
  <2>1. p \in PatternSet /\ q \in ModulateVibratorPattern(curve, p)
    BY <1>1, PackageFields
  <2> HIDE DEF p, q
  <2>2. /\ q \in PatternSet /\ q.startTime = d /\ Len(q.events) = n
        /\ \A i \in 1 .. n : q.events[i] \in ModulateVibratorEvent(curve, d, p.events[i])
    BY <2>1, PatternModulated
  <2>3. /\ d \in Int /\ n \in Nat /\ p.events \in Seq(EventSet) /\ q.events \in Seq(EventSet)
        /\ \A i \in 1 .. n : p.events[i] \in EventSet
    BY <2>1, <2>2, PatternFields
  <2>4. /\ Len(AtStart[p]) = n
        /\ \A i \in 1 .. n : AtStart[p][i] = Shift(d)[p.events[i]]
    BY <2>1, AtStartEvents
  <2>5. /\ Len(AtStart[q]) = n
        /\ \A i \in 1 .. n : AtStart[q][i] = Shift(d)[q.events[i]]
    <3>1. /\ Len(AtStart[q]) = Len(q.events)
          /\ \A i \in 1 .. Len(q.events) : AtStart[q][i] = Shift(q.startTime)[q.events[i]]
      BY <2>2, AtStartEvents
    <3> QED
      BY <2>2, <3>1
  <2>6. Shift(d) \in [EventSet -> EventSet]
    BY <2>3, ShiftType
  <2> HIDE DEF d, n
  <2>8. ASSUME NEW i \in 1 .. n
        PROVE  <<Shift(d)[p.events[i]], Shift(d)[q.events[i]]>> \in ModulatedPairs(curve)
    <3>1. p.events[i] \in EventSet /\ q.events[i] \in ModulateVibratorEvent(curve, d, p.events[i])
      BY <2>2, <2>3
    <3>2. q.events[i] \in EventSet
      BY <2>3, <3>1, EventKeepsShape DEF KeepsShape
    <3>3. Shift(d)[p.events[i]] \in EventSet /\ Shift(d)[q.events[i]] \in EventSet
      BY <2>6, <3>1, <3>2
    <3>4. ModulationOf(curve, Shift(d)[p.events[i]], Shift(d)[q.events[i]])
      BY <2>3, <3>1, EventModulated
    <3> QED
      BY <3>3, <3>4 DEF ModulatedPairs
  <2>9. Alike(AtStart[p], AtStart[q], ModulatedPairs(curve))
    BY <2>4, <2>5, <2>8 DEF Alike
  <2> QED
    BY <2>9 DEF p, q
<1> QED
  BY <1>1, <1>2, FlattenedAlike

-----------------------------------------------------------------------------
(* What decoders make of files.                                              *)

\* An event of a kind the structures take, its time and duration not
\* negative, its curve within the limits; patterns and packages of such.
FitEvents ==
  {e \in EventSet : /\ e.tag \in {EVENT_TAG_CONTINUOUS, EVENT_TAG_TRANSIENT}
                    /\ e.time >= 0 /\ e.duration >= 0
                    /\ e.points # <<>> => IsCurve(e.points)}

FitPatterns == {p \in PatternSet : p.events \in Seq(FitEvents) /\ Len(p.events) <= MaxEventSize}

FitPackages == {p \in PackageSet : p.patterns \in Seq(FitPatterns)}

\* Sorting by time leaves the elements of a sequence, each of them where a
\* bijection has put it, in order.
LEMMA Sorting ==
  ASSUME NEW T, NEW s \in Seq(T), NEW r \in SortsByTime(s)
  PROVE  /\ r \in Seq(T) /\ Len(r) = Len(s)
         /\ \E p \in Bijection(1 .. Len(s), 1 .. Len(s)) :
              \A i \in 1 .. Len(s) : r[i] = s[p[i]]
         /\ \A i \in 1 .. Len(s) - 1 : r[i].time <= r[i + 1].time
<1> DEFINE n == Len(s)
<1>1. n \in Nat /\ DOMAIN s = 1 .. n
  OBVIOUS
<1>2. PICK p \in Bijection(1 .. n, 1 .. n) :
        /\ r = [i \in 1 .. n |-> s[p[i]]]
        /\ \A i \in 1 .. n - 1 : s[p[i]].time <= s[p[i + 1]].time
  BY <1>1 DEF SortsByTime
<1>3. p \in [1 .. n -> 1 .. n]
  BY DEF Bijection, Injection
<1>4. \A i \in 1 .. n : s[p[i]] \in T
  BY <1>1, <1>3
<1>5. r \in Seq(T) /\ Len(r) = n
  BY <1>1, <1>2, <1>4
<1>6. \A i \in 1 .. n - 1 : r[i].time <= r[i + 1].time
  BY <1>1, <1>2
<1> QED
  BY <1>2, <1>5, <1>6

\* The event a decoder makes of a transient one.
LEMMA AsTransient ==
  ASSUME NEW e \in EventSet
  PROVE  LET x == [e EXCEPT !.duration = TRANSIENT_VIBRATION_DURATION, !.points = <<>>]
         IN  /\ x \in EventSet /\ x.tag = e.tag /\ x.points = <<>>
             /\ x.time = e.time /\ x.duration >= 0
             /\ x.intensity = e.intensity /\ x.frequency = e.frequency
<1> DEFINE y == [e EXCEPT !.duration = TRANSIENT_VIBRATION_DURATION]
           x == [e EXCEPT !.duration = TRANSIENT_VIBRATION_DURATION, !.points = <<>>]
<1>1. /\ y \in EventSet /\ y.tag = e.tag /\ y.time = e.time /\ y.duration >= 0
      /\ y.intensity = e.intensity /\ y.frequency = e.frequency
  <2>1. \A d \in Int : [e EXCEPT !.duration = d] \in EventSet
    BY DEF EventSet
  <2>2. \A d \in Int : LET z == [e EXCEPT !.duration = d]
                       IN  /\ z.tag = e.tag /\ z.time = e.time /\ z.duration = d
                           /\ z.intensity = e.intensity /\ z.frequency = e.frequency
    BY DEF EventSet
  <2>3. TRANSIENT_VIBRATION_DURATION \in Int /\ TRANSIENT_VIBRATION_DURATION >= 0
    BY DEF TRANSIENT_VIBRATION_DURATION
  <2> QED
    BY <2>1, <2>2, <2>3
<1>2. x = [y EXCEPT !.points = <<>>]
  OBVIOUS
<1> HIDE DEF x, y
<1>3. <<>> \in Seq(PointSet)
  BY CatEmpty, Zenon
<1>4. /\ [y EXCEPT !.points = <<>>] \in EventSet
      /\ [y EXCEPT !.points = <<>>].points = <<>>
      /\ [y EXCEPT !.points = <<>>].tag = y.tag
      /\ [y EXCEPT !.points = <<>>].time = y.time
      /\ [y EXCEPT !.points = <<>>].duration = y.duration
      /\ [y EXCEPT !.points = <<>>].intensity = y.intensity
      /\ [y EXCEPT !.points = <<>>].frequency = y.frequency
  BY <1>1, <1>3, WithPoints, Zenon
<1>5. /\ x \in EventSet /\ x.tag = e.tag /\ x.points = <<>>
      /\ x.time = e.time /\ x.duration >= 0
      /\ x.intensity = e.intensity /\ x.frequency = e.frequency
  BY <1>1, <1>2, <1>4
<1> QED
  BY <1>5 DEF x

\* The points of an event are in the order of their times.
PointsInOrder(e) == \A j \in 2 .. Len(e.points) : e.points[j - 1].time <= e.points[j].time

\* What is made of an item of an OH file fits; it is the item but for what
\* decoding changes, and its points are in order.
LEMMA OhEventFits ==
  ASSUME NEW item \in EventSet,
         item.tag \in {EVENT_TAG_UNKNOWN, EVENT_TAG_CONTINUOUS, EVENT_TAG_TRANSIENT},
         NEW e \in OhParseEvent(item)
  PROVE  e \in FitEvents /\ Sketch(item) = Sketch(e) /\ PointsInOrder(e)
<1> DEFINE other == [item EXCEPT !.duration = TRANSIENT_VIBRATION_DURATION, !.points = <<>>]
           event == IF item.tag = EVENT_TAG_TRANSIENT THEN other ELSE item
<1>1. /\ other \in EventSet /\ other.tag = item.tag /\ other.points = <<>>
      /\ other.time = item.time /\ other.duration >= 0
      /\ other.intensity = item.intensity /\ other.frequency = item.frequency
  BY AsTransient
<1>2. /\ item.tag # EVENT_TAG_UNKNOWN /\ OhCheckEventParameters(event)
      /\ \/ event.points = <<>> /\ e = event
         \/ event.points # <<>> /\ e \in OhParseCurve(event)
  <2> HIDE DEF event
  <2>1. OhParseEvent(item) = IF item.tag = EVENT_TAG_UNKNOWN \/ ~OhCheckEventParameters(event)
                             THEN Refused
                             ELSE IF event.points = <<>> THEN {event} ELSE OhParseCurve(event)
    BY DEF OhParseEvent, event, other
  <2> QED
    BY <2>1 DEF Refused
<1> HIDE DEF other
<1>3. /\ event \in EventSet /\ event.tag = item.tag /\ event.time = item.time
      /\ event.intensity = item.intensity /\ event.frequency = item.frequency
      /\ item.tag # EVENT_TAG_TRANSIENT => event = item
      /\ item.tag = EVENT_TAG_TRANSIENT => event.points = <<>>
  BY <1>1
<1> HIDE DEF event
<1>4. event.time >= 0 /\ event.duration >= 0
  <2>1. EVENT_START_TIME_MAX \in Int /\ CONTINUOUS_DURATION_MAX \in Int
    BY DEF EVENT_START_TIME_MAX, CONTINUOUS_DURATION_MAX
  <2> QED
    BY <1>2, <2>1 DEF OhCheckEventParameters
<1>5. item.tag \in {EVENT_TAG_CONTINUOUS, EVENT_TAG_TRANSIENT}
  BY <1>2
<1>6. CASE event.points = <<>> /\ e = event
  <2>1. Len(e.points) = 0
    BY <1>6
  <2>2. PointsInOrder(e)
    BY <2>1 DEF PointsInOrder
  <2>3. Sketch(item) = Sketch(e)
    BY <1>3, <1>6 DEF Sketch
  <2> QED
    BY <1>3, <1>4, <1>5, <1>6, <2>2, <2>3 DEF FitEvents
<1>7. CASE event.points # <<>> /\ e \in OhParseCurve(event)
  <2>1. /\ IsCurve(event.points)
        /\ \E sorted \in SortsByTime(event.points) : e = [event EXCEPT !.points = sorted]
    BY <1>7 DEF OhParseCurve, Refused
  <2>2. PICK sorted \in SortsByTime(event.points) : e = [event EXCEPT !.points = sorted]
    BY <2>1
  <2>3. event.points \in Seq(PointSet) /\ Len(event.points) \in Nat
    BY <1>3, EventFields, PointsOf
  <2>4. /\ sorted \in Seq(PointSet) /\ Len(sorted) = Len(event.points)
        /\ \A i \in 1 .. Len(event.points) - 1 : sorted[i].time <= sorted[i + 1].time
    BY <2>3, Sorting
  <2>5. /\ e \in EventSet /\ e.points = sorted /\ e.tag = event.tag /\ e.time = event.time
        /\ e.duration = event.duration /\ e.intensity = event.intensity
        /\ e.frequency = event.frequency
    BY <1>3, <2>2, <2>4, WithPoints
  <2>6. IsCurve(sorted)
    BY <2>1, <2>4 DEF IsCurve
  <2>7. PointsInOrder(e)
    <3> SUFFICES ASSUME NEW j \in 2 .. Len(e.points)
                 PROVE  e.points[j - 1].time <= e.points[j].time
      BY DEF PointsInOrder
    <3>1. j - 1 \in 1 .. Len(event.points) - 1 /\ (j - 1) + 1 = j
      BY <2>3, <2>4, <2>5
    <3> QED
      BY <2>4, <2>5, <3>1
  <2>8. event = item
    BY <1>3, <1>7
  <2>9. Sketch(item) = Sketch(e)
    BY <2>4, <2>5, <2>8 DEF Sketch
  <2> QED
    BY <1>3, <1>4, <1>5, <2>5, <2>6, <2>7, <2>9 DEF FitEvents
<1> QED
  BY <1>2, <1>6, <1>7

\* What is made of an item of a HE file fits.
LEMMA HeEventFits ==
  ASSUME NEW item \in EventSet
  PROVE  HeParseEvent(item) \subseteq FitEvents
<1> SUFFICES ASSUME NEW e \in HeParseEvent(item)
             PROVE  e \in FitEvents
  OBVIOUS
<1> DEFINE other == [item EXCEPT !.duration = TRANSIENT_VIBRATION_DURATION, !.points = <<>>]
           event == IF item.tag = EVENT_TAG_TRANSIENT THEN other ELSE item
<1>1. /\ other \in EventSet /\ other.tag = item.tag /\ other.points = <<>>
      /\ other.time = item.time /\ other.duration >= 0
  BY AsTransient
<1> HIDE DEF other
<1>2. /\ e = event /\ HeCheckEventParameters(e)
      /\ item.tag = EVENT_TAG_TRANSIENT \/ HeParseCurve(e)
  BY DEF HeParseEvent, other
<1>3. event \in EventSet /\ event.tag = item.tag
  BY <1>1
<1>4. e.tag \in {EVENT_TAG_CONTINUOUS, EVENT_TAG_TRANSIENT} /\ e.time >= 0
  BY <1>2 DEF HeCheckEventParameters
<1>5. CASE item.tag = EVENT_TAG_TRANSIENT
  BY <1>1, <1>2, <1>3, <1>4, <1>5 DEF FitEvents
<1>6. CASE item.tag # EVENT_TAG_TRANSIENT
  <2>1. event = item
    BY <1>6
  <2> HIDE DEF event
  <2>2. HeCheckContinuousParameters(e)
    BY <1>2, <1>3, <1>6 DEF HeCheckEventParameters
  <2>3. CONTINUOUS_DURATION_MAX \in Int
    BY DEF CONTINUOUS_DURATION_MAX
  <2>4. e.duration >= 0
    BY <2>2, <2>3 DEF HeCheckContinuousParameters
  <2>5. IsCurve(e.points)
    BY <1>2, <1>6 DEF HeParseCurve
  <2> QED
    BY <1>2, <1>3, <1>4, <2>4, <2>5 DEF FitEvents
<1> QED
  BY <1>5, <1>6

\* The events of a pattern of a HE file.
LEMMA HePatternFits ==
  ASSUME NEW items \in Seq(EventSet), NEW events \in HeParsePattern(items), NEW t \in Int
  PROVE  Pattern(t, 0, events) \in FitPatterns
<1> DEFINE n == Len(items)
           sets == Map(HeParseEvent, items)
<1>1. n \in Nat /\ DOMAIN items = 1 .. n /\ \A i \in 1 .. n : items[i] \in EventSet
  OBVIOUS
<1>2. n \in 1 .. HeEventMax /\ events \in ChoicesOf(sets)
  BY DEF HeParsePattern, Refused
<1>3. DOMAIN sets = 1 .. n /\ \A i \in 1 .. n : sets[i] = HeParseEvent(items[i])
  BY <1>1 DEF Map
<1> HIDE DEF sets, n
<1>4. \A i \in 1 .. n : sets[i] \subseteq FitEvents
  BY <1>1, <1>3, HeEventFits
<1>5. events \in Seq(FitEvents) /\ Len(events) = n
  BY <1>1, <1>2, <1>3, <1>4, ChoiceOf
<1>6. n <= MaxEventSize
  BY <1>1, <1>2, LimitsAssumption
<1>7. events \in Seq(EventSet)
  BY <1>5 DEF FitEvents
<1>8. /\ Pattern(t, 0, events) \in PatternSet
      /\ Pattern(t, 0, events).events = events
  BY <1>7 DEF Pattern, PatternSet
<1> QED
  BY <1>5, <1>6, <1>8 DEF FitPatterns

\* A multiple and the next.
LEMMA NextMultiple ==
  ASSUME NEW m \in Int
  PROVE  /\ 0 * m = 0 /\ 1 * m = m /\ 2 * m = m + m
         /\ \A i \in Int : (i - 1) * m + m = i * m /\ i * m \in Int
OBVIOUS

\* Flattening sequences of limited lengths makes one of limited length.
LEMMA FlattenLen ==
  ASSUME NEW T, NEW m \in Nat, NEW ss \in Seq(Seq(T)),
         \A k \in 1 .. Len(ss) : Len(ss[k]) <= m
  PROVE  Len(FlattenSeq(ss)) <= Len(ss) * m
<1>1. PICK f : Concats(f, ss, T) /\ f[Len(ss)] = FlattenSeq(ss)
  BY FlattenRuns
<1> DEFINE n == Len(ss)
<1>2. /\ n \in Nat /\ f \in [0 .. n -> Seq(T)] /\ f[0] = <<>>
      /\ \A k \in 1 .. n : ss[k] \in Seq(T) /\ Len(ss[k]) <= m /\ f[k] = Cat(f[k - 1], ss[k])
  BY <1>1 DEF Concats, Cat
<1> HIDE DEF n
<1> DEFINE S == {k \in 0 .. n : Len(f[k]) <= k * m}
<1>3. 0 \in S
  <2>1. Len(f[0]) = 0 /\ 0 * m = 0
    BY <1>2, NextMultiple
  <2> QED
    BY <1>2, <2>1
<1>4. ASSUME NEW k \in 1 .. n, k - 1 \in S
      PROVE  k \in S
  <2>1. k \in 0 .. n /\ k - 1 \in 0 .. n /\ Len(f[k - 1]) <= (k - 1) * m
    BY <1>2, <1>4
  <2>2. f[k - 1] \in Seq(T) /\ ss[k] \in Seq(T)
    BY <1>2, <2>1
  <2>3. Len(f[k]) = Len(f[k - 1]) + Len(ss[k])
    <3>1. \A u, v \in Seq(T) : Len(Cat(u, v)) = Len(u) + Len(v)
      BY CatType
    <3>2. f[k] = Cat(f[k - 1], ss[k])
      BY <1>2
    <3> QED
      BY <2>2, <3>1, <3>2, Zenon
  <2>4. (k - 1) * m + m = k * m /\ (k - 1) * m \in Int
    BY <1>2, NextMultiple
  <2>5. Len(f[k - 1]) \in Nat /\ Len(ss[k]) \in Nat
    <3>1. \A s \in Seq(T) : Len(s) \in Nat
      OBVIOUS
    <3> QED
      BY <2>2, <3>1, Zenon
  <2>6. Len(ss[k]) <= m
    BY <1>2
  <2>7. PICK i \in Int : i = (k - 1) * m
    BY <2>4, Zenon
  <2>8. i + m = k * m
    BY <2>4, <2>7, Zenon
  <2>9. Len(f[k - 1]) <= i
    BY <2>1, <2>7, Zenon
  <2>10. Len(f[k]) <= i + m
    <3>1. \A a, b \in Nat : a <= i /\ b <= m => a + b <= i + m
      OBVIOUS
    <3> QED
      BY <2>3, <2>5, <2>6, <2>9, <3>1, Zenon
  <2>11. Len(f[k]) <= k * m
    BY <2>8, <2>10, Zenon
  <2> QED
    BY <2>1, <2>11
<1>5. \A k \in 0 .. n : k \in S
  <2> HIDE DEF S
  <2> QED
    BY <1>2, <1>3, <1>4, UpFromZero
<1> QED
  BY <1>1, <1>2, <1>5 DEF n

\* An item and an event that is the item but for what decoding changes.
ParsedPairs ==
  {x \in EventSet \X FitEvents : Sketch(x[1]) = Sketch(x[2]) /\ PointsInOrder(x[2])}

\* The items of an OH file, and its channels.
OhItems ==
  {e \in EventSet : e.tag \in {EVENT_TAG_UNKNOWN, EVENT_TAG_CONTINUOUS, EVENT_TAG_TRANSIENT}}

OhChannels == [index : Int, pattern : Seq(OhItems)]

\* What is made of a channel.
LEMMA OhPatternParsed ==
  ASSUME NEW items \in Seq(OhItems), NEW events \in OhParsePattern(items)
  PROVE  /\ events \in Seq(FitEvents) /\ Len(events) <= OhEventMax
         /\ Alike(items, events, ParsedPairs)
<1> DEFINE n == Len(items)
           sets == Map(OhParseEvent, items)
<1>1. n \in Nat /\ DOMAIN items = 1 .. n /\ \A i \in 1 .. n : items[i] \in OhItems
  OBVIOUS
<1>2. n <= OhEventMax /\ events \in ChoicesOf(sets)
  <2> HIDE DEF sets, n
  <2>1. OhParsePattern(items) = IF n > OhEventMax THEN Refused ELSE ChoicesOf(sets)
    BY DEF OhParsePattern, sets, n
  <2>2. ~(n > OhEventMax)
    BY <2>1 DEF Refused
  <2> QED
    BY <1>1, <2>1, <2>2, LimitsAssumption
<1>3. DOMAIN sets = 1 .. n /\ \A i \in 1 .. n : sets[i] = OhParseEvent(items[i])
  BY <1>1 DEF Map
<1> HIDE DEF sets, n
<1>4. ASSUME NEW i \in 1 .. n, NEW e \in sets[i]
      PROVE  e \in FitEvents /\ Sketch(items[i]) = Sketch(e) /\ PointsInOrder(e)
  <2>1. items[i] \in EventSet /\ e \in OhParseEvent(items[i])
    BY <1>1, <1>3 DEF OhItems
  <2>2. items[i].tag \in {EVENT_TAG_UNKNOWN, EVENT_TAG_CONTINUOUS, EVENT_TAG_TRANSIENT}
    BY <1>1 DEF OhItems
  <2> QED
    BY <2>1, <2>2, OhEventFits
<1>5. \A i \in 1 .. n : sets[i] \subseteq FitEvents
  BY <1>4
<1>6. events \in Seq(FitEvents) /\ Len(events) = n /\ \A i \in 1 .. n : events[i] \in sets[i]
  BY <1>1, <1>2, <1>3, <1>5, ChoiceOf
<1>7. ASSUME NEW i \in 1 .. n
      PROVE  <<items[i], events[i]>> \in ParsedPairs
  BY <1>1, <1>4, <1>6 DEF ParsedPairs, OhItems
<1> QED
  BY <1>2, <1>6, <1>7 DEF Alike, n

\* What is made of all channels of a file.
LEMMA OhChannelsParsed ==
  ASSUME NEW file \in OhFileSet, file.channelNumber \in 1 .. 2,
         Len(file.channels) = file.channelNumber,
         NEW parsed \in ChoicesOf(Map(LAMBDA c : OhParsePattern(c.pattern), file.channels))
  PROVE  /\ FlattenSeq(parsed) \in Seq(FitEvents)
         /\ Len(FlattenSeq(parsed)) <= 2 * OhEventMax
         /\ Alike(FlattenSeq(Map(LAMBDA c : c.pattern, file.channels)), FlattenSeq(parsed),
                  ParsedPairs)
<1> DEFINE channels == file.channels
           n == Len(channels)
           sets == Map(LAMBDA c : OhParsePattern(c.pattern), channels)
           lists == Map(LAMBDA c : c.pattern, channels)
<1>1. channels \in Seq(OhChannels)
  BY DEF OhFileSet, OhChannels, OhItems
<1>2. /\ n \in 1 .. 2 /\ DOMAIN channels = 1 .. n
      /\ \A i \in 1 .. n : channels[i].pattern \in Seq(OhItems)
  <2>1. PICK s \in Seq(OhChannels) : s = channels
    BY <1>1
  <2>2. /\ DOMAIN s = 1 .. Len(s)
        /\ \A i \in 1 .. Len(s) : s[i] \in OhChannels
    OBVIOUS
  <2>3. \A x \in OhChannels : x.pattern \in Seq(OhItems)
    BY DEF OhChannels
  <2> QED
    BY <2>1, <2>2, <2>3
<1>3. /\ DOMAIN sets = 1 .. n /\ \A i \in 1 .. n : sets[i] = OhParsePattern(channels[i].pattern)
      /\ lists = [i \in 1 .. n |-> channels[i].pattern]
  BY <1>2 DEF Map
<1> HIDE DEF sets, lists, n, channels
<1>4. ASSUME NEW i \in 1 .. n, NEW events \in sets[i]
      PROVE  /\ events \in Seq(FitEvents) /\ Len(events) <= OhEventMax
             /\ Alike(channels[i].pattern, events, ParsedPairs)
  BY <1>2, <1>3, OhPatternParsed
<1>5. \A i \in 1 .. n : sets[i] \subseteq Seq(FitEvents)
  BY <1>4
<1>6. parsed \in Seq(Seq(FitEvents)) /\ Len(parsed) = n /\ \A i \in 1 .. n : parsed[i] \in sets[i]
  <2>1. n \in Nat /\ parsed \in ChoicesOf(sets)
    BY <1>2 DEF sets, channels
  <2> QED
    BY <1>3, <1>5, <2>1, ChoiceOf
<1>7. lists \in Seq(Seq(OhItems)) /\ Len(lists) = n
  BY <1>2, <1>3
<1>8. \A i \in 1 .. n : Alike(lists[i], parsed[i], ParsedPairs)
  BY <1>3, <1>4, <1>6
<1>9. Alike(FlattenSeq(lists), FlattenSeq(parsed), ParsedPairs)
  BY <1>6, <1>7, <1>8, AlikeFlatten
<1>10. FlattenSeq(parsed) \in Seq(FitEvents)
  BY <1>6, FlattenType
<1>11. Len(FlattenSeq(parsed)) <= n * OhEventMax
  BY <1>4, <1>6, FlattenLen, LimitsAssumption
<1>12. n * OhEventMax <= 2 * OhEventMax
  <2>1. OhEventMax \in Nat
    BY LimitsAssumption
  <2> QED
    BY <1>2, <2>1, NextMultiple
<1>13. Len(FlattenSeq(parsed)) <= 2 * OhEventMax
  <2>1. Len(FlattenSeq(parsed)) \in Nat /\ n \in Nat /\ OhEventMax \in Nat
    BY <1>2, <1>10, LimitsAssumption
  <2> QED
    BY <1>11, <1>12, <2>1
<1> QED
  BY <1>9, <1>10, <1>13 DEF lists, channels

-----------------------------------------------------------------------------
(* Splitting a sequence into slices.                                         *)

Part(s, i, j) == SubSeq(s, i, j)

\* A part of a sequence.
LEMMA PartType ==
  ASSUME NEW T, NEW s \in Seq(T), NEW i \in 1 .. Len(s), NEW j \in i .. Len(s)
  PROVE  /\ Part(s, i, j) \in Seq(T) /\ Len(Part(s, i, j)) = j - i + 1
         /\ \A k \in 1 .. j - i + 1 : Part(s, i, j)[k] = s[i + k - 1]
BY SubSeqProperties DEF Part

\* A part from the start, one after it, and both.
LEMMA PartsCat ==
  ASSUME NEW T
  PROVE  /\ \A s \in Seq(T) : Part(s, 1, 0) = <<>> /\ Part(s, 1, Len(s)) = s
         /\ \A s \in Seq(T) : \A i \in 0 .. Len(s) : \A j \in i .. Len(s) :
              Cat(Part(s, 1, i), Part(s, i + 1, j)) = Part(s, 1, j)
<1>1. ASSUME NEW s \in Seq(T)
      PROVE  Part(s, 1, 0) = <<>> /\ Part(s, 1, Len(s)) = s
  BY SubSeqFull, SubSeqEmpty DEF Part
<1>2. ASSUME NEW s \in Seq(T), NEW i \in 0 .. Len(s), NEW j \in i .. Len(s)
      PROVE  Cat(Part(s, 1, i), Part(s, i + 1, j)) = Part(s, 1, j)
  <2>1. 1 \in 1 .. Len(s) + 1 /\ i \in 1 - 1 .. Len(s)
    OBVIOUS
  <2> QED
    BY <2>1, ConcatAdjacentSubSeq DEF Part, Cat
<1> QED
  BY <1>1, <1>2

\* How many slices of c it takes for n elements.
LEMMA SliceCount ==
  ASSUME NEW n \in Nat, NEW c \in Nat, c >= 1
  PROVE  LET m == (n + c - 1) \div c
         IN  /\ m \in Nat /\ n <= m * c
             /\ \A k \in 1 .. m : (k - 1) * c < n
             /\ \A i \in Nat : n <= c * i => m <= i
<1> DEFINE m == (n + c - 1) \div c
<1>1. m \in Nat /\ n <= m * c /\ m * c <= n + c - 1
  OBVIOUS
<1> HIDE DEF m
<1>2. ASSUME NEW k \in 1 .. m
      PROVE  (k - 1) * c < n
  <2>1. k * c <= m * c
    <3>1. (m - k) * c >= 0
      BY <1>1
    <3> QED
      BY <1>1, <3>1
  <2>2. (k - 1) * c = k * c - c
    OBVIOUS
  <2> QED
    BY <1>1, <2>1, <2>2
<1>3. ASSUME NEW i \in Nat, n <= c * i
      PROVE  m <= i
  <2> SUFFICES ASSUME m > i
               PROVE  FALSE
    BY <1>1
  <2>1. (m - i - 1) * c >= 0
    BY <1>1
  <2>2. m * c >= i * c + c
    BY <1>1, <2>1
  <2> QED
    BY <1>1, <1>3, <2>2
<1> QED
  BY <1>1, <1>2, <1>3 DEF m

\* A function of the first numbers is a sequence.
LEMMA FunctionIsSeq ==
  ASSUME NEW T, NEW n \in Nat, NEW f \in [1 .. n -> T]
  PROVE  f \in Seq(T) /\ Len(f) = n
OBVIOUS

\* The slices between cuts.
AreSlices(ss, s, m, cut) == ss = [k \in 1 .. m |-> Part(s, cut[k - 1] + 1, cut[k])]

\* The cuts are in order, the first before and the last after all.
CutsInOrder(cut, m, n) ==
  /\ m \in Nat /\ cut \in [0 .. m -> 0 .. n] /\ cut[0] = 0 /\ cut[m] = n
  /\ \A k \in 1 .. m : cut[k - 1] < cut[k]

\* One after the other the slices are the sequence.
SlicesOf(ss, s, m, cut, T) ==
  /\ ss \in Seq(Seq(T)) /\ FlattenSeq(ss) = s
  /\ \A k \in 1 .. m : /\ Len(ss[k]) = cut[k] - cut[k - 1]
                       /\ \A i \in 1 .. Len(ss[k]) : ss[k][i] = s[cut[k - 1] + i]

\* It is so.
LEMMA SlicesFlatten ==
  ASSUME NEW T, NEW s \in Seq(T), NEW m, NEW cut, CutsInOrder(cut, m, Len(s)),
         NEW ss, AreSlices(ss, s, m, cut)
  PROVE  SlicesOf(ss, s, m, cut, T)
<1> USE DEF SlicesOf
<1> DEFINE n == Len(s)
<1>1. /\ n \in Nat /\ m \in Nat /\ cut \in [0 .. m -> 0 .. n] /\ cut[0] = 0 /\ cut[m] = n
      /\ \A k \in 1 .. m : cut[k - 1] < cut[k]
  BY DEF CutsInOrder
<1> USE <1>1
<1>2. ASSUME NEW k \in 1 .. m
      PROVE  /\ cut[k - 1] \in 0 .. n /\ cut[k - 1] + 1 \in 1 .. n
             /\ cut[k] \in cut[k - 1] + 1 .. n /\ cut[k] \in cut[k - 1] .. n
  <2>1. cut[k - 1] \in 0 .. n /\ cut[k] \in 0 .. n /\ cut[k - 1] < cut[k]
    BY k - 1 \in 0 .. m
  <2> QED
    BY <1>1, <2>1
<1>3. ASSUME NEW k \in 1 .. m
      PROVE  /\ ss[k] \in Seq(T) /\ Len(ss[k]) = cut[k] - cut[k - 1]
             /\ \A i \in 1 .. Len(ss[k]) : ss[k][i] = s[cut[k - 1] + i]
             /\ Cat(Part(s, 1, cut[k - 1]), ss[k]) = Part(s, 1, cut[k])
  <2>1. PICK y \in 0 .. n : y = cut[k - 1]
    BY <1>2
  <2>2. PICK z \in y + 1 .. n : z = cut[k]
    BY <1>2, <2>1
  <2>3. ss[k] = Part(s, y + 1, z)
    BY <2>1, <2>2 DEF AreSlices
  <2>4. y + 1 \in 1 .. n /\ z \in y .. n /\ z - (y + 1) + 1 = z - y
    BY <1>1
  <2>5. /\ ss[k] \in Seq(T) /\ Len(ss[k]) = z - y
        /\ \A i \in 1 .. z - y : ss[k][i] = s[y + 1 + i - 1]
    <3>1. PICK x \in 1 .. n : x = y + 1
      BY <2>4
    <3>2. /\ Part(s, x, z) \in Seq(T) /\ Len(Part(s, x, z)) = z - x + 1
          /\ \A i \in 1 .. z - x + 1 : Part(s, x, z)[i] = s[x + i - 1]
      BY <3>1, PartType
    <3>3. z - x + 1 = z - y
      BY <1>1, <2>4, <3>1
    <3> QED
      BY <2>3, <3>1, <3>2, <3>3, Zenon
  <2>6. \A i \in 1 .. z - y : y + 1 + i - 1 = y + i
    BY <1>1
  <2>7. Cat(Part(s, 1, y), Part(s, y + 1, z)) = Part(s, 1, z)
    BY <2>4, PartsCat
  <2> QED
    BY <2>1, <2>2, <2>3, <2>5, <2>6, <2>7
<1>4. ss \in Seq(Seq(T)) /\ Len(ss) = m
  <2>1. ss \in [1 .. m -> Seq(T)]
    BY <1>3 DEF AreSlices
  <2> QED
    BY <2>1, FunctionIsSeq
<1>5. PICK f : Concats(f, ss, T) /\ f[Len(ss)] = FlattenSeq(ss)
  BY <1>4, FlattenRuns
<1>6. /\ f[0] = <<>>
      /\ \A k \in 1 .. m : f[k] = Cat(f[k - 1], ss[k])
  BY <1>4, <1>5 DEF Concats, Cat
<1> DEFINE S == {k \in 0 .. m : f[k] = Part(s, 1, cut[k])}
<1>7. 0 \in S
  <2>1. Part(s, 1, 0) = <<>>
    BY PartsCat
  <2> QED
    BY <1>6, <2>1
<1>8. ASSUME NEW k \in 1 .. m, k - 1 \in S
      PROVE  k \in S
  <2>1. k \in 0 .. m /\ f[k - 1] = Part(s, 1, cut[k - 1])
    BY <1>8
  <2>2. f[k] = Part(s, 1, cut[k])
    BY <1>3, <1>6, <2>1
  <2> QED
    BY <2>1, <2>2
<1>9. \A k \in 0 .. m : k \in S
  <2> HIDE DEF S
  <2> QED
    BY <1>7, <1>8, UpFromZero
<1>10. f[m] = Part(s, 1, n)
  BY <1>9
<1>11. FlattenSeq(ss) = s
  BY <1>4, <1>5, <1>10, PartsCat
<1> QED
  BY <1>3, <1>4, <1>11

\* The order of neighbours is that of all.
LEMMA OrderOfAll ==
  ASSUME NEW events \in Seq(EventSet), InOrder(events)
  PROVE  \A i, j \in 1 .. Len(events) : i <= j => events[i].time <= events[j].time
<1> DEFINE n == Len(events)
           f == [i \in 1 .. n |-> events[i].time]
<1>1. n \in Nat /\ \A i \in 1 .. n : events[i] \in EventSet
  OBVIOUS
<1>2. f \in [1 .. n -> Int]
  BY <1>1, EventFields
<1>3. ASSUME NEW i \in 2 .. n
      PROVE  f[i - 1] <= f[i]
  BY <1>1 DEF InOrder
<1>4. \A i, j \in 1 .. n : i <= j => f[i] <= f[j]
  <2> HIDE DEF f, n
  <2> QED
    BY <1>1, <1>2, <1>3, NeverFalls
<1> QED
  BY <1>4

\* An event moved back and forth is at its time again.
LEMMA ShiftBack ==
  ASSUME NEW e \in EventSet, NEW t \in Int
  PROVE  [[e EXCEPT !.time = @ - t] EXCEPT !.time = @ + t] = e
<1>1. (e.time - t) + t = e.time
  BY EventFields
<1> QED
  BY <1>1 DEF EventSet

\* A slice as the pattern that starts with its first event.
SlicePattern(slice) ==
  Pattern(slice[1].time, 0, Map(LAMBDA e : [e EXCEPT !.time = @ - slice[1].time], slice))

\* Of events in order it plays them at their times.
LEMMA SliceToPattern ==
  ASSUME NEW slice \in Seq(FitEvents), Len(slice) \in 1 .. PatternCapacity,
         \A i \in 1 .. Len(slice) : slice[1].time <= slice[i].time,
         NEW p, p = SlicePattern(slice)
  PROVE  /\ p \in FitPatterns /\ AtStart[p] = slice
         /\ Len(p.events) = Len(slice)
<1> DEFINE n == Len(slice)
           t == slice[1].time
           events == [i \in 1 .. n |-> [slice[i] EXCEPT !.time = @ - t]]
<1>1. n \in Nat /\ DOMAIN slice = 1 .. n /\ 1 \in 1 .. n /\ n <= MaxEventSize
  BY LimitsAssumption
<1>2. \A i \in 1 .. n : slice[i] \in FitEvents
  OBVIOUS
<1>3. \A i \in 1 .. n : slice[i] \in EventSet /\ t \in Int
  BY <1>1, <1>2, EventFields DEF FitEvents
<1>4. p = Pattern(t, 0, events)
  BY <1>1 DEF Map, SlicePattern
<1>5. ASSUME NEW i \in 1 .. n
      PROVE  /\ [slice[i] EXCEPT !.time = @ - t] \in FitEvents
             /\ [[slice[i] EXCEPT !.time = @ - t] EXCEPT !.time = @ + t] = slice[i]
  <2>1. slice[i] \in FitEvents /\ slice[i] \in EventSet /\ t \in Int /\ t <= slice[i].time
    BY <1>2, <1>3
  <2> HIDE DEF t
  <2>2. /\ [slice[i] EXCEPT !.time = @ - t] \in EventSet
        /\ [slice[i] EXCEPT !.time = @ - t].time = slice[i].time - t
        /\ [slice[i] EXCEPT !.time = @ - t].tag = slice[i].tag
        /\ [slice[i] EXCEPT !.time = @ - t].duration = slice[i].duration
        /\ [slice[i] EXCEPT !.time = @ - t].points = slice[i].points
    <3>1. \A d \in Int : [slice[i] EXCEPT !.time = d] \in EventSet
      BY <2>1 DEF EventSet
    <3>2. \A d \in Int : /\ [slice[i] EXCEPT !.time = d].time = d
                         /\ [slice[i] EXCEPT !.time = d].tag = slice[i].tag
                         /\ [slice[i] EXCEPT !.time = d].duration = slice[i].duration
                         /\ [slice[i] EXCEPT !.time = d].points = slice[i].points
      BY <2>1 DEF EventSet
    <3>3. slice[i].time - t \in Int
      BY <2>1, EventFields
    <3> QED
      BY <3>1, <3>2, <3>3
  <2>3. slice[i].time - t >= 0
    BY <2>1, EventFields
  <2> QED
    BY <2>1, <2>2, <2>3, ShiftBack DEF FitEvents
<1>6. /\ events \in Seq(FitEvents) /\ Len(events) = n
      /\ \A i \in 1 .. n : events[i] = [slice[i] EXCEPT !.time = @ - t]
  <2>1. events \in [1 .. n -> FitEvents]
    BY <1>5
  <2>2. \A i \in 1 .. n : events[i] = [slice[i] EXCEPT !.time = @ - t]
    OBVIOUS
  <2> HIDE DEF events, n
  <2> QED
    BY <1>1, <2>1, <2>2, FunctionIsSeq
<1> HIDE DEF t, n, events
<1>7. events \in Seq(EventSet) /\ t \in Int
  BY <1>1, <1>3, <1>6 DEF FitEvents
<1>8. p \in PatternSet /\ p.events = events /\ p.startTime = t
  BY <1>4, <1>7 DEF Pattern, PatternSet
<1>9. /\ AtStart[p] \in Seq(EventSet) /\ Len(AtStart[p]) = n
      /\ \A i \in 1 .. n : AtStart[p][i] = Shift(t)[events[i]]
  <2>1. /\ AtStart[p] \in Seq(EventSet) /\ Len(AtStart[p]) = Len(p.events)
        /\ \A i \in 1 .. Len(p.events) : AtStart[p][i] = Shift(p.startTime)[p.events[i]]
    BY <1>8, AtStartEvents
  <2> QED
    BY <1>6, <1>8, <2>1
<1>10. ASSUME NEW i \in 1 .. n
       PROVE  AtStart[p][i] = slice[i]
  <2>1. events[i] \in EventSet /\ events[i] = [slice[i] EXCEPT !.time = @ - t]
    BY <1>5, <1>6 DEF FitEvents
  <2>2. Shift(t)[events[i]] = [events[i] EXCEPT !.time = @ + t]
    BY <1>7, <2>1, ShiftType
  <2> QED
    BY <1>5, <1>9, <2>1, <2>2
<1>11. AtStart[p] = slice
  <2>1. PICK s \in Seq(EventSet) : s = AtStart[p]
    BY <1>9
  <2>2. slice \in Seq(EventSet)
    BY <1>2 DEF FitEvents
  <2> QED
    BY <1>9, <1>10, <2>1, <2>2, SeqEqual DEF n
<1> QED
  BY <1>1, <1>6, <1>8, <1>11 DEF FitPatterns, n

\* The durations of events.
DurationOf == [e \in EventSet |-> e.duration]

\* Their sum.
LEMMA TotalDurationIs ==
  /\ DurationOf \in [EventSet -> Int]
  /\ \A s \in Seq(EventSet) : /\ TotalDuration(s) = SumOf(Apply(DurationOf, s))
                              /\ TotalDuration(s) \in Int
<1>1. DurationOf \in [EventSet -> Int] /\ \A e \in EventSet : DurationOf[e] = e.duration
  BY EventFields DEF DurationOf
<1>2. ASSUME NEW s \in Seq(EventSet)
      PROVE  TotalDuration(s) = SumOf(Apply(DurationOf, s))
  <2>1. \A i \in DOMAIN s : s[i] \in EventSet
    OBVIOUS
  <2>2. Map(LAMBDA e : e.duration, s) = Apply(DurationOf, s)
    BY <1>1, <2>1 DEF Map, Apply
  <2> QED
    BY <2>2 DEF TotalDuration
<1>3. \A s \in Seq(EventSet) : SumOf(Apply(DurationOf, s)) \in Int
  BY <1>1, ApplySeq, SumType
<1> QED
  BY <1>1, <1>2, <1>3

\* Where the slices of c elements end.
AreCuts(cut, m, n, c) ==
  m = (n + c - 1) \div c /\ cut = [k \in 0 .. m |-> IF k * c < n THEN k * c ELSE n]

\* These ends are in order, the last at the end of all.
LEMMA CutsOfSlices ==
  ASSUME NEW n \in Nat, NEW c \in Nat, c >= 1, NEW m, NEW cut, AreCuts(cut, m, n, c)
  PROVE  /\ m \in Nat /\ cut \in [0 .. m -> 0 .. n] /\ cut[0] = 0 /\ cut[m] = n
         /\ \A k \in 1 .. m : /\ cut[k - 1] < cut[k] /\ cut[k] - cut[k - 1] <= c
                              /\ cut[k - 1] + 1 = k * c - c + 1
                              /\ cut[k] = IF k * c < n THEN k * c ELSE n
<1> USE DEF AreCuts
<1>1. m \in Nat /\ n <= m * c /\ \A k \in 1 .. m : (k - 1) * c < n
  BY SliceCount
<1>2. \A k \in Int : k * c \in Int
  BY NextMultiple
<1>3. ASSUME NEW k \in 0 .. m
      PROVE  (IF k * c < n THEN k * c ELSE n) \in 0 .. n
  <2>1. k * c >= 0 /\ k * c \in Int
    BY <1>1
  <2> QED
    BY <2>1
<1>4. cut \in [0 .. m -> 0 .. n]
  BY <1>3
<1>5. cut[0] = 0
  <2>1. 0 * c = 0 /\ 0 \in 0 .. m
    BY <1>1
  <2>2. cut[0] = IF 0 < n THEN 0 ELSE n
    BY <2>1
  <2> QED
    BY <2>2
<1>6. cut[m] = n
  <2>1. m \in 0 .. m /\ m * c \in Int
    BY <1>1, <1>2
  <2>2. cut[m] = IF m * c < n THEN m * c ELSE n
    BY <2>1
  <2> QED
    BY <1>1, <2>1, <2>2
<1>7. ASSUME NEW k \in 1 .. m
      PROVE  /\ cut[k - 1] < cut[k] /\ cut[k] - cut[k - 1] <= c
             /\ cut[k - 1] + 1 = k * c - c + 1
             /\ cut[k] = IF k * c < n THEN k * c ELSE n
  <2>1. k \in 0 .. m /\ k - 1 \in 0 .. m
    BY <1>1
  <2>2. (k - 1) * c + c = k * c /\ (k - 1) * c < n
    BY <1>1, NextMultiple
  <2>3. PICK y \in Int : y = (k - 1) * c
    BY <1>2, <2>1
  <2>4. PICK z \in Int : z = k * c
    BY <1>2
  <2>5. cut[k - 1] = (IF y < n THEN y ELSE n) /\ cut[k] = (IF z < n THEN z ELSE n)
    BY <2>1, <2>3, <2>4
  <2>6. y + c = z /\ y < n
    BY <2>2, <2>3, <2>4, Zenon
  <2>7. cut[k - 1] = y
    BY <2>5, <2>6
  <2>8. y < (IF z < n THEN z ELSE n) /\ (IF z < n THEN z ELSE n) - y <= c /\ y + 1 = z - c + 1
    BY <2>6
  <2>9. cut[k] - cut[k - 1] <= c /\ cut[k - 1] < cut[k] /\ cut[k - 1] + 1 = z - c + 1
    BY <2>5, <2>7, <2>8, Zenon
  <2> QED
    BY <2>4, <2>5, <2>9, Zenon
<1> QED
  BY <1>1, <1>4, <1>5, <1>6, <1>7

\* PatternSplit loses nothing of events in order, and what it makes fits.
LEMMA SplitFits ==
  ASSUME NEW events \in Seq(FitEvents), InOrder(events), Len(events) <= 2 * OhEventMax,
         NEW package1, package1 = Package(TotalDuration(events), PatternSplit(events))
  PROVE  /\ package1 \in FitPackages /\ Flattened(package1) = events
         /\ package1.packageDuration = TotalDuration(events)
         /\ Len(package1.patterns) <= MaxPatternNum
         /\ \A k \in 1 .. Len(package1.patterns) :
              Len(package1.patterns[k].events) \in 1 .. MaxEventSize
<1> DEFINE n == Len(events)
           c == PatternCapacity
           m == (n + c - 1) \div c
           cut == [k \in 0 .. m |-> IF k * c < n THEN k * c ELSE n]
           ss == [k \in 1 .. m |-> Part(events, cut[k - 1] + 1, cut[k])]
           ps == PatternSplit(events)
<1>1. /\ n \in Nat /\ c \in Nat /\ c >= 1 /\ c <= MaxEventSize /\ MaxEventSize \in Nat
      /\ MaxPatternNum \in Nat /\ OhEventMax \in Nat
  BY LimitsAssumption
<1>2. events \in Seq(EventSet) /\ \A i \in 1 .. n : events[i] \in FitEvents
  BY DEF FitEvents
<1>3. /\ m \in Nat /\ cut \in [0 .. m -> 0 .. n] /\ cut[0] = 0 /\ cut[m] = n
      /\ \A k \in 1 .. m : /\ cut[k - 1] < cut[k] /\ cut[k] - cut[k - 1] <= c
                           /\ cut[k - 1] + 1 = k * c - c + 1
                           /\ cut[k] = IF k * c < n THEN k * c ELSE n
  <2>1. AreCuts(cut, m, n, c)
    BY DEF AreCuts
  <2> HIDE DEF n, c, m, cut
  <2> QED
    BY <1>1, <2>1, CutsOfSlices
<1>4. m <= MaxPatternNum
  <2>1. n <= c * MaxPatternNum
    <3>1. 2 * OhEventMax <= c * MaxPatternNum /\ c * MaxPatternNum \in Int
      BY <1>1, LimitsAssumption
    <3> QED
      BY <1>1, <3>1
  <2> HIDE DEF n, c
  <2> QED
    BY <1>1, <2>1, SliceCount
<1>5. ps = [k \in 1 .. m |-> SlicePattern(Part(events, k * c - c + 1,
                                                IF k * c < n THEN k * c ELSE n))]
  BY DEF PatternSplit, Part, SlicePattern
<1>6. ps = [k \in 1 .. m |-> SlicePattern(ss[k])]
  <2> HIDE DEF ps, cut, n, c, m
  <2> QED
    BY <1>3, <1>5
<1> HIDE DEF ps
<1>7. AreSlices(ss, events, m, cut) /\ DOMAIN ss = 1 .. m
  BY DEF AreSlices
<1> HIDE DEF ss, cut, m
<1>8. /\ ss \in Seq(Seq(FitEvents)) /\ FlattenSeq(ss) = events
      /\ \A k \in 1 .. m : /\ Len(ss[k]) = cut[k] - cut[k - 1]
                           /\ \A i \in 1 .. Len(ss[k]) : ss[k][i] = events[cut[k - 1] + i]
  <2>1. CutsInOrder(cut, m, Len(events))
    BY <1>3 DEF CutsInOrder
  <2>2. SlicesOf(ss, events, m, cut, FitEvents)
    BY <1>7, <2>1, SlicesFlatten, Zenon
  <2> QED
    BY <2>2 DEF SlicesOf
<1> HIDE DEF n, c
<1>9. ASSUME NEW k \in 1 .. m
      PROVE  /\ ps[k] \in FitPatterns /\ AtStart[ps[k]] = ss[k]
             /\ Len(ps[k].events) \in 1 .. MaxEventSize
  <2>1. ps[k] = SlicePattern(ss[k])
    BY <1>6
  <2>2. cut[k - 1] \in 0 .. n /\ cut[k] \in 0 .. n /\ Len(ss[k]) = cut[k] - cut[k - 1]
    BY <1>3, <1>8
  <2>3. ss[k] \in Seq(FitEvents) /\ Len(ss[k]) \in 1 .. c
    <3>1. ss[k] \in Seq(FitEvents)
      BY <1>3, <1>7, <1>8
    <3>2. \A a, b \in 0 .. n : a < b /\ b - a <= c => b - a \in 1 .. c
      BY <1>1
    <3> QED
      BY <1>3, <2>2, <3>1, <3>2, Zenon
  <2>4. PICK y \in 0 .. n : y = cut[k - 1]
    BY <2>2
  <2>5. \A i \in 1 .. Len(ss[k]) : ss[k][i] = events[y + i] /\ y + i \in 1 .. n
    <3>1. \A a \in 0 .. n : \A i \in 1 .. a - y : y + i \in 1 .. n
      BY <1>1
    <3>2. Len(ss[k]) = cut[k] - y /\ cut[k] \in 0 .. n
      BY <2>2, <2>4
    <3>3. \A i \in 1 .. Len(ss[k]) : y + i \in 1 .. n
      BY <3>1, <3>2, Zenon
    <3> QED
      BY <1>8, <2>4, <3>3
  <2>6. \A i, j \in 1 .. n : i <= j => events[i].time <= events[j].time
    BY <1>2, OrderOfAll DEF n
  <2>7. \A i \in 1 .. Len(ss[k]) : ss[k][1].time <= ss[k][i].time
    <3>1. 1 \in 1 .. Len(ss[k]) /\ \A i \in 1 .. Len(ss[k]) : y + 1 <= y + i
      BY <1>1, <2>3
    <3> QED
      BY <2>5, <2>6, <3>1, Zenon
  <2>8. /\ ps[k] \in FitPatterns /\ AtStart[ps[k]] = ss[k]
        /\ Len(ps[k].events) = Len(ss[k])
    BY <2>1, <2>3, <2>7, SliceToPattern DEF c
  <2> QED
    BY <1>1, <2>3, <2>8
<1>10. ps \in Seq(FitPatterns) /\ Len(ps) = m
  <2>1. ps \in [1 .. m -> FitPatterns]
    BY <1>6, <1>9
  <2> QED
    BY <1>3, <2>1, FunctionIsSeq
<1>11. ps \in Seq(PatternSet)
  BY <1>10 DEF FitPatterns
<1>12. TotalDuration(events) \in Int
  BY <1>2, TotalDurationIs
<1>13. package1 \in PackageSet /\ package1.patterns = ps /\ package1.packageDuration = TotalDuration(events)
  BY <1>11, <1>12 DEF Package, PackageSet, ps
<1>14. Flattened(package1) = FlattenSeq(Apply(AtStart, ps))
  BY <1>13, FlattenedIs DEF Bind
<1>15. Apply(AtStart, ps) = ss
  <2>1. /\ Apply(AtStart, ps) \in Seq(Seq(EventSet)) /\ Len(Apply(AtStart, ps)) = m
        /\ \A k \in 1 .. m : Apply(AtStart, ps)[k] = AtStart[ps[k]]
    BY <1>10, <1>11, ApplyAtStart
  <2>2. ss \in Seq(Seq(EventSet)) /\ Len(ss) = m
    <3>1. Len(ss) = m
      BY <1>3, <1>7, <1>8
    <3>2. Seq(Seq(FitEvents)) \subseteq Seq(Seq(EventSet))
      <4>1. FitEvents \subseteq EventSet
        BY DEF FitEvents
      <4> QED
        BY <4>1
    <3> QED
      BY <1>8, <3>1, <3>2
  <2>3. \A k \in 1 .. m : Apply(AtStart, ps)[k] = ss[k]
    BY <1>9, <2>1
  <2> DEFINE x == Apply(AtStart, ps)
  <2> HIDE DEF x
  <2>4. x = ss
    BY <2>1, <2>2, <2>3, SeqEqual DEF x
  <2> QED
    BY <2>4 DEF x
<1> QED
  BY <1>4, <1>8, <1>9, <1>10, <1>13, <1>14, <1>15 DEF FitPackages

-----------------------------------------------------------------------------
(* What the decoder of OH files makes of a file.                             *)

\* A permutation keeps how many elements there are of each value.
LEMMA PermutedCount ==
  ASSUME NEW n \in Nat, NEW p \in Bijection(1 .. n, 1 .. n), NEW s, NEW t,
         DOMAIN s = 1 .. n, DOMAIN t = 1 .. n, \A i \in 1 .. n : t[i] = s[p[i]], NEW x
  PROVE  HowMany(x, s) = HowMany(x, t)
<1> DEFINE A == {i \in 1 .. n : s[i] = x}
           B == {i \in 1 .. n : t[i] = x}
           f == [i \in B |-> p[i]]
<1>1. /\ p \in [1 .. n -> 1 .. n]
      /\ \A i, j \in 1 .. n : p[i] = p[j] => i = j
      /\ \A j \in 1 .. n : \E i \in 1 .. n : p[i] = j
  BY DEF Bijection, Injection, Surjection, IsInjective
<1>2. f \in [B -> A]
  BY <1>1
<1>3. \A i, j \in B : f[i] = f[j] => i = j
  BY <1>1
<1>4. ASSUME NEW j \in A
      PROVE  \E i \in B : f[i] = j
  <2>1. PICK i \in 1 .. n : p[i] = j
    BY <1>1
  <2>2. i \in B
    BY <2>1
  <2> QED
    BY <2>1, <2>2
<1>5. f \in Bijection(B, A)
  <2> HIDE DEF f, A, B
  <2> QED
    BY <1>2, <1>3, <1>4 DEF Bijection, Injection, Surjection, IsInjective
<1>6. IsFiniteSet(B)
  <2>1. IsFiniteSet(1 .. n)
    BY FS_Interval
  <2> QED
    BY <2>1, FS_Subset
<1>7. Cardinality(A) = Cardinality(B)
  <2>1. ExistsBijection(B, A)
    BY <1>5 DEF ExistsBijection
  <2> HIDE DEF f, A, B
  <2> QED
    BY <1>6, <2>1, FS_Bijection
<1> QED
  BY <1>7 DEF HowMany

\* The items of all channels of a file.
ItemsOf(file) == FlattenSeq(Map(LAMBDA c : c.pattern, file.channels))

\* What SplitIsLossless says of the package made of a file.
SplitsLosslessly(file, package1) ==
  LET items  == Map(Sketch, ItemsOf(file))
      events == Flattened(package1)
  IN  /\ Len(items) = Len(events)
      /\ \A x \in Range(items) : HowMany(x, items) = HowMany(x, Map(Sketch, events))
      /\ InOrder(events)
      /\ \A k \in 1 .. Len(package1.patterns) :
           Len(package1.patterns[k].events) \in 1 .. MaxEventSize
      /\ \A i \in 1 .. Len(events) : PointsInOrder(events[i])
      /\ package1.packageDuration = TotalDuration(events)

\* It is so for the decoder's own package.
LEMMA OhDecoded ==
  ASSUME NEW file \in OhFileSet, NEW package1 \in OhDecodeEffect(file)
  PROVE  /\ package1 \in FitPackages /\ Len(package1.patterns) <= MaxPatternNum
         /\ SplitsLosslessly(file, package1)
<1>1. file.channelNumber \in 1 .. 2
  BY DEF OhDecodeEffect, Refused
<1>2. PICK events \in OhParseChannel(file) :
        package1 = Package(TotalDuration(events), PatternSplit(events))
  BY DEF OhDecodeEffect, Refused
<1> DEFINE sets == Map(LAMBDA c : OhParsePattern(c.pattern), file.channels)
<1>3. /\ Len(file.channels) = file.channelNumber
      /\ \E parsed \in ChoicesOf(sets) : events \in SortsByTime(FlattenSeq(parsed))
  <2> HIDE DEF sets
  <2>1. events \in UNION {SortsByTime(FlattenSeq(parsed)) : parsed \in ChoicesOf(sets)}
        /\ Len(file.channels) = file.channelNumber
    BY <1>2 DEF OhParseChannel, Refused, sets
  <2> QED
    BY <2>1
<1>4. PICK parsed \in ChoicesOf(sets) : events \in SortsByTime(FlattenSeq(parsed))
  BY <1>3
<1> DEFINE items == ItemsOf(file)
           flat  == FlattenSeq(parsed)
           n     == Len(flat)
<1>5. /\ flat \in Seq(FitEvents) /\ n <= 2 * OhEventMax /\ Alike(items, flat, ParsedPairs)
  BY <1>1, <1>3, OhChannelsParsed DEF ItemsOf
<1> HIDE DEF items, flat
<1>6. /\ events \in Seq(FitEvents) /\ Len(events) = n
      /\ \E p \in Bijection(1 .. n, 1 .. n) : \A i \in 1 .. n : events[i] = flat[p[i]]
      /\ \A i \in 1 .. n - 1 : events[i].time <= events[i + 1].time
  <2>1. events \in SortsByTime(flat)
    BY <1>4 DEF flat
  <2> QED
    BY <1>5, <2>1, Sorting
<1>7. PICK p \in Bijection(1 .. n, 1 .. n) : \A i \in 1 .. n : events[i] = flat[p[i]]
  BY <1>6
<1>8. n \in Nat /\ p \in [1 .. n -> 1 .. n] /\ \A i \in 1 .. n : flat[i] \in FitEvents
  <2>1. n \in Nat /\ \A i \in 1 .. n : flat[i] \in FitEvents
    BY <1>5
  <2>2. p \in [1 .. n -> 1 .. n]
    BY DEF Bijection, Injection
  <2> QED
    BY <2>1, <2>2
<1> HIDE DEF n
<1>9. InOrder(events)
  <2> SUFFICES ASSUME NEW i \in 2 .. n
               PROVE  events[i - 1].time <= events[i].time
    BY <1>6 DEF InOrder
  <2>1. i - 1 \in 1 .. n - 1 /\ (i - 1) + 1 = i
    BY <1>8
  <2> QED
    BY <1>6, <2>1
<1>10. /\ package1 \in FitPackages /\ Flattened(package1) = events
       /\ package1.packageDuration = TotalDuration(events)
       /\ Len(package1.patterns) <= MaxPatternNum
       /\ \A k \in 1 .. Len(package1.patterns) :
            Len(package1.patterns[k].events) \in 1 .. MaxEventSize
  BY <1>2, <1>5, <1>6, <1>9, SplitFits
<1>11. /\ Len(items) = n
       /\ \A i \in 1 .. n : Sketch(items[i]) = Sketch(flat[i]) /\ PointsInOrder(flat[i])
  <2>1. Len(items) = Len(flat) /\ \A i \in 1 .. Len(items) : <<items[i], flat[i]>> \in ParsedPairs
    BY <1>5 DEF Alike
  <2>2. \A i \in 1 .. n : Sketch(items[i]) = Sketch(flat[i]) /\ PointsInOrder(flat[i])
    BY <2>1 DEF ParsedPairs, n
  <2> QED
    BY <2>1, <2>2 DEF n
<1>12. \A i \in 1 .. n : PointsInOrder(events[i])
  BY <1>7, <1>8, <1>11
<1> DEFINE s == Map(Sketch, items)
           t == Map(Sketch, events)
<1>13. /\ DOMAIN s = 1 .. n /\ DOMAIN t = 1 .. n /\ Len(s) = n
       /\ \A i \in 1 .. n : s[i] = Sketch(items[i]) /\ t[i] = Sketch(events[i])
  <2>1. DOMAIN events = 1 .. n
    BY <1>6
  <2>2. items \in Seq(OhItems)
    <3> DEFINE lists == Map(LAMBDA c : c.pattern, file.channels)
    <3>1. PICK channels \in Seq(OhChannels) : channels = file.channels
      BY DEF OhFileSet, OhChannels, OhItems
    <3>2. \A i \in 1 .. Len(channels) : channels[i] \in OhChannels
      OBVIOUS
    <3>3. \A x \in OhChannels : x.pattern \in Seq(OhItems)
      BY DEF OhChannels
    <3>4. lists \in [1 .. Len(channels) -> Seq(OhItems)]
      BY <3>1, <3>2, <3>3 DEF Map
    <3> HIDE DEF lists
    <3>5. lists \in Seq(Seq(OhItems))
      BY <3>4, FunctionIsSeq
    <3> QED
      BY <3>5, FlattenType DEF items, ItemsOf, lists
  <2>3. DOMAIN items = 1 .. n
    BY <1>11, <2>2
  <2>4. /\ DOMAIN s = 1 .. n /\ s = [i \in 1 .. n |-> Sketch(items[i])]
        /\ DOMAIN t = 1 .. n /\ t = [i \in 1 .. n |-> Sketch(events[i])]
    BY <2>1, <2>3 DEF Map
  <2> HIDE DEF s, t
  <2>5. Len(s) = n
    <3>1. s \in Seq({Sketch(items[i]) : i \in 1 .. n})
      <4>1. s \in [1 .. n -> {Sketch(items[i]) : i \in 1 .. n}]
        BY <2>4
      <4> QED
        BY <1>8, <4>1, FunctionIsSeq
    <3> QED
      BY <1>8, <2>4, <3>1
  <2> QED
    BY <2>4, <2>5
<1> HIDE DEF s, t
<1>14. \A i \in 1 .. n : t[i] = s[p[i]]
  BY <1>7, <1>8, <1>11, <1>13
<1>15. \A x : HowMany(x, s) = HowMany(x, t)
  BY <1>8, <1>13, <1>14, PermutedCount
<1>16. SplitsLosslessly(file, package1)
  BY <1>6, <1>9, <1>10, <1>12, <1>13, <1>15 DEF SplitsLosslessly, items, s, t
<1> QED
  BY <1>10, <1>16

-----------------------------------------------------------------------------
(* The copy to the application's structures.                                 *)

\* The patterns with other durations, all of them integers.
Copied(ps, qs) ==
  /\ qs \in Seq(PatternSet) /\ Len(qs) = Len(ps)
  /\ \A i \in 1 .. Len(ps) : /\ qs[i].startTime = ps[i].startTime
                             /\ qs[i].events = ps[i].events

\* An event's end and the last of a pattern's are integers.
LEMMA LastEnd ==
  ASSUME NEW p \in PatternSet, p.events # <<>>
  PROVE  EndOf(Last(p.events)) \in Int
<1>1. PICK s \in Seq(EventSet) : s = p.events
  BY PatternFields
<1>2. Last(s) \in EventSet
  BY <1>1 DEF Last
<1>3. Last(s).time \in Int /\ Last(s).duration \in Int
  BY <1>2, EventFields
<1>4. \A x, y \in Int : x + y \in Int
  OBVIOUS
<1> QED
  BY <1>1, <1>3, <1>4, Zenon DEF EndOf

\* A pattern with another duration.
LEMMA WithDuration ==
  ASSUME NEW p \in PatternSet, NEW d \in Int
  PROVE  /\ [p EXCEPT !.patternDuration = d] \in PatternSet
         /\ [p EXCEPT !.patternDuration = d].startTime = p.startTime
         /\ [p EXCEPT !.patternDuration = d].events = p.events
         /\ [p EXCEPT !.patternDuration = d].patternDuration = d
BY DEF PatternSet

\* The copy changes durations of patterns and nothing else.
LEMMA CopyIs ==
  ASSUME NEW p \in PackageSet
  PROVE  \E qs : Copied(p.patterns, qs) /\ ToApplication(p) = [p EXCEPT !.patterns = qs]
<1> DEFINE ps == p.patterns
           n == Len(ps)
           Eq(g) == g = [i \in 0 .. n |-> IF i = 0 THEN 0
                                          ELSE IF ps[i].events = <<>> THEN g[i - 1]
                                          ELSE EndOf(Last(ps[i].events))]
           F == CHOOSE g : Eq(g)
           step == [x \in (0 + 1 .. n) \X Int |-> IF ps[x[1]].events = <<>> THEN x[2]
                                                  ELSE EndOf(Last(ps[x[1]].events))]
           qs == [i \in 1 .. n |-> [ps[i] EXCEPT !.patternDuration = F[i]]]
<1>1. /\ ps \in Seq(PatternSet) /\ n \in Nat /\ DOMAIN ps = 1 .. n
      /\ \A i \in 1 .. n : ps[i] \in PatternSet
  BY PackageFields
<1>2. ToApplication(p) = [p EXCEPT !.patterns = qs]
  BY <1>1 DEF ToApplication
<1> HIDE DEF n, ps
<1>3. \A i \in 0 + 1 .. n : ps[i].events # <<>> => EndOf(Last(ps[i].events)) \in Int
  BY <1>1, LastEnd
<1>4. step \in Steps(0, n, Int)
  BY <1>1, <1>3 DEF Steps
<1>5. \A i \in 0 + 1 .. n, v \in Int :
        step[<<i, v>>] = IF ps[i].events = <<>> THEN v ELSE EndOf(Last(ps[i].events))
  OBVIOUS
<1> HIDE DEF step
<1>6. \E g : IsRun(g, 0, n, Int, 0, step)
  <2>1. 0 \in Int /\ n \in Int /\ 0 <= n
    BY <1>1
  <2> QED
    BY <1>4, <2>1, RunExists
<1>7. PICK g \in [0 .. n -> Int] :
        /\ g[0] = 0
        /\ \A i \in 0 + 1 .. n : g[i] = step[<<i, g[i - 1]>>]
  BY <1>6 DEF IsRun
<1>8. \A i \in 0 + 1 .. n :
        g[i] = IF ps[i].events = <<>> THEN g[i - 1] ELSE EndOf(Last(ps[i].events))
  <2> SUFFICES ASSUME NEW i \in 0 + 1 .. n
               PROVE  g[i] = IF ps[i].events = <<>> THEN g[i - 1]
                             ELSE EndOf(Last(ps[i].events))
    OBVIOUS
  <2>1. i - 1 \in 0 .. n
    BY <1>1
  <2>2. g[i - 1] \in Int
    BY <1>7, <2>1
  <2> QED
    BY <1>5, <1>7, <2>2
<1>9. \A i \in 0 .. n : g[i] = IF i = 0 THEN 0
                               ELSE IF ps[i].events = <<>> THEN g[i - 1]
                               ELSE EndOf(Last(ps[i].events))
  <2>1. \A i \in 0 .. n : i = 0 \/ i \in 0 + 1 .. n
    BY <1>1
  <2>2. \A i \in 0 + 1 .. n : i # 0
    BY <1>1
  <2> QED
    BY <1>7, <1>8, <2>1, <2>2
<1>10. Eq(F)
  <2>1. Eq(g)
    BY <1>7, <1>9
  <2> HIDE DEF Eq
  <2> QED
    BY <2>1
<1> HIDE DEF F
<1>11. \A i \in 0 .. n : F[i] = IF i = 0 THEN 0
                                ELSE IF ps[i].events = <<>> THEN F[i - 1]
                                ELSE EndOf(Last(ps[i].events))
  BY <1>10
<1> DEFINE S == {i \in 0 .. n : F[i] \in Int}
<1>12. \A i \in 0 .. n : i \in S
  <2>1. 0 \in S
    BY <1>1, <1>11
  <2>2. ASSUME NEW i \in 1 .. n, i - 1 \in S
        PROVE  i \in S
    <3>1. i \in 0 + 1 .. n /\ i \in 0 .. n /\ i # 0 /\ F[i - 1] \in Int
      BY <1>1, <2>2
    <3>2. F[i] = IF ps[i].events = <<>> THEN F[i - 1] ELSE EndOf(Last(ps[i].events))
      BY <1>11, <3>1
    <3> QED
      BY <1>3, <3>1, <3>2
  <2> HIDE DEF S
  <2> QED
    BY <1>1, <2>1, <2>2, UpFromZero
<1>13. ASSUME NEW i \in 1 .. n
       PROVE  /\ qs[i] \in PatternSet /\ qs[i].startTime = ps[i].startTime
              /\ qs[i].events = ps[i].events
  <2>1. i \in 0 .. n /\ ps[i] \in PatternSet /\ qs[i] = [ps[i] EXCEPT !.patternDuration = F[i]]
    BY <1>1
  <2>2. F[i] \in Int
    BY <1>12, <2>1
  <2> HIDE DEF qs
  <2> QED
    BY <2>1, <2>2, WithDuration
<1>14. qs \in Seq(PatternSet) /\ Len(qs) = n
  <2>1. qs \in [1 .. n -> PatternSet]
    BY <1>13
  <2> HIDE DEF qs
  <2> QED
    BY <1>1, <2>1, FunctionIsSeq
<1>15. Copied(p.patterns, qs)
  <2> HIDE DEF qs
  <2> QED
    BY <1>13, <1>14 DEF Copied, n, ps
<1> QED
  BY <1>2, <1>15

\* The copy plays the same events.
LEMMA CopyKeeps ==
  ASSUME NEW p \in PackageSet, NEW q, q = ToApplication(p)
  PROVE  /\ q \in PackageSet /\ q.packageDuration = p.packageDuration
         /\ Copied(p.patterns, q.patterns) /\ Flattened(q) = Flattened(p)
         /\ p \in FitPackages => q \in FitPackages
<1>1. PICK qs : Copied(p.patterns, qs) /\ q = [p EXCEPT !.patterns = qs]
  BY CopyIs
<1>2. PICK ps \in Seq(PatternSet) : ps = p.patterns
  BY PackageFields
<1>3. /\ qs \in Seq(PatternSet) /\ Len(qs) = Len(ps)
      /\ \A i \in 1 .. Len(ps) : /\ qs[i].startTime = ps[i].startTime
                                 /\ qs[i].events = ps[i].events
  BY <1>1, <1>2 DEF Copied
<1>4. q \in PackageSet /\ q.packageDuration = p.packageDuration /\ q.patterns = qs
  BY <1>1, <1>3, WithPatterns
<1>5. Apply(AtStart, qs) = Apply(AtStart, ps)
  <2>1. /\ Apply(AtStart, ps) \in Seq(Seq(EventSet)) /\ Len(Apply(AtStart, ps)) = Len(ps)
        /\ \A i \in 1 .. Len(ps) : Apply(AtStart, ps)[i] = AtStart[ps[i]]
    BY ApplyAtStart
  <2>2. /\ Apply(AtStart, qs) \in Seq(Seq(EventSet)) /\ Len(Apply(AtStart, qs)) = Len(qs)
        /\ \A i \in 1 .. Len(qs) : Apply(AtStart, qs)[i] = AtStart[qs[i]]
    BY <1>3, ApplyAtStart
  <2>3. \A i \in 1 .. Len(ps) : ps[i] \in PatternSet /\ qs[i] \in PatternSet
    BY <1>3
  <2>4. \A i \in 1 .. Len(ps) : AtStart[qs[i]] = AtStart[ps[i]]
    BY <1>3, <2>3, AtStartType
  <2> DEFINE x == Apply(AtStart, qs)
             y == Apply(AtStart, ps)
  <2> HIDE DEF x, y
  <2>5. x \in Seq(Seq(EventSet)) /\ y \in Seq(Seq(EventSet)) /\ Len(x) = Len(y)
    BY <1>3, <2>1, <2>2 DEF x, y
  <2>6. \A i \in 1 .. Len(x) : x[i] = y[i]
    BY <1>3, <2>1, <2>2, <2>4 DEF x, y
  <2>7. x = y
    BY <2>5, <2>6, SeqEqual
  <2> QED
    BY <2>7 DEF x, y
<1>6. Flattened(q) = Flattened(p)
  BY <1>2, <1>4, <1>5, FlattenedIs DEF Bind
<1>7. ASSUME p \in FitPackages
      PROVE  q \in FitPackages
  <2>1. ps \in Seq(FitPatterns)
    BY <1>2, <1>7 DEF FitPackages
  <2>2. \A i \in 1 .. Len(ps) : ps[i] \in FitPatterns /\ qs[i] \in PatternSet
    BY <1>3, <2>1
  <2>3. \A i \in 1 .. Len(ps) : qs[i] \in FitPatterns
    BY <1>3, <2>2 DEF FitPatterns
  <2>4. qs \in [1 .. Len(ps) -> FitPatterns]
    <3>1. DOMAIN qs = 1 .. Len(ps) /\ qs = [i \in 1 .. Len(ps) |-> qs[i]]
      BY <1>3
    <3> QED
      BY <2>3, <3>1
  <2>5. qs \in Seq(FitPatterns)
    BY <2>4, FunctionIsSeq
  <2> QED
    BY <1>4, <2>5 DEF FitPackages
<1> QED
  BY <1>1, <1>4, <1>6, <1>7

-----------------------------------------------------------------------------
(* Seeking: one event.                                                       *)

\* An event with its curve left out, at another time and of another duration.
CutAt(e, x, y) == [e EXCEPT !.time = x, !.duration = y, !.points = <<>>]

\* Its fields.
LEMMA CutAtFields ==
  ASSUME NEW e \in EventSet, NEW x \in Int, NEW y \in Int
  PROVE  LET z == CutAt(e, x, y)
         IN  /\ z \in EventSet /\ z.tag = e.tag /\ z.time = x /\ z.duration = y
             /\ z.points = <<>> /\ z.intensity = e.intensity /\ z.frequency = e.frequency
             /\ z.index = e.index
<1> DEFINE w == [e EXCEPT !.time = x, !.duration = y]
           z == CutAt(e, x, y)
<1>1. /\ w \in EventSet /\ w.tag = e.tag /\ w.time = x /\ w.duration = y
      /\ w.intensity = e.intensity /\ w.frequency = e.frequency /\ w.index = e.index
  BY DEF EventSet
<1>2. z = [w EXCEPT !.points = <<>>]
  BY DEF CutAt
<1> HIDE DEF w, z
<1>3. <<>> \in Seq(PointSet)
  BY CatEmpty, Zenon
<1>4. /\ [w EXCEPT !.points = <<>>] \in EventSet
      /\ [w EXCEPT !.points = <<>>].points = <<>>
      /\ [w EXCEPT !.points = <<>>].tag = w.tag
      /\ [w EXCEPT !.points = <<>>].time = w.time
      /\ [w EXCEPT !.points = <<>>].duration = w.duration
      /\ [w EXCEPT !.points = <<>>].intensity = w.intensity
      /\ [w EXCEPT !.points = <<>>].frequency = w.frequency
      /\ [w EXCEPT !.points = <<>>].index = w.index
  BY <1>1, <1>3, WithPoints, Zenon
<1>5. /\ z \in EventSet /\ z.tag = e.tag /\ z.time = x /\ z.duration = y
      /\ z.points = <<>> /\ z.intensity = e.intensity /\ z.frequency = e.frequency
      /\ z.index = e.index
  BY <1>1, <1>2, <1>4, Zenon
<1> QED
  BY <1>5 DEF z

\* Events are equal when their fields are.
LEMMA SameEvent ==
  ASSUME NEW e \in EventSet, NEW f \in EventSet,
         e.tag = f.tag, e.time = f.time, e.duration = f.duration, e.intensity = f.intensity,
         e.frequency = f.frequency, e.index = f.index, e.points = f.points
  PROVE  e = f
BY DEF EventSet

\* A moved event.
LEMMA ShiftFields ==
  ASSUME NEW e \in EventSet, NEW d \in Int
  PROVE  LET f == Shift(d)[e]
         IN  /\ f \in EventSet /\ f.tag = e.tag /\ f.time = e.time + d
             /\ f.duration = e.duration /\ f.intensity = e.intensity
             /\ f.frequency = e.frequency /\ f.index = e.index /\ f.points = e.points
BY DEF Shift, EventSet

\* Leaving out a curve out of range.
LEMMA CurveOrNone ==
  ASSUME NEW e \in EventSet
  PROVE  /\ WithCurveOrNone(e) \in EventSet
         /\ WithCurveOrNone(e).points # <<>> => IsCurve(WithCurveOrNone(e).points)
         /\ WithCurveOrNone(e).tag = e.tag /\ WithCurveOrNone(e).time = e.time
         /\ WithCurveOrNone(e).duration = e.duration
         /\ (e.points # <<>> => IsCurve(e.points)) => WithCurveOrNone(e) = e
<1> DEFINE z == [e EXCEPT !.points = <<>>]
<1>1. <<>> \in Seq(PointSet)
  BY CatEmpty, Zenon
<1>2. /\ z \in EventSet /\ z.points = <<>> /\ z.tag = e.tag /\ z.time = e.time
      /\ z.duration = e.duration /\ z.intensity = e.intensity
      /\ z.frequency = e.frequency /\ z.index = e.index
  BY <1>1, WithPoints, Zenon
<1>3. e.points = <<>> => z = e
  <2> HIDE DEF z
  <2> QED
    BY <1>2, SameEvent
<1>4. WithCurveOrNone(e) = IF IsCurve(e.points) THEN e ELSE z
  BY DEF WithCurveOrNone
<1> HIDE DEF z
<1> QED
  BY <1>2, <1>3, <1>4

\* Events that begin not before their pattern, their curves within the limits.
GoodEvents == {e \in EventSet : e.time >= 0 /\ (e.points # <<>> => IsCurve(e.points))}

\* The event at a time from its pattern's start, before it is looked at again.
Later(e, t) == [e EXCEPT !.time = t]

\* Its fields.
LEMMA LaterFields ==
  ASSUME NEW e \in EventSet, NEW t \in Int
  PROVE  LET f == Later(e, t)
         IN  /\ f \in EventSet /\ f.tag = e.tag /\ f.time = t
             /\ f.duration = e.duration /\ f.intensity = e.intensity
             /\ f.frequency = e.frequency /\ f.index = e.index /\ f.points = e.points
BY DEF Later, EventSet

\* SeekEvent in its three cases.
LEMMA SeekEventIs ==
  ASSUME NEW e \in EventSet, NEW d \in Int, NEW t \in Int
  PROVE  LET start == e.time + d
             rest  == start + e.duration - t
         IN  /\ start \in Int /\ rest \in Int
             /\ t > start /\ e.tag = EVENT_TAG_CONTINUOUS /\ rest >= MIN_VIBRATOR_EVENT_TIME =>
                  /\ SeekEvent(e, d, t) = <<CutAt(e, 0, rest)>>
                  /\ RestOfEvent(e, start, t) = <<CutAt(e, 0, rest)>>
             /\ t > start /\ ~(e.tag = EVENT_TAG_CONTINUOUS /\ rest >= MIN_VIBRATOR_EVENT_TIME) =>
                  /\ SeekEvent(e, d, t) = <<>>
                  /\ RestOfEvent(e, start, t) = <<>>
             /\ ~(t > start) => SeekEvent(e, d, t) = <<WithCurveOrNone(Later(e, start - t))>>
<1>1. e.time \in Int /\ e.duration \in Int
  BY EventFields
<1>2. e.time + d \in Int /\ (e.time + d) + e.duration - t \in Int
  BY <1>1
<1> QED
  BY <1>2, Zenon DEF SeekEvent, RestOfEvent, CutAt, Later

\* Applying a function to a sequence of one element.
LEMMA ApplyOne ==
  ASSUME NEW h, NEW x
  PROVE  Apply(h, <<x>>) = <<h[x]>>
BY DEF Apply

\* What is left of an event: no more than one event, and it fits if that did.
LEMMA SeekEventType ==
  ASSUME NEW e \in EventSet, NEW d \in Int, NEW t \in Int
  PROVE  /\ SeekEvent(e, d, t) \in Seq(EventSet) /\ Len(SeekEvent(e, d, t)) <= 1
         /\ e \in FitEvents => SeekEvent(e, d, t) \in Seq(FitEvents)
<1> DEFINE start == e.time + d
           rest == start + e.duration - t
           long == e.tag = EVENT_TAG_CONTINUOUS /\ rest >= MIN_VIBRATOR_EVENT_TIME
           x == CutAt(e, 0, rest)
           y == Later(e, start - t)
           z == WithCurveOrNone(y)
<1>1. /\ start \in Int /\ rest \in Int
      /\ t > start /\ long => SeekEvent(e, d, t) = <<x>>
      /\ t > start /\ ~long => SeekEvent(e, d, t) = <<>>
      /\ ~(t > start) => SeekEvent(e, d, t) = <<z>>
  BY SeekEventIs, Zenon
<1>2. start - t \in Int /\ (~(t > start) => start - t >= 0)
  <2> HIDE DEF start
  <2> QED
    BY <1>1
<1>3. MIN_VIBRATOR_EVENT_TIME >= 0 /\ MIN_VIBRATOR_EVENT_TIME \in Int
  BY DEF MIN_VIBRATOR_EVENT_TIME
<1>4. long => rest >= 0 /\ e.tag = EVENT_TAG_CONTINUOUS
  <2> HIDE DEF rest
  <2> QED
    BY <1>1, <1>3
<1> HIDE DEF start, rest, long
<1>5. /\ x \in EventSet /\ x.tag = e.tag /\ x.time = 0 /\ x.duration = rest /\ x.points = <<>>
  BY <1>1, CutAtFields
<1>6. y \in EventSet /\ y.tag = e.tag /\ y.time = start - t /\ y.duration = e.duration
  BY <1>2, LaterFields, Zenon
<1> HIDE DEF x, y
<1>7. /\ z \in EventSet /\ z.tag = y.tag /\ z.time = y.time /\ z.duration = y.duration
      /\ z.points # <<>> => IsCurve(z.points)
  BY <1>6, CurveOrNone
<1> HIDE DEF z
<1>8. e \in FitEvents => (long => x \in FitEvents) /\ (~(t > start) => z \in FitEvents)
  BY <1>2, <1>4, <1>5, <1>6, <1>7 DEF FitEvents
<1>9. \A w \in EventSet : <<w>> \in Seq(EventSet) /\ Len(<<w>>) <= 1
  <2>1. \A w \in EventSet : <<w>> \in Seq(EventSet) /\ Len(<<w>>) = 1
    BY One
  <2> QED
    BY <2>1
<1>10. \A w \in FitEvents : <<w>> \in Seq(FitEvents)
  BY One
<1>11. <<>> \in Seq(EventSet) /\ <<>> \in Seq(FitEvents) /\ Len(<<>>) <= 1
  BY CatEmpty
<1> DEFINE s == SeekEvent(e, d, t)
<1> HIDE DEF s
<1>12. CASE t > start /\ long
  <2>1. s = <<x>>
    BY <1>1, <1>12, Zenon DEF s
  <2>2. s \in Seq(EventSet) /\ Len(s) <= 1 /\ (e \in FitEvents => s \in Seq(FitEvents))
    BY <1>5, <1>8, <1>9, <1>10, <1>12, <2>1, Zenon
  <2> QED
    BY <2>2, Zenon DEF s
<1>13. CASE t > start /\ ~long
  <2>1. s = <<>>
    BY <1>1, <1>13, Zenon DEF s
  <2>2. s \in Seq(EventSet) /\ Len(s) <= 1 /\ (e \in FitEvents => s \in Seq(FitEvents))
    BY <1>11, <2>1, Zenon
  <2> QED
    BY <2>2, Zenon DEF s
<1>14. CASE ~(t > start)
  <2>1. s = <<z>>
    BY <1>1, <1>14, Zenon DEF s
  <2>2. s \in Seq(EventSet) /\ Len(s) <= 1 /\ (e \in FitEvents => s \in Seq(FitEvents))
    BY <1>7, <1>8, <1>9, <1>10, <1>14, <2>1, Zenon
  <2> QED
    BY <2>2, Zenon DEF s
<1> QED
  BY <1>12, <1>13, <1>14, Zenon

\* At its time from the start of the package it is what RestAt says.
LEMMA SeekEventRest ==
  ASSUME NEW e \in GoodEvents, NEW d \in Int, NEW t \in Int
  PROVE  Apply(Shift(t), SeekEvent(e, d, t)) = RestAt(Shift(d)[e], t)
<1> DEFINE start == e.time + d
           rest == start + e.duration - t
           long == e.tag = EVENT_TAG_CONTINUOUS /\ rest >= MIN_VIBRATOR_EVENT_TIME
           x == CutAt(e, 0, rest)
           y == Later(e, start - t)
           z == WithCurveOrNone(y)
           f == Shift(d)[e]
<1>1. e \in EventSet /\ e.time \in Int /\ e.duration \in Int
  BY EventFields DEF GoodEvents
<1>2. /\ start \in Int /\ rest \in Int
      /\ t > start /\ long => SeekEvent(e, d, t) = <<x>>
      /\ t > start /\ ~long => SeekEvent(e, d, t) = <<>>
      /\ ~(t > start) => SeekEvent(e, d, t) = <<z>>
  BY <1>1, SeekEventIs, Zenon
<1>3. /\ f \in EventSet /\ f.tag = e.tag /\ f.time = start /\ f.duration = e.duration
      /\ f.intensity = e.intensity /\ f.frequency = e.frequency /\ f.index = e.index
      /\ f.points = e.points
  BY <1>1, ShiftFields, Zenon
<1>4. start - t \in Int /\ start - t + t = start /\ 0 + t = t
  <2> HIDE DEF start
  <2> QED
    BY <1>2
<1> HIDE DEF f
<1>5. EndOf(f) - t = rest
  <2>1. EndOf(f) = f.time + f.duration
    BY DEF EndOf
  <2>2. EndOf(f) = start + e.duration
    BY <1>3, <2>1, Zenon
  <2>3. \A u, v, w \in Int : (u + v) - w = u + (v - w)
    OBVIOUS
  <2> HIDE DEF start
  <2>4. (start + e.duration) - t = start + (e.duration - t)
    <3>1. start \in Int /\ e.duration \in Int /\ t \in Int
      BY <1>1, <1>2
    <3> QED
      BY <2>3, <3>1, Zenon
  <2> QED
    BY <2>2, <2>4, Zenon
<1> HIDE DEF start, rest
<1>6. /\ f.time >= t => RestAt(f, t) = <<f>>
      /\ ~(f.time >= t) /\ f.time < t /\ f.tag = EVENT_TAG_CONTINUOUS
           /\ EndOf(f) - t >= MIN_VIBRATOR_EVENT_TIME =>
           RestAt(f, t) = <<CutAt(f, t, EndOf(f) - t)>>
      /\ ~(f.time >= t) /\ ~(f.time < t /\ f.tag = EVENT_TAG_CONTINUOUS
                             /\ EndOf(f) - t >= MIN_VIBRATOR_EVENT_TIME) =>
           RestAt(f, t) = <<>>
  <2>1. ~(f.time >= t) <=> f.time < t
    BY <1>2, <1>3
  <2> QED
    BY <2>1, Zenon DEF RestAt, CutAt
<1>7. CASE ~(t > start)
  <2>1. y \in EventSet /\ y.tag = e.tag /\ y.time = start - t /\ y.duration = e.duration
        /\ y.intensity = e.intensity /\ y.frequency = e.frequency /\ y.index = e.index
        /\ y.points = e.points
    BY <1>1, <1>4, LaterFields, Zenon
  <2> HIDE DEF y
  <2>2. z = y
    BY <2>1, CurveOrNone DEF GoodEvents
  <2>3. /\ Shift(t)[y] \in EventSet /\ Shift(t)[y].tag = y.tag /\ Shift(t)[y].time = y.time + t
        /\ Shift(t)[y].duration = y.duration /\ Shift(t)[y].intensity = y.intensity
        /\ Shift(t)[y].frequency = y.frequency /\ Shift(t)[y].index = y.index
        /\ Shift(t)[y].points = y.points
    BY <2>1, ShiftFields, Zenon
  <2>4. Shift(t)[y] = f
    BY <1>3, <1>4, <2>1, <2>3, SameEvent
  <2>5. Apply(Shift(t), SeekEvent(e, d, t)) = <<f>>
    BY <1>2, <1>7, <2>2, <2>4, ApplyOne
  <2>6. f.time >= t
    BY <1>2, <1>3, <1>7
  <2>7. RestAt(f, t) = <<f>>
    BY <1>6, <2>6, Zenon
  <2> QED
    BY <2>5, <2>7, Zenon DEF f
<1>8. CASE t > start /\ long
  <2>1. /\ x \in EventSet /\ x.tag = e.tag /\ x.time = 0 /\ x.duration = rest
        /\ x.points = <<>> /\ x.intensity = e.intensity /\ x.frequency = e.frequency
        /\ x.index = e.index
    BY <1>1, <1>2, CutAtFields
  <2> HIDE DEF x
  <2>2. /\ Shift(t)[x] \in EventSet /\ Shift(t)[x].tag = x.tag /\ Shift(t)[x].time = x.time + t
        /\ Shift(t)[x].duration = x.duration /\ Shift(t)[x].intensity = x.intensity
        /\ Shift(t)[x].frequency = x.frequency /\ Shift(t)[x].index = x.index
        /\ Shift(t)[x].points = x.points
    BY <2>1, ShiftFields, Zenon
  <2> DEFINE w == CutAt(f, t, rest)
  <2>3. /\ w \in EventSet /\ w.tag = f.tag /\ w.time = t /\ w.duration = rest
        /\ w.points = <<>> /\ w.intensity = f.intensity /\ w.frequency = f.frequency
        /\ w.index = f.index
    BY <1>2, <1>3, CutAtFields, Zenon
  <2> HIDE DEF w
  <2>4. Shift(t)[x] = w
    BY <1>3, <1>4, <2>1, <2>2, <2>3, SameEvent
  <2>5. Apply(Shift(t), SeekEvent(e, d, t)) = <<w>>
    BY <1>2, <1>8, <2>4, ApplyOne
  <2>6. ~(f.time >= t) /\ f.time < t /\ f.tag = EVENT_TAG_CONTINUOUS
        /\ EndOf(f) - t >= MIN_VIBRATOR_EVENT_TIME
    BY <1>2, <1>3, <1>5, <1>8
  <2>7. RestAt(f, t) = <<CutAt(f, t, EndOf(f) - t)>>
    BY <1>6, <2>6, Zenon
  <2> QED
    BY <1>5, <2>5, <2>7, Zenon DEF f, w
<1>9. CASE t > start /\ ~long
  <2>1. Apply(Shift(t), SeekEvent(e, d, t)) = <<>>
    BY <1>2, <1>9, ApplyEmpty
  <2>2. ~(f.time >= t) /\ ~(f.time < t /\ f.tag = EVENT_TAG_CONTINUOUS
                            /\ EndOf(f) - t >= MIN_VIBRATOR_EVENT_TIME)
    BY <1>2, <1>3, <1>5, <1>9
  <2>3. RestAt(f, t) = <<>>
    BY <1>6, <2>2, Zenon
  <2> QED
    BY <2>1, <2>3, Zenon DEF f
<1> QED
  BY <1>7, <1>8, <1>9, Zenon

-----------------------------------------------------------------------------
(* Seeking: a pattern.                                                       *)

\* What is left of each event of a pattern at d, of each event of a package,
\* and of each pattern.
SeekEvents(d, t) == [e \in EventSet |-> SeekEvent(e, d, t)]

RestOf(t) == [e \in EventSet |-> RestAt(e, t)]

SeekOne(t) ==
  [p \in PatternSet |-> IF p.startTime >= t THEN <<ConvertVibratorPattern(p)>>
                        ELSE SeekPattern(p, t)]

\* Their types.
LEMMA RestType ==
  ASSUME NEW t \in Int
  PROVE  RestOf(t) \in [EventSet -> Seq(EventSet)]
<1> SUFFICES ASSUME NEW e \in EventSet
             PROVE  RestAt(e, t) \in Seq(EventSet)
  BY DEF RestOf
<1>1. e.time \in Int /\ e.duration \in Int
  BY EventFields
<1>2. EndOf(e) - t \in Int
  <2>1. EndOf(e) = e.time + e.duration
    BY DEF EndOf
  <2> QED
    BY <1>1, <2>1
<1>3. CutAt(e, t, EndOf(e) - t) \in EventSet
  BY <1>2, CutAtFields, Zenon
<1>4. \A w \in EventSet : <<w>> \in Seq(EventSet)
  BY One, Zenon
<1>5. <<>> \in Seq(EventSet)
  BY CatEmpty, Zenon
<1>6. ~(e.time >= t) <=> e.time < t
  BY <1>1
<1>7. \/ RestAt(e, t) = <<e>> \/ RestAt(e, t) = <<>>
      \/ RestAt(e, t) = <<CutAt(e, t, EndOf(e) - t)>>
  BY <1>6, Zenon DEF RestAt, CutAt
<1> QED
  BY <1>3, <1>4, <1>5, <1>7, Zenon

\* What is left of a pattern's events.
LEMMA SeekEventsType ==
  ASSUME NEW d \in Int, NEW t \in Int
  PROVE  /\ SeekEvents(d, t) \in [EventSet -> Seq(EventSet)]
         /\ \A s \in Seq(EventSet) :
              /\ Bind(SeekEvents(d, t), s) \in Seq(EventSet)
              /\ s \in Seq(FitEvents) =>
                   /\ Bind(SeekEvents(d, t), s) \in Seq(FitEvents)
                   /\ Len(Bind(SeekEvents(d, t), s)) <= Len(s)
<1> DEFINE g == SeekEvents(d, t)
<1>1. g \in [EventSet -> Seq(EventSet)] /\ \A e \in EventSet : g[e] = SeekEvent(e, d, t)
  BY SeekEventType DEF SeekEvents
<1>2. \A e \in FitEvents : e \in EventSet /\ SeekEvent(e, d, t) \in Seq(FitEvents)
                           /\ Len(SeekEvent(e, d, t)) <= 1
  <2>1. \A e \in FitEvents : e \in EventSet
    BY DEF FitEvents
  <2> QED
    BY <2>1, SeekEventType, Zenon
<1> HIDE DEF g
<1> DEFINE h == [e \in FitEvents |-> g[e]]
<1>3. h \in [FitEvents -> Seq(FitEvents)] /\ \A e \in FitEvents : h[e] = g[e] /\ Len(h[e]) <= 1
  BY <1>1, <1>2
<1> HIDE DEF h
<1>4. ASSUME NEW s \in Seq(FitEvents)
      PROVE  Bind(g, s) \in Seq(FitEvents) /\ Len(Bind(g, s)) <= Len(s)
  <2>1. Bind(g, s) = Bind(h, s)
    <3>1. \A x \in FitEvents : g[x] = h[x]
      BY <1>3
    <3>2. \A u \in Seq(FitEvents) : Apply(g, u) = Apply(h, u) /\ Bind(g, u) = Bind(h, u)
      BY <3>1, ApplyAgree
    <3> QED
      BY <3>2, Zenon
  <2>2. /\ Apply(h, s) \in Seq(Seq(FitEvents)) /\ Len(Apply(h, s)) = Len(s)
        /\ \A i \in 1 .. Len(s) : Apply(h, s)[i] = h[s[i]]
    <3>1. h \in [FitEvents -> Seq(FitEvents)]
      BY <1>3
    <3>2. \A u \in Seq(FitEvents) : Apply(h, u) \in Seq(Seq(FitEvents))
      BY <3>1, ApplySeq, Zenon
    <3>3. \A u \in Seq(FitEvents) : Len(Apply(h, u)) = Len(u)
      BY ApplyLen, Zenon
    <3>4. \A u \in Seq(FitEvents) : \A i \in 1 .. Len(u) : Apply(h, u)[i] = h[u[i]]
      BY ApplyAt DEF Apply
    <3> QED
      BY <3>2, <3>3, <3>4, Zenon
  <2>3. \A i \in 1 .. Len(s) : s[i] \in FitEvents
    OBVIOUS
  <2> DEFINE ss == Apply(h, s)
  <2> HIDE DEF ss
  <2>4. ss \in Seq(Seq(FitEvents)) /\ Len(ss) = Len(s) /\ \A i \in 1 .. Len(ss) : Len(ss[i]) <= 1
    BY <1>3, <2>2, <2>3 DEF ss
  <2>5. FlattenSeq(ss) \in Seq(FitEvents) /\ Len(FlattenSeq(ss)) <= Len(ss) * 1
    BY <2>4, FlattenType, FlattenLen
  <2>6. Len(s) \in Nat /\ Len(ss) * 1 = Len(s)
    BY <2>4
  <2> QED
    BY <2>1, <2>5, <2>6, Zenon DEF Bind, ss
<1>5. \A s \in Seq(EventSet) : Bind(g, s) \in Seq(EventSet)
  BY <1>1, BindType
<1>6. /\ g \in [EventSet -> Seq(EventSet)]
      /\ \A s \in Seq(EventSet) :
           /\ Bind(g, s) \in Seq(EventSet)
           /\ s \in Seq(FitEvents) => Bind(g, s) \in Seq(FitEvents) /\ Len(Bind(g, s)) <= Len(s)
  BY <1>1, <1>4, <1>5
<1> QED
  BY <1>6, Zenon DEF g

\* SeekPattern in its cases.
LEMMA SeekPatternIs ==
  ASSUME NEW p \in PatternSet, NEW t \in Int
  PROVE  LET s == Bind(SeekEvents(p.startTime, t), p.events)
         IN  /\ s \in Seq(EventSet)
             /\ \/ Len(p.events) > EventNumMax \/ s = <<>>
                => SeekPattern(p, t) = <<>>
             /\ ~(Len(p.events) > EventNumMax) /\ s # <<>> =>
                  SeekPattern(p, t) = <<Pattern(t, TotalDuration(s), s)>>
<1> DEFINE g == SeekEvents(p.startTime, t)
           s == Bind(g, p.events)
<1>1. p.startTime \in Int /\ p.events \in Seq(EventSet) /\ DOMAIN p.events = 1 .. Len(p.events)
      /\ \A i \in 1 .. Len(p.events) : p.events[i] \in EventSet
  BY PatternFields
<1>2. g \in [EventSet -> Seq(EventSet)] /\ s \in Seq(EventSet)
  BY <1>1, SeekEventsType
<1>3. s = FlattenSeq(Map(LAMBDA e : SeekEvent(e, p.startTime, t), p.events))
  <2>1. Apply(g, p.events) = Map(LAMBDA e : SeekEvent(e, p.startTime, t), p.events)
    BY <1>1 DEF Apply, Map, SeekEvents
  <2> HIDE DEF g
  <2> QED
    BY <2>1, Zenon DEF Bind
<1> HIDE DEF s
<1>4. /\ Len(p.events) > EventNumMax \/ s = <<>> => SeekPattern(p, t) = <<>>
      /\ ~(Len(p.events) > EventNumMax) /\ s # <<>> =>
           SeekPattern(p, t) = <<Pattern(t, TotalDuration(s), s)>>
  BY <1>3, Zenon DEF SeekPattern
<1> QED
  BY <1>2, <1>4, Zenon DEF s

\* The patterns whose events and curves the client takes whole.
LimitedPatterns == {p \in PatternSet : p.events \in Seq(GoodEvents) /\ Len(p.events) <= EventNumMax}

\* Seeking leaves of a pattern one or none, which fits if that did.
LEMMA SeekOneType ==
  ASSUME NEW t \in Int
  PROVE  /\ SeekOne(t) \in [PatternSet -> Seq(PatternSet)]
         /\ \A p \in PatternSet : Len(SeekOne(t)[p]) <= 1
         /\ \A p \in FitPatterns : SeekOne(t)[p] \in Seq(FitPatterns)
<1>1. ASSUME NEW p \in PatternSet
      PROVE  /\ SeekOne(t)[p] \in Seq(PatternSet) /\ Len(SeekOne(t)[p]) <= 1
             /\ p \in FitPatterns => SeekOne(t)[p] \in Seq(FitPatterns)
  <2> DEFINE s == Bind(SeekEvents(p.startTime, t), p.events)
             q == Pattern(t, TotalDuration(s), s)
             r == SeekOne(t)[p]
  <2>1. p.startTime \in Int /\ p.events \in Seq(EventSet) /\ Len(p.events) \in Nat
    BY PatternFields
  <2>2. /\ s \in Seq(EventSet)
        /\ Len(p.events) > EventNumMax \/ s = <<>> => SeekPattern(p, t) = <<>>
        /\ ~(Len(p.events) > EventNumMax) /\ s # <<>> => SeekPattern(p, t) = <<q>>
    BY SeekPatternIs, Zenon
  <2>3. p.events \in Seq(FitEvents) => s \in Seq(FitEvents) /\ Len(s) <= Len(p.events)
    BY <2>1, SeekEventsType, Zenon
  <2>4. r = IF p.startTime >= t THEN <<ConvertVibratorPattern(p)>> ELSE SeekPattern(p, t)
    BY DEF SeekOne
  <2> HIDE DEF s, r
  <2>5. TotalDuration(s) \in Int
    BY <2>2, TotalDurationIs
  <2>6. q \in PatternSet /\ q.events = s
    BY <2>2, <2>5 DEF PatternSet, Pattern
  <2>7. p \in FitPatterns => q \in FitPatterns
    <3> HIDE DEF q
    <3> SUFFICES ASSUME p \in FitPatterns
                 PROVE  q \in FitPatterns
      OBVIOUS
    <3>1. p.events \in Seq(FitEvents) /\ Len(p.events) <= MaxEventSize /\ MaxEventSize \in Int
      BY LimitsAssumption DEF FitPatterns
    <3>2. s \in Seq(FitEvents) /\ Len(s) <= Len(p.events) /\ Len(s) \in Nat
      BY <2>2, <2>3, <3>1
    <3>3. Len(s) <= MaxEventSize
      BY <2>1, <3>1, <3>2
    <3> QED
      BY <2>6, <3>2, <3>3 DEF FitPatterns
  <2> HIDE DEF q
  <2> DEFINE c == ConvertVibratorPattern(p)
             c0 == [p EXCEPT !.events = <<>>]
  <2>8. c = p \/ c = c0
    BY DEF ConvertVibratorPattern
  <2>9. <<>> \in Seq(EventSet) /\ <<>> \in Seq(FitEvents) /\ Len(<<>>) = 0
    BY CatEmpty
  <2>10. c0 \in PatternSet /\ c0.events = <<>>
    BY <2>9, WithEvents, Zenon
  <2> HIDE DEF c, c0
  <2>11. 0 <= MaxEventSize
    BY LimitsAssumption
  <2>12. c \in PatternSet /\ (p \in FitPatterns => c \in FitPatterns)
    BY <2>8, <2>9, <2>10, <2>11, Zenon DEF FitPatterns
  <2>13. r = <<c>> \/ r = <<q>> \/ r = <<>>
    BY <2>2, <2>4, Zenon DEF c
  <2>14. \A x \in PatternSet : <<x>> \in Seq(PatternSet) /\ Len(<<x>>) <= 1
    <3>1. \A x \in PatternSet : <<x>> \in Seq(PatternSet) /\ Len(<<x>>) = 1
      BY One
    <3> QED
      BY <3>1
  <2>15. \A x \in FitPatterns : <<x>> \in Seq(FitPatterns)
    BY One
  <2>16. <<>> \in Seq(PatternSet) /\ <<>> \in Seq(FitPatterns) /\ Len(<<>>) <= 1
    BY CatEmpty
  <2>17. r \in Seq(PatternSet) /\ Len(r) <= 1 /\ (p \in FitPatterns => r \in Seq(FitPatterns))
    BY <2>6, <2>7, <2>12, <2>13, <2>14, <2>15, <2>16, Zenon
  <2> QED
    BY <2>17, Zenon DEF r
<1>2. SeekOne(t) = [p \in PatternSet |-> SeekOne(t)[p]]
  BY DEF SeekOne
<1>3. SeekOne(t) \in [PatternSet -> Seq(PatternSet)]
  <2> DEFINE g == SeekOne(t)
  <2> HIDE DEF g
  <2>1. g = [p \in PatternSet |-> g[p]] /\ \A p \in PatternSet : g[p] \in Seq(PatternSet)
    BY <1>1, <1>2 DEF g
  <2>2. g \in [PatternSet -> Seq(PatternSet)]
    BY <2>1
  <2> QED
    BY <2>2 DEF g
<1>4. \A p \in FitPatterns : p \in PatternSet
  BY DEF FitPatterns
<1> QED
  BY <1>1, <1>3, <1>4, Zenon

\* Of a pattern within the limits it leaves what is left of its events.
LEMMA SeekOneRest ==
  ASSUME NEW p \in LimitedPatterns, NEW t \in Int
  PROVE  Bind(AtStart, SeekOne(t)[p]) = Bind(RestOf(t), AtStart[p])
<1> DEFINE d == p.startTime
           es == p.events
           g == SeekEvents(d, t)
           s == Bind(g, es)
           k == RestOf(t)
           r == SeekOne(t)[p]
<1>1. p \in PatternSet /\ es \in Seq(GoodEvents) /\ Len(es) <= EventNumMax
      /\ EventNumMax \in Int /\ EventNumMax <= MaxPatternEventNum /\ MaxPatternEventNum \in Int
      /\ Len(es) \in Int
  BY PatternFields, LimitsAssumption DEF LimitedPatterns
<1>2. d \in Int /\ es \in Seq(EventSet)
  BY <1>1, PatternFields
<1>3. AtStart[p] = Apply(Shift(d), es) /\ AtStart \in [PatternSet -> Seq(EventSet)]
  BY <1>1, AtStartType
<1>4. r = IF d >= t THEN <<ConvertVibratorPattern(p)>> ELSE SeekPattern(p, t)
  BY <1>1 DEF SeekOne
<1>5. ~(Len(es) > EventNumMax) /\ ~(Len(es) > MaxPatternEventNum)
  BY <1>1
<1>6. /\ s \in Seq(EventSet)
      /\ s = <<>> => SeekPattern(p, t) = <<>>
      /\ s # <<>> => SeekPattern(p, t) = <<Pattern(t, TotalDuration(s), s)>>
  BY <1>1, <1>5, SeekPatternIs, Zenon
<1>7. k \in [EventSet -> Seq(EventSet)] /\ Shift(d) \in [EventSet -> EventSet]
      /\ Shift(t) \in [EventSet -> EventSet] /\ g \in [EventSet -> Seq(EventSet)]
  BY <1>2, RestType, ShiftType, SeekEventsType, Zenon
<1>8. \A e \in EventSet : k[e] = RestAt(e, t)
  BY DEF RestOf
<1>9. \A e \in GoodEvents : e \in EventSet /\ e.time \in Int /\ e.time >= 0
  BY EventFields DEF GoodEvents
<1> DEFINE h == [e \in EventSet |-> k[Shift(d)[e]]]
<1>10. h \in [EventSet -> Seq(EventSet)] /\ \A e \in EventSet : h[e] = k[Shift(d)[e]]
  BY <1>7
<1>11. \A e \in EventSet : Shift(d)[e] \in EventSet
  BY <1>7
<1> HIDE DEF d, es, g, k, r, h, s
<1>12. Bind(k, Apply(Shift(d), es)) = Bind(h, es)
  <2>1. IsAfter(EventSet, Shift(d), k, h)
    BY <1>10, Zenon DEF IsAfter
  <2>2. \A u \in Seq(EventSet) : /\ Apply(k, Apply(Shift(d), u)) = Apply(h, u)
                                 /\ Bind(k, Apply(Shift(d), u)) = Bind(h, u)
    BY <2>1, ApplyApply
  <2> QED
    BY <1>2, <2>2, Zenon
<1>13. CASE d >= t
  <2>1. r = <<p>>
    BY <1>4, <1>5, <1>13, Zenon DEF ConvertVibratorPattern, es
  <2>2. Bind(AtStart, r) = AtStart[p]
    <3>1. \A x \in PatternSet : Bind(AtStart, <<x>>) = AtStart[x]
      BY <1>3, BindOne, Zenon
    <3> QED
      BY <1>1, <2>1, <3>1, Zenon
  <2> DEFINE unit == [e \in EventSet |-> <<e>>]
  <2>3. /\ unit \in [EventSet -> Seq(EventSet)]
        /\ \A e \in EventSet : unit[e] = <<e>>
    BY One
  <2> HIDE DEF unit
  <2>4. \A u \in Seq(EventSet) : Bind(unit, u) = u
    BY <2>3, BindUnit, Zenon
  <2>5. \A e \in GoodEvents : k[Shift(d)[e]] = unit[Shift(d)[e]]
    <3> SUFFICES ASSUME NEW e \in GoodEvents
                 PROVE  k[Shift(d)[e]] = unit[Shift(d)[e]]
      OBVIOUS
    <3> DEFINE f == Shift(d)[e]
    <3>1. e \in EventSet /\ e.time \in Int /\ e.time >= 0
      BY <1>9
    <3>2. f \in EventSet /\ f.time = e.time + d
      BY <1>2, <3>1, ShiftFields, Zenon
    <3> HIDE DEF f
    <3>3. f.time >= t
      BY <1>2, <1>13, <3>1, <3>2
    <3>4. RestAt(f, t) = <<f>>
      <4>1. ~(f.time < t)
        BY <1>2, <3>1, <3>2, <3>3
      <4> QED
        BY <3>3, <4>1, Zenon DEF RestAt
    <3>5. k[f] = unit[f]
      BY <1>8, <2>3, <3>2, <3>4, Zenon
    <3> QED
      BY <3>5 DEF f
  <2> DEFINE h1 == [e \in EventSet |-> unit[Shift(d)[e]]]
  <2>6. \A e \in EventSet : h1[e] = unit[Shift(d)[e]]
    OBVIOUS
  <2> HIDE DEF h1
  <2>61. IsAfter(EventSet, Shift(d), unit, h1)
    BY <2>6, Zenon DEF IsAfter
  <2>7. \A u \in Seq(EventSet) : /\ Apply(unit, Apply(Shift(d), u)) = Apply(h1, u)
                                 /\ Bind(unit, Apply(Shift(d), u)) = Bind(h1, u)
    BY <2>61, ApplyApply
  <2>8. \A e \in GoodEvents : h[e] = h1[e]
    BY <1>9, <1>10, <2>5, <2>6, Zenon
  <2>9. \A u \in Seq(GoodEvents) : Apply(h, u) = Apply(h1, u) /\ Bind(h, u) = Bind(h1, u)
    BY <2>8, ApplyAgree, Zenon
  <2>10. Apply(Shift(d), es) \in Seq(EventSet)
    <3>1. \A u \in Seq(EventSet) : Apply(Shift(d), u) \in Seq(EventSet)
      BY <1>7, ApplySeq, Zenon
    <3> QED
      BY <1>2, <3>1, Zenon
  <2>11. Bind(k, Apply(Shift(d), es)) = Apply(Shift(d), es)
    BY <1>1, <1>2, <1>12, <2>4, <2>7, <2>9, <2>10, Zenon
  <2> QED
    BY <1>3, <2>2, <2>11, Zenon DEF r, k
<1>14. CASE ~(d >= t)
  <2> DEFINE q == Pattern(t, TotalDuration(s), s)
  <2>1. TotalDuration(s) \in Int
    BY <1>6, TotalDurationIs
  <2>2. q \in PatternSet /\ q.events = s /\ q.startTime = t
    BY <1>6, <2>1 DEF PatternSet, Pattern
  <2>3. s = <<>> => r = <<>>
    BY <1>4, <1>6, <1>14, Zenon
  <2>4. s # <<>> => r = <<q>>
    BY <1>4, <1>6, <1>14, Zenon
  <2> HIDE DEF q
  <2>5. Bind(AtStart, r) = Apply(Shift(t), s)
    <3>1. CASE s = <<>>
      BY <2>3, <3>1, BindEmpty, ApplyEmpty, Zenon
    <3>2. CASE s # <<>>
      <4>1. \A x \in PatternSet : Bind(AtStart, <<x>>) = AtStart[x]
        BY <1>3, BindOne, Zenon
      <4>2. AtStart[q] = Apply(Shift(q.startTime), q.events)
        BY <2>2, AtStartType, Zenon
      <4> QED
        BY <2>2, <2>4, <3>2, <4>1, <4>2, Zenon
    <3> QED
      BY <3>1, <3>2, Zenon
  <2> DEFINE g1 == [e \in GoodEvents |-> g[e]]
             h1 == [e \in GoodEvents |-> h[e]]
  <2>6. /\ g1 \in [GoodEvents -> Seq(EventSet)] /\ h1 \in [GoodEvents -> Seq(EventSet)]
        /\ \A e \in GoodEvents : g[e] = g1[e] /\ h[e] = h1[e]
    BY <1>7, <1>9, <1>10
  <2> HIDE DEF g1, h1
  <2>7. \A e \in GoodEvents : h1[e] = Apply(Shift(t), g1[e])
    <3> SUFFICES ASSUME NEW e \in GoodEvents
                 PROVE  h1[e] = Apply(Shift(t), g1[e])
      OBVIOUS
    <3>1. e \in EventSet
      BY <1>9
    <3>2. g[e] = SeekEvent(e, d, t)
      BY <3>1 DEF g, SeekEvents
    <3>3. h[e] = RestAt(Shift(d)[e], t)
      BY <1>8, <1>10, <1>11, <3>1, Zenon
    <3>4. Apply(Shift(t), SeekEvent(e, d, t)) = RestAt(Shift(d)[e], t)
      BY <1>2, SeekEventRest, Zenon
    <3> QED
      BY <2>6, <3>2, <3>3, <3>4, Zenon
  <2>8. \A u \in Seq(GoodEvents) : Apply(Shift(t), Bind(g1, u)) = Bind(h1, u)
    <3>1. IsMapOf(GoodEvents, EventSet, EventSet, g1, Shift(t), h1)
      BY <1>7, <2>6, <2>7, Zenon DEF IsMapOf
    <3> QED
      BY <3>1, ApplyBind
  <2>9. \A u \in Seq(GoodEvents) : Apply(g, u) = Apply(g1, u) /\ Bind(g, u) = Bind(g1, u)
    <3>1. \A e \in GoodEvents : g[e] = g1[e]
      BY <2>6
    <3> QED
      BY <3>1, ApplyAgree, Zenon
  <2>10. \A u \in Seq(GoodEvents) : Apply(h, u) = Apply(h1, u) /\ Bind(h, u) = Bind(h1, u)
    <3>1. \A e \in GoodEvents : h[e] = h1[e]
      BY <2>6
    <3> QED
      BY <3>1, ApplyAgree, Zenon
  <2>11. Apply(Shift(t), s) = Bind(h, es)
    BY <1>1, <2>8, <2>9, <2>10, Zenon DEF s
  <2> QED
    BY <1>3, <1>12, <2>5, <2>11, Zenon DEF r, k
<1> QED
  BY <1>13, <1>14, Zenon

-----------------------------------------------------------------------------
(* Seeking: a package.                                                       *)

\* Seeking in a package of not too many patterns takes what is left of each.
LEMMA SeekIs ==
  ASSUME NEW p \in PackageSet, NEW t \in Int
  PROVE  /\ Len(p.patterns) > MaxPatternNum =>
              ConvertSeekVibratorPackage(p, t) = Package(p.packageDuration, <<>>)
         /\ ~(Len(p.patterns) > MaxPatternNum) =>
              ConvertSeekVibratorPackage(p, t)
                = Package(SeekDuration(p, t), Bind(SeekOne(t), p.patterns))
<1>1. p.patterns \in Seq(PatternSet) /\ DOMAIN p.patterns = 1 .. Len(p.patterns)
      /\ \A i \in 1 .. Len(p.patterns) : p.patterns[i] \in PatternSet
  BY PackageFields
<1>2. Apply(SeekOne(t), p.patterns)
        = Map(LAMBDA q : IF q.startTime >= t THEN <<ConvertVibratorPattern(q)>>
                         ELSE SeekPattern(q, t), p.patterns)
  BY <1>1 DEF Apply, Map, SeekOne
<1> QED
  BY <1>2, Zenon DEF ConvertSeekVibratorPackage, Bind

\* The events of a package within the limits, after seeking.
LEMMA SeekRest ==
  ASSUME NEW p \in PackageSet, NEW t \in Int, p.patterns \in Seq(LimitedPatterns)
  PROVE  Bind(AtStart, Bind(SeekOne(t), p.patterns)) = Bind(RestOf(t), Flattened(p))
<1> DEFINE f == SeekOne(t)
           k == RestOf(t)
           h1 == [q \in PatternSet |-> Bind(AtStart, f[q])]
           h2 == [q \in PatternSet |-> Bind(k, AtStart[q])]
<1>1. /\ f \in [PatternSet -> Seq(PatternSet)] /\ k \in [EventSet -> Seq(EventSet)]
      /\ AtStart \in [PatternSet -> Seq(EventSet)]
  BY SeekOneType, RestType, AtStartType, Zenon
<1>2. \A q \in LimitedPatterns : q \in PatternSet /\ Bind(AtStart, f[q]) = Bind(k, AtStart[q])
  BY SeekOneRest DEF LimitedPatterns
<1> HIDE DEF f, k
<1>3. h1 \in [PatternSet -> Seq(EventSet)] /\ \A q \in PatternSet : h1[q] = Bind(AtStart, f[q])
  <2>1. \A q \in PatternSet : Bind(AtStart, f[q]) \in Seq(EventSet)
    <3>1. \A u \in Seq(PatternSet) : Bind(AtStart, u) \in Seq(EventSet)
      BY <1>1, BindType
    <3> QED
      BY <1>1, <3>1
  <2> QED
    BY <2>1
<1>4. h2 \in [PatternSet -> Seq(EventSet)] /\ \A q \in PatternSet : h2[q] = Bind(k, AtStart[q])
  <2>1. \A q \in PatternSet : Bind(k, AtStart[q]) \in Seq(EventSet)
    <3>1. \A u \in Seq(EventSet) : Bind(k, u) \in Seq(EventSet)
      BY <1>1, BindType
    <3> QED
      BY <1>1, <3>1
  <2> QED
    BY <2>1
<1> HIDE DEF h1, h2
<1>5. \A u \in Seq(PatternSet) : Bind(AtStart, Bind(f, u)) = Bind(h1, u)
  <2>1. IsBindOf(PatternSet, PatternSet, EventSet, f, AtStart, h1)
    BY <1>1, <1>3, Zenon DEF IsBindOf
  <2> QED
    BY <2>1, BindBind
<1>6. \A u \in Seq(PatternSet) : Bind(k, Bind(AtStart, u)) = Bind(h2, u)
  <2>1. IsBindOf(PatternSet, EventSet, EventSet, AtStart, k, h2)
    BY <1>1, <1>4, Zenon DEF IsBindOf
  <2> QED
    BY <2>1, BindBind
<1>7. \A u \in Seq(LimitedPatterns) : Apply(h1, u) = Apply(h2, u) /\ Bind(h1, u) = Bind(h2, u)
  <2>1. \A q \in LimitedPatterns : h1[q] = h2[q]
    BY <1>2, <1>3, <1>4
  <2> QED
    BY <2>1, ApplyAgree
<1>8. p.patterns \in Seq(PatternSet)
  BY PackageFields
<1> QED
  BY <1>5, <1>6, <1>7, <1>8, FlattenedIs, Zenon DEF f, k

-----------------------------------------------------------------------------
(* Durations.                                                                *)

\* How durations add up.
LEMMA TotalLaws ==
  /\ TotalDuration(<<>>) = 0
  /\ \A e \in EventSet : TotalDuration(<<e>>) = e.duration
  /\ \A s, u \in Seq(EventSet) : TotalDuration(Cat(s, u)) = TotalDuration(s) + TotalDuration(u)
  /\ \A t \in Int, s \in Seq(EventSet) : TotalDuration(Apply(Shift(t), s)) = TotalDuration(s)
<1> DEFINE g == DurationOf
<1>1. g \in [EventSet -> Int] /\ (\A e \in EventSet : g[e] = e.duration)
      /\ \A s \in Seq(EventSet) : TotalDuration(s) = SumOf(Apply(g, s))
  BY TotalDurationIs DEF DurationOf
<1> HIDE DEF g
<1>2. \A s \in Seq(EventSet) : Apply(g, s) \in Seq(Int)
  BY <1>1, ApplySeq
<1>3. TotalDuration(<<>>) = 0
  <2>1. <<>> \in Seq(EventSet)
    BY CatEmpty
  <2>2. Apply(g, <<>>) = <<>>
    BY ApplyEmpty
  <2> QED
    BY <1>1, <2>1, <2>2, SumType
<1>4. ASSUME NEW e \in EventSet
      PROVE  TotalDuration(<<e>>) = e.duration
  <2>1. <<e>> \in Seq(EventSet)
    BY One
  <2>2. Apply(g, <<e>>) = <<e.duration>> /\ e.duration \in Int
    BY <1>1, ApplyOne, EventFields
  <2> DEFINE x == e.duration
  <2> HIDE DEF x
  <2>3. x \in Int
    BY <2>2 DEF x
  <2>4. SumOf(<<x>>) = x
    <3>1. <<x>> = Add(<<>>, x) /\ <<>> \in Seq(Int)
      BY <2>3, One, CatEmpty
    <3>2. SumOf(Add(<<>>, x)) = SumOf(<<>>) + x
      BY <2>3, <3>1, SumAdd
    <3> QED
      BY <2>3, <3>1, <3>2, SumType
  <2> QED
    BY <1>1, <2>1, <2>2, <2>4, Zenon DEF x
<1>5. ASSUME NEW s \in Seq(EventSet), NEW u \in Seq(EventSet)
      PROVE  TotalDuration(Cat(s, u)) = TotalDuration(s) + TotalDuration(u)
  <2>1. Apply(g, Cat(s, u)) = Cat(Apply(g, s), Apply(g, u))
    BY ApplyCat
  <2>2. SumOf(Cat(Apply(g, s), Apply(g, u))) = SumOf(Apply(g, s)) + SumOf(Apply(g, u))
    BY <1>2, SumCat
  <2>3. Cat(s, u) \in Seq(EventSet)
    BY CatType
  <2> QED
    BY <1>1, <2>1, <2>2, <2>3
<1>6. ASSUME NEW t \in Int, NEW s \in Seq(EventSet)
      PROVE  TotalDuration(Apply(Shift(t), s)) = TotalDuration(s)
  <2> DEFINE sh == Shift(t)
  <2>1. sh \in [EventSet -> EventSet] /\ \A e \in EventSet : sh[e].duration = e.duration
    BY ShiftType, ShiftFields, Zenon
  <2> HIDE DEF sh
  <2>2. \A e \in EventSet : sh[e] \in EventSet
    BY <2>1
  <2>3. IsAfter(EventSet, sh, g, g)
    BY <1>1, <2>1, <2>2, Zenon DEF IsAfter
  <2>4. Apply(g, Apply(sh, s)) = Apply(g, s)
    BY <2>3, ApplyApply
  <2>5. Apply(sh, s) \in Seq(EventSet)
    BY <2>1, ApplySeq
  <2> QED
    BY <1>1, <2>4, <2>5, Zenon DEF sh
<1> QED
  BY <1>3, <1>4, <1>5, <1>6

\* What each element loses, and keeps of what it had.
Loses(T, U, f, g, h) ==
  /\ T \subseteq U /\ f \in [U -> Seq(Int)]
  /\ g \in [U -> Seq(EventSet)] /\ h \in [U -> Seq(EventSet)]
  /\ \A x \in T : SumOf(f[x]) + TotalDuration(g[x]) = TotalDuration(h[x])

\* Then all of them do.
LEMMA LossesAddUp ==
  ASSUME NEW T, NEW U, NEW f, NEW g, NEW h, Loses(T, U, f, g, h)
  PROVE  \A s \in Seq(T) : /\ Bind(f, s) \in Seq(Int)
                           /\ SumOf(Bind(f, s)) + TotalDuration(Bind(g, s))
                                = TotalDuration(Bind(h, s))
<1> DEFINE S == {s \in Seq(U) : SumOf(Bind(f, s)) + TotalDuration(Bind(g, s))
                                  = TotalDuration(Bind(h, s))}
<1>1. /\ T \subseteq U /\ f \in [U -> Seq(Int)]
      /\ g \in [U -> Seq(EventSet)] /\ h \in [U -> Seq(EventSet)]
      /\ \A x \in T : SumOf(f[x]) + TotalDuration(g[x]) = TotalDuration(h[x])
  BY DEF Loses
<1>2. \A s \in Seq(T) : s \in Seq(U)
  BY <1>1
<1>3. \A s \in Seq(U) : /\ Bind(f, s) \in Seq(Int) /\ Bind(g, s) \in Seq(EventSet)
                        /\ Bind(h, s) \in Seq(EventSet)
  BY <1>1, BindType
<1>4. <<>> \in S
  <2>1. Bind(f, <<>>) = <<>> /\ Bind(g, <<>>) = <<>> /\ Bind(h, <<>>) = <<>>
    BY BindEmpty
  <2>2. <<>> \in Seq(U)
    BY CatEmpty
  <2> QED
    BY <2>1, <2>2, TotalLaws, SumType
<1>5. ASSUME NEW s \in Seq(T), NEW x \in T, s \in S
      PROVE  Add(s, x) \in S
  <2>1. s \in Seq(U) /\ x \in U /\ Add(s, x) \in Seq(U)
    BY <1>1, <1>2, AddType
  <2>2. /\ Bind(f, Add(s, x)) = Cat(Bind(f, s), f[x])
        /\ Bind(g, Add(s, x)) = Cat(Bind(g, s), g[x])
        /\ Bind(h, Add(s, x)) = Cat(Bind(h, s), h[x])
    <3>1. \A u \in Seq(U), y \in U : Bind(f, Add(u, y)) = Cat(Bind(f, u), f[y])
      BY <1>1, BindAdd
    <3>2. \A u \in Seq(U), y \in U : Bind(g, Add(u, y)) = Cat(Bind(g, u), g[y])
      BY <1>1, BindAdd
    <3>3. \A u \in Seq(U), y \in U : Bind(h, Add(u, y)) = Cat(Bind(h, u), h[y])
      BY <1>1, BindAdd
    <3> QED
      BY <2>1, <3>1, <3>2, <3>3, Zenon
  <2>3. f[x] \in Seq(Int) /\ g[x] \in Seq(EventSet) /\ h[x] \in Seq(EventSet)
    BY <1>1, <2>1
  <2>4. SumOf(Cat(Bind(f, s), f[x])) = SumOf(Bind(f, s)) + SumOf(f[x])
    BY <1>3, <2>1, <2>3, SumCat
  <2>5. /\ TotalDuration(Cat(Bind(g, s), g[x])) = TotalDuration(Bind(g, s)) + TotalDuration(g[x])
        /\ TotalDuration(Cat(Bind(h, s), h[x])) = TotalDuration(Bind(h, s)) + TotalDuration(h[x])
    BY <1>3, <2>1, <2>3, TotalLaws
  <2>6. /\ SumOf(Bind(f, s)) \in Int /\ SumOf(f[x]) \in Int
        /\ TotalDuration(Bind(g, s)) \in Int /\ TotalDuration(g[x]) \in Int
        /\ TotalDuration(Bind(h, s)) \in Int /\ TotalDuration(h[x]) \in Int
    BY <1>3, <2>1, <2>3, SumType, TotalDurationIs
  <2>7. SumOf(Bind(f, s)) + TotalDuration(Bind(g, s)) = TotalDuration(Bind(h, s))
    BY <1>5
  <2>9. SumOf(f[x]) + TotalDuration(g[x]) = TotalDuration(h[x])
    BY <1>1
  <2>10. (SumOf(Bind(f, s)) + SumOf(f[x])) + (TotalDuration(Bind(g, s)) + TotalDuration(g[x]))
          = TotalDuration(Bind(h, s)) + TotalDuration(h[x])
    BY <2>6, <2>7, <2>9
  <2> QED
    BY <2>1, <2>2, <2>4, <2>5, <2>10, Zenon
<1>6. Seq(T) \subseteq S
  <2> HIDE DEF S
  <2> QED
    BY <1>4, <1>5, SeqInduction
<1> QED
  BY <1>2, <1>3, <1>6

\* What an event of a pattern at d loses.
EventLoss(d, t) ==
  [e \in EventSet |->
     IF t > e.time + d
     THEN <<e.duration - TotalDuration(RestOfEvent(e, e.time + d, t))>>
     ELSE <<>>]

LossOf(t) == [p \in PatternSet |-> Losses(p, t)]

\* An event loses what is not left of it, which is not less than nothing.
LEMMA EventLosses ==
  ASSUME NEW d \in Int, NEW t \in Int
  PROVE  /\ EventLoss(d, t) \in [EventSet -> Seq(Int)]
         /\ \A e \in EventSet : SumOf(EventLoss(d, t)[e]) + TotalDuration(SeekEvent(e, d, t))
                                  = e.duration
         /\ \A e \in FitEvents : EventLoss(d, t)[e] \in Seq(Nat)
<1> DEFINE g == EventLoss(d, t)
<1>1. ASSUME NEW e \in EventSet
      PROVE  /\ g[e] \in Seq(Int)
             /\ SumOf(g[e]) + TotalDuration(SeekEvent(e, d, t)) = e.duration
             /\ e.duration >= 0 => g[e] \in Seq(Nat)
  <2> DEFINE start == e.time + d
             rest == start + e.duration - t
             long == e.tag = EVENT_TAG_CONTINUOUS /\ rest >= MIN_VIBRATOR_EVENT_TIME
             r == RestOfEvent(e, start, t)
             s == SeekEvent(e, d, t)
             c == CutAt(e, 0, rest)
             z == WithCurveOrNone(Later(e, start - t))
             x == e.duration - TotalDuration(r)
  <2>1. e.time \in Int /\ e.duration \in Int
    BY EventFields
  <2>2. /\ start \in Int /\ rest \in Int
        /\ t > start /\ long => s = <<c>> /\ r = <<c>>
        /\ t > start /\ ~long => s = <<>> /\ r = <<>>
        /\ ~(t > start) => s = <<z>>
    BY SeekEventIs, Zenon
  <2>3. g[e] = IF t > start THEN <<x>> ELSE <<>>
    BY DEF EventLoss
  <2>4. t > start => rest <= e.duration
    <3> HIDE DEF start
    <3> QED
      BY <2>1, <2>2
  <2>5. c \in EventSet /\ c.duration = rest
    BY <2>2, CutAtFields
  <2>6. start - t \in Int
    <3> HIDE DEF start
    <3> QED
      BY <2>2
  <2>7. z \in EventSet /\ z.duration = e.duration
    <3>1. /\ Later(e, start - t) \in EventSet
          /\ Later(e, start - t).duration = e.duration
      BY <2>6, LaterFields, Zenon
    <3> QED
      BY <3>1, CurveOrNone, Zenon
  <2> HIDE DEF g, start, rest, long, r, s, c, z
  <2>8. \A w \in EventSet : TotalDuration(<<w>>) = w.duration
    BY TotalLaws
  <2>9. TotalDuration(<<>>) = 0
    BY TotalLaws
  <2>10. \A n \in Int : <<n>> \in Seq(Int) /\ SumOf(<<n>>) = n
    <3> SUFFICES ASSUME NEW n \in Int
                 PROVE  <<n>> \in Seq(Int) /\ SumOf(<<n>>) = n
      OBVIOUS
    <3>1. <<n>> = Add(<<>>, n) /\ <<>> \in Seq(Int) /\ <<n>> \in Seq(Int)
      BY One, CatEmpty
    <3>2. SumOf(Add(<<>>, n)) = SumOf(<<>>) + n
      BY <3>1, SumAdd
    <3>3. SumOf(<<>>) = 0 /\ 0 + n = n
      BY SumType
    <3> QED
      BY <3>1, <3>2, <3>3, Zenon
  <2>11. \A n \in Nat : <<n>> \in Seq(Nat)
    BY One
  <2>12. <<>> \in Seq(Int) /\ <<>> \in Seq(Nat) /\ SumOf(<<>>) = 0
    BY CatEmpty, SumType
  <2>13. CASE ~(t > start)
    <3>1. g[e] = <<>> /\ TotalDuration(s) = e.duration
      BY <2>2, <2>3, <2>7, <2>8, <2>13, Zenon
    <3>2. 0 + e.duration = e.duration
      BY <2>1
    <3> QED
      BY <2>12, <3>1, <3>2, Zenon DEF s
  <2>14. CASE t > start
    <3>1. g[e] = <<x>> /\ s = r
      BY <2>2, <2>3, <2>14, Zenon
    <3>2. TotalDuration(r) = IF long THEN rest ELSE 0
      BY <2>2, <2>5, <2>8, <2>9, <2>14, Zenon
    <3>3. TotalDuration(r) \in Int
      BY <2>2, <3>2
    <3>4. x \in Int /\ x + TotalDuration(r) = e.duration
      <4> DEFINE u == TotalDuration(r)
      <4> HIDE DEF u
      <4>1. u \in Int
        BY <3>3 DEF u
      <4>2. e.duration - u \in Int /\ (e.duration - u) + u = e.duration
        BY <2>1, <4>1
      <4> QED
        BY <4>2, Zenon DEF u
    <3>5. e.duration >= 0 => x \in Nat
      BY <2>1, <2>2, <2>4, <2>14, <3>2, <3>3
    <3> HIDE DEF x
    <3>6. g[e] \in Seq(Int) /\ SumOf(g[e]) = x
      BY <2>10, <3>1, <3>4, Zenon
    <3>7. e.duration >= 0 => g[e] \in Seq(Nat)
      BY <2>11, <3>1, <3>5, Zenon
    <3> QED
      BY <3>1, <3>4, <3>6, <3>7, Zenon DEF s
  <2> QED
    BY <2>13, <2>14, Zenon
<1>2. g = [e \in EventSet |-> g[e]]
  BY DEF EventLoss
<1> HIDE DEF g
<1>3. g \in [EventSet -> Seq(Int)]
  BY <1>1, <1>2
<1>4. \A e \in FitEvents : e \in EventSet /\ e.duration >= 0
  BY DEF FitEvents
<1> QED
  BY <1>1, <1>3, <1>4, Zenon DEF g

\* Losses, as a binding.
LEMMA LossesIs ==
  ASSUME NEW p \in PatternSet, NEW t \in Int
  PROVE  Losses(p, t) = IF p.startTime >= t \/ Len(p.events) > EventNumMax THEN <<>>
                        ELSE Bind(EventLoss(p.startTime, t), p.events)
<1>1. DOMAIN p.events = 1 .. Len(p.events) /\ \A i \in 1 .. Len(p.events) : p.events[i] \in EventSet
  BY PatternFields
<1> DEFINE Lost(e) == IF t > e.time + p.startTime
                      THEN <<e.duration - TotalDuration(RestOfEvent(e, e.time + p.startTime, t))>>
                      ELSE <<>>
<1>2. Apply(EventLoss(p.startTime, t), p.events) = Map(Lost, p.events)
  BY <1>1 DEF Apply, Map, EventLoss
<1>3. Losses(p, t) = IF p.startTime >= t \/ Len(p.events) > EventNumMax THEN <<>>
                     ELSE FlattenSeq(Map(Lost, p.events))
  BY Zenon DEF Losses
<1> QED
  BY <1>2, <1>3, Zenon DEF Bind

\* The losses of a pattern are integers, and not negative if it fits.
LEMMA LossType ==
  ASSUME NEW t \in Int
  PROVE  /\ LossOf(t) \in [PatternSet -> Seq(Int)]
         /\ \A p \in FitPatterns : LossOf(t)[p] \in Seq(Nat)
<1>1. ASSUME NEW p \in PatternSet
      PROVE  Losses(p, t) \in Seq(Int) /\ (p \in FitPatterns => Losses(p, t) \in Seq(Nat))
  <2> DEFINE g == EventLoss(p.startTime, t)
  <2>1. p.startTime \in Int /\ p.events \in Seq(EventSet)
    BY PatternFields
  <2>2. g \in [EventSet -> Seq(Int)] /\ \A e \in FitEvents : g[e] \in Seq(Nat)
    BY <2>1, EventLosses, Zenon
  <2> HIDE DEF g
  <2>3. Losses(p, t) = <<>> \/ Losses(p, t) = Bind(g, p.events)
    BY LossesIs, Zenon DEF g
  <2>4. <<>> \in Seq(Int) /\ <<>> \in Seq(Nat)
    BY CatEmpty
  <2>5. Bind(g, p.events) \in Seq(Int)
    <3>1. \A u \in Seq(EventSet) : Bind(g, u) \in Seq(Int)
      BY <2>2, BindType
    <3> QED
      BY <2>1, <3>1
  <2>6. p \in FitPatterns => Bind(g, p.events) \in Seq(Nat)
    <3> DEFINE h == [e \in FitEvents |-> g[e]]
    <3>1. h \in [FitEvents -> Seq(Nat)] /\ \A e \in FitEvents : g[e] = h[e]
      BY <2>2
    <3> HIDE DEF h
    <3>2. \A u \in Seq(FitEvents) : Apply(g, u) = Apply(h, u) /\ Bind(g, u) = Bind(h, u)
      <4>1. \A e \in FitEvents : g[e] = h[e]
        BY <3>1
      <4> QED
        BY <4>1, ApplyAgree
    <3>3. \A u \in Seq(FitEvents) : Bind(h, u) \in Seq(Nat)
      <4>1. h \in [FitEvents -> Seq(Nat)]
        BY <3>1
      <4> QED
        BY <4>1, BindType
    <3>4. p \in FitPatterns => p.events \in Seq(FitEvents)
      BY DEF FitPatterns
    <3> QED
      BY <3>2, <3>3, <3>4, Zenon
  <2> QED
    BY <2>3, <2>4, <2>5, <2>6, Zenon
<1>2. \A p \in PatternSet : LossOf(t)[p] = Losses(p, t)
  BY DEF LossOf
<1>3. LossOf(t) = [p \in PatternSet |-> LossOf(t)[p]]
  BY DEF LossOf
<1>4. \A p \in FitPatterns : p \in PatternSet
  BY DEF FitPatterns
<1> DEFINE g == LossOf(t)
<1> HIDE DEF g
<1>5. g = [p \in PatternSet |-> g[p]] /\ \A p \in PatternSet : g[p] \in Seq(Int)
  BY <1>1, <1>2, <1>3 DEF g
<1>6. g \in [PatternSet -> Seq(Int)]
  BY <1>5
<1> QED
  BY <1>1, <1>2, <1>4, <1>6, Zenon DEF g

\* A pattern loses what is not left of it.
LEMMA PatternLosses ==
  ASSUME NEW p \in LimitedPatterns, NEW t \in Int
  PROVE  SumOf(LossOf(t)[p]) + TotalDuration(Bind(AtStart, SeekOne(t)[p]))
           = TotalDuration(AtStart[p])
<1> DEFINE d == p.startTime
           es == p.events
           g == SeekEvents(d, t)
           s == Bind(g, es)
           r == SeekOne(t)[p]
           f == EventLoss(d, t)
<1>1. p \in PatternSet /\ es \in Seq(GoodEvents) /\ Len(es) <= EventNumMax
      /\ EventNumMax \in Int /\ EventNumMax <= MaxPatternEventNum /\ MaxPatternEventNum \in Int
      /\ Len(es) \in Int
  BY PatternFields, LimitsAssumption DEF LimitedPatterns
<1>2. d \in Int /\ es \in Seq(EventSet)
  BY <1>1, PatternFields
<1>3. AtStart[p] = Apply(Shift(d), es) /\ AtStart \in [PatternSet -> Seq(EventSet)]
  BY <1>1, AtStartType
<1>4. r = IF d >= t THEN <<ConvertVibratorPattern(p)>> ELSE SeekPattern(p, t)
  BY <1>1 DEF SeekOne
<1>5. ~(Len(es) > EventNumMax) /\ ~(Len(es) > MaxPatternEventNum)
  BY <1>1
<1>6. /\ s \in Seq(EventSet)
      /\ s = <<>> => SeekPattern(p, t) = <<>>
      /\ s # <<>> => SeekPattern(p, t) = <<Pattern(t, TotalDuration(s), s)>>
  BY <1>1, <1>5, SeekPatternIs, Zenon
<1>7. LossOf(t)[p] = IF d >= t THEN <<>> ELSE Bind(f, es)
  <2>1. LossOf(t)[p] = Losses(p, t)
    BY <1>1 DEF LossOf
  <2> QED
    BY <1>1, <1>5, <2>1, LossesIs, Zenon
<1>8. /\ g \in [EventSet -> Seq(EventSet)] /\ f \in [EventSet -> Seq(Int)]
      /\ \A e \in EventSet : SumOf(f[e]) + TotalDuration(SeekEvent(e, d, t)) = e.duration
  BY <1>2, SeekEventsType, EventLosses, Zenon
<1>9. \A e \in EventSet : g[e] = SeekEvent(e, d, t)
  BY DEF SeekEvents
<1>10. TotalDuration(AtStart[p]) = TotalDuration(es) /\ TotalDuration(es) \in Int
  BY <1>2, <1>3, TotalLaws, TotalDurationIs
<1> HIDE DEF d, es, g, f, r, s
<1>11. CASE d >= t
  <2>1. r = <<p>>
    BY <1>4, <1>5, <1>11, Zenon DEF ConvertVibratorPattern, es
  <2>2. Bind(AtStart, r) = AtStart[p]
    <3>1. \A x \in PatternSet : Bind(AtStart, <<x>>) = AtStart[x]
      BY <1>3, BindOne, Zenon
    <3> QED
      BY <1>1, <2>1, <3>1, Zenon
  <2>3. SumOf(LossOf(t)[p]) = 0
    BY <1>7, <1>11, SumType, Zenon
  <2>4. 0 + TotalDuration(AtStart[p]) = TotalDuration(AtStart[p])
    BY <1>10
  <2> QED
    BY <2>2, <2>3, <2>4, Zenon DEF r
<1>12. CASE ~(d >= t)
  <2> DEFINE q == Pattern(t, TotalDuration(s), s)
  <2>1. TotalDuration(s) \in Int
    BY <1>6, TotalDurationIs
  <2>2. q \in PatternSet /\ q.events = s /\ q.startTime = t
    BY <1>6, <2>1 DEF PatternSet, Pattern
  <2>3. s = <<>> => r = <<>>
    BY <1>4, <1>6, <1>12, Zenon
  <2>4. s # <<>> => r = <<q>>
    BY <1>4, <1>6, <1>12, Zenon
  <2> HIDE DEF q
  <2>5. Bind(AtStart, r) = Apply(Shift(t), s)
    <3>1. CASE s = <<>>
      BY <2>3, <3>1, BindEmpty, ApplyEmpty, Zenon
    <3>2. CASE s # <<>>
      <4>1. \A x \in PatternSet : Bind(AtStart, <<x>>) = AtStart[x]
        BY <1>3, BindOne, Zenon
      <4>2. AtStart[q] = Apply(Shift(q.startTime), q.events)
        BY <2>2, AtStartType, Zenon
      <4> QED
        BY <2>2, <2>4, <3>2, <4>1, <4>2, Zenon
    <3> QED
      BY <3>1, <3>2, Zenon
  <2>6. TotalDuration(Bind(AtStart, r)) = TotalDuration(s)
    BY <1>6, <2>5, TotalLaws
  <2> DEFINE unit == [e \in EventSet |-> <<e>>]
  <2>7. unit \in [EventSet -> Seq(EventSet)] /\ \A e \in EventSet : unit[e] = <<e>>
    BY One
  <2> HIDE DEF unit
  <2>8. \A u \in Seq(EventSet) : Bind(unit, u) = u
    BY <2>7, BindUnit, Zenon
  <2>9. Loses(EventSet, EventSet, f, g, unit)
    <3>1. \A e \in EventSet : TotalDuration(unit[e]) = e.duration
      BY <2>7, TotalLaws
    <3> QED
      BY <1>8, <1>9, <2>7, <3>1, Zenon DEF Loses
  <2>10. \A u \in Seq(EventSet) : /\ Bind(f, u) \in Seq(Int)
                                  /\ SumOf(Bind(f, u)) + TotalDuration(Bind(g, u))
                                       = TotalDuration(Bind(unit, u))
    BY <2>9, LossesAddUp
  <2>11. SumOf(Bind(f, es)) + TotalDuration(s) = TotalDuration(es)
    BY <1>2, <2>8, <2>10, Zenon DEF s
  <2> QED
    BY <1>7, <1>10, <1>12, <2>6, <2>11, Zenon DEF r
<1> QED
  BY <1>11, <1>12, Zenon

\* What is left of the package's duration, as SeekDuration takes it.
LEMMA SeekDurationIs ==
  ASSUME NEW p \in PackageSet, NEW t \in Int
  PROVE  /\ SeekDuration(p, t) \in Int
         /\ p \in FitPackages /\ SumOf(Bind(LossOf(t), p.patterns)) <= p.packageDuration =>
              SeekDuration(p, t) = p.packageDuration - SumOf(Bind(LossOf(t), p.patterns))
<1> DEFINE a == p.packageDuration
           l == Bind(LossOf(t), p.patterns)
           n == Len(l)
           Eq(g) == g = [i \in 0 .. n |-> IF i = 0 THEN a
                                          ELSE IF g[i - 1] < l[i] THEN 0
                                          ELSE g[i - 1] - l[i]]
           F == CHOOSE g : Eq(g)
           step == [x \in (0 + 1 .. n) \X Int |-> IF x[2] < l[x[1]] THEN 0 ELSE x[2] - l[x[1]]]
<1>1. a \in Int /\ p.patterns \in Seq(PatternSet) /\ DOMAIN p.patterns = 1 .. Len(p.patterns)
      /\ \A i \in 1 .. Len(p.patterns) : p.patterns[i] \in PatternSet
  BY PackageFields
<1>2. l = FlattenSeq(Map(LAMBDA q : Losses(q, t), p.patterns))
  <2>1. Apply(LossOf(t), p.patterns) = Map(LAMBDA q : Losses(q, t), p.patterns)
    BY <1>1 DEF Apply, Map, LossOf
  <2> QED
    BY <2>1, Zenon DEF Bind
<1>3. l \in Seq(Int)
  <2>1. \A u \in Seq(PatternSet) : Bind(LossOf(t), u) \in Seq(Int)
    <3>1. LossOf(t) \in [PatternSet -> Seq(Int)]
      BY LossType
    <3> QED
      BY <3>1, BindType
  <2> QED
    BY <1>1, <2>1
<1>4. p \in FitPackages => l \in Seq(Nat)
  <2> DEFINE g == LossOf(t)
             h == [q \in FitPatterns |-> g[q]]
  <2>1. \A q \in FitPatterns : g[q] \in Seq(Nat)
    BY LossType, Zenon
  <2> HIDE DEF g
  <2>2. h \in [FitPatterns -> Seq(Nat)] /\ \A q \in FitPatterns : g[q] = h[q]
    BY <2>1
  <2> HIDE DEF h
  <2>3. \A u \in Seq(FitPatterns) : Apply(g, u) = Apply(h, u) /\ Bind(g, u) = Bind(h, u)
    <3>1. \A q \in FitPatterns : g[q] = h[q]
      BY <2>2
    <3> QED
      BY <3>1, ApplyAgree
  <2>4. \A u \in Seq(FitPatterns) : Bind(h, u) \in Seq(Nat)
    <3>1. h \in [FitPatterns -> Seq(Nat)]
      BY <2>2
    <3> QED
      BY <3>1, BindType
  <2>5. p \in FitPackages => p.patterns \in Seq(FitPatterns)
    BY DEF FitPackages
  <2> QED
    BY <2>3, <2>4, <2>5, Zenon DEF g
<1>5. SeekDuration(p, t) = F[n]
  BY <1>2 DEF SeekDuration
<1> HIDE DEF l, a
<1>6. n \in Nat /\ DOMAIN l = 1 .. n /\ \A i \in 1 .. n : l[i] \in Int
  BY <1>3
<1> HIDE DEF n
<1>7. step \in Steps(0, n, Int)
  BY <1>6 DEF Steps
<1>8. \A i \in 0 + 1 .. n, v \in Int : step[<<i, v>>] = IF v < l[i] THEN 0 ELSE v - l[i]
  OBVIOUS
<1> HIDE DEF step
<1>9. \E g : IsRun(g, 0, n, Int, a, step)
  <2>1. a \in Int /\ n \in Int /\ 0 <= n /\ 0 \in Int
    BY <1>1, <1>6
  <2> QED
    BY <1>7, <2>1, RunExists
<1>10. PICK g \in [0 .. n -> Int] :
         /\ g[0] = a
         /\ \A i \in 0 + 1 .. n : g[i] = step[<<i, g[i - 1]>>]
  BY <1>9 DEF IsRun
<1>11. \A i \in 0 + 1 .. n : g[i] = IF g[i - 1] < l[i] THEN 0 ELSE g[i - 1] - l[i]
  <2> SUFFICES ASSUME NEW i \in 0 + 1 .. n
               PROVE  g[i] = IF g[i - 1] < l[i] THEN 0 ELSE g[i - 1] - l[i]
    OBVIOUS
  <2>1. i - 1 \in 0 .. n
    BY <1>6
  <2>2. g[i - 1] \in Int
    BY <1>10, <2>1
  <2> QED
    BY <1>8, <1>10, <2>2
<1>12. Eq(F)
  <2>1. \A i \in 0 .. n : i = 0 \/ i \in 0 + 1 .. n
    BY <1>6
  <2>2. \A i \in 0 + 1 .. n : i # 0
    BY <1>6
  <2>3. \A i \in 0 .. n : g[i] = IF i = 0 THEN a
                                 ELSE IF g[i - 1] < l[i] THEN 0 ELSE g[i - 1] - l[i]
    BY <1>10, <1>11, <2>1, <2>2
  <2>4. Eq(g)
    BY <1>10, <2>3
  <2> HIDE DEF Eq
  <2> QED
    BY <2>4
<1> HIDE DEF F
<1>13. \A i \in 0 .. n : F[i] = IF i = 0 THEN a
                                ELSE IF F[i - 1] < l[i] THEN 0 ELSE F[i - 1] - l[i]
  BY <1>12
<1>14. \A i \in 0 .. n : F[i] \in Int
  <2> DEFINE S == {i \in 0 .. n : F[i] \in Int}
  <2>1. 0 \in S
    BY <1>1, <1>6, <1>13
  <2>2. ASSUME NEW i \in 1 .. n, i - 1 \in S
        PROVE  i \in S
    <3>1. i \in 0 .. n /\ i # 0 /\ F[i - 1] \in Int
      BY <1>6, <2>2
    <3>2. F[i] = IF F[i - 1] < l[i] THEN 0 ELSE F[i - 1] - l[i]
      BY <1>13, <3>1
    <3> QED
      BY <1>6, <3>1, <3>2
  <2> HIDE DEF S
  <2>3. \A i \in 0 .. n : i \in S
    BY <1>6, <2>1, <2>2, UpFromZero
  <2> QED
    BY <2>3 DEF S
<1>15. ASSUME l \in Seq(Nat), SumOf(l) <= a
       PROVE  F[n] = a - SumOf(l)
  <2>1. PICK f : Sums(f, l) /\ f[Len(l)] = SumOf(l)
    BY <1>3, SumRuns
  <2>2. f \in [0 .. n -> Int] /\ f[0] = 0 /\ f[n] = SumOf(l)
        /\ \A i \in 1 .. n : f[i] = f[i - 1] + l[i]
    BY <2>1 DEF Sums, n
  <2>3. \A i \in 1 .. n : l[i] >= 0
    BY <1>15 DEF n
  <2>4. \A i \in 0 .. n : f[i] >= 0 /\ f[i] <= f[n]
    BY <1>3, <2>1, <2>3, SumsGrow DEF n
  <2> DEFINE S == {i \in 0 .. n : F[i] = a - f[i]}
  <2>5. 0 \in S
    BY <1>1, <1>6, <1>13, <2>2
  <2>6. ASSUME NEW i \in 1 .. n, i - 1 \in S
        PROVE  i \in S
    <3>1. i \in 0 .. n /\ i # 0 /\ i - 1 \in 0 .. n /\ F[i - 1] = a - f[i - 1]
      BY <1>6, <2>6
    <3>2. F[i] = IF F[i - 1] < l[i] THEN 0 ELSE F[i - 1] - l[i]
      BY <1>13, <3>1
    <3>3. f[i] = f[i - 1] + l[i]
      BY <2>2
    <3>4. f[i] \in Int /\ f[i - 1] \in Int
      BY <2>2, <3>1
    <3>5. l[i] \in Int
      BY <1>6
    <3>6. f[i] <= f[n] /\ f[n] <= a
      BY <1>15, <2>2, <2>4, <3>1
    <3>7. f[n] \in Int /\ a \in Int
      BY <1>1, <1>6, <2>2
    <3>8. F[i - 1] \in Int
      BY <1>14, <3>1
    <3>9. ~(F[i - 1] < l[i])
      BY <3>1, <3>3, <3>4, <3>5, <3>6, <3>7, <3>8
    <3>10. F[i] = F[i - 1] - l[i]
      BY <3>2, <3>9, Zenon
    <3>11. F[i - 1] - l[i] = a - f[i]
      BY <3>1, <3>3, <3>4, <3>5, <3>7
    <3> QED
      BY <3>1, <3>10, <3>11
  <2> HIDE DEF S
  <2>7. \A i \in 0 .. n : i \in S
    BY <1>6, <2>5, <2>6, UpFromZero
  <2>8. n \in 0 .. n
    BY <1>6
  <2> QED
    BY <2>2, <2>7, <2>8 DEF S
<1>16. n \in 0 .. n
  BY <1>6
<1> QED
  BY <1>4, <1>5, <1>14, <1>15, <1>16, Zenon DEF l, a

\* What fits is within the limits.
LEMMA FitIsLimited ==
  FitPatterns \subseteq LimitedPatterns
<1>1. \A e \in FitEvents : e \in GoodEvents
  BY DEF FitEvents, GoodEvents
<1>2. \A s \in Seq(FitEvents) : s \in Seq(GoodEvents)
  BY <1>1
<1>3. EventNumMax = MaxEventSize
  BY LimitsAssumption
<1> QED
  BY <1>2, <1>3, Zenon DEF FitPatterns, LimitedPatterns

\* The events of patterns that fit last no negative time.
LEMMA FitTotal ==
  ASSUME NEW ps \in Seq(FitPatterns)
  PROVE  TotalDuration(Bind(AtStart, ps)) \in Nat
<1> DEFINE lasting == {e \in EventSet : e.duration >= 0}
           h == [p \in FitPatterns |-> AtStart[p]]
           s == Bind(AtStart, ps)
<1>1. \A p \in FitPatterns : p \in PatternSet /\ p.events \in Seq(FitEvents)
  BY DEF FitPatterns
<1>2. ASSUME NEW p \in FitPatterns
      PROVE  AtStart[p] \in Seq(lasting)
  <2> DEFINE sh == Shift(p.startTime)
             k == [e \in FitEvents |-> sh[e]]
  <2>1. p.startTime \in Int /\ AtStart[p] = Apply(sh, p.events)
    BY <1>1, PatternFields, AtStartType
  <2>2. \A e \in FitEvents : e \in EventSet /\ e.duration >= 0
    BY DEF FitEvents
  <2>3. \A e \in EventSet : sh[e] \in EventSet /\ sh[e].duration = e.duration
    BY <2>1, ShiftFields, Zenon
  <2> HIDE DEF sh
  <2>4. k \in [FitEvents -> lasting] /\ \A e \in FitEvents : sh[e] = k[e]
    BY <2>2, <2>3
  <2> HIDE DEF k, lasting
  <2>5. \A u \in Seq(FitEvents) : Apply(sh, u) = Apply(k, u) /\ Bind(sh, u) = Bind(k, u)
    <3>1. AgreeOn(FitEvents, sh, k)
      BY <2>4, Zenon DEF AgreeOn
    <3> QED
      BY <3>1, AgreeingApply
  <2>6. \A u \in Seq(FitEvents) : Apply(k, u) \in Seq(lasting)
    <3>1. k \in [FitEvents -> lasting]
      BY <2>4
    <3> QED
      BY <3>1, ApplySeq
  <2> QED
    BY <1>1, <2>1, <2>5, <2>6, Zenon
<1> HIDE DEF lasting
<1>3. h \in [FitPatterns -> Seq(lasting)] /\ \A p \in FitPatterns : AtStart[p] = h[p]
  BY <1>2
<1> HIDE DEF h, s
<1>4. s \in Seq(lasting)
  <2>1. \A u \in Seq(FitPatterns) : Apply(AtStart, u) = Apply(h, u) /\ Bind(AtStart, u) = Bind(h, u)
    <3>1. \A p \in FitPatterns : AtStart[p] = h[p]
      BY <1>3
    <3> QED
      BY <3>1, ApplyAgree
  <2>2. \A u \in Seq(FitPatterns) : Bind(h, u) \in Seq(lasting)
    <3>1. h \in [FitPatterns -> Seq(lasting)]
      BY <1>3
    <3> QED
      BY <3>1, BindType
  <2> QED
    BY <2>1, <2>2, Zenon DEF s
<1>5. \A e \in lasting : e \in EventSet /\ e.duration >= 0 /\ e.duration \in Int
  BY EventFields DEF lasting
<1>6. s \in Seq(EventSet) /\ Len(s) \in Nat /\ \A i \in 1 .. Len(s) : s[i] \in lasting
  BY <1>4, <1>5
<1> DEFINE v == Apply(DurationOf, s)
<1>7. v \in Seq(Int) /\ Len(v) = Len(s) /\ \A i \in 1 .. Len(s) : v[i] = DurationOf[s[i]]
  <2>1. \A u \in Seq(EventSet) : Apply(DurationOf, u) \in Seq(Int)
    BY TotalDurationIs, ApplySeq
  <2>2. Len(Apply(DurationOf, s)) = Len(s)
    BY <1>6, ApplyLen
  <2>3. \A i \in 1 .. Len(s) : Apply(DurationOf, s)[i] = DurationOf[s[i]]
    BY <1>6, ApplyAt
  <2> QED
    BY <1>6, <2>1, <2>2, <2>3
<1> HIDE DEF v
<1>8. \A i \in 1 .. Len(v) : v[i] >= 0
  <2>1. \A e \in EventSet : DurationOf[e] = e.duration
    BY Zenon DEF DurationOf
  <2>2. \A e \in lasting : DurationOf[e] >= 0
    BY <1>5, <2>1, Zenon
  <2>3. \A i \in 1 .. Len(v) : s[i] \in lasting /\ v[i] = DurationOf[s[i]]
    BY <1>6, <1>7, Zenon
  <2> QED
    BY <2>2, <2>3, Zenon
<1>9. SumOf(v) >= 0 /\ SumOf(v) \in Int
  BY <1>7, <1>8, SumNotNegative, SumType
<1>10. TotalDuration(s) = SumOf(v)
  BY <1>6, TotalDurationIs DEF v
<1>11. TotalDuration(s) \in Nat
  BY <1>9, <1>10
<1> QED
  BY <1>11, Zenon DEF s

\* What seeking keeps of a package.
LEMMA SeekKeeps ==
  ASSUME NEW p \in PackageSet, NEW t \in Int, NEW q, q = SeekTimeOnPackage(p, t)
  PROVE  /\ q \in PackageSet /\ Len(q.patterns) <= Len(p.patterns)
         /\ p \in FitPackages => q \in FitPackages
         /\ Len(p.patterns) <= MaxPatternNum /\ p.patterns \in Seq(LimitedPatterns) =>
              Flattened(q) = Bind(RestOf(t), Flattened(p))
         /\ /\ p \in FitPackages /\ Len(p.patterns) <= MaxPatternNum
            /\ p.packageDuration = TotalDuration(Flattened(p))
            => q.packageDuration = TotalDuration(Flattened(q))
<1> DEFINE c == ConvertSeekVibratorPackage(p, t)
           ps == p.patterns
           g == SeekOne(t)
           r == Bind(g, ps)
           many == Len(ps) > MaxPatternNum
           l == Bind(LossOf(t), ps)
<1>1. p.packageDuration \in Int /\ ps \in Seq(PatternSet) /\ Len(ps) \in Nat
  BY PackageFields
<1>2. /\ many => c = Package(p.packageDuration, <<>>)
      /\ ~many => c = Package(SeekDuration(p, t), r)
  BY SeekIs, Zenon
<1>3. many <=> ~(Len(ps) <= MaxPatternNum)
  BY <1>1, LimitsAssumption
<1>4. /\ g \in [PatternSet -> Seq(PatternSet)]
      /\ \A x \in PatternSet : Len(g[x]) <= 1
      /\ \A x \in FitPatterns : g[x] \in Seq(FitPatterns)
  BY SeekOneType, Zenon
<1> HIDE DEF g, many, ps
<1>5. r \in Seq(PatternSet) /\ Len(r) <= Len(ps)
  <2> DEFINE ss == Apply(g, ps)
  <2>1. /\ ss \in Seq(Seq(PatternSet)) /\ Len(ss) = Len(ps)
        /\ \A i \in 1 .. Len(ps) : ss[i] = g[ps[i]]
    <3>1. \A u \in Seq(PatternSet) : Apply(g, u) \in Seq(Seq(PatternSet))
      BY <1>4, ApplySeq
    <3> QED
      BY <1>1, <3>1, ApplyLen, ApplyAt
  <2>2. \A i \in 1 .. Len(ps) : ps[i] \in PatternSet
    BY <1>1
  <2> HIDE DEF ss
  <2>3. \A i \in 1 .. Len(ss) : Len(ss[i]) <= 1
    BY <1>4, <2>1, <2>2
  <2>4. FlattenSeq(ss) \in Seq(PatternSet) /\ Len(FlattenSeq(ss)) <= Len(ss) * 1
    BY <2>1, <2>3, FlattenType, FlattenLen
  <2>5. Len(ss) * 1 = Len(ps)
    BY <1>1, <2>1
  <2> QED
    BY <2>4, <2>5, Zenon DEF Bind, ss
<1>6. ps \in Seq(FitPatterns) => r \in Seq(FitPatterns)
  <2> DEFINE h == [x \in FitPatterns |-> g[x]]
  <2>1. h \in [FitPatterns -> Seq(FitPatterns)] /\ \A x \in FitPatterns : g[x] = h[x]
    BY <1>4
  <2> HIDE DEF h
  <2>2. \A u \in Seq(FitPatterns) : Apply(g, u) = Apply(h, u) /\ Bind(g, u) = Bind(h, u)
    <3>1. \A x \in FitPatterns : g[x] = h[x]
      BY <2>1
    <3> QED
      BY <3>1, ApplyAgree
  <2>3. \A u \in Seq(FitPatterns) : Bind(h, u) \in Seq(FitPatterns)
    <3>1. h \in [FitPatterns -> Seq(FitPatterns)]
      BY <2>1
    <3> QED
      BY <3>1, BindType
  <2> QED
    BY <2>2, <2>3, Zenon
<1>7. SeekDuration(p, t) \in Int
      /\ (p \in FitPackages /\ SumOf(l) <= p.packageDuration =>
            SeekDuration(p, t) = p.packageDuration - SumOf(l))
  BY SeekDurationIs, Zenon DEF ps
<1>8. p \in FitPackages => ps \in Seq(FitPatterns)
  BY DEF FitPackages, ps
<1> HIDE DEF r, l
<1>9. \A d \in Int : \A s \in Seq(PatternSet) :
        /\ Package(d, s) \in PackageSet /\ Package(d, s).patterns = s
        /\ Package(d, s).packageDuration = d
        /\ s \in Seq(FitPatterns) => Package(d, s) \in FitPackages
  BY DEF Package, PackageSet, FitPackages
<1>10. <<>> \in Seq(PatternSet) /\ <<>> \in Seq(FitPatterns) /\ Len(<<>>) = 0
  BY CatEmpty
<1>11. c \in PackageSet /\ Len(c.patterns) <= Len(ps)
       /\ (p \in FitPackages => c \in FitPackages)
       /\ (~many => c.patterns = r /\ c.packageDuration = SeekDuration(p, t))
  <2> HIDE DEF c
  <2>1. CASE many
    <3>1. c = Package(p.packageDuration, <<>>) /\ 0 <= Len(ps)
      BY <1>1, <1>2, <2>1
    <3>2. c \in PackageSet /\ c.patterns = <<>> /\ (p \in FitPackages => c \in FitPackages)
      BY <1>1, <1>9, <1>10, <3>1, Zenon
    <3>3. Len(c.patterns) <= Len(ps)
      BY <1>10, <3>1, <3>2, Zenon
    <3> QED
      BY <2>1, <3>2, <3>3, Zenon
  <2>2. CASE ~many
    <3>1. c = Package(SeekDuration(p, t), r)
      BY <1>2, <2>2
    <3>2. /\ c \in PackageSet /\ c.patterns = r /\ c.packageDuration = SeekDuration(p, t)
          /\ r \in Seq(FitPatterns) => c \in FitPackages
      BY <1>5, <1>7, <1>9, <3>1, Zenon
    <3>3. Len(c.patterns) <= Len(ps)
      BY <1>5, <3>2, Zenon
    <3> QED
      BY <1>6, <1>8, <3>2, <3>3, Zenon
  <2> QED
    BY <2>1, <2>2, Zenon
<1>12. q = ToApplication(c)
  BY Zenon DEF SeekTimeOnPackage
<1> HIDE DEF c
<1>13. /\ q \in PackageSet /\ q.packageDuration = c.packageDuration
       /\ Copied(c.patterns, q.patterns) /\ Flattened(q) = Flattened(c)
       /\ c \in FitPackages => q \in FitPackages
  BY <1>11, <1>12, CopyKeeps, Zenon
<1>14. Len(q.patterns) = Len(c.patterns)
  BY <1>13, Zenon DEF Copied
<1>15. Flattened(c) = Bind(AtStart, c.patterns) /\ Flattened(p) = Bind(AtStart, ps)
  BY <1>11, FlattenedIs, Zenon DEF ps
<1>16. ~many /\ ps \in Seq(LimitedPatterns) => Flattened(q) = Bind(RestOf(t), Flattened(p))
  <2>1. ps \in Seq(LimitedPatterns) => Bind(AtStart, r) = Bind(RestOf(t), Flattened(p))
    BY SeekRest, Zenon DEF r, g, ps
  <2> QED
    BY <1>11, <1>13, <1>15, <2>1, Zenon
<1>17. ASSUME p \in FitPackages, ~many, p.packageDuration = TotalDuration(Flattened(p))
       PROVE  q.packageDuration = TotalDuration(Flattened(q))
  <2> DEFINE k == [x \in PatternSet |-> Bind(AtStart, g[x])]
  <2>1. AtStart \in [PatternSet -> Seq(EventSet)]
    BY AtStartType
  <2>2. \A u \in Seq(PatternSet) : Bind(AtStart, u) \in Seq(EventSet)
    BY <2>1, BindType
  <2>3. k \in [PatternSet -> Seq(EventSet)] /\ \A x \in PatternSet : k[x] = Bind(AtStart, g[x])
    BY <1>4, <2>2
  <2> HIDE DEF k
  <2>4. Bind(AtStart, r) = Bind(k, ps)
    <3>1. IsBindOf(PatternSet, PatternSet, EventSet, g, AtStart, k)
      BY <1>4, <2>1, <2>3, Zenon DEF IsBindOf
    <3>2. \A u \in Seq(PatternSet) : Bind(AtStart, Bind(g, u)) = Bind(k, u)
      BY <3>1, BindBind
    <3> QED
      BY <1>1, <3>2, Zenon DEF r
  <2>5. Loses(LimitedPatterns, PatternSet, LossOf(t), k, AtStart)
    <3>1. \A x \in LimitedPatterns : x \in PatternSet
      BY DEF LimitedPatterns
    <3>2. \A x \in LimitedPatterns : SumOf(LossOf(t)[x]) + TotalDuration(Bind(AtStart, g[x]))
                                       = TotalDuration(AtStart[x])
      BY PatternLosses, Zenon DEF g
    <3>3. LossOf(t) \in [PatternSet -> Seq(Int)]
      BY LossType
    <3>4. LimitedPatterns \subseteq PatternSet
      BY <3>1
    <3> QED
      BY <2>1, <2>3, <3>1, <3>2, <3>3, <3>4, Zenon DEF Loses
  <2>6. ps \in Seq(LimitedPatterns) /\ ps \in Seq(FitPatterns)
    BY <1>8, <1>17, FitIsLimited
  <2>7. l \in Seq(Int) /\ SumOf(l) + TotalDuration(Bind(k, ps)) = TotalDuration(Bind(AtStart, ps))
    <3>1. \A u \in Seq(LimitedPatterns) :
            /\ Bind(LossOf(t), u) \in Seq(Int)
            /\ SumOf(Bind(LossOf(t), u)) + TotalDuration(Bind(k, u))
                 = TotalDuration(Bind(AtStart, u))
      BY <2>5, LossesAddUp
    <3> QED
      BY <2>6, <3>1, Zenon DEF l
  <2>8. TotalDuration(Bind(k, ps)) \in Nat
    BY <1>6, <2>4, <2>6, FitTotal
  <2>9. SumOf(l) \in Int
    BY <2>7, SumType
  <2> DEFINE x == SumOf(l)
             y == TotalDuration(Bind(k, ps))
             z == p.packageDuration
  <2>10. x + y = z
    BY <1>15, <1>17, <2>7
  <2> HIDE DEF x, y, z
  <2>11. x \in Int /\ y \in Nat /\ z \in Int
    BY <1>1, <2>8, <2>9 DEF x, y, z
  <2>12. x <= z /\ z - x = y
    BY <2>10, <2>11
  <2>13. SeekDuration(p, t) = y
    BY <1>7, <1>17, <2>12 DEF x, z
  <2> QED
    BY <1>11, <1>13, <1>15, <1>17, <2>4, <2>13, Zenon DEF y
<1> QED
  BY <1>3, <1>11, <1>13, <1>14, <1>16, <1>17, Zenon DEF ps

-----------------------------------------------------------------------------
(* Modulation keeps what the structures take, and durations.                 *)

SameDurations == {x \in EventSet \X EventSet : x[1].duration = x[2].duration}

\* Events of the same durations last as long.
LEMMA SameTotal ==
  ASSUME NEW s \in Seq(EventSet), NEW u \in Seq(EventSet), Alike(s, u, SameDurations)
  PROVE  TotalDuration(s) = TotalDuration(u)
<1>1. Len(s) = Len(u) /\ \A i \in 1 .. Len(s) : s[i].duration = u[i].duration
  BY DEF Alike, SameDurations
<1>2. DOMAIN s = 1 .. Len(s) /\ DOMAIN u = 1 .. Len(u)
  OBVIOUS
<1>3. Map(LAMBDA e : e.duration, s) = Map(LAMBDA e : e.duration, u)
  BY <1>1, <1>2 DEF Map
<1> QED
  BY <1>3, Zenon DEF TotalDuration

\* A modulated pattern has the durations of the pattern, and fits if that does.
LEMMA ModulatedPatternFits ==
  ASSUME NEW curve \in CurveSet, NEW p \in PatternSet,
         NEW q \in ModulateVibratorPattern(curve, p)
  PROVE  /\ Alike(AtStart[p], AtStart[q], SameDurations)
         /\ p \in FitPatterns => q \in FitPatterns
<1>1. /\ q \in PatternSet /\ q.startTime = p.startTime
      /\ Len(q.events) = Len(p.events)
      /\ \A i \in 1 .. Len(p.events) :
           q.events[i] \in ModulateVibratorEvent(curve, p.startTime, p.events[i])
  BY PatternModulated
<1>2. /\ p.startTime \in Int /\ Len(p.events) \in Nat
      /\ \A i \in 1 .. Len(p.events) : p.events[i] \in EventSet
  BY PatternFields
<1>3. \A i \in 1 .. Len(p.events) : KeepsShape(p.events[i], q.events[i])
  <2> SUFFICES ASSUME NEW i \in 1 .. Len(p.events)
               PROVE  KeepsShape(p.events[i], q.events[i])
    OBVIOUS
  <2>1. p.events[i] \in EventSet
    BY <1>2
  <2>2. q.events[i] \in ModulateVibratorEvent(curve, p.startTime, p.events[i])
    BY <1>1
  <2> QED
    BY <1>2, <2>1, <2>2, EventKeepsShape, Zenon
<1>4. Alike(AtStart[p], AtStart[q], SameDurations)
  <2>1. /\ AtStart[p] \in Seq(EventSet) /\ Len(AtStart[p]) = Len(p.events)
        /\ \A i \in 1 .. Len(p.events) : AtStart[p][i] = Shift(p.startTime)[p.events[i]]
    BY AtStartEvents
  <2>2. /\ AtStart[q] \in Seq(EventSet) /\ Len(AtStart[q]) = Len(q.events)
        /\ \A i \in 1 .. Len(q.events) : AtStart[q][i] = Shift(p.startTime)[q.events[i]]
    BY <1>1, AtStartEvents
  <2> DEFINE sh == Shift(p.startTime)
  <2>3. \A e \in EventSet : sh[e] \in EventSet /\ sh[e].duration = e.duration
    BY <1>2, ShiftFields, Zenon
  <2> HIDE DEF sh
  <2>4. \A i \in 1 .. Len(p.events) : <<sh[p.events[i]], sh[q.events[i]]>> \in SameDurations
    BY <1>2, <1>3, <2>3 DEF KeepsShape, SameDurations
  <2>5. Len(AtStart[p]) = Len(AtStart[q]) /\ \A i \in 1 .. Len(AtStart[p]) :
          <<AtStart[p][i], AtStart[q][i]>> \in SameDurations
    BY <1>1, <2>1, <2>2, <2>4 DEF sh
  <2> QED
    BY <2>5, Zenon DEF Alike
<1>5. ASSUME p \in FitPatterns
      PROVE  q \in FitPatterns
  <2>1. p.events \in Seq(FitEvents) /\ Len(p.events) <= MaxEventSize
    BY <1>5 DEF FitPatterns
  <2>2. \A x, y : x \in FitEvents /\ KeepsShape(x, y) => y \in FitEvents
    <3> SUFFICES ASSUME NEW x, NEW y, x \in FitEvents, KeepsShape(x, y)
                 PROVE  y \in FitEvents
      OBVIOUS
    <3>1. HasCurve(x) => IsCurve(y.points)
      BY DEF KeepsShape, IsCurve
    <3> QED
      BY <3>1 DEF KeepsShape, FitEvents
  <2>3. \A i \in 1 .. Len(p.events) : p.events[i] \in FitEvents
    BY <2>1
  <2>4. \A i \in 1 .. Len(p.events) : q.events[i] \in FitEvents
    BY <1>3, <2>2, <2>3, Zenon
  <2>5. PICK s \in Seq(EventSet) : s = q.events
    BY <1>1, PatternFields
  <2>6. s \in [1 .. Len(p.events) -> FitEvents]
    <3>1. DOMAIN s = 1 .. Len(p.events) /\ s = [i \in 1 .. Len(p.events) |-> s[i]]
      BY <1>1, <2>5
    <3> QED
      BY <2>4, <2>5, <3>1
  <2>7. s \in Seq(FitEvents)
    BY <1>2, <2>6, FunctionIsSeq
  <2> QED
    BY <1>1, <2>1, <2>5, <2>7 DEF FitPatterns
<1> QED
  BY <1>4, <1>5

\* What modulation keeps of a package.
LEMMA ModulateKeeps ==
  ASSUME NEW curve \in CurveSet, NEW p \in PackageSet, NEW q \in ModulatePackage(curve, p)
  PROVE  /\ q \in PackageSet /\ Len(q.patterns) = Len(p.patterns)
         /\ p \in FitPackages => q \in FitPackages
         /\ q.packageDuration = p.packageDuration
         /\ TotalDuration(Flattened(q)) = TotalDuration(Flattened(p))
<1>1. /\ q \in PackageSet /\ q.packageDuration = p.packageDuration
      /\ Len(q.patterns) = Len(p.patterns)
      /\ \A k \in 1 .. Len(p.patterns) :
           q.patterns[k] \in ModulateVibratorPattern(curve, p.patterns[k])
  BY PackageModulated
<1>2. Len(p.patterns) \in Nat /\ \A k \in 1 .. Len(p.patterns) : p.patterns[k] \in PatternSet
  BY PackageFields
<1>3. \A k \in 1 .. Len(p.patterns) :
        /\ Alike(AtStart[p.patterns[k]], AtStart[q.patterns[k]], SameDurations)
        /\ p.patterns[k] \in FitPatterns => q.patterns[k] \in FitPatterns
  BY <1>1, <1>2, ModulatedPatternFits
<1>4. Alike(Flattened(p), Flattened(q), SameDurations)
  <2>1. \A k \in 1 .. Len(p.patterns) :
          Alike(AtStart[p.patterns[k]], AtStart[q.patterns[k]], SameDurations)
    BY <1>3
  <2> QED
    BY <1>1, <2>1, FlattenedAlike
<1>5. TotalDuration(Flattened(q)) = TotalDuration(Flattened(p))
  BY <1>1, <1>4, FlattenedType, SameTotal
<1>6. ASSUME p \in FitPackages
      PROVE  q \in FitPackages
  <2>1. p.patterns \in Seq(FitPatterns)
    BY <1>6 DEF FitPackages
  <2>2. \A k \in 1 .. Len(p.patterns) : q.patterns[k] \in FitPatterns
    BY <1>3, <2>1
  <2>3. PICK s \in Seq(PatternSet) : s = q.patterns
    BY <1>1, PackageFields
  <2>4. s \in [1 .. Len(p.patterns) -> FitPatterns]
    <3>1. DOMAIN s = 1 .. Len(p.patterns) /\ s = [i \in 1 .. Len(p.patterns) |-> s[i]]
      BY <1>1, <2>3
    <3> QED
      BY <2>2, <2>3, <3>1
  <2>5. s \in Seq(FitPatterns)
    BY <1>2, <2>4, FunctionIsSeq
  <2> QED
    BY <1>1, <2>3, <2>5 DEF FitPackages
<1> QED
  BY <1>1, <1>5, <1>6

\* The property's words for what is left.
LEMMA RestIs ==
  ASSUME NEW s \in Seq(EventSet), NEW t \in Int
  PROVE  FlattenSeq(Map(LAMBDA e : RestAt(e, t), s)) = Bind(RestOf(t), s)
<1>1. DOMAIN s = 1 .. Len(s) /\ \A i \in DOMAIN s : s[i] \in EventSet
  OBVIOUS
<1>2. Map(LAMBDA e : RestAt(e, t), s) = Apply(RestOf(t), s)
  BY <1>1 DEF Map, Apply, RestOf
<1> QED
  BY <1>2, Zenon DEF Bind

-----------------------------------------------------------------------------
(* Files of the HE format, and what decoding makes of any.                   *)

\* Decoding a HE file gives packages that fit.
LEMMA HeDecoded ==
  ASSUME NEW file \in HeFileSet
  PROVE  HeDecodeEffect(file) \subseteq FitPackages
<1> SUFFICES ASSUME NEW x \in HeDecodeEffect(file)
             PROVE  x \in FitPackages
  OBVIOUS
<1>1. \A s \in Seq(FitPatterns) : Package(0, s) \in FitPackages
  <2>1. \A p \in FitPatterns : p \in PatternSet
    BY DEF FitPatterns
  <2>2. \A s \in Seq(FitPatterns) : s \in Seq(PatternSet)
    BY <2>1
  <2> QED
    BY <2>2 DEF Package, PackageSet, FitPackages
<1>2. CASE file.version = 1
  <2>1. file.pattern \in Seq(EventSet)
    BY <1>2 DEF HeFileSet
  <2>2. PICK events \in HeParsePattern(file.pattern) :
          x = Package(0, <<Pattern(0, 0, events)>>)
    BY <1>2 DEF HeDecodeEffect
  <2>3. Pattern(0, 0, events) \in FitPatterns
    BY <2>1, HePatternFits
  <2>4. <<Pattern(0, 0, events)>> \in Seq(FitPatterns)
    BY <2>3, One
  <2> QED
    BY <1>1, <2>2, <2>4, Zenon
<1>3. CASE file.version # 1
  <2> DEFINE list == file.patternList
             Entries == [time : Int, pattern : Seq(EventSet)]
  <2>1. list \in Seq(Entries)
    BY <1>3 DEF HeFileSet
  <2> HIDE DEF list, Entries
  <2>2. \A i \in 1 .. Len(list) : list[i].time \in Int /\ list[i].pattern \in Seq(EventSet)
    <3>1. \A i \in 1 .. Len(list) : list[i] \in Entries
      BY <2>1
    <3> QED
      BY <3>1 DEF Entries
  <2> DEFINE sets == Map(LAMBDA item : {Pattern(item.time, 0, events) :
                                          events \in HeParsePattern(item.pattern)}, list)
  <2>3. PICK patterns \in HeParsePatternList(list) : x = Package(0, patterns)
    <3>1. x \in {Package(0, patterns) : patterns \in HeParsePatternList(file.patternList)}
      BY <1>3, Zenon DEF HeDecodeEffect, Refused
    <3> QED
      BY <3>1, Zenon DEF list
  <2>4. patterns \in ChoicesOf(sets)
    <3>1. patterns \in Refused \/ patterns \in ChoicesOf(sets)
      BY <2>3, Zenon DEF HeParsePatternList
    <3> QED
      BY <3>1, Zenon DEF Refused
  <2>5. Len(list) \in Nat /\ DOMAIN sets = 1 .. Len(list)
        /\ \A i \in 1 .. Len(list) :
             sets[i] = {Pattern(list[i].time, 0, events) : events \in HeParsePattern(list[i].pattern)}
    BY <2>1 DEF Map
  <2> HIDE DEF sets
  <2>6. \A i \in 1 .. Len(list) : sets[i] \subseteq FitPatterns
    BY <2>2, <2>5, HePatternFits
  <2>7. patterns \in Seq(FitPatterns)
    BY <2>4, <2>5, <2>6, ChoiceOf
  <2> QED
    BY <1>1, <2>3, <2>7, Zenon
<1> QED
  BY <1>2, <1>3

\* The format of a file is told from its fields.
LEMMA FormatOf ==
  ASSUME NEW file \in OhFileSet \cup HeFileSet
  PROVE  /\ "channels" \in DOMAIN file => file \in OhFileSet
         /\ "channels" \notin DOMAIN file => file \in HeFileSet
<1>1. \A f \in OhFileSet : "channels" \in DOMAIN f
  BY DEF OhFileSet
<1>2. \A f \in HeFileSet : "channels" \notin DOMAIN f
  <2> DEFINE events == Seq(EventSet)
             entries == Seq([time : Int, pattern : Seq(EventSet)])
  <2>1. HeFileSet = [version : {1}, pattern : events]
                      \cup [version : Int \ {1}, patternList : entries]
    BY DEF HeFileSet
  <2> HIDE DEF events, entries
  <2>2. \A f \in [version : {1}, pattern : events] : DOMAIN f = {"version", "pattern"}
    OBVIOUS
  <2>3. \A f \in [version : Int \ {1}, patternList : entries] :
          DOMAIN f = {"version", "patternList"}
    OBVIOUS
  <2>4. "channels" \notin {"version", "pattern"} /\ "channels" \notin {"version", "patternList"}
    OBVIOUS
  <2> QED
    BY <2>1, <2>2, <2>3, <2>4, Zenon
<1> QED
  BY <1>1, <1>2

\* Everything a decoder makes fits into the structures.
LEMMA Decoded ==
  ASSUME NEW file \in OhFileSet \cup HeFileSet, NEW p \in DecodeEffect(file)
  PROVE  /\ p \in FitPackages
         /\ "channels" \in DOMAIN file =>
              Len(p.patterns) <= MaxPatternNum /\ SplitsLosslessly(file, p)
<1>1. CASE "channels" \in DOMAIN file
  <2>1. file \in OhFileSet /\ p \in OhDecodeEffect(file)
    BY <1>1, FormatOf DEF DecodeEffect
  <2> QED
    BY <2>1, OhDecoded
<1>2. CASE "channels" \notin DOMAIN file
  <2>1. file \in HeFileSet /\ p \in HeDecodeEffect(file)
    BY <1>2, FormatOf DEF DecodeEffect
  <2> QED
    BY <1>2, <2>1, HeDecoded
<1> QED
  BY <1>1, <1>2

-----------------------------------------------------------------------------
(* Patterns of scripts are patterns.                                         *)

\* An event with other values.
LEMMA WithValues ==
  ASSUME NEW e \in EventSet, NEW d \in Int, NEW a \in Int, NEW b \in Int, NEW c \in Int,
         NEW s \in Seq(PointSet)
  PROVE  [e EXCEPT !.duration = d, !.intensity = a, !.frequency = b, !.index = c,
                   !.points = s] \in EventSet
<1> DEFINE w == [e EXCEPT !.duration = d, !.intensity = a, !.frequency = b, !.index = c]
<1>1. w \in EventSet
  BY DEF EventSet
<1>2. [e EXCEPT !.duration = d, !.intensity = a, !.frequency = b, !.index = c, !.points = s]
        = [w EXCEPT !.points = s]
  OBVIOUS
<1> HIDE DEF w
<1>3. [w EXCEPT !.points = s] \in EventSet
  BY <1>1, WithPoints
<1> QED
  BY <1>2, <1>3, Zenon

\* Points with other values.
LEMMA MapPoints ==
  ASSUME NEW s \in Seq(PointSet), NEW g \in [Int -> Int], NEW h \in [Int -> Int]
  PROVE  Map(LAMBDA p : [p EXCEPT !.intensity = g[@], !.frequency = h[@]], s) \in Seq(PointSet)
<1>1. \A p \in PointSet : [p EXCEPT !.intensity = g[@], !.frequency = h[@]] \in PointSet
  BY DEF PointSet
<1> DEFINE k == [p \in PointSet |-> [p EXCEPT !.intensity = g[@], !.frequency = h[@]]]
<1>2. k \in [PointSet -> PointSet]
  BY <1>1
<1>3. Map(LAMBDA p : [p EXCEPT !.intensity = g[@], !.frequency = h[@]], s) = Apply(k, s)
  <2>1. \A i \in DOMAIN s : s[i] \in PointSet
    OBVIOUS
  <2>2. \A i \in DOMAIN s :
          k[s[i]] = [s[i] EXCEPT !.intensity = g[@], !.frequency = h[@]]
    BY <2>1
  <2> HIDE DEF k
  <2> QED
    BY <2>2 DEF Map, Apply
<1> HIDE DEF k
<1>4. Apply(k, s) \in Seq(PointSet)
  BY <1>2, ApplySeq
<1> QED
  BY <1>3, <1>4, Zenon

\* Events with defaults for what is missing.
LEMMA DefaultsType ==
  ASSUME NEW e \in EventSet
  PROVE  WithDefaults(e) \in EventSet
<1> DEFINE D(d) == [n \in Int |-> IF n = Missing THEN d ELSE n]
           s == Map(LAMBDA p : [p EXCEPT !.intensity = D(100)[@], !.frequency = D(0)[@]], e.points)
           a == D(100)[e.intensity]
           b == D(50)[e.frequency]
           c == D(0)[e.index]
<1>1. e.points \in Seq(PointSet) /\ e.intensity \in Int /\ e.frequency \in Int /\ e.index \in Int
      /\ e.duration \in Int
  BY EventFields
<1>2. D(100) \in [Int -> Int] /\ D(50) \in [Int -> Int] /\ D(0) \in [Int -> Int]
  OBVIOUS
<1>3. a \in Int /\ b \in Int /\ c \in Int
  BY <1>1
<1>4. s = Map(LAMBDA p : [p EXCEPT !.intensity = IF @ = Missing THEN 100 ELSE @,
                                   !.frequency = IF @ = Missing THEN 0 ELSE @], e.points)
  <2>1. DOMAIN e.points = 1 .. Len(e.points) /\ \A i \in DOMAIN e.points : e.points[i] \in PointSet
    BY <1>1
  <2>2. \A i \in DOMAIN e.points : e.points[i].intensity \in Int /\ e.points[i].frequency \in Int
    BY <2>1 DEF PointSet
  <2> QED
    BY <2>2 DEF Map
<1>5. s \in Seq(PointSet)
  <2> HIDE DEF D
  <2> QED
    BY <1>1, <1>2, MapPoints
<1>6. [e EXCEPT !.duration = e.duration, !.intensity = a, !.frequency = b, !.index = c,
                !.points = s] \in EventSet
  <2> HIDE DEF a, b, c, s
  <2> QED
    BY <1>1, <1>3, <1>5, WithValues
<1>7. WithDefaults(e) = [e EXCEPT !.intensity = a, !.frequency = b, !.index = c, !.points = s]
  BY <1>1, <1>4 DEF WithDefaults
<1>8. [e EXCEPT !.duration = e.duration, !.intensity = a, !.frequency = b, !.index = c,
                !.points = s]
        = [e EXCEPT !.intensity = a, !.frequency = b, !.index = c, !.points = s]
  <2> HIDE DEF a, b, c, s
  <2> QED
    BY DEF EventSet
<1> QED
  BY <1>6, <1>7, <1>8

\* What a script has built so far.
LEMMA BuildType ==
  ASSUME NEW calls \in Seq(EventSet)
  PROVE  Build(calls) \subseteq PatternSet
<1> DEFINE n == Len(calls)
           Next1(i, v) == IF calls[i].tag = EVENT_TAG_TRANSIENT
                          THEN AddTransientEvent(v, calls[i])
                          ELSE AddContinuousEvent(v, calls[i])
           Eq(g) == g = [i \in 0 .. n |-> IF i = 0 THEN <<>>
                                          ELSE IF calls[i].tag = EVENT_TAG_TRANSIENT
                                               THEN AddTransientEvent(g[i - 1], calls[i])
                                               ELSE AddContinuousEvent(g[i - 1], calls[i])]
           F == CHOOSE g : Eq(g)
           T == Seq(EventSet)
           step == [x \in (0 + 1 .. n) \X T |-> Next1(x[1], x[2])]
<1>1. n \in Nat /\ \A i \in 1 .. n : calls[i] \in EventSet
  OBVIOUS
<1>2. Build(calls) \subseteq {Pattern(0, 0, F[n])}
  BY DEF Build, Refused
<1>3. \A e \in EventSet, v \in T : /\ AddTransientEvent(v, e) \in T
                                   /\ AddContinuousEvent(v, e) \in T
  <2> SUFFICES ASSUME NEW e \in EventSet, NEW v \in T
               PROVE  AddTransientEvent(v, e) \in T /\ AddContinuousEvent(v, e) \in T
    OBVIOUS
  <2> DEFINE x == WithDefaults(e)
             y == [x EXCEPT !.duration = TRANSIENT_VIBRATION_DURATION, !.points = <<>>]
  <2>1. x \in EventSet
    BY DefaultsType
  <2> HIDE DEF x
  <2>2. y \in EventSet
    BY <2>1, AsTransient, Zenon
  <2>3. AddTransientEvent(v, e) = v \/ AddTransientEvent(v, e) = Append(v, y)
    BY Zenon DEF AddTransientEvent, x
  <2>4. AddContinuousEvent(v, e) = v \/ AddContinuousEvent(v, e) = Append(v, x)
    BY Zenon DEF AddContinuousEvent, x
  <2> HIDE DEF y
  <2>5. Append(v, x) \in T /\ Append(v, y) \in T
    BY <2>1, <2>2
  <2> QED
    BY <2>3, <2>4, <2>5, Zenon
<1>4. \A i \in 1 .. n, v \in T : Next1(i, v) \in T
  BY <1>1, <1>3
<1>5. <<>> \in T
  BY CatEmpty
<1> HIDE DEF n, T
<1>6. \A i : i \in 1 .. n <=> i \in 0 + 1 .. n
  OBVIOUS
<1>7. step \in Steps(0, n, T)
  <2> HIDE DEF Next1
  <2> QED
    BY <1>1, <1>4, <1>6 DEF Steps
<1>8. \A i \in 1 .. n, v \in T : step[<<i, v>>] = Next1(i, v)
  <2> HIDE DEF Next1
  <2> QED
    BY <1>6
<1> HIDE DEF step, Next1
<1>9. \E g : IsRun(g, 0, n, T, <<>>, step)
  <2>1. n \in Int /\ 0 <= n /\ 0 \in Int
    BY <1>1
  <2> QED
    BY <1>5, <1>7, <2>1, RunExists
<1>10. PICK g \in [0 .. n -> T] :
         /\ g[0] = <<>>
         /\ \A i \in 0 + 1 .. n : g[i] = step[<<i, g[i - 1]>>]
  BY <1>9 DEF IsRun
<1>11. \A i \in 1 .. n : g[i] = Next1(i, g[i - 1])
  <2> SUFFICES ASSUME NEW i \in 1 .. n
               PROVE  g[i] = Next1(i, g[i - 1])
    OBVIOUS
  <2>1. i - 1 \in 0 .. n
    BY <1>1
  <2>2. g[i - 1] \in T
    BY <1>10, <2>1
  <2> QED
    BY <1>6, <1>8, <1>10, <2>2
<1>12. \A i \in 0 .. n : i = 0 \/ i \in 1 .. n
  BY <1>1
<1>13. \A i \in 0 .. n : g[i] = IF i = 0 THEN <<>> ELSE Next1(i, g[i - 1])
  BY <1>10, <1>11, <1>12, Zenon
<1>14. Eq(F)
  <2>1. Eq(g)
    BY <1>10, <1>13 DEF Next1
  <2> HIDE DEF Eq
  <2> QED
    BY <2>1
<1> HIDE DEF F
<1>15. \A i \in 0 .. n : F[i] = IF i = 0 THEN <<>> ELSE Next1(i, F[i - 1])
  BY <1>14 DEF Next1
<1> DEFINE S == {i \in 0 .. n : F[i] \in T}
<1>16. \A i \in 0 .. n : i \in S
  <2>1. 0 \in S
    BY <1>1, <1>5, <1>15
  <2>2. ASSUME NEW i \in 1 .. n, i - 1 \in S
        PROVE  i \in S
    <3>1. i \in 0 .. n /\ i # 0 /\ F[i - 1] \in T
      BY <1>1, <2>2
    <3>2. F[i] = Next1(i, F[i - 1])
      BY <1>15, <3>1
    <3> QED
      BY <1>4, <3>1, <3>2 DEF Next1
  <2> HIDE DEF S
  <2> QED
    BY <1>1, <2>1, <2>2, UpFromZero
<1>17. F[n] \in Seq(EventSet)
  <2>1. n \in 0 .. n
    BY <1>1
  <2> QED
    BY <1>16, <2>1 DEF T
<1> DEFINE s == F[n]
<1> HIDE DEF s
<1>18. Pattern(0, 0, s) \in PatternSet
  BY <1>17 DEF s, Pattern, PatternSet
<1> QED
  BY <1>2, <1>18 DEF s

\* So is what the bindings make of a pattern written down.
LEMMA ObjectType ==
  ASSUME NEW object \in PatternSet
  PROVE  /\ CheckVibratorPatternParameter(object) \subseteq PatternSet
         /\ EtsCheckVibratorPatternParameter(object) \subseteq PatternSet
<1>1. CheckVibratorPatternParameter(object) \subseteq PatternSet
  BY DEF CheckVibratorPatternParameter, ParseVibratorPattern
<1>2. object.events \in Seq(EventSet)
  BY PatternFields
<1>3. \A e \in EventSet : EtsParseVibrateEvent(e) \in EventSet
  <2> SUFFICES ASSUME NEW e \in EventSet
               PROVE  EtsParseVibrateEvent(e) \in EventSet
    OBVIOUS
  <2> DEFINE D == [n \in Int |-> IF n = Missing THEN 0 ELSE n]
             s == Map(LAMBDA p : [p EXCEPT !.intensity = D[@], !.frequency = D[@]], e.points)
             d == D[e.duration]
             a == D[e.intensity]
             b == D[e.frequency]
             c == D[e.index]
  <2>1. e.points \in Seq(PointSet) /\ e.intensity \in Int /\ e.frequency \in Int
        /\ e.index \in Int /\ e.duration \in Int
    BY EventFields
  <2>2. D \in [Int -> Int] /\ d \in Int /\ a \in Int /\ b \in Int /\ c \in Int
    BY <2>1
  <2>3. s = Map(LAMBDA p : [p EXCEPT !.intensity = IF @ = Missing THEN 0 ELSE @,
                                     !.frequency = IF @ = Missing THEN 0 ELSE @], e.points)
    <3>1. DOMAIN e.points = 1 .. Len(e.points) /\ \A i \in DOMAIN e.points : e.points[i] \in PointSet
      BY <2>1
    <3>2. \A i \in DOMAIN e.points : e.points[i].intensity \in Int /\ e.points[i].frequency \in Int
      BY <3>1 DEF PointSet
    <3> QED
      BY <3>2 DEF Map
  <2>4. s \in Seq(PointSet)
    <3> HIDE DEF D
    <3> QED
      BY <2>1, <2>2, MapPoints
  <2>5. [e EXCEPT !.duration = d, !.intensity = a, !.frequency = b, !.index = c,
                  !.points = s] \in EventSet
    <3> HIDE DEF a, b, c, d, s
    <3> QED
      BY <2>2, <2>4, WithValues
  <2>6. EtsParseVibrateEvent(e)
          = [e EXCEPT !.duration = d, !.intensity = a, !.frequency = b, !.index = c, !.points = s]
    BY <2>1, <2>3 DEF EtsParseVibrateEvent
  <2> QED
    BY <2>5, <2>6
<1> DEFINE g == [e \in EventSet |-> EtsParseVibrateEvent(e)]
<1>4. g \in [EventSet -> EventSet] /\ Map(EtsParseVibrateEvent, object.events) = Apply(g, object.events)
  BY <1>2, <1>3 DEF Map, Apply
<1> HIDE DEF g
<1>5. Apply(g, object.events) \in Seq(EventSet)
  <2>1. \A u \in Seq(EventSet) : Apply(g, u) \in Seq(EventSet)
    BY <1>4, ApplySeq
  <2> QED
    BY <1>2, <2>1
<1>6. [object EXCEPT !.events = Apply(g, object.events)] \in PatternSet
  BY <1>5, WithEvents, Zenon
<1>7. EtsCheckVibratorPatternParameter(object)
        \subseteq {[object EXCEPT !.events = Map(EtsParseVibrateEvent, object.events)]}
  BY DEF EtsCheckVibratorPatternParameter, EtsParseVibratorPattern
<1> QED
  BY <1>1, <1>4, <1>6, <1>7

\* A pattern to be played: no event more, curves out of range left out.
LEMMA PlayType ==
  ASSUME NEW p \in PatternSet, NEW q \in InitPlayPattern(p)
  PROVE  q \in PatternSet /\ (p \in FitPatterns => q \in FitPatterns)
<1> DEFINE g == [e \in EventSet |-> WithCurveOrNone(e)]
           s == Apply(g, p.events)
           d == IF p.events = <<>> THEN 0 ELSE p.patternDuration
           q0 == [p EXCEPT !.events = s]
<1>1. p.events \in Seq(EventSet) /\ p.patternDuration \in Int /\ Len(p.events) \in Nat
      /\ DOMAIN p.events = 1 .. Len(p.events)
      /\ \A i \in 1 .. Len(p.events) : p.events[i] \in EventSet
  BY PatternFields
<1>2. g \in [EventSet -> EventSet] /\ \A e \in EventSet : g[e] = WithCurveOrNone(e)
  BY CurveOrNone
<1>3. Map(WithCurveOrNone, p.events) = s
  BY <1>1 DEF Map, Apply
<1> HIDE DEF g
<1>4. s \in Seq(EventSet) /\ Len(s) = Len(p.events)
  <2>1. \A u \in Seq(EventSet) : Apply(g, u) \in Seq(EventSet)
    BY <1>2, ApplySeq
  <2> QED
    BY <1>1, <2>1, ApplyLen
<1>5. p \in FitPatterns => s \in Seq(FitEvents)
  <2> DEFINE h == [e \in FitEvents |-> g[e]]
  <2>1. \A e \in FitEvents : g[e] \in FitEvents
    <3> SUFFICES ASSUME NEW e \in FitEvents
                 PROVE  g[e] \in FitEvents
      OBVIOUS
    <3>1. e \in EventSet
      BY DEF FitEvents
    <3>2. g[e] = WithCurveOrNone(e) /\ WithCurveOrNone(e) = e
      BY <1>2, <3>1, CurveOrNone DEF FitEvents
    <3> QED
      BY <3>2
  <2>2. h \in [FitEvents -> FitEvents] /\ \A e \in FitEvents : g[e] = h[e]
    BY <2>1
  <2> HIDE DEF h
  <2>3. \A u \in Seq(FitEvents) : Apply(g, u) = Apply(h, u) /\ Bind(g, u) = Bind(h, u)
    <3>1. \A e \in FitEvents : g[e] = h[e]
      BY <2>2
    <3> QED
      BY <3>1, ApplyAgree
  <2>4. \A u \in Seq(FitEvents) : Apply(h, u) \in Seq(FitEvents)
    <3>1. h \in [FitEvents -> FitEvents]
      BY <2>2
    <3> QED
      BY <3>1, ApplySeq
  <2>5. p \in FitPatterns => p.events \in Seq(FitEvents)
    BY DEF FitPatterns
  <2> QED
    BY <2>3, <2>4, <2>5, Zenon
<1> HIDE DEF s
<1>6. q0 \in PatternSet /\ q0.events = s
  BY <1>4, WithEvents, Zenon
<1>7. q = [q0 EXCEPT !.patternDuration = d]
  BY <1>3 DEF InitPlayPattern
<1>8. d \in Int
  BY <1>1
<1> HIDE DEF q0, d
<1>9. q \in PatternSet /\ q.events = s
  BY <1>6, <1>7, <1>8, WithDuration
<1>10. p \in FitPatterns => Len(p.events) <= MaxEventSize
  BY DEF FitPatterns
<1>11. p \in FitPatterns => q \in FitPatterns
  BY <1>4, <1>5, <1>9, <1>10, Zenon DEF FitPatterns
<1> QED
  BY <1>9, <1>11, Zenon

-----------------------------------------------------------------------------
(* What the application has.                                                 *)

\* The edits an application may have made.
EditSet ==
  [op : {"seek"}, seekTime : Int, curve : {<<>>}]
    \cup [op : {"modulate"}, seekTime : {0}, curve : CurveSet]

\* Everything has its type; before the application has anything there is nothing.
HistoryFits ==
  /\ package \in PackageSet /\ before \in PackageSet /\ edit \in Seq(EditSet)
  /\ stage = "idle" =>
       /\ source = NoSource /\ package = NoPackage /\ before = NoPackage /\ edit = <<>>

\* The last edit made the package of the one before.
EditMadeIt ==
  edit # <<>> =>
    /\ Last(edit).op = "seek" => package = SeekTimeOnPackage(before, Last(edit).seekTime)
    /\ Last(edit).op = "modulate" => package \in ModulatePackage(Last(edit).curve, before)

\* The packages that come of an OH file, and say how long they take.
IsTimed(p) == Len(p.patterns) <= MaxPatternNum /\ p.packageDuration = TotalDuration(Flattened(p))

\* What comes of a file fits into the structures.
FileFits ==
  source.kind = "file" =>
    /\ source.file \in Files
    /\ package \in FitPackages /\ before \in FitPackages
    /\ IsOh => IsTimed(package) /\ IsTimed(before)

\* What is as it was decoded plays the file.
FreshPlaysAll == IsFresh /\ IsOh => SplitsLosslessly(source.file, package)

\* The inductive invariant of what the application has.
HistoryInvariant == HistoryFits /\ EditMadeIt /\ FileFits /\ FreshPlaysAll

\* The empty package fits.
LEMMA NothingFits ==
  NoPackage \in FitPackages /\ IsTimed(NoPackage)
<1>1. NoPackage.patterns = <<>> /\ NoPackage.packageDuration = 0 /\ NoPackage \in PackageSet
  BY DEF NoPackage, Package, PackageSet
<1>2. NoPackage \in FitPackages
  <2>1. <<>> \in Seq(FitPatterns)
    OBVIOUS
  <2> QED
    BY <1>1, <2>1 DEF FitPackages
<1>3. Flattened(NoPackage) = <<>>
  BY <1>1, FlattenedIs, BindEmpty
<1>4. TotalDuration(<<>>) = 0
  <2>1. <<>> \in Seq(EventSet)
    BY CatEmpty
  <2>2. TotalDuration(<<>>) = SumOf(Apply(DurationOf, <<>>))
    BY <2>1, TotalDurationIs, Zenon
  <2> QED
    BY <2>2, ApplyEmpty, SumType
<1>5. 0 <= MaxPatternNum /\ Len(NoPackage.patterns) = 0
  BY <1>1, LimitsAssumption
<1> QED
  BY <1>1, <1>2, <1>3, <1>4, <1>5 DEF IsTimed

\* How a step may change what the application has: not at all, by decoding a
\* file, by taking a script's or its own pattern, by seeking, by modulating.
StaysSame ==
  /\ UNCHANGED <<source, package, before, edit>>
  /\ stage' = "held" => stage = "held"
  /\ stage' = "idle" => stage = "idle"

Decodes ==
  /\ stage = "idle" /\ stage' # "idle" /\ UNCHANGED <<before, edit>>
  /\ \E file \in Files :
       /\ source' = FromFile(file)
       /\ \/ UNCHANGED package /\ stage' = "refused"
          \/ \E p \in DecodeEffect(file) : \/ package' = ToApplication(p)
                                           \/ package' = p /\ stage' = "sent"

Takes ==
  /\ stage = "idle" /\ stage' # "idle" /\ UNCHANGED <<before, edit>>
  /\ source' \in {FromScript, FromNative}
  /\ package' = package \/ package' \in PackageSet

Seeks ==
  /\ stage = "held" /\ stage' = "held" /\ UNCHANGED source /\ before' = package
  /\ \E t \in SeekTimes :
       /\ edit' = Append(edit, [op |-> "seek", seekTime |-> t, curve |-> <<>>])
       /\ package' = SeekTimeOnPackage(package, t)

Modulates ==
  /\ stage = "held" /\ stage' = "held" /\ UNCHANGED source /\ before' = package
  /\ \E curve \in Curves :
       /\ edit' = Append(edit, [op |-> "modulate", seekTime |-> 0, curve |-> curve])
       /\ package' \in ModulatePackage(curve, package)

\* A pattern in a package of its own.
LEMMA OnePattern ==
  ASSUME NEW p \in PatternSet
  PROVE  /\ Package(0, <<p>>) \in PackageSet
         /\ Package(0, <<p>>).patterns = <<p>> /\ Package(0, <<p>>).packageDuration = 0
         /\ p \in FitPatterns => Package(0, <<p>>) \in FitPackages
<1> DEFINE q == Package(0, <<p>>)
<1>1. q.patterns = <<p>> /\ q.packageDuration = 0
  BY DEF Package
<1>2. q \in PackageSet
  BY DEF Package, PackageSet
<1>3. p \in FitPatterns => <<p>> \in Seq(FitPatterns)
  OBVIOUS
<1> HIDE DEF q
<1>4. p \in FitPatterns => q \in FitPackages
  BY <1>1, <1>2, <1>3 DEF FitPackages
<1> QED
  BY <1>1, <1>2, <1>4 DEF q

\* Every step is one of these.
LEMMA HistorySteps ==
  ASSUME [PipelineNext]_pipelineVars
  PROVE  StaysSame \/ Decodes \/ Takes \/ Seeks \/ Modulates
<1>1. ASSUME NEW file \in Files, PreProcess(file)
      PROVE  Decodes
  BY <1>1 DEF PreProcess, Fail, Decodes
<1>2. ASSUME NEW file \in Files, NEW info \in Infos, PlayVibratorCustom(file, info)
      PROVE  Decodes
  BY <1>2 DEF PlayVibratorCustom, Fail, Send, Decodes
<1>3. ASSUME NEW patterns, patterns \subseteq PatternSet, ScriptPattern(patterns)
      PROVE  Takes
  <2>1. \A p \in patterns : Package(0, <<p>>) \in PackageSet
    BY <1>3, OnePattern
  <2> QED
    BY <1>3, <2>1 DEF ScriptPattern, Fail, Takes
<1>4. ASSUME NEW calls \in Scripts, ScriptPattern(Build(calls))
      PROVE  Takes
  <2>1. calls \in Seq(EventSet)
    BY PipelineAssumption
  <2>2. Build(calls) \subseteq PatternSet
    BY <2>1, BuildType
  <2> QED
    BY <1>3, <1>4, <2>2
<1>5. ASSUME NEW object \in Objects,
             \/ ScriptPattern(CheckVibratorPatternParameter(object))
             \/ ScriptPattern(EtsCheckVibratorPatternParameter(object))
      PROVE  Takes
  <2>1. object \in PatternSet
    BY PipelineAssumption
  <2>2. /\ CheckVibratorPatternParameter(object) \subseteq PatternSet
        /\ EtsCheckVibratorPatternParameter(object) \subseteq PatternSet
    BY <2>1, ObjectType
  <2> QED
    BY <1>3, <1>5, <2>2
<1>6. ASSUME NEW p \in Natives, NativePackage(p)
      PROVE  Takes
  BY <1>6, PipelineAssumption DEF NativePackage, Takes
<1>7. ASSUME NEW seekTime \in SeekTimes, Seek(seekTime)
      PROVE  StaysSame \/ Seeks
  BY <1>7 DEF Seek, Edit, Fail, StaysSame, Seeks
<1>8. ASSUME NEW curve \in Curves, Modulate(curve)
      PROVE  StaysSame \/ Modulates
  BY <1>8 DEF Modulate, Edit, Fail, StaysSame, Modulates
<1>9. ASSUME NEW info \in Infos, NEW i \in DOMAIN package.patterns, PlayPattern(i, info)
      PROVE  StaysSame
  BY <1>9 DEF PlayPattern, Send, StaysSame
<1>10. ASSUME NEW info \in Infos, PlayPackageBySessionId(info)
       PROVE  StaysSame
  BY <1>10 DEF PlayPackageBySessionId, Send, StaysSame
<1>11. Receive => StaysSame
  BY DEF Receive, StaysSame
<1>12. PlayHd => StaysSame
  BY DEF PlayHd, StaysSame
<1>13. ASSUME NEW position \in Positions, PlayEffects(position) \/ PlayTimes(position)
       PROVE  StaysSame
  BY <1>13 DEF PlayEffects, PlayTimes, PlayComposite, StaysSame
<1>14. UNCHANGED pipelineVars => StaysSame
  BY DEF pipelineVars, StaysSame
<1> QED
  BY <1>1, <1>2, <1>4, <1>5, <1>6, <1>7, <1>8, <1>9, <1>10, <1>11, <1>12, <1>13, <1>14
  DEF PipelineNext

\* The invariant holds at the beginning.
LEMMA HistoryInit ==
  PipelineInit => HistoryInvariant
<1> SUFFICES ASSUME PipelineInit
             PROVE  HistoryInvariant
  OBVIOUS
<1>1. NoPackage \in PackageSet
  BY NothingFits DEF FitPackages
<1>2. HistoryFits
  BY <1>1 DEF HistoryFits, PipelineInit
<1>3. source.kind = "none" /\ edit = <<>>
  BY DEF PipelineInit, NoSource
<1> QED
  BY <1>2, <1>3 DEF HistoryInvariant, EditMadeIt, FileFits, FreshPlaysAll, IsFresh

\* What says how long it takes still does as the application's copy, and
\* plays the file when it did.
LEMMA CopyTimed ==
  ASSUME NEW p \in PackageSet, NEW q, q = ToApplication(p)
  PROVE  /\ IsTimed(p) => IsTimed(q)
         /\ \A file : SplitsLosslessly(file, p) => SplitsLosslessly(file, q)
<1>1. /\ q \in PackageSet /\ q.packageDuration = p.packageDuration
      /\ Copied(p.patterns, q.patterns) /\ Flattened(q) = Flattened(p)
  BY CopyKeeps
<1>2. Len(q.patterns) = Len(p.patterns)
      /\ \A k \in 1 .. Len(p.patterns) : q.patterns[k].events = p.patterns[k].events
  BY <1>1 DEF Copied
<1>3. IsTimed(p) => IsTimed(q)
  BY <1>1, <1>2 DEF IsTimed
<1>4. \A file : SplitsLosslessly(file, p) => SplitsLosslessly(file, q)
  BY <1>1, <1>2 DEF SplitsLosslessly
<1> QED
  BY <1>3, <1>4

\* What decoding a file gives.
LEMMA FromFileFits ==
  ASSUME NEW file \in Files, NEW p \in DecodeEffect(file)
  PROVE  /\ p \in FitPackages /\ ToApplication(p) \in FitPackages
         /\ "channels" \in DOMAIN file =>
              /\ IsTimed(p) /\ IsTimed(ToApplication(p))
              /\ SplitsLosslessly(file, p) /\ SplitsLosslessly(file, ToApplication(p))
<1>1. file \in OhFileSet \cup HeFileSet
  BY PipelineAssumption
<1>2. p \in FitPackages
      /\ ("channels" \in DOMAIN file =>
            Len(p.patterns) <= MaxPatternNum /\ SplitsLosslessly(file, p))
  BY <1>1, Decoded
<1>3. p \in PackageSet
  BY <1>2 DEF FitPackages
<1>4. "channels" \in DOMAIN file => IsTimed(p)
  BY <1>2 DEF SplitsLosslessly, IsTimed
<1>5. /\ IsTimed(p) => IsTimed(ToApplication(p))
      /\ SplitsLosslessly(file, p) => SplitsLosslessly(file, ToApplication(p))
  BY <1>3, CopyTimed
<1>6. ToApplication(p) \in FitPackages
  BY <1>2, <1>3, CopyKeeps
<1> QED
  BY <1>2, <1>4, <1>5, <1>6

\* An edit of the application keeps what comes of a file fitting.
LEMMA EditsKeep ==
  ASSUME NEW p \in PackageSet
  PROVE  /\ \A t \in SeekTimes :
              /\ SeekTimeOnPackage(p, t) \in PackageSet
              /\ p \in FitPackages => SeekTimeOnPackage(p, t) \in FitPackages
              /\ p \in FitPackages /\ IsTimed(p) => IsTimed(SeekTimeOnPackage(p, t))
         /\ \A curve \in Curves : \A q \in ModulatePackage(curve, p) :
              /\ q \in PackageSet
              /\ p \in FitPackages => q \in FitPackages
              /\ IsTimed(p) => IsTimed(q)
<1>1. ASSUME NEW t \in SeekTimes, NEW q, q = SeekTimeOnPackage(p, t)
      PROVE  /\ q \in PackageSet
             /\ p \in FitPackages => q \in FitPackages
             /\ p \in FitPackages /\ IsTimed(p) => IsTimed(q)
  <2>1. t \in Int
    BY PipelineAssumption
  <2>2. /\ q \in PackageSet /\ Len(q.patterns) <= Len(p.patterns)
        /\ p \in FitPackages => q \in FitPackages
        /\ /\ p \in FitPackages /\ Len(p.patterns) <= MaxPatternNum
           /\ p.packageDuration = TotalDuration(Flattened(p))
           => q.packageDuration = TotalDuration(Flattened(q))
    BY <1>1, <2>1, SeekKeeps
  <2>3. Len(p.patterns) \in Nat /\ Len(q.patterns) \in Nat
    BY <2>2, PackageFields
  <2>4. MaxPatternNum \in Nat
    BY LimitsAssumption
  <2>5. Len(p.patterns) <= MaxPatternNum => Len(q.patterns) <= MaxPatternNum
    BY <2>2, <2>3, <2>4
  <2> QED
    BY <2>2, <2>5 DEF IsTimed
<1>2. ASSUME NEW curve \in Curves, NEW q \in ModulatePackage(curve, p)
      PROVE  /\ q \in PackageSet
             /\ p \in FitPackages => q \in FitPackages
             /\ IsTimed(p) => IsTimed(q)
  <2>1. curve \in CurveSet
    BY PipelineAssumption
  <2> QED
    BY <1>2, <2>1, ModulateKeeps DEF IsTimed
<1> QED
  BY <1>1, <1>2

\* The edits that steps record.
LEMMA Recorded ==
  /\ \A t \in SeekTimes : [op |-> "seek", seekTime |-> t, curve |-> <<>>] \in EditSet
  /\ \A curve \in Curves : [op |-> "modulate", seekTime |-> 0, curve |-> curve] \in EditSet
  /\ \A s \in Seq(EditSet), x \in EditSet :
       Append(s, x) \in Seq(EditSet) /\ Append(s, x) # <<>> /\ Last(Append(s, x)) = x
<1>1. \A t \in SeekTimes : [op |-> "seek", seekTime |-> t, curve |-> <<>>] \in EditSet
  BY PipelineAssumption DEF EditSet
<1>2. \A curve \in Curves : [op |-> "modulate", seekTime |-> 0, curve |-> curve] \in EditSet
  BY PipelineAssumption DEF EditSet
<1>3. ASSUME NEW T, NEW s \in Seq(T), NEW x \in T
      PROVE  Append(s, x) \in Seq(T) /\ Append(s, x) # <<>> /\ Last(Append(s, x)) = x
  BY DEF Last
<1> QED
  BY <1>1, <1>2, <1>3

\* Every step preserves it.
LEMMA HistoryStep ==
  HistoryInvariant /\ [PipelineNext]_pipelineVars => HistoryInvariant'
<1> SUFFICES ASSUME HistoryInvariant, [PipelineNext]_pipelineVars
             PROVE  HistoryInvariant'
  OBVIOUS
<1> USE DEF HistoryInvariant
<1>1. CASE StaysSame
  <2>1. HistoryFits'
    BY <1>1 DEF HistoryFits, StaysSame
  <2>2. EditMadeIt'
    BY <1>1 DEF EditMadeIt, StaysSame
  <2>3. FileFits'
    BY <1>1 DEF FileFits, IsOh, StaysSame
  <2>4. FreshPlaysAll'
    BY <1>1 DEF FreshPlaysAll, IsFresh, IsOh, StaysSame
  <2> QED
    BY <2>1, <2>2, <2>3, <2>4
<1>2. CASE Decodes
  <2>1. PICK file \in Files :
          /\ source' = FromFile(file)
          /\ \/ UNCHANGED package /\ stage' = "refused"
             \/ \E p \in DecodeEffect(file) : \/ package' = ToApplication(p)
                                              \/ package' = p /\ stage' = "sent"
    BY <1>2 DEF Decodes
  <2>2. /\ package = NoPackage /\ before = NoPackage /\ edit = <<>> /\ stage' # "idle"
        /\ UNCHANGED <<before, edit>>
    BY <1>2 DEF Decodes, HistoryFits
  <2>3. NoPackage \in FitPackages /\ IsTimed(NoPackage)
    BY NothingFits
  <2>4. package' \in FitPackages
    BY <2>1, <2>2, <2>3, FromFileFits
  <2>5. "channels" \in DOMAIN file => IsTimed(package')
    BY <2>1, <2>2, <2>3, FromFileFits
  <2>6. "channels" \in DOMAIN file /\ stage' = "held" => SplitsLosslessly(file, package')
    BY <2>1, FromFileFits
  <2>7. source'.kind = "file" /\ source'.file = file
    BY <2>1 DEF FromFile
  <2>8. HistoryFits'
    BY <2>2, <2>4 DEF HistoryFits, FitPackages
  <2>9. EditMadeIt'
    BY <2>2 DEF EditMadeIt
  <2>10. FileFits'
    BY <2>2, <2>3, <2>4, <2>5, <2>7 DEF FileFits, IsOh, IsTimed
  <2>11. FreshPlaysAll'
    BY <2>6, <2>7 DEF FreshPlaysAll, IsFresh, IsOh
  <2> QED
    BY <2>8, <2>9, <2>10, <2>11
<1>3. CASE Takes
  <2>1. source'.kind # "file"
    BY <1>3 DEF Takes, FromScript, FromNative
  <2>2. edit' = <<>> /\ edit = <<>>
    BY <1>3 DEF Takes, HistoryFits
  <2>3. HistoryFits'
    BY <1>3 DEF HistoryFits, Takes
  <2> QED
    BY <2>1, <2>2, <2>3 DEF EditMadeIt, FileFits, FreshPlaysAll, IsFresh
<1>4. CASE Seeks
  <2>1. PICK t \in SeekTimes :
          /\ edit' = Append(edit, [op |-> "seek", seekTime |-> t, curve |-> <<>>])
          /\ package' = SeekTimeOnPackage(package, t)
    BY <1>4 DEF Seeks
  <2>2. stage' = "held" /\ source' = source /\ before' = package
    BY <1>4 DEF Seeks
  <2>3. edit' \in Seq(EditSet) /\ edit' # <<>>
        /\ Last(edit') = [op |-> "seek", seekTime |-> t, curve |-> <<>>]
    BY <2>1, Recorded DEF HistoryFits
  <2>4. /\ package' \in PackageSet
        /\ package \in FitPackages => package' \in FitPackages
        /\ package \in FitPackages /\ IsTimed(package) => IsTimed(package')
    BY <2>1, EditsKeep DEF HistoryFits
  <2>5. HistoryFits'
    BY <2>2, <2>3, <2>4 DEF HistoryFits
  <2>6. EditMadeIt'
    BY <2>1, <2>2, <2>3 DEF EditMadeIt
  <2>7. FileFits'
    BY <2>2, <2>4 DEF FileFits, IsOh, IsTimed
  <2>8. FreshPlaysAll'
    BY <2>3 DEF FreshPlaysAll, IsFresh
  <2> QED
    BY <2>5, <2>6, <2>7, <2>8
<1>5. CASE Modulates
  <2>1. PICK curve \in Curves :
          /\ edit' = Append(edit, [op |-> "modulate", seekTime |-> 0, curve |-> curve])
          /\ package' \in ModulatePackage(curve, package)
    BY <1>5 DEF Modulates
  <2>2. stage' = "held" /\ source' = source /\ before' = package
    BY <1>5 DEF Modulates
  <2>3. edit' \in Seq(EditSet) /\ edit' # <<>>
        /\ Last(edit') = [op |-> "modulate", seekTime |-> 0, curve |-> curve]
    BY <2>1, Recorded DEF HistoryFits
  <2>4. /\ package' \in PackageSet
        /\ package \in FitPackages => package' \in FitPackages
        /\ IsTimed(package) => IsTimed(package')
    BY <2>1, EditsKeep DEF HistoryFits
  <2>5. HistoryFits'
    BY <2>2, <2>3, <2>4 DEF HistoryFits
  <2>6. EditMadeIt'
    BY <2>1, <2>2, <2>3 DEF EditMadeIt
  <2>7. FileFits'
    BY <2>2, <2>4 DEF FileFits, IsOh, IsTimed
  <2>8. FreshPlaysAll'
    BY <2>3 DEF FreshPlaysAll, IsFresh
  <2> QED
    BY <2>5, <2>6, <2>7, <2>8
<1> QED
  BY <1>1, <1>2, <1>3, <1>4, <1>5, HistorySteps

\* What the application has is always of this kind.
THEOREM HistoryHolds ==
  PipelineSpec => []HistoryInvariant
<1> QED
  BY HistoryInit, HistoryStep, PTL DEF PipelineSpec

\* An OH file's events are split without a loss: SplitIsLossless, of the
\* package as it was decoded, is what the invariant says of it.
THEOREM Lossless ==
  PipelineSpec => []SplitIsLossless
<1>1. HistoryInvariant => SplitIsLossless
  <2> SUFFICES ASSUME HistoryInvariant, IsFresh, IsOh
               PROVE  LET items  == Map(Sketch, FlattenSeq(Map(LAMBDA c : c.pattern,
                                                              source.file.channels)))
                          events == Flattened(package)
                      IN  /\ Len(items) = Len(events)
                          /\ \A x \in Range(items) :
                               HowMany(x, items) = HowMany(x, Map(Sketch, events))
                          /\ InOrder(events)
                          /\ \A i \in DOMAIN package.patterns :
                               Len(package.patterns[i].events) \in 1 .. MaxEventSize
                          /\ \A i \in DOMAIN events :
                               \A j \in 2 .. Len(events[i].points) :
                                 events[i].points[j - 1].time <= events[i].points[j].time
                          /\ package.packageDuration = TotalDuration(events)
    BY Zenon DEF SplitIsLossless
  <2>1. SplitsLosslessly(source.file, package)
    BY DEF HistoryInvariant, FreshPlaysAll
  <2>2. package \in PackageSet
    BY DEF HistoryInvariant, HistoryFits
  <2>3. DOMAIN package.patterns = 1 .. Len(package.patterns)
    BY <2>2, PackageFields
  <2>4. Flattened(package) \in Seq(EventSet)
    BY <2>2, FlattenedType
  <2>5. DOMAIN Flattened(package) = 1 .. Len(Flattened(package))
    BY <2>4
  <2> QED
    BY <2>1, <2>3, <2>5, Zenon DEF SplitsLosslessly, ItemsOf, PointsInOrder
<1> QED
  BY <1>1, HistoryHolds, PTL

\* A package within the limits has patterns within the limits.
LEMMA Limited ==
  ASSUME NEW p \in PackageSet
  PROVE  /\ WithinLimits(p) => p.patterns \in Seq(LimitedPatterns)
         /\ p \in FitPackages => p.patterns \in Seq(LimitedPatterns)
<1>1. /\ p.patterns \in Seq(PatternSet) /\ DOMAIN p.patterns = 1 .. Len(p.patterns)
      /\ \A k \in 1 .. Len(p.patterns) : p.patterns[k] \in PatternSet
  BY PackageFields
<1>2. ASSUME WithinLimits(p), NEW k \in 1 .. Len(p.patterns)
      PROVE  p.patterns[k] \in LimitedPatterns
  <2> DEFINE q == p.patterns[k]
             s == q.events
  <2>1. /\ q \in PatternSet
        /\ s \in Seq(EventSet) /\ DOMAIN s = 1 .. Len(s)
        /\ \A j \in 1 .. Len(s) : s[j] \in EventSet
    BY <1>1, PatternFields
  <2>2. /\ Len(s) <= EventNumMax
        /\ \A j \in DOMAIN s : s[j].time >= 0 /\ (s[j].points # <<>> => IsCurve(s[j].points))
    BY <1>1, <1>2, Zenon DEF WithinLimits
  <2> HIDE DEF s, q
  <2>3. \A j \in 1 .. Len(s) : s[j] \in GoodEvents
    BY <2>1, <2>2, Zenon DEF GoodEvents
  <2>4. s \in Seq(GoodEvents)
    BY <2>1, <2>3
  <2> QED
    BY <2>1, <2>2, <2>4 DEF LimitedPatterns, s, q
<1>3. FitPatterns \subseteq LimitedPatterns
  BY FitIsLimited
<1>4. WithinLimits(p) => p.patterns \in Seq(LimitedPatterns)
  BY <1>1, <1>2
<1>5. p \in FitPackages => p.patterns \in Seq(LimitedPatterns)
  BY <1>3 DEF FitPackages
<1> QED
  BY <1>4, <1>5

\* Seeking plays on with what is left, and nothing else: SeekKeepsRest.
THEOREM SeekPlaysOn ==
  PipelineSpec => []SeekKeepsRest
<1>1. HistoryInvariant => SeekKeepsRest
  <2> SUFFICES ASSUME HistoryInvariant, LastEdit("seek"),
                      IsOh \/ Len(before.patterns) <= MaxPatternNum,
                      source.kind = "file" \/ WithinLimits(before)
               PROVE  /\ Flattened(package) =
                           FlattenSeq(Map(LAMBDA e : RestAt(e, Last(edit).seekTime),
                                          Flattened(before)))
                      /\ IsOh => package.packageDuration = TotalDuration(Flattened(package))
    BY Zenon DEF SeekKeepsRest
  <2> DEFINE t == Last(edit).seekTime
  <2>1. edit # <<>> /\ Last(edit).op = "seek"
    BY DEF LastEdit
  <2>2. package = SeekTimeOnPackage(before, t) /\ before \in PackageSet
    BY <2>1 DEF HistoryInvariant, EditMadeIt, HistoryFits
  <2>3. t \in Int
    <3>1. edit \in Seq(EditSet)
      BY DEF HistoryInvariant, HistoryFits
    <3>2. Last(edit) \in EditSet
      BY <2>1, <3>1 DEF Last
    <3> QED
      BY <3>2 DEF EditSet
  <2>4. source.kind = "file" => before \in FitPackages
    BY DEF HistoryInvariant, FileFits
  <2>5. IsOh => IsTimed(package) /\ IsTimed(before)
    BY DEF HistoryInvariant, FileFits, IsOh
  <2>6. Len(before.patterns) <= MaxPatternNum
    BY <2>5 DEF IsTimed
  <2>7. before.patterns \in Seq(LimitedPatterns)
    BY <2>2, <2>4, Limited
  <2> HIDE DEF t
  <2>8. Flattened(package) = Bind(RestOf(t), Flattened(before))
    BY <2>2, <2>3, <2>6, <2>7, SeekKeeps
  <2>9. Flattened(before) \in Seq(EventSet)
    BY <2>2, FlattenedType
  <2>10. FlattenSeq(Map(LAMBDA e : RestAt(e, t), Flattened(before)))
           = Bind(RestOf(t), Flattened(before))
    BY <2>3, <2>9, RestIs
  <2>11. IsOh => package.packageDuration = TotalDuration(Flattened(package))
    BY <2>5 DEF IsTimed
  <2> QED
    BY <2>8, <2>10, <2>11 DEF t
<1> QED
  BY <1>1, HistoryHolds, PTL

\* Modulation changes each event, or point, by the point of the curve that
\* governs its time: ModulatedPointwise.
THEOREM ModulatesPointwise ==
  PipelineSpec => []ModulatedPointwise
<1>1. HistoryInvariant => ModulatedPointwise
  <2> SUFFICES ASSUME HistoryInvariant, LastEdit("modulate"),
                      InOrder(Last(edit).curve.points)
               PROVE  LET curve == Last(edit).curve
                          old   == Flattened(before)
                          new   == Flattened(package)
                      IN  /\ Len(old) = Len(new)
                          /\ \A i \in DOMAIN old : ModulationOf(curve, old[i], new[i])
    BY Zenon DEF ModulatedPointwise, ModulationOf
  <2> DEFINE curve == Last(edit).curve
             old   == Flattened(before)
             new   == Flattened(package)
  <2>1. edit # <<>> /\ Last(edit).op = "modulate"
    BY DEF LastEdit
  <2>2. package \in ModulatePackage(curve, before) /\ before \in PackageSet
    BY <2>1 DEF HistoryInvariant, EditMadeIt, HistoryFits
  <2>3. curve \in CurveSet
    <3>1. edit \in Seq(EditSet)
      BY DEF HistoryInvariant, HistoryFits
    <3>2. Last(edit) \in EditSet
      BY <2>1, <3>1 DEF Last
    <3> QED
      BY <2>1, <3>2 DEF EditSet
  <2>4. InOrder(curve.points)
    OBVIOUS
  <2>5. old \in Seq(EventSet)
    BY <2>2, FlattenedType
  <2> HIDE DEF curve
  <2>6. Alike(old, new, ModulatedPairs(curve))
    BY <2>2, <2>3, <2>4, FlattenedModulated
  <2> HIDE DEF old, new
  <2>7. DOMAIN old = 1 .. Len(old)
    BY <2>5
  <2>8. /\ Len(old) = Len(new)
        /\ \A i \in DOMAIN old : <<old[i], new[i]>> \in ModulatedPairs(curve)
    BY <2>6, <2>7, Zenon DEF Alike
  <2>9. \A i \in DOMAIN old : ModulationOf(curve, old[i], new[i])
    <3>1. \A x, y : <<x, y>>[1] = x /\ <<x, y>>[2] = y
      OBVIOUS
    <3>2. \A x, y : <<x, y>> \in ModulatedPairs(curve) =>
                      ModulationOf(curve, <<x, y>>[1], <<x, y>>[2])
      BY Zenon DEF ModulatedPairs
    <3>3. \A x, y : <<x, y>> \in ModulatedPairs(curve) => ModulationOf(curve, x, y)
      BY <3>1, <3>2
    <3> QED
      BY <2>8, <3>3, Zenon
  <2> QED
    BY <2>8, <2>9, Zenon DEF curve, old, new
<1> QED
  BY <1>1, HistoryHolds, PTL

-----------------------------------------------------------------------------
(* What a parcel holds, and reading it.                                      *)

\* The parcel holds s from a on.
Held(parcel1, a, s) ==
  /\ a \in Nat /\ a >= 1
  /\ a + Len(s) <= Len(parcel1) + 1
  /\ \A i \in 1 .. Len(s) : parcel1[a + i - 1] = s[i]

\* It holds itself.
LEMMA HeldSelf ==
  ASSUME NEW s \in Seq(Int)
  PROVE  Held(s, 1, s)
BY DEF Held

\* Of two sequences it holds one after the other it holds each.
LEMMA HeldCat ==
  ASSUME NEW parcel1 \in Seq(Int), NEW a \in Int, NEW s \in Seq(Int), NEW t \in Seq(Int),
         Held(parcel1, a, Cat(s, t))
  PROVE  Held(parcel1, a, s) /\ Held(parcel1, a + Len(s), t)
<1>1. Len(Cat(s, t)) = Len(s) + Len(t) /\ Len(s) \in Nat /\ Len(t) \in Nat /\ Len(parcel1) \in Nat
  <2>1. \A x, y \in Seq(Int) : Len(Cat(x, y)) = Len(x) + Len(y)
    BY CatType
  <2>2. Len(Cat(s, t)) = Len(s) + Len(t)
    BY <2>1
  <2> QED
    BY <2>2
<1>2. /\ \A i \in 1 .. Len(s) : Cat(s, t)[i] = s[i]
      /\ \A i \in 1 .. Len(t) : Cat(s, t)[Len(s) + i] = t[i]
  <2>1. \A u, v \in Seq(Int) : Joins(Cat(u, v), u, v)
    BY CatJoins
  <2>2. Joins(Cat(s, t), s, t)
    BY <2>1, Zenon
  <2> QED
    BY <2>2 DEF Joins
<1>3. /\ a \in Nat /\ a >= 1
      /\ a + (Len(s) + Len(t)) <= Len(parcel1) + 1
      /\ \A i \in 1 .. Len(s) + Len(t) : parcel1[a + i - 1] = Cat(s, t)[i]
  BY <1>1 DEF Held
<1>4. \A i \in 1 .. Len(s) : parcel1[a + i - 1] = s[i]
  <2>1. \A i \in 1 .. Len(s) : i \in 1 .. Len(s) + Len(t)
    BY <1>1
  <2> QED
    BY <1>2, <1>3, <2>1, Zenon
<1>5. \A i \in 1 .. Len(t) : parcel1[(a + Len(s)) + i - 1] = t[i]
  <2> SUFFICES ASSUME NEW i \in 1 .. Len(t)
               PROVE  parcel1[(a + Len(s)) + i - 1] = t[i]
    OBVIOUS
  <2>1. Len(s) + i \in 1 .. Len(s) + Len(t)
    BY <1>1
  <2>2. (a + Len(s)) + i - 1 = a + (Len(s) + i) - 1
    BY <1>1
  <2> QED
    BY <1>2, <1>3, <2>1, <2>2
<1>6. (a + Len(s)) + Len(t) <= Len(parcel1) + 1 /\ a + Len(s) <= Len(parcel1) + 1
      /\ a + Len(s) \in Nat /\ a + Len(s) >= 1
  BY <1>1, <1>3
<1> QED
  BY <1>3, <1>4, <1>5, <1>6 DEF Held

\* Where the parts of what it holds begin.
BeginsAt(parcel1, ss, pos) ==
  /\ pos \in [0 .. Len(ss) -> Int]
  /\ pos[Len(ss)] = pos[0] + Len(FlattenSeq(ss))
  /\ \A k \in 1 .. Len(ss) :
       /\ pos[k] = pos[k - 1] + Len(ss[k])
       /\ Held(parcel1, pos[k - 1], ss[k])

\* Of a sequence of sequences the parcel holds each part, one after the other.
LEMMA HeldParts ==
  ASSUME NEW parcel1 \in Seq(Int), NEW a \in Int, NEW ss \in Seq(Seq(Int)),
         Held(parcel1, a, FlattenSeq(ss))
  PROVE  \E pos : BeginsAt(parcel1, ss, pos) /\ pos[0] = a
<1> DEFINE n == Len(ss)
<1>1. PICK c : Concats(c, ss, Int) /\ c[n] = FlattenSeq(ss)
  BY FlattenRuns
<1>2. /\ n \in Nat /\ \A k \in 1 .. n : ss[k] \in Seq(Int)
      /\ \A k \in 0 .. n : c[k] \in Seq(Int) /\ Len(c[k]) \in Nat
      /\ c[0] = <<>>
      /\ \A k \in 1 .. n : c[k] = Cat(c[k - 1], ss[k])
  <2>1. n \in Nat /\ \A k \in 1 .. n : ss[k] \in Seq(Int)
    OBVIOUS
  <2>2. /\ \A k \in 0 .. n : c[k] \in Seq(Int)
        /\ c[0] = <<>>
        /\ \A k \in 1 .. n : c[k] = c[k - 1] \o ss[k]
    BY <1>1 DEF Concats
  <2>3. \A x \in Seq(Int) : Len(x) \in Nat
    OBVIOUS
  <2>4. \A k \in 0 .. n : Len(c[k]) \in Nat
    BY <2>2, <2>3
  <2>5. \A k \in 1 .. n : c[k] = Cat(c[k - 1], ss[k])
    BY <2>2 DEF Cat
  <2> QED
    BY <2>1, <2>2, <2>4, <2>5
<1>3. Len(c[0]) = 0
  BY <1>2
<1> DEFINE S == {i \in 0 .. n : Held(parcel1, a, c[n - i])}
           pos == [k \in 0 .. n |-> a + Len(c[k])]
<1> HIDE DEF n
<1>4. \A k \in 1 .. n : Held(parcel1, a, c[k]) =>
        /\ Held(parcel1, a, c[k - 1]) /\ Held(parcel1, a + Len(c[k - 1]), ss[k])
        /\ Len(c[k]) = Len(c[k - 1]) + Len(ss[k])
  <2> SUFFICES ASSUME NEW k \in 1 .. n, Held(parcel1, a, c[k])
               PROVE  /\ Held(parcel1, a, c[k - 1]) /\ Held(parcel1, a + Len(c[k - 1]), ss[k])
                      /\ Len(c[k]) = Len(c[k - 1]) + Len(ss[k])
    OBVIOUS
  <2> DEFINE s == c[k - 1]
             t == ss[k]
  <2>1. s \in Seq(Int) /\ t \in Seq(Int) /\ c[k] = Cat(s, t)
    BY <1>2
  <2> HIDE DEF s, t
  <2>2. Held(parcel1, a, Cat(s, t))
    BY <2>1
  <2>3. Held(parcel1, a, s) /\ Held(parcel1, a + Len(s), t)
    BY <2>1, <2>2, HeldCat
  <2>4. Len(Cat(s, t)) = Len(s) + Len(t)
    BY <2>1, CatType
  <2> QED
    BY <2>1, <2>3, <2>4 DEF s, t
<1>5. \A i \in 0 .. n : i \in S
  <2>1. 0 \in S
    BY <1>1, <1>2 DEF n
  <2>2. ASSUME NEW i \in 1 .. n, i - 1 \in S
        PROVE  i \in S
    <3>1. Held(parcel1, a, c[n - (i - 1)]) /\ n - (i - 1) \in 1 .. n /\ n - (i - 1) - 1 = n - i
      BY <1>2, <2>2
    <3>2. Held(parcel1, a, c[(n - (i - 1)) - 1])
      BY <1>4, <3>1
    <3>3. Held(parcel1, a, c[n - i])
      BY <3>1, <3>2
    <3> QED
      BY <3>3
  <2> HIDE DEF S
  <2> QED
    BY <1>2, <2>1, <2>2, UpFromZero
<1>6. \A k \in 0 .. n : Held(parcel1, a, c[k])
  <2> SUFFICES ASSUME NEW k \in 0 .. n
               PROVE  Held(parcel1, a, c[k])
    OBVIOUS
  <2>1. n - k \in 0 .. n /\ n - (n - k) = k
    BY <1>2
  <2> QED
    BY <1>5, <2>1
<1>7. pos \in [0 .. n -> Int] /\ pos[0] = a /\ pos[n] = a + Len(FlattenSeq(ss))
  <2>1. 0 \in 0 .. n /\ n \in 0 .. n
    BY <1>2
  <2>2. \A k \in 0 .. n : a + Len(c[k]) \in Int
    BY <1>2
  <2>3. pos \in [0 .. n -> Int]
    BY <2>2
  <2>4. pos[0] = a + Len(c[0]) /\ pos[n] = a + Len(c[n])
    BY <2>1
  <2>5. a + Len(c[0]) = a
    BY <1>3
  <2> HIDE DEF pos
  <2> QED
    BY <1>1, <2>3, <2>4, <2>5
<1>8. \A k \in 1 .. n : pos[k] = pos[k - 1] + Len(ss[k]) /\ Held(parcel1, pos[k - 1], ss[k])
  <2> SUFFICES ASSUME NEW k \in 1 .. n
               PROVE  pos[k] = pos[k - 1] + Len(ss[k]) /\ Held(parcel1, pos[k - 1], ss[k])
    OBVIOUS
  <2>1. k \in 0 .. n /\ k - 1 \in 0 .. n
    BY <1>2
  <2>2. pos[k] = a + Len(c[k]) /\ pos[k - 1] = a + Len(c[k - 1])
    BY <2>1
  <2>3. Len(c[k]) = Len(c[k - 1]) + Len(ss[k]) /\ Held(parcel1, a + Len(c[k - 1]), ss[k])
    BY <1>4, <1>6, <2>1
  <2>4. Len(c[k - 1]) \in Nat /\ Len(ss[k]) \in Nat
    BY <1>2, <2>1
  <2>5. \A x, y \in Nat : a + (x + y) = (a + x) + y
    OBVIOUS
  <2>6. a + (Len(c[k - 1]) + Len(ss[k])) = (a + Len(c[k - 1])) + Len(ss[k])
    BY <2>4, <2>5
  <2> HIDE DEF pos
  <2>7. pos[k] = pos[k - 1] + Len(ss[k])
    BY <2>2, <2>3, <2>6, Zenon
  <2> QED
    BY <2>2, <2>3, <2>7, Zenon
<1> HIDE DEF pos
<1> QED
  BY <1>7, <1>8 DEF BeginsAt, n

\* Reading values one after the other, those of ok successfully: how far
\* reading is after each.
ReadSoFar(vals, pos, ok) ==
  [i \in 0 .. Len(vals) |-> IF 1 .. i \subseteq ok THEN Read(<<>>, pos[i], Part(vals, 1, i))
                            ELSE ReadRefused]

GoesOn(g, vals, pos, ok) ==
  /\ g = [i \in 0 .. Len(vals) |-> g[i]] /\ g[0] = Read(<<>>, pos[0], <<>>)
  /\ \A i \in 1 .. Len(vals) :
       /\ g[i - 1].ok => g[i - 1].at = pos[i - 1]
       /\ ~g[i - 1].ok => g[i] = ReadRefused
       /\ g[i - 1].ok /\ i \in ok =>
            g[i] = Read(<<>>, pos[i], Append(g[i - 1].value, vals[i]))
       /\ i \notin ok => g[i] = ReadRefused
  /\ 1 .. Len(vals) \subseteq ok => g[Len(vals)] = Read(<<>>, pos[Len(vals)], vals)
  /\ ~(1 .. Len(vals) \subseteq ok) => g[Len(vals)] = ReadRefused

\* Reading value by value goes on with the values that can be read.
LEMMA ReadsOn ==
  ASSUME NEW V, NEW vals \in Seq(V), NEW pos, NEW ok
  PROVE  GoesOn(ReadSoFar(vals, pos, ok), vals, pos, ok)
<1> DEFINE n == Len(vals)
           g == ReadSoFar(vals, pos, ok)
<1>1. n \in Nat
  OBVIOUS
<1>2. Part(vals, 1, 0) = <<>> /\ Part(vals, 1, n) = vals
  BY PartsCat
<1>3. \A i \in 1 .. n : Part(vals, 1, i) = Append(Part(vals, 1, i - 1), vals[i])
  BY DEF Part
<1>4. \A i \in 0 .. n : /\ 1 .. i \subseteq ok => g[i] = Read(<<>>, pos[i], Part(vals, 1, i))
                        /\ ~(1 .. i \subseteq ok) => g[i] = ReadRefused
  BY DEF ReadSoFar
<1>5. \A x, y : Read(<<>>, x, y).ok = TRUE /\ Read(<<>>, x, y).at = x
                /\ Read(<<>>, x, y).value = y
  BY DEF Read
<1>6. ~ReadRefused.ok
  BY DEF ReadRefused
<1>7. 1 .. 0 \subseteq ok
  OBVIOUS
<1>8. g[0] = Read(<<>>, pos[0], <<>>)
  BY <1>1, <1>2, <1>4, <1>7
<1>11. g = [i \in 0 .. n |-> g[i]]
  BY DEF ReadSoFar
<1> HIDE DEF n, g
<1>9. ASSUME NEW i \in 1 .. n
      PROVE  /\ g[i - 1].ok => g[i - 1].at = pos[i - 1]
             /\ ~g[i - 1].ok => g[i] = ReadRefused
             /\ g[i - 1].ok /\ i \in ok =>
                  g[i] = Read(<<>>, pos[i], Append(g[i - 1].value, vals[i]))
             /\ i \notin ok => g[i] = ReadRefused
  <2>1. i \in 0 .. n /\ i - 1 \in 0 .. n
    BY <1>1
  <2>2. CASE 1 .. (i - 1) \subseteq ok
    <3>1. g[i - 1] = Read(<<>>, pos[i - 1], Part(vals, 1, i - 1))
      BY <1>4, <2>1, <2>2
    <3>2. i \in ok => 1 .. i \subseteq ok
      BY <1>1, <2>2
    <3>3. i \notin ok => ~(1 .. i \subseteq ok)
      BY <1>1
    <3>4. i \in ok => g[i] = Read(<<>>, pos[i], Part(vals, 1, i))
      BY <1>4, <2>1, <3>2
    <3>5. i \notin ok => g[i] = ReadRefused
      BY <1>4, <2>1, <3>3
    <3>6. g[i - 1].ok /\ g[i - 1].at = pos[i - 1] /\ g[i - 1].value = Part(vals, 1, i - 1)
      BY <1>5, <3>1
    <3>7. Part(vals, 1, i) = Append(Part(vals, 1, i - 1), vals[i])
      BY <1>3
    <3> QED
      BY <3>4, <3>5, <3>6, <3>7
  <2>3. CASE ~(1 .. (i - 1) \subseteq ok)
    <3>1. ~(1 .. i \subseteq ok)
      BY <1>1, <2>3
    <3> QED
      BY <1>4, <1>6, <2>1, <2>3, <3>1
  <2> QED
    BY <2>2, <2>3
<1>10. n \in 0 .. n
  BY <1>1
<1> QED
  BY <1>2, <1>4, <1>8, <1>9, <1>10, <1>11 DEF GoesOn, n, g

\* Reading a value succeeds with it, and goes on where the next begins, or is refused.
MayRead(one, next, val) == one = ReadRefused \/ one = Read(<<>>, next, val)

\* How reading goes on from prev with what reading one more value gives.
After(prev, one) ==
  IF ~prev.ok THEN ReadRefused
  ELSE IF one.ok THEN Read(<<>>, one.at, Append(prev.value, one.value))
  ELSE ReadRefused

AllRead(g, vals, pos, one) ==
  /\ g = [i \in 0 .. Len(vals) |-> g[i]] /\ g[0] = Read(<<>>, pos[0], <<>>)
  /\ \A i \in 1 .. Len(vals) : /\ g[i - 1].ok => g[i - 1].at = pos[i - 1]
                               /\ g[i] = After(g[i - 1], one[i])
  /\ (\A i \in 1 .. Len(vals) : one[i].ok) => g[Len(vals)] = Read(<<>>, pos[Len(vals)], vals)
  /\ ~(\A i \in 1 .. Len(vals) : one[i].ok) => g[Len(vals)] = ReadRefused
  /\ \A f : f[0] = g[0] /\ (\A i \in 1 .. Len(vals) : f[i - 1] = g[i - 1] => f[i] = g[i])
            => f[Len(vals)] = g[Len(vals)]

\* Reading each value where it begins reads them all, or refuses.
LEMMA ReadsTo ==
  ASSUME NEW V, NEW vals \in Seq(V), NEW pos, NEW one,
         \A i \in 1 .. Len(vals) : MayRead(one[i], pos[i], vals[i])
  PROVE  \E g : AllRead(g, vals, pos, one)
<1> DEFINE n == Len(vals)
           ok == {i \in 1 .. n : one[i].ok}
           g == ReadSoFar(vals, pos, ok)
<1>1. n \in Nat
  OBVIOUS
<1>3. 1 .. n \subseteq ok <=> \A i \in 1 .. n : one[i].ok
  OBVIOUS
<1>4. \A i \in 1 .. n : i \in ok <=> one[i].ok
  OBVIOUS
<1> HIDE DEF ok
<1>5. GoesOn(g, vals, pos, ok)
  BY ReadsOn
<1> HIDE DEF g
<1>2. g = [i \in 0 .. n |-> g[i]]
  BY <1>5 DEF GoesOn
<1>6. /\ g[0] = Read(<<>>, pos[0], <<>>)
      /\ \A i \in 1 .. n :
           /\ g[i - 1].ok => g[i - 1].at = pos[i - 1]
           /\ ~g[i - 1].ok => g[i] = ReadRefused
           /\ g[i - 1].ok /\ i \in ok =>
                g[i] = Read(<<>>, pos[i], Append(g[i - 1].value, vals[i]))
           /\ i \notin ok => g[i] = ReadRefused
      /\ 1 .. n \subseteq ok => g[n] = Read(<<>>, pos[n], vals)
      /\ ~(1 .. n \subseteq ok) => g[n] = ReadRefused
  BY <1>5 DEF GoesOn
<1> HIDE DEF n
<1>7. ASSUME NEW i \in 1 .. n
      PROVE  g[i] = After(g[i - 1], one[i])
  <2>1. MayRead(one[i], pos[i], vals[i])
    BY DEF n
  <2>2. one[i].ok => one[i].at = pos[i] /\ one[i].value = vals[i]
    BY <2>1 DEF MayRead, Read, ReadRefused
  <2> QED
    BY <1>4, <1>6, <2>2 DEF After
<1>8. ASSUME NEW F, F[0] = g[0], \A i \in 1 .. n : F[i - 1] = g[i - 1] => F[i] = g[i]
      PROVE  F[n] = g[n]
  <2> DEFINE S == {i \in 0 .. n : F[i] = g[i]}
  <2>1. 0 \in S
    BY <1>1, <1>8
  <2>2. \A i \in 1 .. n : i - 1 \in S => i \in S
    BY <1>1, <1>8
  <2> HIDE DEF S
  <2>3. \A i \in 0 .. n : i \in S
    BY <1>1, <2>1, <2>2, UpFromZero
  <2>4. n \in S
    BY <1>1, <2>3
  <2> QED
    BY <2>4 DEF S
<1>9. (\A i \in 1 .. n : one[i].ok) => g[n] = Read(<<>>, pos[n], vals)
  BY <1>3, <1>6
<1>10. ~(\A i \in 1 .. n : one[i].ok) => g[n] = ReadRefused
  BY <1>3, <1>6
<1>11. \A F : F[0] = g[0] /\ (\A i \in 1 .. n : F[i - 1] = g[i - 1] => F[i] = g[i]) => F[n] = g[n]
  BY <1>8
<1>12. \A i \in 1 .. n : /\ g[i - 1].ok => g[i - 1].at = pos[i - 1]
                         /\ g[i] = After(g[i - 1], one[i])
  BY <1>6, <1>7
<1> QED
  <2>1. AllRead(g, vals, pos, one)
    BY <1>2, <1>6, <1>9, <1>10, <1>11, <1>12, Zenon DEF n, AllRead
  <2> QED
    BY <2>1

\* Reading points, each of which may be refused, gives all of them or is refused.
LEMMA ReadPoints ==
  ASSUME NEW parcel1, NEW vals \in Seq(PointSet), NEW pos,
         \A i \in 1 .. Len(vals) : MayRead(ReadPoint(parcel1, pos[i - 1]), pos[i], vals[i])
  PROVE  LET all  == \A i \in 1 .. Len(vals) : ReadPoint(parcel1, pos[i - 1]).ok
             read == ReadMany(ReadPoint, parcel1, pos[0], Len(vals))
         IN  /\ all => read = Read(<<>>, pos[Len(vals)], vals)
             /\ ~all => read = ReadRefused
<1> DEFINE n == Len(vals)
           one == [i \in 1 .. n |-> ReadPoint(parcel1, pos[i - 1])]
           Body(f, i) == IF i = 0 THEN Read(parcel1, pos[0], <<>>)
                         ELSE IF ~f[i - 1].ok THEN ReadRefused
                         ELSE LET next == ReadPoint(parcel1, f[i - 1].at)
                              IN  IF next.ok THEN Read(parcel1, next.at,
                                                       Append(f[i - 1].value, next.value))
                                  ELSE ReadRefused
           Eq(f) == f = [i \in 0 .. n |-> Body(f, i)]
           F == CHOOSE f : Eq(f)
<1>1. n \in Nat
  OBVIOUS
<1>2. \A i \in 1 .. n : one[i] = ReadPoint(parcel1, pos[i - 1])
  OBVIOUS
<1>3. \A i \in 1 .. n : MayRead(one[i], pos[i], vals[i])
  BY <1>2
<1> HIDE DEF one
<1>4. PICK g : AllRead(g, vals, pos, one)
  BY <1>3, ReadsTo
<1>12. /\ g = [i \in 0 .. n |-> g[i]] /\ g[0] = Read(<<>>, pos[0], <<>>)
       /\ \A i \in 1 .. n : /\ g[i - 1].ok => g[i - 1].at = pos[i - 1]
                            /\ g[i] = After(g[i - 1], one[i])
       /\ (\A i \in 1 .. n : one[i].ok) => g[n] = Read(<<>>, pos[n], vals)
       /\ ~(\A i \in 1 .. n : one[i].ok) => g[n] = ReadRefused
  BY <1>4 DEF AllRead
<1>13. \A f : f[0] = g[0] /\ (\A i \in 1 .. n : f[i - 1] = g[i - 1] => f[i] = g[i])
              => f[n] = g[n]
  BY <1>4 DEF AllRead
<1> HIDE DEF n
<1>5. \A f : Body(f, 0) = g[0]
  BY <1>12 DEF Read
<1>6. ASSUME NEW f, NEW i \in 1 .. n, f[i - 1] = g[i - 1]
      PROVE  Body(f, i) = g[i]
  <2>1. i # 0
    BY <1>1
  <2>4. g[i] = After(g[i - 1], one[i])
    BY <1>12, Zenon
  <2>2. g[i - 1].ok => ReadPoint(parcel1, f[i - 1].at) = one[i]
    BY <1>2, <1>12, <1>6
  <2>3. \A x, y : Read(parcel1, x, y) = Read(<<>>, x, y)
    BY DEF Read
  <2> QED
    BY <1>6, <2>1, <2>2, <2>3, <2>4 DEF After
<1> HIDE DEF Body
<1>7. Eq(g)
  <2>1. \A i \in 0 .. n : i = 0 \/ i \in 1 .. n
    BY <1>1
  <2>2. \A i \in 0 .. n : Body(g, i) = g[i]
    BY <1>5, <1>6, <2>1
  <2> QED
    BY <1>12, <2>2
<1>8. Eq(F)
  <2> HIDE DEF Eq
  <2> QED
    BY <1>7
<1>9. ReadMany(ReadPoint, parcel1, pos[0], n)
        = IF n <= 0 THEN Read(parcel1, pos[0], <<>>) ELSE F[n]
  BY DEF ReadMany, Body
<1> HIDE DEF F
<1>10. F[0] = g[0] /\ \A i \in 1 .. n : F[i - 1] = g[i - 1] => F[i] = g[i]
  <2>1. \A i \in 0 .. n : F[i] = Body(F, i)
    BY <1>8
  <2>2. 0 \in 0 .. n /\ \A i \in 1 .. n : i \in 0 .. n
    BY <1>1
  <2> QED
    BY <1>5, <1>6, <2>1, <2>2
<1>11. ReadMany(ReadPoint, parcel1, pos[0], n) = g[n]
  <2>1. n <= 0 => n = 0
    BY <1>1
  <2>2. F[n] = g[n]
    BY <1>10, <1>13
  <2>3. n <= 0 => Read(parcel1, pos[0], <<>>) = g[n]
    BY <1>12, <2>1 DEF Read
  <2> QED
    BY <1>9, <2>2, <2>3
<1> QED
  BY <1>2, <1>12, <1>11 DEF n

\* Reading events, each of which may be refused, gives all of them or is refused.
LEMMA ReadEvents ==
  ASSUME NEW parcel1, NEW vals \in Seq(EventSet), NEW pos,
         \A i \in 1 .. Len(vals) : MayRead(ReadEvent(parcel1, pos[i - 1]), pos[i], vals[i])
  PROVE  LET all  == \A i \in 1 .. Len(vals) : ReadEvent(parcel1, pos[i - 1]).ok
             read == ReadMany(ReadEvent, parcel1, pos[0], Len(vals))
         IN  /\ all => read = Read(<<>>, pos[Len(vals)], vals)
             /\ ~all => read = ReadRefused
<1> DEFINE n == Len(vals)
           one == [i \in 1 .. n |-> ReadEvent(parcel1, pos[i - 1])]
           Body(f, i) == IF i = 0 THEN Read(parcel1, pos[0], <<>>)
                         ELSE IF ~f[i - 1].ok THEN ReadRefused
                         ELSE LET next == ReadEvent(parcel1, f[i - 1].at)
                              IN  IF next.ok THEN Read(parcel1, next.at,
                                                       Append(f[i - 1].value, next.value))
                                  ELSE ReadRefused
           Eq(f) == f = [i \in 0 .. n |-> Body(f, i)]
           F == CHOOSE f : Eq(f)
<1>1. n \in Nat
  OBVIOUS
<1>2. \A i \in 1 .. n : one[i] = ReadEvent(parcel1, pos[i - 1])
  OBVIOUS
<1>3. \A i \in 1 .. n : MayRead(one[i], pos[i], vals[i])
  BY <1>2
<1> HIDE DEF one
<1>4. PICK g : AllRead(g, vals, pos, one)
  BY <1>3, ReadsTo
<1>12. /\ g = [i \in 0 .. n |-> g[i]] /\ g[0] = Read(<<>>, pos[0], <<>>)
       /\ \A i \in 1 .. n : /\ g[i - 1].ok => g[i - 1].at = pos[i - 1]
                            /\ g[i] = After(g[i - 1], one[i])
       /\ (\A i \in 1 .. n : one[i].ok) => g[n] = Read(<<>>, pos[n], vals)
       /\ ~(\A i \in 1 .. n : one[i].ok) => g[n] = ReadRefused
  BY <1>4 DEF AllRead
<1>13. \A f : f[0] = g[0] /\ (\A i \in 1 .. n : f[i - 1] = g[i - 1] => f[i] = g[i])
              => f[n] = g[n]
  BY <1>4 DEF AllRead
<1> HIDE DEF n
<1>5. \A f : Body(f, 0) = g[0]
  BY <1>12 DEF Read
<1>6. ASSUME NEW f, NEW i \in 1 .. n, f[i - 1] = g[i - 1]
      PROVE  Body(f, i) = g[i]
  <2>1. i # 0
    BY <1>1
  <2>4. g[i] = After(g[i - 1], one[i])
    BY <1>12, Zenon
  <2>2. g[i - 1].ok => ReadEvent(parcel1, f[i - 1].at) = one[i]
    BY <1>2, <1>12, <1>6
  <2>3. \A x, y : Read(parcel1, x, y) = Read(<<>>, x, y)
    BY DEF Read
  <2> QED
    BY <1>6, <2>1, <2>2, <2>3, <2>4 DEF After
<1> HIDE DEF Body
<1>7. Eq(g)
  <2>1. \A i \in 0 .. n : i = 0 \/ i \in 1 .. n
    BY <1>1
  <2>2. \A i \in 0 .. n : Body(g, i) = g[i]
    BY <1>5, <1>6, <2>1
  <2> QED
    BY <1>12, <2>2
<1>8. Eq(F)
  <2> HIDE DEF Eq
  <2> QED
    BY <1>7
<1>9. ReadMany(ReadEvent, parcel1, pos[0], n)
        = IF n <= 0 THEN Read(parcel1, pos[0], <<>>) ELSE F[n]
  BY DEF ReadMany, Body
<1> HIDE DEF F
<1>10. F[0] = g[0] /\ \A i \in 1 .. n : F[i - 1] = g[i - 1] => F[i] = g[i]
  <2>1. \A i \in 0 .. n : F[i] = Body(F, i)
    BY <1>8
  <2>2. 0 \in 0 .. n /\ \A i \in 1 .. n : i \in 0 .. n
    BY <1>1
  <2> QED
    BY <1>5, <1>6, <2>1, <2>2
<1>11. ReadMany(ReadEvent, parcel1, pos[0], n) = g[n]
  <2>1. n <= 0 => n = 0
    BY <1>1
  <2>2. F[n] = g[n]
    BY <1>10, <1>13
  <2>3. n <= 0 => Read(parcel1, pos[0], <<>>) = g[n]
    BY <1>12, <2>1 DEF Read
  <2> QED
    BY <1>9, <2>2, <2>3
<1> QED
  BY <1>2, <1>12, <1>11 DEF n

\* Reading patterns, each of which may be refused, gives all of them or is refused.
LEMMA ReadPatterns ==
  ASSUME NEW parcel1, NEW vals \in Seq(PatternSet), NEW pos,
         \A i \in 1 .. Len(vals) : MayRead(ReadPattern(parcel1, pos[i - 1]), pos[i], vals[i])
  PROVE  LET all  == \A i \in 1 .. Len(vals) : ReadPattern(parcel1, pos[i - 1]).ok
             read == ReadMany(ReadPattern, parcel1, pos[0], Len(vals))
         IN  /\ all => read = Read(<<>>, pos[Len(vals)], vals)
             /\ ~all => read = ReadRefused
<1> DEFINE n == Len(vals)
           one == [i \in 1 .. n |-> ReadPattern(parcel1, pos[i - 1])]
           Body(f, i) == IF i = 0 THEN Read(parcel1, pos[0], <<>>)
                         ELSE IF ~f[i - 1].ok THEN ReadRefused
                         ELSE LET next == ReadPattern(parcel1, f[i - 1].at)
                              IN  IF next.ok THEN Read(parcel1, next.at,
                                                       Append(f[i - 1].value, next.value))
                                  ELSE ReadRefused
           Eq(f) == f = [i \in 0 .. n |-> Body(f, i)]
           F == CHOOSE f : Eq(f)
<1>1. n \in Nat
  OBVIOUS
<1>2. \A i \in 1 .. n : one[i] = ReadPattern(parcel1, pos[i - 1])
  OBVIOUS
<1>3. \A i \in 1 .. n : MayRead(one[i], pos[i], vals[i])
  BY <1>2
<1> HIDE DEF one
<1>4. PICK g : AllRead(g, vals, pos, one)
  BY <1>3, ReadsTo
<1>12. /\ g = [i \in 0 .. n |-> g[i]] /\ g[0] = Read(<<>>, pos[0], <<>>)
       /\ \A i \in 1 .. n : /\ g[i - 1].ok => g[i - 1].at = pos[i - 1]
                            /\ g[i] = After(g[i - 1], one[i])
       /\ (\A i \in 1 .. n : one[i].ok) => g[n] = Read(<<>>, pos[n], vals)
       /\ ~(\A i \in 1 .. n : one[i].ok) => g[n] = ReadRefused
  BY <1>4 DEF AllRead
<1>13. \A f : f[0] = g[0] /\ (\A i \in 1 .. n : f[i - 1] = g[i - 1] => f[i] = g[i])
              => f[n] = g[n]
  BY <1>4 DEF AllRead
<1> HIDE DEF n
<1>5. \A f : Body(f, 0) = g[0]
  BY <1>12 DEF Read
<1>6. ASSUME NEW f, NEW i \in 1 .. n, f[i - 1] = g[i - 1]
      PROVE  Body(f, i) = g[i]
  <2>1. i # 0
    BY <1>1
  <2>4. g[i] = After(g[i - 1], one[i])
    BY <1>12, Zenon
  <2>2. g[i - 1].ok => ReadPattern(parcel1, f[i - 1].at) = one[i]
    BY <1>2, <1>12, <1>6
  <2>3. \A x, y : Read(parcel1, x, y) = Read(<<>>, x, y)
    BY DEF Read
  <2> QED
    BY <1>6, <2>1, <2>2, <2>3, <2>4 DEF After
<1> HIDE DEF Body
<1>7. Eq(g)
  <2>1. \A i \in 0 .. n : i = 0 \/ i \in 1 .. n
    BY <1>1
  <2>2. \A i \in 0 .. n : Body(g, i) = g[i]
    BY <1>5, <1>6, <2>1
  <2> QED
    BY <1>12, <2>2
<1>8. Eq(F)
  <2> HIDE DEF Eq
  <2> QED
    BY <1>7
<1>9. ReadMany(ReadPattern, parcel1, pos[0], n)
        = IF n <= 0 THEN Read(parcel1, pos[0], <<>>) ELSE F[n]
  BY DEF ReadMany, Body
<1> HIDE DEF F
<1>10. F[0] = g[0] /\ \A i \in 1 .. n : F[i - 1] = g[i - 1] => F[i] = g[i]
  <2>1. \A i \in 0 .. n : F[i] = Body(F, i)
    BY <1>8
  <2>2. 0 \in 0 .. n /\ \A i \in 1 .. n : i \in 0 .. n
    BY <1>1
  <2> QED
    BY <1>5, <1>6, <2>1, <2>2
<1>11. ReadMany(ReadPattern, parcel1, pos[0], n) = g[n]
  <2>1. n <= 0 => n = 0
    BY <1>1
  <2>2. F[n] = g[n]
    BY <1>10, <1>13
  <2>3. n <= 0 => Read(parcel1, pos[0], <<>>) = g[n]
    BY <1>12, <2>1 DEF Read
  <2> QED
    BY <1>9, <2>2, <2>3
<1> QED
  BY <1>2, <1>12, <1>11 DEF n

-----------------------------------------------------------------------------
(* A point, an event, a pattern and a package in a parcel.                   *)

\* What is written of a point is read back.
LEMMA PointRead ==
  ASSUME NEW p \in PointSet
  PROVE  /\ WritePoint(p) \in Seq(Int) /\ Len(WritePoint(p)) = 3
         /\ \A parcel1 \in Seq(Int), a \in Int : Held(parcel1, a, WritePoint(p)) =>
              ReadPoint(parcel1, a) = Read(<<>>, a + 3, p)
<1>1. p.time \in Int /\ p.intensity \in Int /\ p.frequency \in Int
      /\ p = [time |-> p.time, intensity |-> p.intensity, frequency |-> p.frequency]
  BY DEF PointSet
<1>2. WritePoint(p) \in Seq(Int) /\ Len(WritePoint(p)) = 3
      /\ WritePoint(p)[1] = p.time /\ WritePoint(p)[2] = p.intensity
      /\ WritePoint(p)[3] = p.frequency
  BY <1>1 DEF WritePoint
<1>3. ASSUME NEW parcel1 \in Seq(Int), NEW a \in Int, Held(parcel1, a, WritePoint(p))
      PROVE  ReadPoint(parcel1, a) = Read(<<>>, a + 3, p)
  <2>1. a + 3 <= Len(parcel1) + 1
        /\ \A i \in 1 .. 3 : parcel1[a + i - 1] = WritePoint(p)[i]
    BY <1>2, <1>3 DEF Held
  <2>2. a + 1 - 1 = a /\ a + 2 - 1 = a + 1 /\ a + 3 - 1 = a + 2
    OBVIOUS
  <2>3. parcel1[a + 1 - 1] = p.time /\ parcel1[a + 2 - 1] = p.intensity
        /\ parcel1[a + 3 - 1] = p.frequency
    <3>1. 1 \in 1 .. 3 /\ 2 \in 1 .. 3 /\ 3 \in 1 .. 3
      OBVIOUS
    <3> QED
      BY <1>2, <2>1, <3>1, Zenon
  <2>4. parcel1[a] = p.time /\ parcel1[a + 1] = p.intensity /\ parcel1[a + 2] = p.frequency
    BY <2>2, <2>3
  <2>5. ~(a + 2 > Len(parcel1))
    BY <2>1
  <2> QED
    BY <1>1, <2>4, <2>5 DEF ReadPoint, Read, Point
<1> QED
  BY <1>2, <1>3

\* Whether the structures take an event, a pattern, a package.
EventFits(e) == e.tag \in {EVENT_TAG_CONTINUOUS, EVENT_TAG_TRANSIENT} /\ Len(e.points) <= MaxPointSize

PatternTaken(p) ==
  Len(p.events) <= MaxEventSize /\ \A i \in 1 .. Len(p.events) : EventFits(p.events[i])

PackageTaken(p) ==
  Len(p.patterns) <= MaxPatternNum /\ \A i \in 1 .. Len(p.patterns) : PatternTaken(p.patterns[i])

\* The integers written of a list, one value after the other.
LEMMA WrittenPoints ==
  ASSUME NEW s \in Seq(PointSet)
  PROVE  /\ Map(WritePoint, s) \in Seq(Seq(Int)) /\ Len(Map(WritePoint, s)) = Len(s)
         /\ \A i \in 1 .. Len(s) : Map(WritePoint, s)[i] = WritePoint(s[i])
         /\ FlattenSeq(Map(WritePoint, s)) \in Seq(Int)
<1>1. \A i \in 1 .. Len(s) : s[i] \in PointSet
  OBVIOUS
<1>2. \A i \in 1 .. Len(s) : WritePoint(s[i]) \in Seq(Int)
  BY <1>1, PointRead
<1>3. Map(WritePoint, s) \in [1 .. Len(s) -> Seq(Int)]
      /\ \A i \in 1 .. Len(s) : Map(WritePoint, s)[i] = WritePoint(s[i])
  BY <1>2 DEF Map
<1>4. Map(WritePoint, s) \in Seq(Seq(Int)) /\ Len(Map(WritePoint, s)) = Len(s)
  <2> DEFINE m == Map(WritePoint, s)
             n == Len(s)
             T == Seq(Int)
  <2>1. m \in [1 .. n -> T] /\ n \in Nat
    BY <1>3
  <2> HIDE DEF m, n, T
  <2>2. m \in Seq(T) /\ Len(m) = n
    BY <2>1, FunctionIsSeq
  <2> QED
    BY <2>2 DEF m, n, T
<1> QED
  BY <1>3, <1>4, FlattenType

\* The points of an event, in a parcel.
LEMMA PointsRead ==
  ASSUME NEW s \in Seq(PointSet), NEW parcel1 \in Seq(Int), NEW a \in Int,
         Held(parcel1, a, FlattenSeq(Map(WritePoint, s)))
  PROVE  ReadMany(ReadPoint, parcel1, a, Len(s))
           = Read(<<>>, a + Len(FlattenSeq(Map(WritePoint, s))), s)
<1> DEFINE ss == Map(WritePoint, s)
<1>1. /\ ss \in Seq(Seq(Int)) /\ Len(ss) = Len(s)
      /\ \A i \in 1 .. Len(s) : ss[i] = WritePoint(s[i])
  BY WrittenPoints
<1> HIDE DEF ss
<1>2. PICK pos : BeginsAt(parcel1, ss, pos) /\ pos[0] = a
  <2>1. Held(parcel1, a, FlattenSeq(ss))
    BY DEF ss
  <2> QED
    BY <1>1, <2>1, HeldParts
<1>3. /\ pos \in [0 .. Len(s) -> Int] /\ pos[Len(s)] = a + Len(FlattenSeq(ss))
      /\ \A k \in 1 .. Len(s) : /\ pos[k] = pos[k - 1] + Len(ss[k])
                                /\ Held(parcel1, pos[k - 1], ss[k])
  BY <1>1, <1>2 DEF BeginsAt
<1>4. ASSUME NEW i \in 1 .. Len(s)
      PROVE  ReadPoint(parcel1, pos[i - 1]) = Read(<<>>, pos[i], s[i])
  <2>1. s[i] \in PointSet /\ ss[i] = WritePoint(s[i]) /\ pos[i - 1] \in Int
    <3>1. i - 1 \in 0 .. Len(s)
      OBVIOUS
    <3>2. pos[i - 1] \in Int
      BY <1>3, <3>1
    <3>3. ss[i] = WritePoint(s[i])
      BY <1>1, Zenon
    <3> QED
      BY <3>2, <3>3
  <2>2. /\ Len(WritePoint(s[i])) = 3
        /\ \A x \in Int : Held(parcel1, x, WritePoint(s[i])) =>
             ReadPoint(parcel1, x) = Read(<<>>, x + 3, s[i])
    BY <2>1, PointRead
  <2>3. pos[i] = pos[i - 1] + 3 /\ Held(parcel1, pos[i - 1], WritePoint(s[i]))
    BY <1>3, <2>1, <2>2
  <2> QED
    BY <2>1, <2>2, <2>3
<1>5. \A i \in 1 .. Len(s) : MayRead(ReadPoint(parcel1, pos[i - 1]), pos[i], s[i])
  BY <1>4 DEF MayRead
<1>6. \A i \in 1 .. Len(s) : ReadPoint(parcel1, pos[i - 1]).ok
  <2>1. \A x, y : Read(<<>>, x, y).ok
    BY DEF Read
  <2> QED
    BY <1>4, <2>1, Zenon
<1>7. ReadMany(ReadPoint, parcel1, pos[0], Len(s)) = Read(<<>>, pos[Len(s)], s)
  BY <1>5, <1>6, ReadPoints
<1> QED
  BY <1>2, <1>3, <1>7 DEF ss

\* What is written of an event is read back, if the structures take it.
LEMMA EventRead ==
  ASSUME NEW e \in EventSet
  PROVE  /\ WriteEvent(e) \in Seq(Int)
         /\ \A parcel1 \in Seq(Int), a \in Int : Held(parcel1, a, WriteEvent(e)) =>
              /\ EventFits(e) => ReadEvent(parcel1, a) = Read(<<>>, a + Len(WriteEvent(e)), e)
              /\ ~EventFits(e) => ReadEvent(parcel1, a) = ReadRefused
<1> DEFINE h == <<e.tag, e.time, e.duration, e.intensity, e.frequency, e.index, Len(e.points)>>
           w == FlattenSeq(Map(WritePoint, e.points))
<1>1. /\ e.tag \in Int /\ e.time \in Int /\ e.duration \in Int /\ e.intensity \in Int
      /\ e.frequency \in Int /\ e.index \in Int /\ e.points \in Seq(PointSet)
  BY EventFields
<1>2. w \in Seq(Int)
  BY <1>1, WrittenPoints
<1>3. /\ h \in Seq(Int) /\ Len(h) = 7
      /\ h[1] = e.tag /\ h[2] = e.time /\ h[3] = e.duration /\ h[4] = e.intensity
      /\ h[5] = e.frequency /\ h[6] = e.index /\ h[7] = Len(e.points)
  BY <1>1
<1>4. WriteEvent(e) = Cat(h, w)
  BY DEF WriteEvent, Cat
<1> HIDE DEF h, w
<1>5. Cat(h, w) \in Seq(Int) /\ Len(Cat(h, w)) = 7 + Len(w)
  <2>1. \A x, y \in Seq(Int) : Cat(x, y) \in Seq(Int) /\ Len(Cat(x, y)) = Len(x) + Len(y)
    BY CatType
  <2> QED
    BY <1>2, <1>3, <2>1
<1>6. ASSUME NEW parcel1 \in Seq(Int), NEW a \in Int, Held(parcel1, a, WriteEvent(e))
      PROVE  /\ EventFits(e) => ReadEvent(parcel1, a) = Read(<<>>, a + Len(WriteEvent(e)), e)
             /\ ~EventFits(e) => ReadEvent(parcel1, a) = ReadRefused
  <2> DEFINE pts == ReadMany(ReadPoint, parcel1, a + 7, Len(e.points))
             back == [Event(e.tag, e.time, e.duration, e.intensity, e.frequency, e.points)
                        EXCEPT !.index = e.index]
  <2>1. Held(parcel1, a, h) /\ Held(parcel1, a + 7, w)
    <3>1. Held(parcel1, a, Cat(h, w))
      BY <1>4, <1>6
    <3>2. Held(parcel1, a, h) /\ Held(parcel1, a + Len(h), w)
      BY <1>2, <1>3, <3>1, HeldCat
    <3> QED
      BY <1>3, <3>2
  <2>2. a + 7 <= Len(parcel1) + 1 /\ \A i \in 1 .. 7 : parcel1[a + i - 1] = h[i]
    BY <1>3, <2>1 DEF Held
  <2>3. /\ parcel1[a] = e.tag /\ parcel1[a + 1] = e.time /\ parcel1[a + 2] = e.duration
        /\ parcel1[a + 3] = e.intensity /\ parcel1[a + 4] = e.frequency
        /\ parcel1[a + 5] = e.index /\ parcel1[a + 6] = Len(e.points)
    <3>1. /\ a + 1 - 1 = a /\ a + 2 - 1 = a + 1 /\ a + 3 - 1 = a + 2 /\ a + 4 - 1 = a + 3
          /\ a + 5 - 1 = a + 4 /\ a + 6 - 1 = a + 5 /\ a + 7 - 1 = a + 6
      OBVIOUS
    <3>2. /\ parcel1[a + 1 - 1] = h[1] /\ parcel1[a + 2 - 1] = h[2] /\ parcel1[a + 3 - 1] = h[3]
          /\ parcel1[a + 4 - 1] = h[4] /\ parcel1[a + 5 - 1] = h[5] /\ parcel1[a + 6 - 1] = h[6]
          /\ parcel1[a + 7 - 1] = h[7]
      BY <2>2
    <3> QED
      BY <1>3, <3>1, <3>2
  <2>4. pts = Read(<<>>, (a + 7) + Len(w), e.points)
    <3>1. Held(parcel1, a + 7, FlattenSeq(Map(WritePoint, e.points))) /\ a + 7 \in Int
      BY <2>1 DEF w
    <3>2. pts = Read(<<>>, (a + 7) + Len(FlattenSeq(Map(WritePoint, e.points))), e.points)
      BY <1>1, <3>1, PointsRead
    <3> QED
      BY <3>2 DEF w
  <2>5. back = e
    BY <1>1 DEF Event, EventSet
  <2>6. ~(a + 6 > Len(parcel1))
    BY <2>2
  <2>7. MaxPointSize \in Nat /\ Len(e.points) \in Nat
    BY <1>1, LimitsAssumption
  <2>8. EventFits(e) <=> ~(parcel1[a] \notin {EVENT_TAG_CONTINUOUS, EVENT_TAG_TRANSIENT}
                           \/ parcel1[a + 6] > MaxPointSize)
    <3>1. EventFits(e) <=> /\ e.tag \in {EVENT_TAG_CONTINUOUS, EVENT_TAG_TRANSIENT}
                           /\ Len(e.points) <= MaxPointSize
      BY DEF EventFits
    <3>2. parcel1[a] = e.tag /\ parcel1[a + 6] = Len(e.points)
      BY <2>3
    <3>3. Len(e.points) <= MaxPointSize <=> ~(Len(e.points) > MaxPointSize)
      BY <2>7
    <3> QED
      BY <3>1, <3>2, <3>3, Zenon
  <2>9. ReadEvent(parcel1, a) =
          IF EventFits(e) THEN IF ~pts.ok THEN ReadRefused
                               ELSE Read(parcel1, pts.at,
                                      [Event(e.tag, e.time, e.duration, e.intensity, e.frequency,
                                             pts.value) EXCEPT !.index = e.index])
          ELSE ReadRefused
    BY <2>3, <2>6, <2>8, Zenon DEF ReadEvent
  <2>10. pts.ok /\ pts.at = (a + 7) + Len(w) /\ pts.value = e.points
    BY <2>4 DEF Read
  <2>11. (a + 7) + Len(w) = a + Len(WriteEvent(e))
    BY <1>2, <1>4, <1>5
  <2> HIDE DEF pts
  <2>12. EventFits(e) => ReadEvent(parcel1, a) = Read(parcel1, a + Len(WriteEvent(e)), back)
    BY <2>9, <2>10, <2>11
  <2>13. \A x, y : Read(parcel1, x, y) = Read(<<>>, x, y)
    BY DEF Read
  <2> HIDE DEF back
  <2> QED
    BY <2>5, <2>9, <2>12, <2>13
<1> QED
  BY <1>4, <1>5, <1>6

\* The events of a list, in a parcel: all of them, or none if one does not fit.
LEMMA WrittenEvents ==
  ASSUME NEW s \in Seq(EventSet)
  PROVE  /\ Map(WriteEvent, s) \in Seq(Seq(Int)) /\ Len(Map(WriteEvent, s)) = Len(s)
         /\ \A i \in 1 .. Len(s) : Map(WriteEvent, s)[i] = WriteEvent(s[i])
         /\ FlattenSeq(Map(WriteEvent, s)) \in Seq(Int)
<1>1. \A i \in 1 .. Len(s) : s[i] \in EventSet
  OBVIOUS
<1>2. \A i \in 1 .. Len(s) : WriteEvent(s[i]) \in Seq(Int)
  BY <1>1, EventRead
<1>3. Map(WriteEvent, s) \in [1 .. Len(s) -> Seq(Int)]
      /\ \A i \in 1 .. Len(s) : Map(WriteEvent, s)[i] = WriteEvent(s[i])
  BY <1>2 DEF Map
<1>4. Map(WriteEvent, s) \in Seq(Seq(Int)) /\ Len(Map(WriteEvent, s)) = Len(s)
  <2> DEFINE m == Map(WriteEvent, s)
             n == Len(s)
             T == Seq(Int)
  <2>1. m \in [1 .. n -> T] /\ n \in Nat
    BY <1>3
  <2> HIDE DEF m, n, T
  <2>2. m \in Seq(T) /\ Len(m) = n
    BY <2>1, FunctionIsSeq
  <2> QED
    BY <2>2 DEF m, n, T
<1> QED
  BY <1>3, <1>4, FlattenType

\* The events written are those read, if each fits; otherwise the read is refused.
LEMMA EventsRead ==
  ASSUME NEW s \in Seq(EventSet), NEW parcel1 \in Seq(Int), NEW a \in Int,
         Held(parcel1, a, FlattenSeq(Map(WriteEvent, s)))
  PROVE  LET fits == \A i \in 1 .. Len(s) : EventFits(s[i])
             read == ReadMany(ReadEvent, parcel1, a, Len(s))
         IN  /\ fits => read = Read(<<>>, a + Len(FlattenSeq(Map(WriteEvent, s))), s)
             /\ ~fits => read = ReadRefused
<1> DEFINE ss == Map(WriteEvent, s)
           fits == \A i \in 1 .. Len(s) : EventFits(s[i])
           read == ReadMany(ReadEvent, parcel1, a, Len(s))
<1>1. /\ ss \in Seq(Seq(Int)) /\ Len(ss) = Len(s)
      /\ \A i \in 1 .. Len(s) : ss[i] = WriteEvent(s[i])
  BY WrittenEvents
<1> HIDE DEF ss
<1>2. PICK pos : BeginsAt(parcel1, ss, pos) /\ pos[0] = a
  <2>1. Held(parcel1, a, FlattenSeq(ss))
    BY DEF ss
  <2> QED
    BY <1>1, <2>1, HeldParts
<1>3. /\ pos \in [0 .. Len(s) -> Int] /\ pos[Len(s)] = a + Len(FlattenSeq(ss))
      /\ \A k \in 1 .. Len(s) : /\ pos[k] = pos[k - 1] + Len(ss[k])
                                /\ Held(parcel1, pos[k - 1], ss[k])
  BY <1>1, <1>2 DEF BeginsAt
<1>4. ASSUME NEW i \in 1 .. Len(s)
      PROVE  /\ EventFits(s[i]) => ReadEvent(parcel1, pos[i - 1]) = Read(<<>>, pos[i], s[i])
             /\ ~EventFits(s[i]) => ReadEvent(parcel1, pos[i - 1]) = ReadRefused
  <2>1. s[i] \in EventSet /\ ss[i] = WriteEvent(s[i]) /\ pos[i - 1] \in Int
    <3>1. i - 1 \in 0 .. Len(s)
      OBVIOUS
    <3>2. pos[i - 1] \in Int
      BY <1>3, <3>1
    <3>3. ss[i] = WriteEvent(s[i])
      BY <1>1, Zenon
    <3> QED
      BY <3>2, <3>3
  <2>2. \A x \in Int : Held(parcel1, x, WriteEvent(s[i])) =>
          /\ EventFits(s[i]) => ReadEvent(parcel1, x) = Read(<<>>, x + Len(WriteEvent(s[i])), s[i])
          /\ ~EventFits(s[i]) => ReadEvent(parcel1, x) = ReadRefused
    BY <2>1, EventRead
  <2>3. /\ pos[i] = pos[i - 1] + Len(WriteEvent(s[i]))
        /\ Held(parcel1, pos[i - 1], WriteEvent(s[i]))
    BY <1>3, <2>1
  <2> QED
    BY <2>1, <2>2, <2>3
<1>5. \A i \in 1 .. Len(s) : MayRead(ReadEvent(parcel1, pos[i - 1]), pos[i], s[i])
  BY <1>4 DEF MayRead
<1>6. \A i \in 1 .. Len(s) : ReadEvent(parcel1, pos[i - 1]).ok <=> EventFits(s[i])
  <2>1. (\A x, y : Read(<<>>, x, y).ok) /\ ~ReadRefused.ok
    BY DEF Read, ReadRefused
  <2> QED
    BY <1>4, <2>1, Zenon
<1>7. /\ fits => ReadMany(ReadEvent, parcel1, pos[0], Len(s)) = Read(<<>>, pos[Len(s)], s)
      /\ ~fits => ReadMany(ReadEvent, parcel1, pos[0], Len(s)) = ReadRefused
  <2> DEFINE all == \A i \in 1 .. Len(s) : ReadEvent(parcel1, pos[i - 1]).ok
             many == ReadMany(ReadEvent, parcel1, pos[0], Len(s))
  <2>1. (all => many = Read(<<>>, pos[Len(s)], s)) /\ (~all => many = ReadRefused)
    BY <1>5, ReadEvents
  <2>2. all <=> fits
    BY <1>6, Zenon
  <2> HIDE DEF all, many, fits
  <2>3. (fits => many = Read(<<>>, pos[Len(s)], s)) /\ (~fits => many = ReadRefused)
    BY <2>1, <2>2, Zenon
  <2> QED
    BY <2>3 DEF many
<1>8. pos[0] = a /\ pos[Len(s)] = a + Len(FlattenSeq(ss))
  BY <1>2, <1>3
<1> HIDE DEF fits
<1>9. (fits => read = Read(<<>>, a + Len(FlattenSeq(ss)), s)) /\ (~fits => read = ReadRefused)
  BY <1>7, <1>8, Zenon
<1> QED
  BY <1>9, Zenon DEF ss, fits

\* What is written of a pattern is read back, if the structures take it.
LEMMA PatternRead ==
  ASSUME NEW p \in PatternSet
  PROVE  /\ PatternMarshalling(p) \in Seq(Int)
         /\ \A parcel1 \in Seq(Int), a \in Int : Held(parcel1, a, PatternMarshalling(p)) =>
              /\ PatternTaken(p) =>
                   ReadPattern(parcel1, a) = Read(<<>>, a + Len(PatternMarshalling(p)), p)
              /\ ~PatternTaken(p) => ReadPattern(parcel1, a) = ReadRefused
<1> DEFINE h == <<p.startTime, p.patternDuration, Len(p.events)>>
           w == FlattenSeq(Map(WriteEvent, p.events))
           fits == \A i \in 1 .. Len(p.events) : EventFits(p.events[i])
<1>1. /\ p.startTime \in Int /\ p.patternDuration \in Int /\ p.events \in Seq(EventSet)
      /\ Len(p.events) \in Nat
  BY PatternFields
<1>2. w \in Seq(Int)
  BY <1>1, WrittenEvents
<1>3. /\ h \in Seq(Int) /\ Len(h) = 3
      /\ h[1] = p.startTime /\ h[2] = p.patternDuration /\ h[3] = Len(p.events)
  BY <1>1
<1>4. PatternMarshalling(p) = Cat(h, w)
  BY DEF PatternMarshalling, Cat
<1> HIDE DEF h, w
<1>5. Cat(h, w) \in Seq(Int) /\ Len(Cat(h, w)) = 3 + Len(w)
  <2>1. \A x, y \in Seq(Int) : Cat(x, y) \in Seq(Int) /\ Len(Cat(x, y)) = Len(x) + Len(y)
    BY CatType
  <2> QED
    BY <1>2, <1>3, <2>1
<1>6. ASSUME NEW parcel1 \in Seq(Int), NEW a \in Int, Held(parcel1, a, PatternMarshalling(p))
      PROVE  /\ PatternTaken(p) =>
                  ReadPattern(parcel1, a) = Read(<<>>, a + Len(PatternMarshalling(p)), p)
             /\ ~PatternTaken(p) => ReadPattern(parcel1, a) = ReadRefused
  <2> DEFINE many == ReadMany(ReadEvent, parcel1, a + 3, Len(p.events))
             back == Pattern(p.startTime, p.patternDuration, p.events)
  <2>1. Held(parcel1, a, h) /\ Held(parcel1, a + 3, w)
    <3>1. Held(parcel1, a, Cat(h, w))
      BY <1>4, <1>6
    <3>2. Held(parcel1, a, h) /\ Held(parcel1, a + Len(h), w)
      BY <1>2, <1>3, <3>1, HeldCat
    <3> QED
      BY <1>3, <3>2
  <2>2. a + 3 <= Len(parcel1) + 1 /\ \A i \in 1 .. 3 : parcel1[a + i - 1] = h[i]
    BY <1>3, <2>1 DEF Held
  <2>3. /\ parcel1[a] = p.startTime /\ parcel1[a + 1] = p.patternDuration
        /\ parcel1[a + 2] = Len(p.events)
    <3>1. a + 1 - 1 = a /\ a + 2 - 1 = a + 1 /\ a + 3 - 1 = a + 2
      OBVIOUS
    <3>2. parcel1[a + 1 - 1] = h[1] /\ parcel1[a + 2 - 1] = h[2] /\ parcel1[a + 3 - 1] = h[3]
      BY <2>2
    <3> QED
      BY <1>3, <3>1, <3>2
  <2>4. (fits => many = Read(<<>>, (a + 3) + Len(w), p.events)) /\ (~fits => many = ReadRefused)
    <3>1. Held(parcel1, a + 3, FlattenSeq(Map(WriteEvent, p.events))) /\ a + 3 \in Int
      BY <2>1 DEF w
    <3>2. /\ fits => many = Read(<<>>, (a + 3) + Len(FlattenSeq(Map(WriteEvent, p.events))),
                                 p.events)
          /\ ~fits => many = ReadRefused
      BY <1>1, <3>1, EventsRead
    <3> QED
      BY <3>2 DEF w
  <2>5. back = p
    BY DEF Pattern, PatternSet
  <2>6. ~(a + 2 > Len(parcel1))
    BY <2>2
  <2>7. MaxEventSize \in Nat
    BY LimitsAssumption
  <2>8. Len(p.events) <= MaxEventSize <=> ~(parcel1[a + 2] > MaxEventSize)
    BY <1>1, <2>3, <2>7
  <2>9. ReadPattern(parcel1, a) =
          IF Len(p.events) <= MaxEventSize
          THEN IF ~many.ok THEN ReadRefused
               ELSE Read(parcel1, many.at, Pattern(p.startTime, p.patternDuration, many.value))
          ELSE ReadRefused
    BY <2>3, <2>6, <2>8, Zenon DEF ReadPattern
  <2>10. /\ fits => many.ok /\ many.at = (a + 3) + Len(w) /\ many.value = p.events
         /\ ~fits => ~many.ok
    BY <2>4 DEF Read, ReadRefused
  <2>11. (a + 3) + Len(w) = a + Len(PatternMarshalling(p))
    BY <1>2, <1>4, <1>5
  <2>12. PatternTaken(p) <=> Len(p.events) <= MaxEventSize /\ fits
    BY DEF PatternTaken
  <2> HIDE DEF many, fits
  <2>13. PatternTaken(p) =>
           ReadPattern(parcel1, a) = Read(parcel1, a + Len(PatternMarshalling(p)), back)
    BY <2>9, <2>10, <2>11, <2>12
  <2>14. \A x, y : Read(parcel1, x, y) = Read(<<>>, x, y)
    BY DEF Read
  <2>15. ~PatternTaken(p) => ReadPattern(parcel1, a) = ReadRefused
    BY <2>9, <2>10, <2>12
  <2> HIDE DEF back
  <2> QED
    BY <2>5, <2>13, <2>14, <2>15
<1> QED
  BY <1>4, <1>5, <1>6

\* The patterns of a list, in a parcel: all of them, or none if one does not fit.
LEMMA WrittenPatterns ==
  ASSUME NEW s \in Seq(PatternSet)
  PROVE  /\ Map(PatternMarshalling, s) \in Seq(Seq(Int)) /\ Len(Map(PatternMarshalling, s)) = Len(s)
         /\ \A i \in 1 .. Len(s) : Map(PatternMarshalling, s)[i] = PatternMarshalling(s[i])
         /\ FlattenSeq(Map(PatternMarshalling, s)) \in Seq(Int)
<1>1. \A i \in 1 .. Len(s) : s[i] \in PatternSet
  OBVIOUS
<1>2. \A i \in 1 .. Len(s) : PatternMarshalling(s[i]) \in Seq(Int)
  BY <1>1, PatternRead
<1>3. Map(PatternMarshalling, s) \in [1 .. Len(s) -> Seq(Int)]
      /\ \A i \in 1 .. Len(s) : Map(PatternMarshalling, s)[i] = PatternMarshalling(s[i])
  BY <1>2 DEF Map
<1>4. Map(PatternMarshalling, s) \in Seq(Seq(Int)) /\ Len(Map(PatternMarshalling, s)) = Len(s)
  <2> DEFINE m == Map(PatternMarshalling, s)
             n == Len(s)
             T == Seq(Int)
  <2>1. m \in [1 .. n -> T] /\ n \in Nat
    BY <1>3
  <2> HIDE DEF m, n, T
  <2>2. m \in Seq(T) /\ Len(m) = n
    BY <2>1, FunctionIsSeq
  <2> QED
    BY <2>2 DEF m, n, T
<1> QED
  BY <1>3, <1>4, FlattenType

\* The patterns written are those read, if each is taken; otherwise the read is refused.
LEMMA PatternsRead ==
  ASSUME NEW s \in Seq(PatternSet), NEW parcel1 \in Seq(Int), NEW a \in Int,
         Held(parcel1, a, FlattenSeq(Map(PatternMarshalling, s)))
  PROVE  LET fits == \A i \in 1 .. Len(s) : PatternTaken(s[i])
             read == ReadMany(ReadPattern, parcel1, a, Len(s))
         IN  /\ fits => read = Read(<<>>, a + Len(FlattenSeq(Map(PatternMarshalling, s))), s)
             /\ ~fits => read = ReadRefused
<1> DEFINE ss == Map(PatternMarshalling, s)
           fits == \A i \in 1 .. Len(s) : PatternTaken(s[i])
           read == ReadMany(ReadPattern, parcel1, a, Len(s))
<1>1. /\ ss \in Seq(Seq(Int)) /\ Len(ss) = Len(s)
      /\ \A i \in 1 .. Len(s) : ss[i] = PatternMarshalling(s[i])
  BY WrittenPatterns
<1> HIDE DEF ss
<1>2. PICK pos : BeginsAt(parcel1, ss, pos) /\ pos[0] = a
  <2>1. Held(parcel1, a, FlattenSeq(ss))
    BY DEF ss
  <2> QED
    BY <1>1, <2>1, HeldParts
<1>3. /\ pos \in [0 .. Len(s) -> Int] /\ pos[Len(s)] = a + Len(FlattenSeq(ss))
      /\ \A k \in 1 .. Len(s) : /\ pos[k] = pos[k - 1] + Len(ss[k])
                                /\ Held(parcel1, pos[k - 1], ss[k])
  BY <1>1, <1>2 DEF BeginsAt
<1>4. ASSUME NEW i \in 1 .. Len(s)
      PROVE  /\ PatternTaken(s[i]) => ReadPattern(parcel1, pos[i - 1]) = Read(<<>>, pos[i], s[i])
             /\ ~PatternTaken(s[i]) => ReadPattern(parcel1, pos[i - 1]) = ReadRefused
  <2>1. s[i] \in PatternSet /\ ss[i] = PatternMarshalling(s[i]) /\ pos[i - 1] \in Int
    <3>1. i - 1 \in 0 .. Len(s)
      OBVIOUS
    <3>2. pos[i - 1] \in Int
      BY <1>3, <3>1
    <3>3. ss[i] = PatternMarshalling(s[i])
      BY <1>1, Zenon
    <3> QED
      BY <3>2, <3>3
  <2>2. \A x \in Int : Held(parcel1, x, PatternMarshalling(s[i])) =>
          /\ PatternTaken(s[i]) => ReadPattern(parcel1, x) = Read(<<>>, x + Len(PatternMarshalling(s[i])), s[i])
          /\ ~PatternTaken(s[i]) => ReadPattern(parcel1, x) = ReadRefused
    BY <2>1, PatternRead
  <2>3. /\ pos[i] = pos[i - 1] + Len(PatternMarshalling(s[i]))
        /\ Held(parcel1, pos[i - 1], PatternMarshalling(s[i]))
    BY <1>3, <2>1
  <2> QED
    BY <2>1, <2>2, <2>3
<1>5. \A i \in 1 .. Len(s) : MayRead(ReadPattern(parcel1, pos[i - 1]), pos[i], s[i])
  BY <1>4 DEF MayRead
<1>6. \A i \in 1 .. Len(s) : ReadPattern(parcel1, pos[i - 1]).ok <=> PatternTaken(s[i])
  <2>1. (\A x, y : Read(<<>>, x, y).ok) /\ ~ReadRefused.ok
    BY DEF Read, ReadRefused
  <2> QED
    BY <1>4, <2>1, Zenon
<1>7. /\ fits => ReadMany(ReadPattern, parcel1, pos[0], Len(s)) = Read(<<>>, pos[Len(s)], s)
      /\ ~fits => ReadMany(ReadPattern, parcel1, pos[0], Len(s)) = ReadRefused
  <2> DEFINE all == \A i \in 1 .. Len(s) : ReadPattern(parcel1, pos[i - 1]).ok
             many == ReadMany(ReadPattern, parcel1, pos[0], Len(s))
  <2>1. (all => many = Read(<<>>, pos[Len(s)], s)) /\ (~all => many = ReadRefused)
    BY <1>5, ReadPatterns
  <2>2. all <=> fits
    BY <1>6, Zenon
  <2> HIDE DEF all, many, fits
  <2>3. (fits => many = Read(<<>>, pos[Len(s)], s)) /\ (~fits => many = ReadRefused)
    BY <2>1, <2>2, Zenon
  <2> QED
    BY <2>3 DEF many
<1>8. pos[0] = a /\ pos[Len(s)] = a + Len(FlattenSeq(ss))
  BY <1>2, <1>3
<1> HIDE DEF fits
<1>9. (fits => read = Read(<<>>, a + Len(FlattenSeq(ss)), s)) /\ (~fits => read = ReadRefused)
  BY <1>7, <1>8, Zenon
<1> QED
  BY <1>9, Zenon DEF ss, fits

\* What is written of a package is read back, if the structures take it.
LEMMA PackageRead ==
  ASSUME NEW p \in PackageSet
  PROVE  /\ PackageMarshalling(p) \in Seq(Int)
         /\ PackageTaken(p) => PackageUnmarshalling(PackageMarshalling(p)) = {p}
         /\ ~PackageTaken(p) => PackageUnmarshalling(PackageMarshalling(p)) = {}
<1> DEFINE h == <<p.packageDuration, Len(p.patterns)>>
           w == FlattenSeq(Map(PatternMarshalling, p.patterns))
           fits == \A i \in 1 .. Len(p.patterns) : PatternTaken(p.patterns[i])
           s == PackageMarshalling(p)
           many == ReadMany(ReadPattern, s, 3, Len(p.patterns))
           back == Package(p.packageDuration, p.patterns)
<1>1. p.packageDuration \in Int /\ p.patterns \in Seq(PatternSet) /\ Len(p.patterns) \in Nat
  BY PackageFields
<1>2. w \in Seq(Int)
  BY <1>1, WrittenPatterns
<1>3. /\ h \in Seq(Int) /\ Len(h) = 2
      /\ h[1] = p.packageDuration /\ h[2] = Len(p.patterns)
  BY <1>1
<1>4. s = Cat(h, w)
  BY DEF PackageMarshalling, Cat
<1> HIDE DEF h, w, s
<1>5. s \in Seq(Int) /\ Len(s) = 2 + Len(w)
  <2>1. \A x, y \in Seq(Int) : Cat(x, y) \in Seq(Int) /\ Len(Cat(x, y)) = Len(x) + Len(y)
    BY CatType
  <2> QED
    BY <1>2, <1>3, <1>4, <2>1
<1>6. Held(s, 1, h) /\ Held(s, 3, w)
  <2>1. Held(s, 1, Cat(h, w))
    BY <1>4, <1>5, HeldSelf
  <2>2. Held(s, 1, h) /\ Held(s, 1 + Len(h), w)
    <3>1. PICK a \in Int : a = 1
      OBVIOUS
    <3>2. Held(s, a, Cat(h, w)) /\ s \in Seq(Int) /\ h \in Seq(Int)
      BY <1>3, <1>5, <2>1, <3>1
    <3>3. Held(s, a, h) /\ Held(s, a + Len(h), w)
      BY <1>2, <3>2, HeldCat
    <3> QED
      BY <3>1, <3>3
  <2> QED
    BY <1>3, <2>2
<1>7. s[1] = p.packageDuration /\ s[2] = Len(p.patterns)
  <2>1. \A i \in 1 .. 2 : s[1 + i - 1] = h[i]
    BY <1>3, <1>6 DEF Held
  <2>2. s[1 + 1 - 1] = h[1] /\ s[1 + 2 - 1] = h[2]
    BY <2>1
  <2>3. 1 + 1 - 1 = 1 /\ 1 + 2 - 1 = 2
    OBVIOUS
  <2> QED
    BY <1>3, <2>2, <2>3
<1>8. (fits => many = Read(<<>>, 3 + Len(w), p.patterns)) /\ (~fits => many = ReadRefused)
  <2>1. Held(s, 3, FlattenSeq(Map(PatternMarshalling, p.patterns)))
    BY <1>6 DEF w
  <2>2. /\ fits => many = Read(<<>>, 3 + Len(FlattenSeq(Map(PatternMarshalling, p.patterns))),
                               p.patterns)
        /\ ~fits => many = ReadRefused
    BY <1>1, <1>5, <2>1, PatternsRead
  <2> QED
    BY <2>2 DEF w
<1>9. back = p
  BY DEF Package, PackageSet
<1>10. Len(s) >= 2
  BY <1>2, <1>5
<1>11. ~(1 + 1 > Len(s))
  BY <1>5, <1>10
<1>12. MaxPatternNum \in Nat
  BY LimitsAssumption
<1>13. Len(p.patterns) <= MaxPatternNum <=> ~(s[1 + 1] \notin 0 .. MaxPatternNum)
  BY <1>1, <1>7, <1>12
<1>14. s[1 + 1] = Len(p.patterns) /\ 1 + 2 = 3
  BY <1>7
<1>15. ReadPackage(s, 1) =
         IF Len(p.patterns) <= MaxPatternNum
         THEN IF ~many.ok THEN ReadRefused
              ELSE Read(s, many.at, Package(p.packageDuration, many.value))
         ELSE ReadRefused
  BY <1>7, <1>11, <1>13, <1>14 DEF ReadPackage
<1>16. /\ fits => many.ok /\ many.value = p.patterns
       /\ ~fits => ~many.ok
  BY <1>8 DEF Read, ReadRefused
<1>17. PackageTaken(p) <=> Len(p.patterns) <= MaxPatternNum /\ fits
  BY DEF PackageTaken
<1> HIDE DEF many, fits
<1>18. PackageTaken(p) => ReadPackage(s, 1) = Read(s, many.at, back)
  BY <1>15, <1>16, <1>17
<1>19. ~PackageTaken(p) => ReadPackage(s, 1) = ReadRefused
  BY <1>15, <1>16, <1>17
<1>20. PackageTaken(p) => PackageUnmarshalling(s) = {p}
  BY <1>9, <1>18 DEF PackageUnmarshalling, Read
<1>21. ~PackageTaken(p) => PackageUnmarshalling(s) = {}
  BY <1>19 DEF PackageUnmarshalling, ReadRefused
<1> QED
  BY <1>5, <1>20, <1>21 DEF s

\* Of a pattern alone too.
LEMMA PatternReadAlone ==
  ASSUME NEW p \in PatternSet
  PROVE  /\ PatternTaken(p) => PatternUnmarshalling(PatternMarshalling(p)) = {p}
         /\ ~PatternTaken(p) => PatternUnmarshalling(PatternMarshalling(p)) = {}
<1> DEFINE s == PatternMarshalling(p)
<1>1. /\ s \in Seq(Int)
      /\ Held(s, 1, s) =>
           /\ PatternTaken(p) => ReadPattern(s, 1) = Read(<<>>, 1 + Len(s), p)
           /\ ~PatternTaken(p) => ReadPattern(s, 1) = ReadRefused
  BY PatternRead
<1>2. Held(s, 1, s)
  BY <1>1, HeldSelf
<1> HIDE DEF s
<1>3. PatternTaken(p) => PatternUnmarshalling(s) = {p}
  BY <1>1, <1>2 DEF PatternUnmarshalling, Read
<1>4. ~PatternTaken(p) => PatternUnmarshalling(s) = {}
  BY <1>1, <1>2 DEF PatternUnmarshalling, ReadRefused
<1> QED
  BY <1>3, <1>4 DEF s

\* What fits is taken.
LEMMA FitIsTaken ==
  /\ \A p \in FitPatterns : PatternTaken(p)
  /\ \A p \in FitPackages : Len(p.patterns) <= MaxPatternNum => PackageTaken(p)
<1>1. ASSUME NEW e \in FitEvents
      PROVE  EventFits(e)
  <2>1. e \in EventSet /\ e.tag \in {EVENT_TAG_CONTINUOUS, EVENT_TAG_TRANSIENT}
        /\ (e.points # <<>> => IsCurve(e.points))
    BY DEF FitEvents
  <2>2. e.points \in Seq(PointSet)
    BY <2>1, EventFields
  <2>3. CurveMax \in Int /\ MaxPointSize \in Nat /\ CurveMax <= MaxPointSize /\ CurveMin \in Int
    BY LimitsAssumption
  <2>4. e.points # <<>> => Len(e.points) <= MaxPointSize
    BY <2>1, <2>2, <2>3 DEF IsCurve
  <2>5. e.points = <<>> => Len(e.points) <= MaxPointSize
    BY <2>3
  <2> QED
    BY <2>1, <2>4, <2>5 DEF EventFits
<1>2. ASSUME NEW p \in FitPatterns
      PROVE  PatternTaken(p)
  <2>1. p.events \in Seq(FitEvents) /\ Len(p.events) <= MaxEventSize
    BY DEF FitPatterns
  <2>2. \A i \in 1 .. Len(p.events) : p.events[i] \in FitEvents
    BY <2>1
  <2> QED
    BY <1>1, <2>1, <2>2 DEF PatternTaken
<1>3. ASSUME NEW p \in FitPackages, Len(p.patterns) <= MaxPatternNum
      PROVE  PackageTaken(p)
  <2>1. p.patterns \in Seq(FitPatterns)
    BY DEF FitPackages
  <2>2. \A i \in 1 .. Len(p.patterns) : p.patterns[i] \in FitPatterns
    BY <2>1
  <2> QED
    BY <1>2, <1>3, <2>2 DEF PackageTaken
<1> QED
  BY <1>2, <1>3

-----------------------------------------------------------------------------
(* What is sent to the service.                                              *)

Calls == {"PlayPattern", "PlayVibratorCustom", "PlayPackageBySessionId"}

\* What a call may carry: PlayPattern one pattern, and of a file what fits.
MayCarry(call, effect, src) ==
  /\ effect \in PackageSet
  /\ call = "PlayPattern" => /\ effect.patterns # <<>>
                             /\ effect = Package(0, <<Head(effect.patterns)>>)
  /\ src.kind = "file" => effect \in FitPackages
  /\ src.kind = "file" /\ "channels" \in DOMAIN src.file =>
       Len(effect.patterns) <= MaxPatternNum \/ call = "PlayPattern"

\* A call carries what it was made with; nothing is called before.
CallIsSent ==
  /\ stage \in {"idle", "held"} => sent = NoCall
  /\ stage = "sent" =>
       /\ sent.call \in Calls /\ sent.info \in InfoSet
       /\ MayCarry(sent.call, sent.effect, source)
       /\ parcel = [effect |-> IF sent.call = "PlayPattern"
                               THEN PatternMarshalling(Head(sent.effect.patterns))
                               ELSE PackageMarshalling(sent.effect),
                    info |-> CustomHapticInfoMarshalling(sent.info)]

\* Only parameters out of range make the service refuse what comes of a file.
RefusedForParameters ==
  /\ stage = "refused" /\ source.kind = "file" /\ sent.call # "none"
  /\ IsOh \/ Len(sent.effect.patterns) <= MaxPatternNum
  => ~CheckVibratorParmeters(sent.info)

TransitInvariant == CallIsSent /\ RefusedForParameters

\* The parameters are read back.
LEMMA InfoRead ==
  ASSUME NEW info \in InfoSet
  PROVE  CustomHapticInfoUnmarshalling(CustomHapticInfoMarshalling(info)) = info
BY DEF InfoSet, CustomHapticInfoUnmarshalling, CustomHapticInfoMarshalling

\* So is what the call carries, or it is refused; of a file it is not.
LEMMA EffectRead ==
  ASSUME NEW call \in Calls, NEW effect, NEW src, MayCarry(call, effect, src)
  PROVE  LET written == IF call = "PlayPattern" THEN PatternMarshalling(Head(effect.patterns))
                        ELSE PackageMarshalling(effect)
             whole   == IF call = "PlayPattern" THEN Head(effect.patterns) ELSE effect
             read    == IF call = "PlayPattern" THEN PatternUnmarshalling(written)
                        ELSE PackageUnmarshalling(written)
         IN  /\ read \subseteq {whole}
             /\ src.kind = "file" /\ ("channels" \in DOMAIN src.file
                                        \/ Len(effect.patterns) <= MaxPatternNum)
                => read # {}
<1>1. CASE call = "PlayPattern"
  <2> DEFINE p == Head(effect.patterns)
  <2>1. effect = Package(0, <<p>>) /\ effect \in PackageSet /\ effect.patterns # <<>>
    BY <1>1 DEF MayCarry
  <2>2. p \in PatternSet
    <3>1. effect.patterns \in Seq(PatternSet)
      BY <2>1, PackageFields
    <3> QED
      BY <2>1, <3>1
  <2>3. src.kind = "file" => p \in FitPatterns
    <3>1. src.kind = "file" => effect.patterns \in Seq(FitPatterns)
      BY DEF MayCarry, FitPackages
    <3> QED
      BY <2>1, <3>1
  <2> HIDE DEF p
  <2>4. src.kind = "file" => PatternTaken(p)
    BY <2>3, FitIsTaken
  <2> QED
    BY <1>1, <2>2, <2>4, PatternReadAlone DEF p
<1>2. CASE call # "PlayPattern"
  <2>1. effect \in PackageSet
    BY DEF MayCarry
  <2>2. /\ PackageTaken(effect) => PackageUnmarshalling(PackageMarshalling(effect)) = {effect}
        /\ ~PackageTaken(effect) => PackageUnmarshalling(PackageMarshalling(effect)) = {}
    BY <2>1, PackageRead
  <2>3. src.kind = "file" /\ ("channels" \in DOMAIN src.file
                                \/ Len(effect.patterns) <= MaxPatternNum)
        => PackageTaken(effect)
    <3>1. src.kind = "file" => effect \in FitPackages
      BY DEF MayCarry
    <3>2. src.kind = "file" /\ "channels" \in DOMAIN src.file => Len(effect.patterns) <= MaxPatternNum
      BY <1>2 DEF MayCarry
    <3> QED
      BY <3>1, <3>2, FitIsTaken
  <2> QED
    BY <1>2, <2>2, <2>3
<1> QED
  BY <1>1, <1>2

\* A call that leaves the client.
LEMMA SendSends ==
  ASSUME NEW call \in Calls, NEW effect, NEW info \in InfoSet, Send(call, effect, info),
         MayCarry(call, effect, source')
  PROVE  TransitInvariant'
<1>1. /\ stage' = "sent"
      /\ sent' = [call |-> call, effect |-> effect, info |-> info]
      /\ parcel' = [effect |-> IF call = "PlayPattern"
                               THEN PatternMarshalling(Head(effect.patterns))
                               ELSE PackageMarshalling(effect),
                    info   |-> CustomHapticInfoMarshalling(info)]
  BY DEF Send
<1>2. sent'.call = call /\ sent'.effect = effect /\ sent'.info = info
  BY <1>1
<1>3. CallIsSent'
  BY <1>1, <1>2 DEF CallIsSent
<1> QED
  BY <1>1, <1>3 DEF TransitInvariant, RefusedForParameters

\* Steps that call nothing.
LEMMA NothingSent ==
  ASSUME TransitInvariant, UNCHANGED sent, stage \in {"idle", "held"},
         stage' \in {"held", "refused", "crashed"}
  PROVE  TransitInvariant'
<1>1. sent' = NoCall
  BY DEF TransitInvariant, CallIsSent
<1>2. sent'.call = "none"
  BY <1>1 DEF NoCall
<1>3. CallIsSent'
  BY <1>1 DEF CallIsSent
<1> QED
  BY <1>2, <1>3 DEF TransitInvariant, RefusedForParameters

\* Steps after the call was received.
LEMMA Afterwards ==
  ASSUME UNCHANGED sent, stage' \in {"received", "played", "failed"}
  PROVE  TransitInvariant'
BY DEF TransitInvariant, CallIsSent, RefusedForParameters

\* Every step preserves the invariant.
LEMMA TransitStep ==
  HistoryInvariant /\ TransitInvariant /\ [PipelineNext]_pipelineVars => TransitInvariant'
<1> SUFFICES ASSUME HistoryInvariant, TransitInvariant, [PipelineNext]_pipelineVars
             PROVE  TransitInvariant'
  OBVIOUS
<1>1. ASSUME NEW file \in Files, PreProcess(file)
      PROVE  TransitInvariant'
  BY <1>1, NothingSent DEF PreProcess, Fail
<1>2. ASSUME NEW file \in Files, NEW info \in Infos, PlayVibratorCustom(file, info)
      PROVE  TransitInvariant'
  <2>1. stage = "idle" /\ source' = FromFile(file)
    BY <1>2 DEF PlayVibratorCustom
  <2>2. CASE Fail("refused")
    BY <2>1, <2>2, NothingSent DEF Fail
  <2>3. ASSUME NEW p \in DecodeEffect(file),
               Send("PlayVibratorCustom", p, [info EXCEPT !.sessionId = 0])
        PROVE  TransitInvariant'
    <3>1. info \in InfoSet
      BY PipelineAssumption
    <3>2. [info EXCEPT !.sessionId = 0] \in InfoSet
      BY <3>1 DEF InfoSet
    <3>3. /\ p \in FitPackages
          /\ "channels" \in DOMAIN file => IsTimed(p)
      BY FromFileFits
    <3>4. source'.kind = "file" /\ source'.file = file
      BY <2>1 DEF FromFile
    <3>5. MayCarry("PlayVibratorCustom", p, source')
      BY <3>3, <3>4 DEF MayCarry, FitPackages, IsTimed
    <3> QED
      BY <2>3, <3>2, <3>5, SendSends DEF Calls
  <2> QED
    BY <1>2, <2>2, <2>3 DEF PlayVibratorCustom
<1>3. ASSUME NEW patterns, ScriptPattern(patterns)
      PROVE  TransitInvariant'
  BY <1>3, NothingSent DEF ScriptPattern, Fail
<1>4. ASSUME NEW p \in Natives, NativePackage(p)
      PROVE  TransitInvariant'
  BY <1>4, NothingSent DEF NativePackage
<1>5. ASSUME NEW how, NEW results, Edit(how, results)
      PROVE  TransitInvariant'
  BY <1>5, NothingSent DEF Edit, Fail
<1>6. ASSUME NEW curve \in Curves, Modulate(curve)
      PROVE  TransitInvariant'
  <2>1. CASE ModulationUndefined(curve, package)
    BY <1>6, <2>1, NothingSent DEF Modulate, Fail
  <2>2. CASE ~ModulationUndefined(curve, package)
    BY <1>5, <1>6, <2>2 DEF Modulate
  <2> QED
    BY <2>1, <2>2
<1>7. ASSUME NEW info \in Infos, NEW i \in DOMAIN package.patterns, PlayPattern(i, info)
      PROVE  TransitInvariant'
  <2>1. stage = "held" /\ source' = source
    BY <1>7 DEF PlayPattern
  <2>2. CASE stage' = "refused" /\ UNCHANGED sent
    BY <2>1, <2>2, NothingSent
  <2>3. ASSUME NEW p \in InitPlayPattern(package.patterns[i]),
               Send("PlayPattern", Package(0, <<p>>), info)
        PROVE  TransitInvariant'
    <3> DEFINE old == package.patterns[i]
               q == Package(0, <<p>>)
    <3>1. package.patterns \in Seq(PatternSet) /\ old \in PatternSet
      BY PackageFields DEF HistoryInvariant, HistoryFits
    <3>2. source.kind = "file" => old \in FitPatterns
      <4>1. source.kind = "file" => package.patterns \in Seq(FitPatterns)
        BY DEF HistoryInvariant, FileFits, FitPackages
      <4> QED
        BY <4>1
    <3> HIDE DEF old
    <3>3. p \in PatternSet /\ (source.kind = "file" => p \in FitPatterns)
      <4>1. p \in InitPlayPattern(old)
        BY <2>3 DEF old
      <4> QED
        BY <3>1, <3>2, <4>1, PlayType
    <3>4. /\ q \in PackageSet /\ q.patterns = <<p>>
          /\ p \in FitPatterns => q \in FitPackages
      BY <3>3, OnePattern
    <3>5. <<p>> # <<>> /\ Head(<<p>>) = p
      OBVIOUS
    <3>6. info \in InfoSet
      BY PipelineAssumption
    <3>7. q = Package(0, <<p>>)
      OBVIOUS
    <3>8. Send("PlayPattern", q, info)
      BY <2>3
    <3> HIDE DEF q
    <3>9. MayCarry("PlayPattern", q, source')
      BY <2>1, <3>3, <3>4, <3>5, <3>7 DEF MayCarry
    <3> QED
      BY <3>6, <3>8, <3>9, SendSends DEF Calls
  <2> QED
    BY <1>7, <2>2, <2>3 DEF PlayPattern
<1>8. ASSUME NEW info \in Infos, PlayPackageBySessionId(info)
      PROVE  TransitInvariant'
  <2>1. /\ source' = source
        /\ Send("PlayPackageBySessionId", package, info)
    BY <1>8 DEF PlayPackageBySessionId
  <2>2. info \in InfoSet
    BY PipelineAssumption
  <2>3. MayCarry("PlayPackageBySessionId", package, source')
    BY <2>1 DEF MayCarry, HistoryInvariant, HistoryFits, FileFits, IsOh, IsTimed
  <2> QED
    BY <2>1, <2>2, <2>3, SendSends DEF Calls
<1>9. ASSUME Receive
      PROVE  TransitInvariant'
  <2> DEFINE info == CustomHapticInfoUnmarshalling(parcel.info)
             effects == IF sent.call = "PlayPattern" THEN PatternUnmarshalling(parcel.effect)
                        ELSE PackageUnmarshalling(parcel.effect)
  <2>1. stage = "sent" /\ UNCHANGED <<source, sent>>
    BY <1>9 DEF Receive
  <2>2. /\ sent.call \in Calls /\ sent.info \in InfoSet
        /\ MayCarry(sent.call, sent.effect, source)
        /\ parcel = [effect |-> IF sent.call = "PlayPattern"
                                THEN PatternMarshalling(Head(sent.effect.patterns))
                                ELSE PackageMarshalling(sent.effect),
                     info |-> CustomHapticInfoMarshalling(sent.info)]
    BY <2>1 DEF TransitInvariant, CallIsSent
  <2>3. info = sent.info
    BY <2>2, InfoRead
  <2>4. source.kind = "file" /\ ("channels" \in DOMAIN source.file
                                   \/ Len(sent.effect.patterns) <= MaxPatternNum)
        => effects # {}
    BY <2>2, EffectRead
  <2> HIDE DEF info, effects
  <2>5. \/ (effects = {} \/ ~CheckVibratorParmeters(info)) /\ stage' = "refused"
        \/ stage' = "received"
    BY <1>9 DEF Receive, info, effects
  <2>6. CASE stage' = "received"
    BY <2>1, <2>6, Afterwards
  <2>7. CASE (effects = {} \/ ~CheckVibratorParmeters(info)) /\ stage' = "refused"
    <3>1. CallIsSent'
      BY <2>7 DEF CallIsSent
    <3>2. RefusedForParameters'
      BY <2>1, <2>3, <2>4, <2>7 DEF RefusedForParameters, IsOh
    <3> QED
      BY <3>1, <3>2 DEF TransitInvariant
  <2> QED
    BY <2>5, <2>6, <2>7
<1>10. ASSUME PlayHd
       PROVE  TransitInvariant'
  BY <1>10, Afterwards DEF PlayHd
<1>11. ASSUME NEW how, NEW position, NEW taken, NEW effects,
              PlayComposite(how, position, taken, effects)
       PROVE  TransitInvariant'
  BY <1>11, Afterwards DEF PlayComposite
<1>12. ASSUME NEW position \in Positions, PlayEffects(position) \/ PlayTimes(position)
       PROVE  TransitInvariant'
  BY <1>11, <1>12 DEF PlayEffects, PlayTimes
<1>13. CASE UNCHANGED pipelineVars
  BY <1>13 DEF pipelineVars, TransitInvariant, CallIsSent, RefusedForParameters, IsOh
<1>14. ASSUME NEW seekTime \in SeekTimes, Seek(seekTime)
       PROVE  TransitInvariant'
  BY <1>5, <1>14 DEF Seek
<1>15. ASSUME PipelineNext
       PROVE  TransitInvariant'
  BY <1>1, <1>2, <1>3, <1>4, <1>6, <1>7, <1>8, <1>9, <1>10, <1>12, <1>14, <1>15
  DEF PipelineNext
<1> QED
  BY <1>13, <1>15

\* What the service reads is what was sent, and it refuses of what comes of a
\* file only calls with parameters out of range: ArrivesUnchanged.
THEOREM CallsArrive ==
  PipelineSpec => []ArrivesUnchanged
<1>1. PipelineInit => TransitInvariant
  BY DEF PipelineInit, TransitInvariant, CallIsSent, RefusedForParameters
<1>2. TransitInvariant => ArrivesUnchanged
  <2> SUFFICES ASSUME TransitInvariant
               PROVE  ArrivesUnchanged
    OBVIOUS
  <2>1. ASSUME stage = "sent"
        PROVE  /\ CustomHapticInfoUnmarshalling(parcel.info) = sent.info
               /\ IF sent.call = "PlayPattern"
                  THEN PatternUnmarshalling(parcel.effect) \subseteq {Head(sent.effect.patterns)}
                  ELSE PackageUnmarshalling(parcel.effect) \subseteq {sent.effect}
    <3>1. /\ sent.call \in Calls /\ sent.info \in InfoSet
          /\ MayCarry(sent.call, sent.effect, source)
          /\ parcel = [effect |-> IF sent.call = "PlayPattern"
                                  THEN PatternMarshalling(Head(sent.effect.patterns))
                                  ELSE PackageMarshalling(sent.effect),
                       info |-> CustomHapticInfoMarshalling(sent.info)]
      BY <2>1 DEF TransitInvariant, CallIsSent
    <3>2. CustomHapticInfoUnmarshalling(parcel.info) = sent.info
      BY <3>1, InfoRead
    <3>3. parcel.effect = IF sent.call = "PlayPattern"
                          THEN PatternMarshalling(Head(sent.effect.patterns))
                          ELSE PackageMarshalling(sent.effect)
      BY <3>1
    <3> QED
      BY <3>1, <3>2, <3>3, EffectRead
  <2>2. RefusedForParameters
    BY DEF TransitInvariant
  <2> QED
    BY <2>1, <2>2 DEF ArrivesUnchanged, RefusedForParameters
<1> QED
  BY <1>1, <1>2, TransitStep, HistoryHolds, PTL DEF PipelineSpec

-----------------------------------------------------------------------------
(* What the service keeps, and what a vibrator takes of it.                  *)

\* The adjustment by the caller's parameters.
LEMMA AdjustedType ==
  ASSUME NEW info \in InfoSet, NEW low \in Int
  PROVE  /\ \A x \in PointSet : Adjusted(x, info, low) \in PointSet
         /\ \A x \in EventSet : Adjusted(x, info, low) \in EventSet
<1>1. info.intensity \in Int /\ info.frequency \in Int
  BY DEF InfoSet
<1>2. ASSUME NEW x, x.intensity \in Int, x.frequency \in Int
      PROVE  \E a, b \in Int : Adjusted(x, info, low) = [x EXCEPT !.intensity = a, !.frequency = b]
  <2>1. Scaled(x.intensity, info.intensity) \in Int /\ Moved(x.frequency, info.frequency, low) \in Int
    BY <1>1, <1>2, ScaledType
  <2>2. Adjusted(x, info, low) = [x EXCEPT !.intensity = Scaled(x.intensity, info.intensity),
                                           !.frequency = Moved(x.frequency, info.frequency, low)]
    BY DEF Adjusted, Scaled, Moved
  <2> QED
    BY <2>1, <2>2
<1>3. \A x \in PointSet : \A a, b \in Int : [x EXCEPT !.intensity = a, !.frequency = b] \in PointSet
  BY DEF PointSet
<1>4. \A x \in EventSet : \A a, b \in Int : [x EXCEPT !.intensity = a, !.frequency = b] \in EventSet
  BY DEF EventSet
<1>5. \A x \in PointSet : x.intensity \in Int /\ x.frequency \in Int
  BY DEF PointSet
<1>6. \A x \in EventSet : x.intensity \in Int /\ x.frequency \in Int
  BY EventFields
<1>7. ASSUME NEW x \in PointSet
      PROVE  Adjusted(x, info, low) \in PointSet
  <2>1. x.intensity \in Int /\ x.frequency \in Int
    BY <1>5
  <2>2. PICK a, b \in Int : Adjusted(x, info, low) = [x EXCEPT !.intensity = a, !.frequency = b]
    BY <1>2, <2>1
  <2>3. [x EXCEPT !.intensity = a, !.frequency = b] \in PointSet
    BY <1>3
  <2> QED
    BY <2>2, <2>3
<1>8. ASSUME NEW x \in EventSet
      PROVE  Adjusted(x, info, low) \in EventSet
  <2>1. x.intensity \in Int /\ x.frequency \in Int
    BY <1>6
  <2>2. PICK a, b \in Int : Adjusted(x, info, low) = [x EXCEPT !.intensity = a, !.frequency = b]
    BY <1>2, <2>1
  <2>3. [x EXCEPT !.intensity = a, !.frequency = b] \in EventSet
    BY <1>4
  <2> QED
    BY <2>2, <2>3
<1> QED
  BY <1>7, <1>8

\* A function of values, of each value of a sequence.
LEMMA MapType ==
  ASSUME NEW T, NEW U, NEW h \in [T -> U], NEW s \in Seq(T)
  PROVE  Apply(h, s) \in Seq(U)
<1>1. \A u \in Seq(T) : Apply(h, u) \in Seq(U)
  BY ApplySeq
<1> QED
  BY <1>1

\* An adjusted event is an event.
LEMMA AdjustedEventType ==
  ASSUME NEW info \in InfoSet
  PROVE  \A e \in EventSet : AdjustedEvent(e, info) \in EventSet
<1> SUFFICES ASSUME NEW e \in EventSet
             PROVE  AdjustedEvent(e, info) \in EventSet
  OBVIOUS
<1> DEFINE h == [p \in PointSet |-> Adjusted(p, info, -100)]
           s == Apply(h, e.points)
<1>1. e.points \in Seq(PointSet) /\ DOMAIN e.points = 1 .. Len(e.points)
      /\ \A j \in 1 .. Len(e.points) : e.points[j] \in PointSet
  BY EventFields, PointsOf
<1>2. h \in [PointSet -> PointSet]
  <2>1. -100 \in Int
    OBVIOUS
  <2> QED
    BY <2>1, AdjustedType
<1>3. Map(LAMBDA p : Adjusted(p, info, -100), e.points) = s
  BY <1>1 DEF Map, Apply
<1> HIDE DEF h
<1>4. s \in Seq(PointSet)
  BY <1>1, <1>2, MapType
<1> HIDE DEF s
<1>5. [e EXCEPT !.points = s] \in EventSet
  BY <1>4, WithPoints
<1>6. Adjusted(e, info, 0) \in EventSet
  BY AdjustedType
<1>7. AdjustedEvent(e, info) = Adjusted(e, info, 0)
      \/ AdjustedEvent(e, info) = [e EXCEPT !.points = s]
  BY <1>3 DEF AdjustedEvent
<1> QED
  BY <1>5, <1>6, <1>7

\* The whole package.
LEMMA MergeType ==
  ASSUME NEW info \in InfoSet, NEW p \in PackageSet
  PROVE  MergeVibratorParmeters(info, p) \in PackageSet
<1> DEFINE h == [e \in EventSet |-> AdjustedEvent(e, info)]
           g == [q \in PatternSet |-> [q EXCEPT !.events = Apply(h, q.events)]]
           s == Apply(g, p.patterns)
<1>1. h \in [EventSet -> EventSet] /\ \A e \in EventSet : h[e] = AdjustedEvent(e, info)
  BY AdjustedEventType
<1> HIDE DEF h
<1>2. \A q \in PatternSet : Map(LAMBDA e : AdjustedEvent(e, info), q.events) = Apply(h, q.events)
  <2> SUFFICES ASSUME NEW q \in PatternSet
               PROVE  Map(LAMBDA e : AdjustedEvent(e, info), q.events) = Apply(h, q.events)
    OBVIOUS
  <2>1. DOMAIN q.events = 1 .. Len(q.events) /\ \A i \in 1 .. Len(q.events) : q.events[i] \in EventSet
    BY PatternFields
  <2> QED
    BY <1>1, <2>1 DEF Map, Apply
<1>3. g \in [PatternSet -> PatternSet]
  <2> SUFFICES ASSUME NEW q \in PatternSet
               PROVE  [q EXCEPT !.events = Apply(h, q.events)] \in PatternSet
    OBVIOUS
  <2>1. q.events \in Seq(EventSet)
    BY PatternFields
  <2>2. Apply(h, q.events) \in Seq(EventSet)
    BY <1>1, <2>1, MapType
  <2> QED
    BY <2>2, WithEvents
<1>4. p.patterns \in Seq(PatternSet) /\ DOMAIN p.patterns = 1 .. Len(p.patterns)
      /\ \A k \in 1 .. Len(p.patterns) : p.patterns[k] \in PatternSet
  BY PackageFields
<1>5. Map(LAMBDA q : [q EXCEPT !.events = Map(LAMBDA e : AdjustedEvent(e, info), @)], p.patterns) = s
  BY <1>2, <1>4 DEF Map, Apply
<1> HIDE DEF g
<1>6. s \in Seq(PatternSet)
  BY <1>3, <1>4, MapType
<1> HIDE DEF s
<1>7. [p EXCEPT !.patterns = s] \in PackageSet
  BY <1>6, WithPatterns
<1>8. MergeVibratorParmeters(info, p) = p
      \/ MergeVibratorParmeters(info, p) = [p EXCEPT !.patterns = s]
  BY <1>5 DEF MergeVibratorParmeters
<1> QED
  BY <1>7, <1>8

\* The elements that pass a test do, and are of the sequence.
LEMMA OnlyThose ==
  ASSUME NEW T, NEW U, NEW g \in [T -> Seq(U)], NEW s \in Seq(T)
  PROVE  Bind(g, s) \in Seq(U)
<1>1. \A u \in Seq(T) : Bind(g, u) \in Seq(U)
  BY BindType
<1> QED
  BY <1>1

\* The events of a vibrator's position.
LEMMA TakenType ==
  ASSUME NEW p \in PackageSet, NEW position
  PROVE  CopyInfoWithIndexEvents(p, position) \in PackageSet
<1> DEFINE Playing == {q \in PatternSet : q.events # <<>>}
           g == [e \in EventSet |-> IF e.index \in {0, position} THEN <<e>> ELSE <<>>]
           h == [q \in PatternSet |-> [q EXCEPT !.events = Bind(g, q.events)]]
           f == [q \in PatternSet |-> IF q.events # <<>> THEN <<q>> ELSE <<>>]
           s == Apply(h, p.patterns)
           kept == Bind(f, s)
           d == IF kept = <<>> THEN 0 ELSE Last(Last(kept).events).duration
<1>1. p.patterns \in Seq(PatternSet) /\ DOMAIN p.patterns = 1 .. Len(p.patterns)
      /\ \A k \in 1 .. Len(p.patterns) : p.patterns[k] \in PatternSet
  BY PackageFields
<1>2. g \in [EventSet -> Seq(EventSet)]
      /\ \A e \in EventSet : g[e] = IF e.index \in {0, position} THEN <<e>> ELSE <<>>
  <2>1. \A e \in EventSet : <<e>> \in Seq(EventSet)
    BY One
  <2>2. <<>> \in Seq(EventSet)
    BY CatEmpty
  <2> QED
    BY <2>1, <2>2
<1>3. f \in [PatternSet -> Seq(Playing)]
      /\ \A q \in PatternSet : f[q] = IF q.events # <<>> THEN <<q>> ELSE <<>>
  <2>1. \A q \in Playing : <<q>> \in Seq(Playing)
    <3> HIDE DEF Playing
    <3> QED
      BY One
  <2>2. <<>> \in Seq(Playing)
    BY CatEmpty
  <2> QED
    BY <2>1, <2>2
<1> HIDE DEF g
<1>4. \A q \in PatternSet : Only(LAMBDA e : e.index \in {0, position}, q.events) = Bind(g, q.events)
  <2> SUFFICES ASSUME NEW q \in PatternSet
               PROVE  Only(LAMBDA e : e.index \in {0, position}, q.events) = Bind(g, q.events)
    OBVIOUS
  <2>1. DOMAIN q.events = 1 .. Len(q.events) /\ \A i \in 1 .. Len(q.events) : q.events[i] \in EventSet
    BY PatternFields
  <2>2. Map(LAMBDA e : IF e.index \in {0, position} THEN <<e>> ELSE <<>>, q.events)
          = Apply(g, q.events)
    BY <1>2, <2>1 DEF Map, Apply
  <2> QED
    BY <2>2 DEF Only, Bind
<1>5. h \in [PatternSet -> PatternSet]
  <2> SUFFICES ASSUME NEW q \in PatternSet
               PROVE  [q EXCEPT !.events = Bind(g, q.events)] \in PatternSet
    OBVIOUS
  <2>1. q.events \in Seq(EventSet)
    BY PatternFields
  <2>2. Bind(g, q.events) \in Seq(EventSet)
    BY <1>2, <2>1, OnlyThose
  <2> QED
    BY <2>2, WithEvents
<1>6. Map(LAMBDA q : [q EXCEPT !.events = Only(LAMBDA e : e.index \in {0, position}, @)],
          p.patterns) = s
  BY <1>1, <1>4 DEF Map, Apply
<1> HIDE DEF h, f
<1>7. s \in Seq(PatternSet)
  BY <1>1, <1>5, MapType
<1>8. Only(LAMBDA q : q.events # <<>>, s) = kept
  <2> HIDE DEF s
  <2>1. \A i \in DOMAIN s : s[i] \in PatternSet
    BY <1>7
  <2>2. Map(LAMBDA q : IF q.events # <<>> THEN <<q>> ELSE <<>>, s) = Apply(f, s)
    BY <1>3, <2>1 DEF Map, Apply
  <2> QED
    BY <2>2 DEF Only, Bind
<1> HIDE DEF s
<1>9. kept \in Seq(Playing)
  <2> HIDE DEF Playing
  <2> QED
    BY <1>3, <1>7, OnlyThose
<1>10. kept \in Seq(PatternSet)
  <2>1. Playing \subseteq PatternSet
    OBVIOUS
  <2> HIDE DEF Playing, kept
  <2> QED
    BY <1>9, <2>1
<1> HIDE DEF kept
<1>11. d \in Int
  <2>1. CASE kept # <<>>
    <3>1. Last(kept) \in Playing
      <4> HIDE DEF Playing
      <4> QED
        BY <1>9, <2>1 DEF Last
    <3>2. Last(kept).events \in Seq(EventSet) /\ Last(kept).events # <<>>
      BY <3>1, PatternFields
    <3>3. Last(Last(kept).events) \in EventSet
      BY <3>2 DEF Last
    <3>4. Last(Last(kept).events).duration \in Int
      BY <3>3, EventFields
    <3> QED
      BY <2>1, <3>4
  <2> QED
    BY <2>1
<1>12. CopyInfoWithIndexEvents(p, position) = Package(d, kept)
  BY <1>6, <1>8 DEF CopyInfoWithIndexEvents
<1> HIDE DEF d
<1> QED
  BY <1>10, <1>11, <1>12 DEF Package, PackageSet

-----------------------------------------------------------------------------
(* One line of events.                                                       *)

\* The last event as it is rested: it ends at most the rest earlier, and the
\* motor rests before the next, or it is empty.
LEMMA RestedIs ==
  ASSUME NEW last \in EventSet, NEW time \in Int, last.duration >= 15, time >= EndOf(last),
         NEW r, r = Rested(last, time)
  PROVE  /\ r \in EventSet /\ r.tag = last.tag /\ r.time = last.time
         /\ EndOf(r) \in Int /\ EndOf(last) <= EndOf(r) + VIBRATOR_DELAY
         /\ time - EndOf(r) >= VIBRATOR_DELAY \/ r.duration = 0
<1>1. last.time \in Int /\ last.duration \in Int
  BY EventFields
<1>2. \A d \in Int : LET x == [last EXCEPT !.duration = d]
                     IN  x \in EventSet /\ x.tag = last.tag /\ x.time = last.time /\ x.duration = d
  BY DEF EventSet
<1> DEFINE gap == time - EndOf(last)
           cut == last.duration + gap - VIBRATOR_DELAY
           d == IF cut < 0 THEN 0 ELSE cut
<1>3. CASE gap >= VIBRATOR_DELAY
  BY <1>1, <1>3 DEF Rested, EndOf, VIBRATOR_DELAY
<1>4. CASE ~(gap >= VIBRATOR_DELAY)
  <2>1. r = [last EXCEPT !.duration = d] /\ d \in Int
    BY <1>1, <1>4 DEF Rested, EndOf, VIBRATOR_DELAY
  <2>2. r \in EventSet /\ r.tag = last.tag /\ r.time = last.time /\ r.duration = d
    <3> HIDE DEF d
    <3> QED
      BY <1>2, <2>1
  <2>3. \A a, b \in Int : b >= 15 /\ time >= a + b /\ ~(time - (a + b) >= 20) =>
          LET c == b + (time - (a + b)) - 20
              e == IF c < 0 THEN 0 ELSE c
          IN  /\ a + b <= (a + e) + 20
              /\ time - (a + e) >= 20 \/ e = 0
    OBVIOUS
  <2>4. EndOf(last) <= (last.time + d) + 20 /\ (time - (last.time + d) >= 20 \/ d = 0)
    BY <1>1, <1>4, <2>3 DEF EndOf, VIBRATOR_DELAY
  <2>5. EndOf(r) = last.time + d /\ EndOf(r) \in Int
    BY <1>1, <2>1, <2>2 DEF EndOf
  <2> HIDE DEF d
  <2> QED
    BY <2>2, <2>4, <2>5 DEF VIBRATOR_DELAY
<1> QED
  BY <1>3, <1>4

\* Two events as one: it ends when both have ended.
LEMMA MergedIs ==
  ASSUME NEW last \in EventSet, NEW e \in EventSet, last.duration >= 15,
         NEW r, r = Merged(last, e)
  PROVE  /\ r \in EventSet /\ r.tag = last.tag /\ r.time = last.time /\ r.duration >= 15
         /\ EndOf(r) \in Int /\ EndOf(last) <= EndOf(r) /\ EndOf(e) <= EndOf(r)
<1>1. last.time \in Int /\ last.duration \in Int /\ e.time \in Int /\ e.duration \in Int
  BY EventFields
<1>2. \A d \in Int : LET x == [last EXCEPT !.duration = d]
                     IN  x \in EventSet /\ x.tag = last.tag /\ x.time = last.time /\ x.duration = d
  BY DEF EventSet
<1> DEFINE end == IF EndOf(last) > EndOf(e) THEN EndOf(last) ELSE EndOf(e)
           d == end - last.time
<1>3. end \in Int /\ EndOf(last) <= end /\ EndOf(e) <= end /\ EndOf(last) = last.time + last.duration
  BY <1>1 DEF EndOf
<1>4. r = [last EXCEPT !.duration = d]
  BY DEF Merged
<1> HIDE DEF end
<1>5. d \in Int /\ d >= 15 /\ last.time + d = end
  BY <1>1, <1>3
<1> HIDE DEF d
<1>6. r \in EventSet /\ r.tag = last.tag /\ r.time = last.time /\ r.duration = d
  BY <1>2, <1>4, <1>5
<1> QED
  BY <1>3, <1>5, <1>6 DEF EndOf

\* What one more event does to the line: it is appended, the last is rested
\* before it, or they become one.
Appended(line, e, new) ==
  /\ Len(new) = Len(line) + 1 /\ \A j \in 1 .. Len(line) : new[j] = line[j]
  /\ new[Len(line) + 1] = e
  /\ line # <<>> => line[Len(line)].tag = EVENT_TAG_TRANSIENT

RestedBefore(line, e, new) ==
  /\ Len(new) = Len(line) + 1 /\ \A j \in 1 .. Len(line) - 1 : new[j] = line[j]
  /\ line # <<>> /\ new[Len(line)] = Rested(line[Len(line)], e.time)
  /\ new[Len(line) + 1] = e /\ e.time >= EndOf(line[Len(line)])

MergedWith(line, e, new) ==
  /\ Len(new) = Len(line) /\ \A j \in 1 .. Len(line) - 1 : new[j] = line[j]
  /\ line # <<>> /\ new[Len(line)] = Merged(line[Len(line)], e)

\* A sequence with another last element.
LEMMA LastReplaced ==
  ASSUME NEW T, NEW s \in Seq(T), s # <<>>, NEW x \in T
  PROVE  /\ Append(Front(s), x) \in Seq(T) /\ Len(Append(Front(s), x)) = Len(s)
         /\ \A j \in 1 .. Len(s) - 1 : Append(Front(s), x)[j] = s[j]
         /\ Append(Front(s), x)[Len(s)] = x
<1>1. /\ Front(s) \in Seq(T) /\ Len(Front(s)) = Len(s) - 1
      /\ \A j \in 1 .. Len(s) - 1 : Front(s)[j] = s[j]
  <2>1. \A u \in Seq(T) : \A n \in 0 .. Len(u) :
          SubSeq(u, 1, n) \in Seq(T) /\ Len(SubSeq(u, 1, n)) = n
    OBVIOUS
  <2>2. \A u \in Seq(T) : \A n \in 0 .. Len(u) : \A j \in 1 .. n : SubSeq(u, 1, n)[j] = u[j]
    OBVIOUS
  <2>3. Len(s) - 1 \in 0 .. Len(s)
    OBVIOUS
  <2> QED
    BY <2>1, <2>2, <2>3 DEF Front
<1> HIDE DEF Front
<1>2. Len(s) \in Nat /\ Len(s) >= 1
  OBVIOUS
<1> QED
  BY <1>1, <1>2

\* What the mixer does with one event: it appends, appends after a rest, or merges.
LEMMA MixCases ==
  ASSUME NEW line \in Seq(EventSet), NEW e \in EventSet,
         line # <<>> => line[Len(line)].duration >= 15,
         NEW new, new = MixOne(line, e)
  PROVE  /\ new \in Seq(EventSet)
         /\ Appended(line, e, new) \/ RestedBefore(line, e, new) \/ MergedWith(line, e, new)
<1> DEFINE last == line[Len(line)]
<1>1. line # <<>> => last \in EventSet /\ Last(line) = last /\ Len(line) >= 1
  BY DEF Last
<1>2. e.time \in Int
  BY EventFields
<1> HIDE DEF last
<1>3. CASE line = <<>> \/ last.tag = EVENT_TAG_TRANSIENT
  <2>1. new = Append(line, e)
    BY <1>1, <1>3 DEF MixOne
  <2>2. Len(line) \in Nat
    OBVIOUS
  <2> QED
    BY <1>3, <2>1, <2>2 DEF Appended, last
<1>4. CASE ~(line = <<>> \/ last.tag = EVENT_TAG_TRANSIENT) /\ e.time >= EndOf(last)
  <2> DEFINE r == Rested(last, e.time)
             s == Append(Front(line), r)
  <2>1. new = s \o <<e>>
    BY <1>1, <1>4 DEF MixOne
  <2>2. r \in EventSet
    BY <1>1, <1>2, <1>4, RestedIs DEF last
  <2> HIDE DEF r
  <2>3. /\ s \in Seq(EventSet) /\ Len(s) = Len(line)
        /\ \A j \in 1 .. Len(line) - 1 : s[j] = line[j]
        /\ s[Len(line)] = r
    BY <1>4, <2>2, LastReplaced
  <2> HIDE DEF s
  <2>4. Len(line) \in Nat /\ Len(line) >= 1
    BY <1>1, <1>4
  <2>5. /\ new \in Seq(EventSet) /\ Len(new) = Len(line) + 1
        /\ \A j \in 1 .. Len(line) : new[j] = s[j]
        /\ new[Len(line) + 1] = e
    <3>1. new = Add(s, e)
      BY <2>1, <2>3, AppendIsConcat, Zenon DEF Add
    <3>2. \A u \in Seq(EventSet) : \A x \in EventSet :
            Add(u, x) \in Seq(EventSet) /\ Len(Add(u, x)) = Len(u) + 1
      BY AddType, Zenon
    <3>3. \A u \in Seq(EventSet) : \A x \in EventSet :
            (\A j \in 1 .. Len(u) : Add(u, x)[j] = u[j]) /\ Add(u, x)[Len(u) + 1] = x
      BY AddElements, Zenon
    <3>4. s \in Seq(EventSet) /\ Len(s) = Len(line)
      BY <2>3
    <3>5. new \in Seq(EventSet) /\ Len(new) = Len(s) + 1
      BY <3>1, <3>2, <3>4, Zenon
    <3>6. (\A j \in 1 .. Len(s) : Add(s, e)[j] = s[j]) /\ Add(s, e)[Len(s) + 1] = e
      BY <3>3, <3>4, Zenon
    <3> QED
      BY <3>1, <3>4, <3>5, <3>6
  <2>6. RestedBefore(line, e, new)
    BY <1>4, <2>3, <2>4, <2>5 DEF RestedBefore, last, r
  <2> QED
    BY <2>5, <2>6
<1>5. CASE ~(line = <<>> \/ last.tag = EVENT_TAG_TRANSIENT) /\ ~(e.time >= EndOf(last))
  <2> DEFINE r == Merged(last, e)
             s == Append(Front(line), r)
  <2>1. new = s
    BY <1>1, <1>5 DEF MixOne
  <2>2. r \in EventSet
    BY <1>1, <1>5, MergedIs DEF last
  <2> HIDE DEF r
  <2>3. /\ s \in Seq(EventSet) /\ Len(s) = Len(line)
        /\ \A j \in 1 .. Len(line) - 1 : s[j] = line[j]
        /\ s[Len(line)] = r
    BY <1>5, <2>2, LastReplaced
  <2> HIDE DEF s
  <2>4. MergedWith(line, e, new)
    BY <1>5, <2>1, <2>3 DEF MergedWith, last, r
  <2> QED
    BY <2>1, <2>3, <2>4
<1> QED
  BY <1>3, <1>4, <1>5

\* The lines that mixing makes, and the events as it takes them.
Lines == {line \in Seq(EventSet) : line # <<>> => line[Len(line)].duration >= 15}

LongEvents == {e \in EventSet : e.duration >= 15}

Prolonged ==
  [e \in EventSet |-> [e EXCEPT !.duration = IF @ < CONTINUOUS_VIBRATION_DURATION_MIN
                                             THEN CONTINUOUS_VIBRATION_DURATION_MIN ELSE @]]

Unmixed(p) == Apply(Prolonged, Flattened(p))

MixRun(f, events) ==
  /\ f \in [0 .. Len(events) -> Lines]
  /\ f[0] = <<>>
  /\ \A i \in 1 .. Len(events) : f[i] = MixOne(f[i - 1], events[i])

\* What a prolonged event keeps.
LEMMA ProlongedIs ==
  /\ Prolonged \in [EventSet -> LongEvents]
  /\ \A e \in EventSet : /\ Prolonged[e].time = e.time
                         /\ EndOf(e) \in Int /\ EndOf(Prolonged[e]) \in Int
                         /\ EndOf(e) <= EndOf(Prolonged[e])
<1> SUFFICES ASSUME NEW e \in EventSet
             PROVE  /\ Prolonged[e] \in LongEvents
                    /\ Prolonged[e].time = e.time
                    /\ EndOf(e) \in Int /\ EndOf(Prolonged[e]) \in Int
                    /\ EndOf(e) <= EndOf(Prolonged[e])
  BY DEF Prolonged
<1>1. e.time \in Int /\ e.duration \in Int
  BY EventFields
<1>2. \A d \in Int : LET x == [e EXCEPT !.duration = d]
                     IN  x \in EventSet /\ x.time = e.time /\ x.duration = d
  BY DEF EventSet
<1> DEFINE d == IF e.duration < 15 THEN 15 ELSE e.duration
<1>3. Prolonged[e] = [e EXCEPT !.duration = d]
  BY DEF Prolonged, CONTINUOUS_VIBRATION_DURATION_MIN
<1>4. d \in Int /\ d >= 15 /\ e.duration <= d
  BY <1>1
<1> HIDE DEF d
<1>5. Prolonged[e] \in EventSet /\ Prolonged[e].time = e.time /\ Prolonged[e].duration = d
  BY <1>2, <1>3, <1>4
<1> QED
  BY <1>1, <1>4, <1>5 DEF EndOf, LongEvents

\* One more event makes a line of a line.
LEMMA MixType ==
  ASSUME NEW line \in Lines, NEW e \in LongEvents
  PROVE  MixOne(line, e) \in Lines
<1> DEFINE new == MixOne(line, e)
<1>1. /\ line \in Seq(EventSet) /\ e \in EventSet /\ e.duration >= 15
      /\ line # <<>> => line[Len(line)].duration >= 15
  BY DEF Lines, LongEvents
<1>2. /\ new \in Seq(EventSet)
      /\ Appended(line, e, new) \/ RestedBefore(line, e, new) \/ MergedWith(line, e, new)
  BY <1>1, MixCases
<1> HIDE DEF new
<1>3. CASE Appended(line, e, new) \/ RestedBefore(line, e, new)
  <2>1. new[Len(new)] = e
    BY <1>3 DEF Appended, RestedBefore
  <2> QED
    BY <1>1, <1>2, <2>1 DEF Lines, new
<1>4. CASE MergedWith(line, e, new)
  <2>1. Len(new) = Len(line) /\ line # <<>> /\ new[Len(new)] = Merged(line[Len(line)], e)
    BY <1>4 DEF MergedWith
  <2>2. line[Len(line)] \in EventSet
    BY <1>1, <2>1
  <2>3. Merged(line[Len(line)], e).duration >= 15
    BY <1>1, <2>1, <2>2, MergedIs
  <2> QED
    BY <1>2, <2>1, <2>3 DEF Lines, new
<1> QED
  BY <1>2, <1>3, <1>4

\* The recursive function of MixedWaveProcess, event by event.
LEMMA MixRuns ==
  ASSUME NEW events \in Seq(LongEvents)
  PROVE  \E f : /\ MixRun(f, events)
                /\ LET Mixed[i \in 0 .. Len(events)] ==
                         IF i = 0 THEN <<>> ELSE MixOne(Mixed[i - 1], events[i])
                   IN  Mixed = f
<1> DEFINE n == Len(events)
           Eq(g) == g = [i \in 0 .. n |-> IF i = 0 THEN <<>> ELSE MixOne(g[i - 1], events[i])]
           F == CHOOSE g : Eq(g)
           step == [x \in (0 + 1 .. n) \X Lines |-> MixOne(x[2], events[x[1]])]
<1>1. n \in Nat /\ \A i \in 0 + 1 .. n : events[i] \in LongEvents /\ i # 0
  OBVIOUS
<1>2. <<>> \in Lines
  BY CatEmpty DEF Lines
<1> SUFFICES \E f : MixRun(f, events) /\ F = f
  OBVIOUS
<1> USE DEF n
<1>3. step \in Steps(0, n, Lines)
  <2> HIDE DEF n
  <2>1. \A i \in 0 + 1 .. n, v \in Lines : MixOne(v, events[i]) \in Lines
    BY <1>1, MixType
  <2> QED
    BY <2>1 DEF Steps
<1> HIDE DEF n
<1>4. \A i \in 0 + 1 .. n, v \in Lines : step[<<i, v>>] = MixOne(v, events[i])
  OBVIOUS
<1> HIDE DEF step
<1>5. \E g : IsRun(g, 0, n, Lines, <<>>, step)
  <2>1. 0 \in Int /\ n \in Int /\ 0 <= n
    BY <1>1
  <2> QED
    BY <1>2, <1>3, <2>1, RunExists
<1>6. PICK g \in [0 .. n -> Lines] :
        /\ g[0] = <<>>
        /\ \A i \in 0 + 1 .. n : g[i] = step[<<i, g[i - 1]>>]
  BY <1>5 DEF IsRun
<1>7. \A i \in 0 + 1 .. n : g[i] = MixOne(g[i - 1], events[i])
  <2> SUFFICES ASSUME NEW i \in 0 + 1 .. n
               PROVE  g[i] = MixOne(g[i - 1], events[i])
    OBVIOUS
  <2>1. i - 1 \in 0 .. n
    BY <1>1
  <2>2. g[i - 1] \in Lines
    BY <1>6, <2>1
  <2> QED
    BY <1>4, <1>6, <2>2
<1>8. \A i \in 0 .. n : g[i] = IF i = 0 THEN <<>> ELSE MixOne(g[i - 1], events[i])
  <2>1. \A i \in 0 .. n : i = 0 \/ i \in 0 + 1 .. n
    BY <1>1
  <2> QED
    BY <1>1, <1>6, <1>7, <2>1
<1>9. Eq(F)
  <2>1. Eq(g)
    BY <1>8
  <2> HIDE DEF Eq
  <2> QED
    BY <2>1
<1> HIDE DEF F
<1> DEFINE S == {i \in 0 .. n : F[i] = g[i]}
<1>10. \A i \in 0 .. n : F[i] = IF i = 0 THEN <<>> ELSE MixOne(F[i - 1], events[i])
  BY <1>9
<1>11. \A i \in 0 .. n : i \in S
  <2>1. 0 \in S
    <3>1. 0 \in 0 .. n
      BY <1>1
    <3> QED
      BY <1>6, <1>10, <3>1
  <2>2. ASSUME NEW i \in 1 .. n, i - 1 \in S
        PROVE  i \in S
    <3>1. i \in 0 + 1 .. n /\ i \in 0 .. n /\ i # 0 /\ F[i - 1] = g[i - 1]
      BY <1>1, <2>2
    <3> QED
      BY <1>7, <1>10, <3>1
  <2> HIDE DEF S
  <2> QED
    BY <1>1, <2>1, <2>2, UpFromZero
<1>12. F = g
  <2>1. F = [i \in 0 .. n |-> IF i = 0 THEN <<>> ELSE MixOne(F[i - 1], events[i])]
    BY <1>9
  <2>2. DOMAIN F = 0 .. n
    BY <2>1
  <2>3. F = [i \in 0 .. n |-> F[i]]
    BY <1>10, <2>1
  <2>4. \A i \in 0 .. n : F[i] = g[i]
    BY <1>11
  <2>5. g = [i \in 0 .. n |-> g[i]]
    OBVIOUS
  <2> QED
    BY <2>3, <2>4, <2>5
<1>13. MixRun(g, events)
  <2>1. \A i \in 1 .. n : i \in 0 + 1 .. n
    BY <1>1
  <2> QED
    BY <1>6, <1>7, <2>1 DEF MixRun, n
<1> QED
  BY <1>12, <1>13

\* The line is what the run over the package's prolonged events makes.
LEMMA MixedIs ==
  ASSUME NEW p \in PackageSet
  PROVE  /\ Unmixed(p) \in Seq(LongEvents) /\ Len(Unmixed(p)) = Len(Flattened(p))
         /\ \A i \in 1 .. Len(Flattened(p)) : Unmixed(p)[i] = Prolonged[Flattened(p)[i]]
         /\ \E f : MixRun(f, Unmixed(p)) /\ f[Len(Unmixed(p))] = MixedWaveProcess(p)
<1> DEFINE ps == p.patterns
           h == [q \in PatternSet |-> Apply(Prolonged, AtStart[q])]
<1>1. ps \in Seq(PatternSet) /\ DOMAIN ps = 1 .. Len(ps)
      /\ \A k \in 1 .. Len(ps) : ps[k] \in PatternSet
  BY PackageFields
<1>2. Flattened(p) \in Seq(EventSet) /\ Flattened(p) = Bind(AtStart, ps)
  BY FlattenedIs, FlattenedType
<1>3. Unmixed(p) \in Seq(LongEvents) /\ Len(Unmixed(p)) = Len(Flattened(p))
      /\ \A i \in 1 .. Len(Flattened(p)) : Unmixed(p)[i] = Prolonged[Flattened(p)[i]]
  <2>1. \A s \in Seq(EventSet) : Apply(Prolonged, s) \in Seq(LongEvents)
    BY ProlongedIs, ApplySeq
  <2>2. \A s \in Seq(EventSet) : Len(Apply(Prolonged, s)) = Len(s)
    BY ApplyLen
  <2>3. \A s \in Seq(EventSet) : \A i \in 1 .. Len(s) : Apply(Prolonged, s)[i] = Prolonged[s[i]]
    BY ApplyAt
  <2> QED
    BY <1>2, <2>1, <2>2, <2>3, Zenon DEF Unmixed
<1>4. h \in [PatternSet -> Seq(LongEvents)] /\ \A q \in PatternSet : h[q] = Apply(Prolonged, AtStart[q])
  <2>1. \A q \in PatternSet : AtStart[q] \in Seq(EventSet)
    BY AtStartType
  <2>2. \A s \in Seq(EventSet) : Apply(Prolonged, s) \in Seq(LongEvents)
    BY ProlongedIs, ApplySeq
  <2> QED
    BY <2>1, <2>2
<1>5. \A q \in PatternSet : Map(LAMBDA e : PreProcessEvent(e, q.startTime), q.events) = h[q]
  <2> SUFFICES ASSUME NEW q \in PatternSet
               PROVE  Map(LAMBDA e : PreProcessEvent(e, q.startTime), q.events) = h[q]
    OBVIOUS
  <2> DEFINE s == AtStart[q]
  <2>1. q.startTime \in Int /\ DOMAIN q.events = 1 .. Len(q.events)
        /\ Len(q.events) \in Nat /\ \A i \in 1 .. Len(q.events) : q.events[i] \in EventSet
    BY PatternFields
  <2>2. s \in Seq(EventSet) /\ Len(s) = Len(q.events)
        /\ \A i \in 1 .. Len(q.events) : s[i] = Shift(q.startTime)[q.events[i]]
    BY AtStartEvents
  <2>3. \A e \in EventSet : Shift(q.startTime)[e] = [e EXCEPT !.time = @ + q.startTime]
                            /\ Shift(q.startTime)[e] \in EventSet
    BY <2>1, ShiftType
  <2>4. ASSUME NEW e \in EventSet
        PROVE  PreProcessEvent(e, q.startTime) = Prolonged[Shift(q.startTime)[e]]
    <3> DEFINE x == Shift(q.startTime)[e]
    <3>1. x \in EventSet /\ x = [e EXCEPT !.time = @ + q.startTime]
      BY <2>3
    <3>2. Prolonged[x] = [x EXCEPT !.duration = IF @ < CONTINUOUS_VIBRATION_DURATION_MIN
                                                THEN CONTINUOUS_VIBRATION_DURATION_MIN ELSE @]
      BY <3>1 DEF Prolonged
    <3> HIDE DEF x
    <3>3. PreProcessEvent(e, q.startTime)
            = [x EXCEPT !.duration = IF @ < CONTINUOUS_VIBRATION_DURATION_MIN
                                     THEN CONTINUOUS_VIBRATION_DURATION_MIN ELSE @]
      BY <3>1 DEF PreProcessEvent, EventSet
    <3> QED
      BY <3>2, <3>3 DEF x
  <2> HIDE DEF s
  <2>5. DOMAIN s = 1 .. Len(q.events)
    BY <2>2
  <2>6. \A i \in 1 .. Len(q.events) : PreProcessEvent(q.events[i], q.startTime) = Prolonged[s[i]]
    BY <2>1, <2>2, <2>4
  <2>7. Map(LAMBDA e : PreProcessEvent(e, q.startTime), q.events) = Apply(Prolonged, s)
    BY <2>1, <2>5, <2>6 DEF Map, Apply
  <2> QED
    BY <1>4, <2>7 DEF s
<1> HIDE DEF h
<1>6. Map(LAMBDA q : Map(LAMBDA e : PreProcessEvent(e, q.startTime), q.events), ps) = Apply(h, ps)
  BY <1>1, <1>5 DEF Map, Apply
<1>7. Unmixed(p) = Bind(h, ps)
  <2>1. IsMapOf(PatternSet, EventSet, LongEvents, AtStart, Prolonged, h)
    BY <1>4, ProlongedIs, AtStartType DEF IsMapOf
  <2>2. \A s \in Seq(PatternSet) : Apply(Prolonged, Bind(AtStart, s)) = Bind(h, s)
    BY <2>1, ApplyBind
  <2> QED
    BY <1>1, <1>2, <2>2 DEF Unmixed
<1> DEFINE events == FlattenSeq(Map(LAMBDA q : Map(LAMBDA e : PreProcessEvent(e, q.startTime),
                                                   q.events), ps))
<1>8. events = Unmixed(p)
  BY <1>6, <1>7 DEF Bind
<1>9. MixedWaveProcess(p) = LET Mixed[i \in 0 .. Len(events)] ==
                                  IF i = 0 THEN <<>> ELSE MixOne(Mixed[i - 1], events[i])
                            IN  Mixed[Len(events)]
  BY DEF MixedWaveProcess
<1> HIDE DEF events, ps
<1>10. PICK f : /\ MixRun(f, events)
                /\ LET Mixed[i \in 0 .. Len(events)] ==
                         IF i = 0 THEN <<>> ELSE MixOne(Mixed[i - 1], events[i])
                   IN  Mixed = f
  BY <1>3, <1>8, MixRuns
<1>11. f[Len(events)] = MixedWaveProcess(p)
  BY <1>9, <1>10
<1> QED
  BY <1>3, <1>8, <1>10, <1>11

-----------------------------------------------------------------------------
(* The line of events keeps what the effects need.                           *)

\* The most an event of the line ends before what is merged into it.
Slack(line, j) == IF j = Len(line) THEN 0 ELSE VIBRATOR_DELAY

\* An event is heard to its end within the j-th of the line.
HeardIn(line, j, e) == line[j].time <= e.time /\ EndOf(e) <= EndOf(line[j]) + Slack(line, j)

RestsBefore(line, i) ==
  line[i - 1].tag = EVENT_TAG_CONTINUOUS =>
    \/ line[i].time - EndOf(line[i - 1]) >= VIBRATOR_DELAY
    \/ line[i - 1].duration = 0

\* The line of the first k events.
LineOf(line, events, k) ==
  /\ line \in Lines
  /\ line = <<>> <=> k = 0
  /\ k # 0 => line[Len(line)].time <= events[k].time
  /\ \A j \in 1 .. Len(line) : line[j].time >= 0
  /\ \A j \in 2 .. Len(line) : line[j - 1].time <= line[j].time
  /\ \A i \in 1 .. k : \E j \in 1 .. Len(line) : HeardIn(line, j, events[i])
  /\ \A i \in 2 .. Len(line) : RestsBefore(line, i)

\* How the line goes on: all but its last stay, the last keeps its tag and
\* time, and the new event is the last or merged into it.
LineGoesOn(line, e, new) ==
  /\ Len(new) \in {Len(line), Len(line) + 1}
  /\ \A j \in 1 .. Len(line) - 1 : new[j] = line[j]
  /\ \A j \in 1 .. Len(line) :
       /\ new[j].tag = line[j].tag /\ new[j].time = line[j].time
       /\ EndOf(line[j]) \in Int /\ EndOf(new[j]) \in Int
       /\ EndOf(line[j]) + Slack(line, j) <= EndOf(new[j]) + Slack(new, j)
  /\ Len(new) = Len(line) => line # <<>> /\ EndOf(e) <= EndOf(new[Len(line)])
  /\ Len(new) = Len(line) + 1 =>
       /\ new[Len(line) + 1] = e
       /\ line # <<>> => RestsBefore(new, Len(line) + 1)

\* Mixing one event more goes on with the line.
LEMMA MixGoesOn ==
  ASSUME NEW line \in Lines, NEW e \in LongEvents
  PROVE  LineGoesOn(line, e, MixOne(line, e))
<1> DEFINE new == MixOne(line, e)
           n == Len(line)
<1>1. /\ line \in Seq(EventSet) /\ e \in EventSet /\ e.duration >= 15
      /\ line # <<>> => line[n].duration >= 15
      /\ n \in Nat /\ \A j \in 1 .. n : line[j] \in EventSet
      /\ line # <<>> <=> n # 0
  BY DEF Lines, LongEvents
<1>2. /\ new \in Seq(EventSet)
      /\ Appended(line, e, new) \/ RestedBefore(line, e, new) \/ MergedWith(line, e, new)
  BY <1>1, MixCases
<1> SUFFICES LineGoesOn(line, e, new)
  OBVIOUS
<1> HIDE DEF new
<1>3. \A x \in EventSet : EndOf(x) \in Int /\ x.time \in Int
  BY EventFields DEF EndOf
<1>4. VIBRATOR_DELAY = 20
  BY DEF VIBRATOR_DELAY
<1> USE DEF Slack
<1> HIDE DEF n
<1>5. CASE Appended(line, e, new)
  <2>1. Len(new) = n + 1 /\ (\A j \in 1 .. n : new[j] = line[j]) /\ new[n + 1] = e
        /\ (line # <<>> => line[n].tag = EVENT_TAG_TRANSIENT)
    BY <1>5 DEF Appended, n
  <2>2. \A j \in 1 .. n : /\ new[j].tag = line[j].tag /\ new[j].time = line[j].time
                          /\ EndOf(line[j]) \in Int /\ EndOf(new[j]) \in Int
                          /\ EndOf(line[j]) + Slack(line, j) <= EndOf(new[j]) + Slack(new, j)
    <3> SUFFICES ASSUME NEW j \in 1 .. n
                 PROVE  EndOf(line[j]) + Slack(line, j) <= EndOf(new[j]) + Slack(new, j)
      BY <1>1, <1>3, <2>1
    <3>1. new[j] = line[j] /\ EndOf(line[j]) \in Int
      BY <1>1, <1>3, <2>1
    <3>2. Slack(new, j) = 20 /\ Slack(line, j) \in {0, 20}
      BY <1>1, <1>4, <2>1 DEF n
    <3> QED
      BY <3>1, <3>2
  <2>3. line # <<>> => RestsBefore(new, n + 1)
    <3> SUFFICES ASSUME line # <<>>
                 PROVE  RestsBefore(new, n + 1)
      OBVIOUS
    <3>1. n \in 1 .. n /\ (n + 1) - 1 = n
      BY <1>1
    <3>2. new[n].tag = EVENT_TAG_TRANSIENT
      BY <2>1, <3>1
    <3> QED
      BY <3>1, <3>2 DEF RestsBefore, EVENT_TAG_TRANSIENT, EVENT_TAG_CONTINUOUS
  <2>4. n + 1 # n /\ \A j \in 1 .. n - 1 : j \in 1 .. n
    BY <1>1
  <2> QED
    BY <2>1, <2>2, <2>3, <2>4 DEF LineGoesOn, n
<1>6. CASE RestedBefore(line, e, new)
  <2> DEFINE last == line[n]
             r == new[n]
  <2>1. Len(new) = n + 1 /\ (\A j \in 1 .. n - 1 : new[j] = line[j]) /\ line # <<>>
        /\ r = Rested(last, e.time) /\ new[n + 1] = e /\ e.time >= EndOf(last)
    BY <1>6 DEF RestedBefore, n
  <2>2. n \in 1 .. n /\ (n + 1) - 1 = n /\ \A j \in 1 .. n : j = n \/ j \in 1 .. n - 1
    BY <1>1, <2>1
  <2>3. last \in EventSet /\ last.duration >= 15 /\ e.time \in Int
    BY <1>1, <1>3, <2>1, <2>2
  <2> HIDE DEF last, r
  <2>4. /\ r \in EventSet /\ r.tag = last.tag /\ r.time = last.time
        /\ EndOf(r) \in Int /\ EndOf(last) <= EndOf(r) + VIBRATOR_DELAY
        /\ e.time - EndOf(r) >= VIBRATOR_DELAY \/ r.duration = 0
    BY <2>1, <2>3, RestedIs
  <2>5. \A j \in 1 .. n : /\ new[j].tag = line[j].tag /\ new[j].time = line[j].time
                          /\ EndOf(line[j]) \in Int /\ EndOf(new[j]) \in Int
                          /\ EndOf(line[j]) + Slack(line, j) <= EndOf(new[j]) + Slack(new, j)
    <3> SUFFICES ASSUME NEW j \in 1 .. n
                 PROVE  /\ new[j].tag = line[j].tag /\ new[j].time = line[j].time
                        /\ EndOf(line[j]) \in Int /\ EndOf(new[j]) \in Int
                        /\ EndOf(line[j]) + Slack(line, j) <= EndOf(new[j]) + Slack(new, j)
      OBVIOUS
    <3>1. Slack(new, j) = 20
      BY <1>1, <1>4, <2>1 DEF n
    <3>2. CASE j = n
      <4>1. Slack(line, j) = 0
        BY <3>2 DEF n
      <4>2. new[j] = r /\ line[j] = last
        BY <3>2 DEF r, last
      <4> QED
        BY <1>3, <1>4, <2>3, <2>4, <3>1, <4>1, <4>2
    <3>3. CASE j \in 1 .. n - 1
      <4>1. new[j] = line[j] /\ EndOf(line[j]) \in Int
        BY <1>1, <1>3, <2>1, <3>3
      <4>2. Slack(line, j) = 20
        BY <1>1, <1>4, <3>3 DEF n
      <4> QED
        BY <3>1, <4>1, <4>2
    <3> QED
      BY <2>2, <3>2, <3>3
  <2>6. RestsBefore(new, n + 1)
    BY <2>1, <2>2, <2>4 DEF RestsBefore, r
  <2>7. n + 1 # n
    BY <1>1
  <2> QED
    BY <2>1, <2>5, <2>6, <2>7 DEF LineGoesOn, n
<1>7. CASE MergedWith(line, e, new)
  <2> DEFINE last == line[n]
             r == new[n]
  <2>1. Len(new) = n /\ (\A j \in 1 .. n - 1 : new[j] = line[j]) /\ line # <<>>
        /\ r = Merged(last, e)
    BY <1>7 DEF MergedWith, n
  <2>2. n \in 1 .. n /\ \A j \in 1 .. n : j = n \/ j \in 1 .. n - 1
    BY <1>1, <2>1
  <2>3. last \in EventSet /\ last.duration >= 15
    BY <1>1, <2>1, <2>2
  <2> HIDE DEF last, r
  <2>4. /\ r \in EventSet /\ r.tag = last.tag /\ r.time = last.time
        /\ EndOf(r) \in Int /\ EndOf(last) <= EndOf(r) /\ EndOf(e) <= EndOf(r)
    BY <1>1, <2>1, <2>3, MergedIs
  <2>5. \A j \in 1 .. n : /\ new[j].tag = line[j].tag /\ new[j].time = line[j].time
                          /\ EndOf(line[j]) \in Int /\ EndOf(new[j]) \in Int
                          /\ EndOf(line[j]) + Slack(line, j) <= EndOf(new[j]) + Slack(new, j)
    <3> SUFFICES ASSUME NEW j \in 1 .. n
                 PROVE  /\ new[j].tag = line[j].tag /\ new[j].time = line[j].time
                        /\ EndOf(line[j]) \in Int /\ EndOf(new[j]) \in Int
                        /\ EndOf(line[j]) + Slack(line, j) <= EndOf(new[j]) + Slack(new, j)
      OBVIOUS
    <3>1. Slack(new, j) = Slack(line, j) /\ Slack(line, j) \in {0, 20}
      BY <1>1, <1>4, <2>1 DEF n
    <3>2. CASE j = n
      <4>2. new[j] = r /\ line[j] = last
        BY <3>2 DEF r, last
      <4> HIDE DEF Slack
      <4> QED
        BY <1>3, <2>3, <2>4, <3>1, <4>2
    <3>3. CASE j \in 1 .. n - 1
      <4>1. new[j] = line[j] /\ EndOf(line[j]) \in Int
        BY <1>1, <1>3, <2>1, <3>3
      <4> HIDE DEF Slack
      <4> QED
        BY <3>1, <4>1
    <3> QED
      BY <2>2, <3>2, <3>3
  <2>6. EndOf(e) <= EndOf(new[n])
    BY <2>4 DEF r
  <2>7. n + 1 # n
    BY <1>1
  <2> QED
    BY <2>1, <2>5, <2>6, <2>7 DEF LineGoesOn, n
<1> QED
  BY <1>2, <1>5, <1>6, <1>7

\* The events of a package that begin in their order, none before it.
OrderedLong(events) ==
  /\ events \in Seq(LongEvents)
  /\ \A i \in 1 .. Len(events) : events[i].time >= 0
  /\ \A i \in 2 .. Len(events) : events[i - 1].time <= events[i].time

\* The next event makes the line of one event more.
LEMMA LineStep ==
  ASSUME NEW events, OrderedLong(events), NEW k \in 1 .. Len(events),
         NEW line, LineOf(line, events, k - 1)
  PROVE  LineOf(MixOne(line, events[k]), events, k)
<1> DEFINE e == events[k]
           new == MixOne(line, e)
           n == Len(line)
           m == Len(new)
<1>1. /\ Len(events) \in Nat /\ e \in LongEvents /\ e.time >= 0
      /\ k \in Int /\ k >= 1 /\ (k \in 2 .. Len(events) \/ k = 1)
      /\ k \in 2 .. Len(events) => events[k - 1].time <= e.time
  BY DEF OrderedLong
<1>2. \A x \in EventSet : EndOf(x) \in Int /\ x.time \in Int
  BY EventFields DEF EndOf
<1>3. e \in EventSet /\ EndOf(e) \in Int /\ e.time \in Int
  BY <1>1, <1>2 DEF LongEvents
<1>4. /\ line \in Lines /\ line \in Seq(EventSet) /\ n \in Nat
      /\ \A j \in 1 .. n : line[j] \in EventSet
      /\ line # <<>> <=> n # 0
      /\ line = <<>> <=> k - 1 = 0
      /\ k - 1 # 0 => line[n].time <= events[k - 1].time
      /\ \A j \in 1 .. n : line[j].time >= 0
      /\ \A j \in 2 .. n : line[j - 1].time <= line[j].time
      /\ \A i \in 1 .. k - 1 : \E j \in 1 .. n : HeardIn(line, j, events[i])
      /\ \A i \in 2 .. n : RestsBefore(line, i)
  BY DEF LineOf, Lines
<1>5. new \in Lines /\ LineGoesOn(line, e, new)
  BY <1>1, <1>4, MixType, MixGoesOn
<1> HIDE DEF e, new
<1> SUFFICES LineOf(new, events, k)
  BY DEF new, e
<1>6. new \in Seq(EventSet) /\ \A j \in 1 .. m : new[j] \in EventSet
  BY <1>5 DEF Lines
<1> HIDE DEF n, m
<1>7. /\ m \in {n, n + 1}
      /\ \A j \in 1 .. n - 1 : new[j] = line[j]
      /\ \A j \in 1 .. n :
           /\ new[j].tag = line[j].tag /\ new[j].time = line[j].time
           /\ EndOf(line[j]) \in Int /\ EndOf(new[j]) \in Int
           /\ EndOf(line[j]) + Slack(line, j) <= EndOf(new[j]) + Slack(new, j)
      /\ m = n => line # <<>> /\ EndOf(e) <= EndOf(new[n])
      /\ m = n + 1 => new[n + 1] = e /\ (line # <<>> => RestsBefore(new, n + 1))
  BY <1>5 DEF LineGoesOn, n, m
<1>8. /\ n + 1 # n /\ n \in Nat /\ m \in Nat /\ m >= 1
      /\ \A j \in 1 .. m : j \in 1 .. n \/ (j = n + 1 /\ m = n + 1)
      /\ \A j \in 1 .. n : j \in 1 .. m
      /\ m = n => n \in 1 .. n
  BY <1>4, <1>7
<1>9. line # <<>> => n \in 1 .. n /\ line[n].time <= e.time /\ line[n].time \in Int
  <2> SUFFICES ASSUME line # <<>>
               PROVE  n \in 1 .. n /\ line[n].time <= e.time /\ line[n].time \in Int
    OBVIOUS
  <2>1. n \in 1 .. n
    BY <1>4
  <2>2. line[n].time \in Int
    BY <1>2, <1>4, <2>1
  <2>3. CASE k = 1
    BY <1>4, <2>3
  <2>4. CASE k \in 2 .. Len(events)
    <3>1. k - 1 # 0 /\ k - 1 \in 1 .. Len(events)
      BY <1>1, <2>4
    <3>2. events[k - 1] \in LongEvents
      BY <3>1 DEF OrderedLong
    <3>3. events[k - 1].time \in Int
      BY <1>2, <3>2 DEF LongEvents
    <3> QED
      BY <1>1, <1>3, <1>4, <2>1, <2>2, <2>4, <3>1, <3>3
  <2> QED
    BY <1>1, <2>3, <2>4
<1>10. \A j \in 1 .. m : new[j].time >= 0
  <2> SUFFICES ASSUME NEW j \in 1 .. m
               PROVE  new[j].time >= 0
    OBVIOUS
  <2>1. CASE j \in 1 .. n
    BY <1>4, <1>7, <2>1
  <2>2. CASE j = n + 1 /\ m = n + 1
    BY <1>1, <1>7, <2>2
  <2> QED
    BY <1>8, <2>1, <2>2
<1>11. \A j \in 2 .. m : new[j - 1].time <= new[j].time
  <2> SUFFICES ASSUME NEW j \in 2 .. m
               PROVE  new[j - 1].time <= new[j].time
    OBVIOUS
  <2>1. CASE j \in 1 .. n
    <3>1. j \in 2 .. n /\ j - 1 \in 1 .. n
      BY <1>8, <2>1
    <3>2. line[j - 1].time <= line[j].time
      BY <1>4, <3>1
    <3> QED
      BY <1>7, <2>1, <3>1, <3>2
  <2>2. CASE j = n + 1 /\ m = n + 1
    <3>1. j - 1 = n /\ n # 0
      BY <1>8, <2>2
    <3>2. line[n].time <= e.time /\ n \in 1 .. n
      BY <1>4, <1>9, <3>1
    <3>3. new[n].time = line[n].time /\ new[j] = e
      BY <1>7, <2>2, <3>2
    <3> QED
      BY <3>1, <3>2, <3>3
  <2>3. j \in 1 .. m
    BY <1>8
  <2> QED
    BY <1>8, <2>1, <2>2, <2>3
<1>12. line # <<>> => new[n].time = line[n].time
  BY <1>7, <1>9
<1>13. new # <<>> /\ new[m].time <= e.time
  <2>1. new # <<>>
    BY <1>6, <1>8 DEF m
  <2>2. CASE m = n
    BY <1>7, <1>9, <1>12, <2>1, <2>2
  <2>3. CASE m = n + 1
    BY <1>3, <1>7, <2>1, <2>3
  <2> QED
    BY <1>7, <2>2, <2>3
<1>14. \A i \in 2 .. m : RestsBefore(new, i)
  <2> SUFFICES ASSUME NEW i \in 2 .. m
               PROVE  RestsBefore(new, i)
    OBVIOUS
  <2>1. i \in 1 .. m
    BY <1>8
  <2>2. CASE i \in 1 .. n
    <3>1. i \in 2 .. n /\ i - 1 \in 1 .. n - 1
      BY <1>8, <2>2
    <3>2. RestsBefore(line, i)
      BY <1>4, <3>1
    <3>3. new[i - 1] = line[i - 1] /\ new[i].time = line[i].time
      BY <1>7, <2>2, <3>1
    <3> QED
      BY <3>2, <3>3 DEF RestsBefore
  <2>3. CASE i = n + 1 /\ m = n + 1
    <3>1. n # 0
      BY <1>8, <2>3
    <3> QED
      BY <1>4, <1>7, <2>3, <3>1
  <2> QED
    BY <1>8, <2>1, <2>2, <2>3
<1>15. \A i \in 1 .. k : \E j \in 1 .. m : HeardIn(new, j, events[i])
  <2> SUFFICES ASSUME NEW i \in 1 .. k
               PROVE  \E j \in 1 .. m : HeardIn(new, j, events[i])
    OBVIOUS
  <2>1. CASE i \in 1 .. k - 1
    <3>1. PICK j \in 1 .. n : HeardIn(line, j, events[i])
      BY <1>4, <2>1
    <3>2. i \in 1 .. Len(events)
      BY <1>1, <2>1
    <3>3. EndOf(events[i]) \in Int
      <4>1. events[i] \in LongEvents
        BY <3>2 DEF OrderedLong
      <4> QED
        BY <1>2, <4>1 DEF LongEvents
    <3>4. new[j].time = line[j].time /\ EndOf(line[j]) \in Int /\ EndOf(new[j]) \in Int
          /\ EndOf(line[j]) + Slack(line, j) <= EndOf(new[j]) + Slack(new, j)
      BY <1>7
    <3>5. Slack(line, j) \in Int /\ Slack(new, j) \in Int
      BY DEF Slack, VIBRATOR_DELAY
    <3>6. EndOf(events[i]) <= EndOf(new[j]) + Slack(new, j)
      BY <3>1, <3>3, <3>4, <3>5 DEF HeardIn
    <3>7. HeardIn(new, j, events[i])
      BY <3>1, <3>4, <3>6 DEF HeardIn
    <3> QED
      BY <1>8, <3>7
  <2>2. CASE i = k
    <3>1. events[i] = e
      BY <2>2 DEF e
    <3>2. m \in 1 .. m
      BY <1>8
    <3>3. new[m].time <= e.time
      BY <1>13
    <3>4. EndOf(e) <= EndOf(new[m]) /\ Slack(new, m) = 0 /\ EndOf(new[m]) \in Int
      <4>1. Slack(new, m) = 0
        BY DEF Slack, m
      <4>2. EndOf(new[m]) \in Int
        BY <1>2, <1>6, <3>2
      <4>3. CASE m = n
        BY <1>7, <4>1, <4>2, <4>3
      <4>4. CASE m = n + 1
        BY <1>3, <1>7, <4>1, <4>2, <4>4
      <4> QED
        BY <1>7, <4>3, <4>4
    <3>5. EndOf(e) <= EndOf(new[m]) + Slack(new, m)
      BY <1>3, <3>4
    <3>6. HeardIn(new, m, events[i])
      BY <3>1, <3>3, <3>5 DEF HeardIn
    <3> QED
      BY <3>2, <3>6
  <2> QED
    BY <1>1, <2>1, <2>2
<1>16. k # 0
  BY <1>1
<1> QED
  BY <1>5, <1>10, <1>11, <1>13, <1>14, <1>15, <1>16 DEF LineOf, m, e

\* The line of all events.
LEMMA LineHolds ==
  ASSUME NEW events, OrderedLong(events), NEW f, MixRun(f, events)
  PROVE  LineOf(f[Len(events)], events, Len(events))
<1> DEFINE n == Len(events)
           S == {k \in 0 .. n : LineOf(f[k], events, k)}
<1>1. n \in Nat /\ f \in [0 .. n -> Lines] /\ f[0] = <<>>
      /\ \A k \in 1 .. n : f[k] = MixOne(f[k - 1], events[k])
  BY DEF OrderedLong, MixRun
<1>2. 0 \in S
  <2>1. 0 \in 0 .. n
    BY <1>1
  <2>2. Len(<<>>) = 0 /\ 1 .. 0 = {} /\ 2 .. 0 = {}
    OBVIOUS
  <2>3. LineOf(<<>>, events, 0)
    BY <1>1, <2>1, <2>2 DEF LineOf
  <2> QED
    BY <1>1, <2>1, <2>3
<1>3. ASSUME NEW k \in 1 .. n, k - 1 \in S
      PROVE  k \in S
  <2>1. k \in 0 .. n
    BY <1>1
  <2>2. LineOf(f[k - 1], events, k - 1)
    BY <1>3
  <2>3. LineOf(MixOne(f[k - 1], events[k]), events, k)
    BY <2>2, LineStep
  <2> QED
    BY <1>1, <2>1, <2>3
<1>4. \A k \in 0 .. n : k \in S
  <2> HIDE DEF S, n
  <2> QED
    BY <1>1, <1>2, <1>3, UpFromZero
<1>5. n \in 0 .. n
  BY <1>1
<1> QED
  BY <1>4, <1>5

-----------------------------------------------------------------------------
(* The effects made of the line.                                             *)

\* The delays of the effects of a line.
DelaysOf(line, es) ==
  /\ line # <<>> /\ Len(es) = Len(line) + 1 /\ es = [i \in 1 .. Len(line) + 1 |-> es[i]]
  /\ \A i \in 1 .. Len(line) : es[i].delay = Delay(line, i)
  /\ es[Len(line) + 1].delay = line[Len(line)].duration

\* What ends with one more value, by its values.
LEMMA EndsWith ==
  ASSUME NEW n \in Nat, NEW g, g = [i \in 1 .. n |-> g[i]], NEW y
  PROVE  /\ Len(Append(g, y)) = n + 1
         /\ Append(g, y) = [i \in 1 .. n + 1 |-> Append(g, y)[i]]
         /\ \A i \in 1 .. n : Append(g, y)[i] = g[i]
         /\ Append(g, y)[n + 1] = y
<1> DEFINE T == {g[i] : i \in 1 .. n} \cup {y}
<1>1. y \in T /\ \A i \in 1 .. n : g[i] \in T
  OBVIOUS
<1> HIDE DEF T
<1>2. g \in Seq(T) /\ Len(g) = n
  <2>1. [i \in 1 .. n |-> g[i]] \in [1 .. n -> T]
    BY <1>1
  <2>2. g \in [1 .. n -> T]
    BY <2>1
  <2>3. \A h \in [1 .. n -> T] : h \in Seq(T) /\ Len(h) = n
    OBVIOUS
  <2> QED
    BY <2>2, <2>3
<1> QED
  BY <1>1, <1>2

\* Either kind of composite effect.
LEMMA EffectsAre ==
  ASSUME NEW p, MixedWaveProcess(p) \in Seq(EventSet), NEW ws,
         NEW es \in TransformEffect(p, ws) \cup TransformTime(p)
  PROVE  DelaysOf(MixedWaveProcess(p), es)
<1> DEFINE line == MixedWaveProcess(p)
           n == Len(line)
           waves == NormalizedWaveInfo(ws)
           Effect(i) ==
             LET event == line[i]
             IN  IF event.tag = EVENT_TAG_CONTINUOUS \/ waves = <<>>
                 THEN [delay |-> Delay(line, i), effectId |-> event.duration,
                       intensity |-> event.intensity]
                 ELSE [delay |-> Delay(line, i), effectId |-> -MatchTransient(event, waves),
                       intensity |-> INTENSITY_MAX]
           Timed(i) == [delay |-> Delay(line, i), time |-> line[i].duration,
                        intensity |-> line[i].intensity, frequency |-> line[i].frequency]
           y1 == [delay |-> Last(line).duration, effectId |-> 0, intensity |-> 0]
           y2 == [delay |-> Last(line).duration, time |-> 0, intensity |-> 0, frequency |-> 0]
           g1 == [i \in 1 .. n |-> Effect(i)]
           g2 == [i \in 1 .. n |-> Timed(i)]
<1>1. n \in Nat /\ DOMAIN line = 1 .. n
  OBVIOUS
<1>2. /\ line # <<>> /\ (es = Append(g1, y1) \/ es = Append(g2, y2))
  <2>1. TransformEffect(p, ws) = IF line = <<>> THEN {} ELSE {Append(g1, y1)}
    BY <1>1 DEF TransformEffect
  <2>2. TransformTime(p) = IF line = <<>> THEN {} ELSE {Append(g2, y2)}
    BY <1>1 DEF TransformTime
  <2> QED
    BY <2>1, <2>2
<1>3. \A i \in 1 .. n : g1[i].delay = Delay(line, i) /\ g2[i].delay = Delay(line, i)
  <2> SUFFICES ASSUME NEW i \in 1 .. n
               PROVE  Effect(i).delay = Delay(line, i) /\ Timed(i).delay = Delay(line, i)
    OBVIOUS
  <2>1. Timed(i).delay = Delay(line, i)
    OBVIOUS
  <2>2. Effect(i).delay = Delay(line, i)
    OBVIOUS
  <2> QED
    BY <2>1, <2>2
<1>4. y1.delay = line[n].duration /\ y2.delay = line[n].duration
  BY DEF Last
<1>5. g1 = [i \in 1 .. n |-> g1[i]] /\ g2 = [i \in 1 .. n |-> g2[i]]
  OBVIOUS
<1> HIDE DEF g1, g2, y1, y2, line, n
<1>6. CASE es = Append(g1, y1)
  <2>1. /\ Len(es) = n + 1 /\ es = [i \in 1 .. n + 1 |-> es[i]]
        /\ \A i \in 1 .. n : es[i] = g1[i]
        /\ es[n + 1] = y1
    BY <1>1, <1>5, <1>6, EndsWith
  <2> QED
    BY <1>2, <1>3, <1>4, <2>1 DEF DelaysOf, n, line
<1>7. CASE es = Append(g2, y2)
  <2>1. /\ Len(es) = n + 1 /\ es = [i \in 1 .. n + 1 |-> es[i]]
        /\ \A i \in 1 .. n : es[i] = g2[i]
        /\ es[n + 1] = y2
    BY <1>1, <1>5, <1>7, EndsWith
  <2> QED
    BY <1>2, <1>3, <1>4, <2>1 DEF DelaysOf, n, line
<1> QED
  BY <1>2, <1>6, <1>7

\* The sum of the first values.
LEMMA SumsSoFar ==
  ASSUME NEW s \in Seq(Int), NEW f, Sums(f, s), NEW i \in 0 .. Len(s)
  PROVE  SumOf(SubSeq(s, 1, i)) = f[i]
<1>1. \A t \in Seq(Int) : t = SubSeq(s, 1, i) => SumOf(t) = f[i]
  <2> SUFFICES ASSUME NEW t \in Seq(Int), t = SubSeq(s, 1, i)
               PROVE  SumOf(t) = f[i]
    OBVIOUS
  <2>1. Len(t) = i /\ Len(t) <= Len(s) /\ i \in 0 .. Len(t)
    OBVIOUS
  <2>2. \A j \in 1 .. Len(t) : s[j] = t[j]
    OBVIOUS
  <2>3. PICK g : Sums(g, t) /\ g[Len(t)] = SumOf(t)
    BY SumRuns
  <2>4. \A j \in 0 .. Len(t) : g[j] = f[j]
    <3> DEFINE S == {j \in 0 .. i : g[j] = f[j]}
    <3>1. /\ f[0] = 0 /\ \A j \in 1 .. Len(s) : f[j] = f[j - 1] + s[j]
          /\ g[0] = 0 /\ \A j \in 1 .. Len(t) : g[j] = g[j - 1] + t[j]
      BY <2>3 DEF Sums
    <3>2. i \in Nat /\ \A j \in 1 .. i : j \in 1 .. Len(s) /\ j \in 1 .. Len(t) /\ j \in 0 .. i
      BY <2>1
    <3>3. 0 \in S
      BY <3>1, <3>2
    <3>4. ASSUME NEW j \in 1 .. i, j - 1 \in S
          PROVE  j \in S
      BY <2>2, <3>1, <3>2, <3>4
    <3>5. \A j \in 0 .. i : j \in S
      <4> HIDE DEF S
      <4> QED
        BY <3>2, <3>3, <3>4, UpFromZero
    <3> QED
      BY <2>1, <3>5
  <2> QED
    BY <2>1, <2>3, <2>4
<1>2. SubSeq(s, 1, i) \in Seq(Int)
  OBVIOUS
<1> QED
  BY <1>1, <1>2

\* When the i-th effect starts.
Starts(es, i) == SumOf(Map(LAMBDA e : e.delay, SubSeq(es, 1, i)))

\* Each effect starts with its event, and the last delay ends with the last.
LEMMA StartsWithEvents ==
  ASSUME NEW line \in Seq(EventSet), NEW es, DelaysOf(line, es)
  PROVE  /\ \A i \in 1 .. Len(line) : Starts(es, i) = line[i].time
         /\ Starts(es, Len(line) + 1) = EndOf(line[Len(line)])
<1> DEFINE n == Len(line)
           s == [i \in 1 .. n + 1 |-> es[i].delay]
<1>1. n \in Nat /\ n >= 1 /\ \A i \in 1 .. n : line[i] \in EventSet
  BY DEF DelaysOf
<1>2. \A i \in 1 .. n : line[i].time \in Int /\ line[i].duration \in Int
  BY <1>1, EventFields
<1> HIDE DEF n
<1>0. Len(es) = n + 1 /\ es = [i \in 1 .. n + 1 |-> es[i]]
  BY DEF DelaysOf, n
<1>3. /\ \A i \in 1 .. n : es[i].delay = line[i].time - (IF i = 1 THEN 0 ELSE line[i - 1].time)
      /\ es[n + 1].delay = line[n].duration
  BY DEF DelaysOf, Delay, n
<1>4. s \in Seq(Int) /\ Len(s) = n + 1 /\ \A i \in 1 .. n + 1 : s[i] = es[i].delay
  <2>1. \A i \in 1 .. n + 1 : es[i].delay \in Int
    <3> SUFFICES ASSUME NEW i \in 1 .. n + 1
                 PROVE  es[i].delay \in Int
      OBVIOUS
    <3>1. CASE i = n + 1
      BY <1>1, <1>2, <1>3, <3>1
    <3>2. CASE i \in 1 .. n
      <4>1. i = 1 \/ i - 1 \in 1 .. n
        BY <1>1, <3>2
      <4> QED
        BY <1>2, <1>3, <3>2, <4>1
    <3> QED
      BY <1>1, <3>1, <3>2
  <2>2. s \in [1 .. n + 1 -> Int]
    BY <2>1
  <2> QED
    BY <1>1, <2>2
<1> HIDE DEF s
<1>5. PICK f : Sums(f, s)
  BY <1>4, SumRuns
<1>6. ASSUME NEW i \in 1 .. n + 1
      PROVE  Starts(es, i) = f[i]
  <2>1. SubSeq(es, 1, i) = [j \in 1 .. i |-> es[j]]
    <3> DEFINE T == {es[j] : j \in 1 .. n + 1}
    <3>1. \A j \in 1 .. n + 1 : es[j] \in T
      OBVIOUS
    <3> HIDE DEF T
    <3>2. [j \in 1 .. n + 1 |-> es[j]] \in [1 .. n + 1 -> T]
      BY <3>1
    <3>3. es \in [1 .. n + 1 -> T]
      BY <1>0, <3>2, Zenon
    <3>4. es \in Seq(T)
      BY <1>1, <3>3
    <3> QED
      BY <1>0, <1>1, <3>4
  <2>2. SubSeq(s, 1, i) = [j \in 1 .. i |-> s[j]]
    BY <1>1, <1>4
  <2>3. Map(LAMBDA e : e.delay, SubSeq(es, 1, i)) = [j \in 1 .. i |-> es[j].delay]
    BY <2>1 DEF Map
  <2>4. \A j \in 1 .. i : es[j].delay = s[j]
    BY <1>1, <1>4
  <2>5. Map(LAMBDA e : e.delay, SubSeq(es, 1, i)) = SubSeq(s, 1, i)
    BY <2>2, <2>3, <2>4
  <2>6. i \in 0 .. Len(s)
    BY <1>1, <1>4
  <2>7. \A u \in Seq(Int) : \A h : Sums(h, u) => \A j \in 0 .. Len(u) : SumOf(SubSeq(u, 1, j)) = h[j]
    BY SumsSoFar
  <2>8. SumOf(SubSeq(s, 1, i)) = f[i]
    BY <1>4, <1>5, <2>6, <2>7, Zenon
  <2> QED
    BY <2>5, <2>8 DEF Starts
<1>7. f[0] = 0 /\ \A i \in 1 .. n + 1 : f[i] = f[i - 1] + es[i].delay
  BY <1>4, <1>5 DEF Sums
<1> DEFINE S == {i \in 0 .. n : f[i] = IF i = 0 THEN 0 ELSE line[i].time}
<1>8. \A i \in 0 .. n : i \in S
  <2>1. 0 \in S
    BY <1>1, <1>7
  <2>2. ASSUME NEW i \in 1 .. n, i - 1 \in S
        PROVE  i \in S
    <3>1. i \in 0 .. n /\ i \in 1 .. n + 1 /\ i # 0
      BY <1>1
    <3>2. f[i - 1] = IF i = 1 THEN 0 ELSE line[i - 1].time
      BY <1>1, <2>2
    <3>3. f[i] = f[i - 1] + (line[i].time - (IF i = 1 THEN 0 ELSE line[i - 1].time))
      BY <1>3, <1>7, <3>1
    <3>4. i # 1 => line[i - 1].time \in Int
      <4>1. i # 1 => i - 1 \in 1 .. n
        BY <1>1
      <4> QED
        BY <1>2, <4>1
    <3>5. f[i] = line[i].time
      BY <1>2, <3>2, <3>3, <3>4
    <3> QED
      BY <3>1, <3>5
  <2> HIDE DEF S
  <2> QED
    BY <1>1, <2>1, <2>2, UpFromZero
<1>9. \A i \in 1 .. n : f[i] = line[i].time
  <2>1. \A i \in 1 .. n : i \in 0 .. n /\ i # 0
    BY <1>1
  <2> QED
    BY <1>8, <2>1
<1>10. f[n + 1] = EndOf(line[n])
  <2>1. n + 1 \in 1 .. n + 1 /\ (n + 1) - 1 = n /\ n \in 1 .. n
    BY <1>1
  <2> QED
    BY <1>3, <1>7, <1>9, <2>1 DEF EndOf
<1>11. \A i \in 1 .. n : i \in 1 .. n + 1
  BY <1>1
<1>12. n + 1 \in 1 .. n + 1
  BY <1>1
<1> QED
  BY <1>6, <1>9, <1>10, <1>11, <1>12 DEF n

\* What the line and its effects have, of a package whose events begin in
\* their order and none before it.
LEMMA EffectsFollow ==
  ASSUME NEW p \in PackageSet, NEW ws, NEW es \in TransformEffect(p, ws) \cup TransformTime(p),
         InOrder(Flattened(p)),
         \A i \in DOMAIN Flattened(p) : Flattened(p)[i].time >= 0
  PROVE  LET events == Flattened(p)
             mixed  == MixedWaveProcess(p)
             n      == Len(es)
         IN  /\ n = Len(mixed) + 1
             /\ \A i \in 1 .. n : es[i].delay >= 0
             /\ \A i \in DOMAIN mixed : Starts(es, i) = mixed[i].time
             /\ Starts(es, n) = EndOf(Last(mixed))
             /\ \A i \in DOMAIN events :
                  \E j \in DOMAIN mixed :
                    /\ mixed[j].time <= events[i].time
                    /\ EndOf(events[i]) <= EndOf(mixed[j]) + VIBRATOR_DELAY
             /\ \A i \in 2 .. Len(mixed) :
                  mixed[i - 1].tag = EVENT_TAG_CONTINUOUS =>
                    \/ mixed[i].time - EndOf(mixed[i - 1]) >= VIBRATOR_DELAY
                    \/ mixed[i - 1].duration = 0
<1> DEFINE events == Flattened(p)
           long == Unmixed(p)
           mixed == MixedWaveProcess(p)
           k == Len(events)
           m == Len(mixed)
<1>1. /\ events \in Seq(EventSet) /\ k \in Nat /\ DOMAIN events = 1 .. k
      /\ \A i \in 1 .. k : events[i] \in EventSet /\ events[i].time >= 0
      /\ \A i \in 2 .. k : events[i - 1].time <= events[i].time
  <2>1. events \in Seq(EventSet)
    BY FlattenedType
  <2>2. \A i \in 2 .. k : events[i - 1].time <= events[i].time
    BY DEF InOrder
  <2> HIDE DEF events
  <2>3. DOMAIN events = 1 .. k /\ k \in Nat /\ \A i \in 1 .. k : events[i] \in EventSet
    BY <2>1
  <2> QED
    BY <2>1, <2>2, <2>3 DEF events
<1>2. /\ long \in Seq(LongEvents) /\ Len(long) = k
      /\ \A i \in 1 .. k : long[i] = Prolonged[events[i]]
  BY MixedIs
<1>3. PICK f : MixRun(f, long) /\ f[k] = mixed
  BY <1>2, MixedIs
<1> HIDE DEF events, long, mixed, k, m
<1>4. \A i \in 1 .. k : /\ long[i].time = events[i].time
                        /\ EndOf(events[i]) \in Int /\ EndOf(long[i]) \in Int
                        /\ EndOf(events[i]) <= EndOf(long[i])
  BY <1>1, <1>2, ProlongedIs
<1>5. OrderedLong(long)
  <2>1. \A i \in 2 .. k : i \in 1 .. k /\ i - 1 \in 1 .. k
    BY <1>1
  <2> QED
    BY <1>1, <1>2, <1>4, <2>1 DEF OrderedLong
<1>6. LineOf(mixed, long, k)
  BY <1>2, <1>3, <1>5, LineHolds
<1>7. /\ mixed \in Seq(EventSet) /\ m \in Nat /\ DOMAIN mixed = 1 .. m
      /\ mixed # <<>> => mixed[m].duration >= 15
      /\ \A j \in 1 .. m : mixed[j] \in EventSet /\ mixed[j].time >= 0
      /\ \A j \in 2 .. m : mixed[j - 1].time <= mixed[j].time
      /\ \A i \in 1 .. k : \E j \in 1 .. m : HeardIn(mixed, j, long[i])
      /\ \A i \in 2 .. m : RestsBefore(mixed, i)
  BY <1>6 DEF LineOf, Lines, m
<1>8. DelaysOf(mixed, es)
  BY <1>7, EffectsAre DEF mixed
<1>9. /\ mixed # <<>> /\ m >= 1 /\ Len(es) = m + 1
      /\ \A i \in 1 .. m : es[i].delay = Delay(mixed, i)
      /\ es[m + 1].delay = mixed[m].duration
  <2>1. /\ mixed # <<>> /\ Len(es) = m + 1
        /\ \A i \in 1 .. m : es[i].delay = Delay(mixed, i)
        /\ es[m + 1].delay = mixed[m].duration
    BY <1>8 DEF DelaysOf, m
  <2> QED
    BY <1>7, <2>1 DEF m
<1>10. /\ \A i \in 1 .. m : Starts(es, i) = mixed[i].time
       /\ Starts(es, m + 1) = EndOf(Last(mixed))
  BY <1>7, <1>8, StartsWithEvents DEF m, Last
<1>11. \A i \in 1 .. m + 1 : es[i].delay >= 0
  <2> SUFFICES ASSUME NEW i \in 1 .. m + 1
               PROVE  es[i].delay >= 0
    OBVIOUS
  <2>1. CASE i = m + 1
    <3>1. mixed[m].duration \in Int /\ mixed[m].duration >= 15
      BY <1>7, <1>9, EventFields
    <3> QED
      BY <1>9, <2>1, <3>1
  <2>2. CASE i \in 2 .. m
    <3>1. i \in 1 .. m /\ i - 1 \in 1 .. m /\ i # 1
      BY <1>7, <2>2
    <3>2. mixed[i].time \in Int /\ mixed[i - 1].time \in Int
      BY <1>7, <3>1, EventFields
    <3>3. es[i].delay = mixed[i].time - mixed[i - 1].time
      BY <1>9, <3>1 DEF Delay
    <3>4. mixed[i - 1].time <= mixed[i].time
      BY <1>7, <2>2
    <3> QED
      BY <3>2, <3>3, <3>4
  <2>3. CASE i = 1
    <3>1. i \in 1 .. m
      BY <1>7, <1>9, <2>3
    <3>2. mixed[i].time \in Int /\ mixed[i].time >= 0
      BY <1>7, <3>1, EventFields
    <3>3. es[i].delay = mixed[i].time - 0
      BY <1>9, <2>3, <3>1 DEF Delay
    <3> QED
      BY <3>2, <3>3
  <2> QED
    BY <1>7, <2>1, <2>2, <2>3
<1>12. ASSUME NEW i \in 1 .. k
       PROVE  \E j \in 1 .. m : /\ mixed[j].time <= events[i].time
                                /\ EndOf(events[i]) <= EndOf(mixed[j]) + VIBRATOR_DELAY
  <2>1. PICK j \in 1 .. m : HeardIn(mixed, j, long[i])
    BY <1>7
  <2>2. mixed[j].time <= events[i].time
    BY <1>4, <2>1 DEF HeardIn
  <2>3. EndOf(mixed[j]) \in Int
    BY <1>7, EventFields DEF EndOf
  <2>4. Slack(mixed, j) \in {0, 20}
    BY DEF Slack, VIBRATOR_DELAY
  <2>5. EndOf(long[i]) <= EndOf(mixed[j]) + Slack(mixed, j)
    BY <2>1 DEF HeardIn
  <2>6. EndOf(events[i]) <= EndOf(mixed[j]) + VIBRATOR_DELAY
    BY <1>4, <2>3, <2>4, <2>5 DEF VIBRATOR_DELAY
  <2> QED
    BY <2>2, <2>6
<1>13. \A i \in 2 .. m : mixed[i - 1].tag = EVENT_TAG_CONTINUOUS =>
                           \/ mixed[i].time - EndOf(mixed[i - 1]) >= VIBRATOR_DELAY
                           \/ mixed[i - 1].duration = 0
  BY <1>7 DEF RestsBefore
<1> QED
  BY <1>1, <1>7, <1>9, <1>10, <1>11, <1>12, <1>13, Zenon DEF events, mixed, k, m

\* What the service keeps is a package, and what was played as composite
\* effects was made of one.
EffectsInvariant ==
  /\ received \in PackageSet
  /\ IsComposite =>
       /\ played.package \in PackageSet
       /\ played.effects \in TransformEffect(played.package, Waves)
                               \cup TransformTime(played.package)

\* The package a pattern is played as.
LEMMA ToPlayType ==
  ASSUME NEW p \in PatternSet, NEW sessionId
  PROVE  PatternToPlay(p, sessionId) \in PackageSet
<1> DEFINE t == IF sessionId > 0 THEN p.startTime ELSE 0
           q == Pattern(t, 0, p.events)
<1>1. p.startTime \in Int /\ p.events \in Seq(EventSet)
  BY PatternFields
<1>2. t \in Int
  BY <1>1
<1> HIDE DEF t
<1>3. q \in PatternSet
  BY <1>1, <1>2 DEF Pattern, PatternSet
<1>4. PatternToPlay(p, sessionId) = Package(0, <<q>>)
  BY DEF PatternToPlay, t
<1> HIDE DEF q
<1> QED
  BY <1>3, <1>4, OnePattern

\* Composite effects are made of the package that is named.
LEMMA CompositePlayed ==
  ASSUME EffectsInvariant, NEW how, NEW position, NEW taken \in PackageSet, NEW effects,
         PlayComposite(how, position, taken, effects),
         effects \subseteq TransformEffect(taken, Waves) \cup TransformTime(taken)
  PROVE  EffectsInvariant'
<1>1. received' \in PackageSet
  BY DEF EffectsInvariant, PlayComposite
<1>2. CASE stage' = "failed"
  BY <1>1, <1>2 DEF EffectsInvariant, IsComposite
<1>3. ASSUME NEW es \in effects,
             played' = [how |-> how, position |-> position, package |-> taken, effects |-> es]
      PROVE  EffectsInvariant'
  <2>1. played'.package = taken /\ played'.effects = es
    BY <1>3
  <2> QED
    BY <1>1, <1>3, <2>1 DEF EffectsInvariant
<1> QED
  BY <1>2, <1>3 DEF PlayComposite

\* Every step preserves the invariant.
LEMMA EffectsStep ==
  TransitInvariant /\ EffectsInvariant /\ [PipelineNext]_pipelineVars => EffectsInvariant'
<1> SUFFICES ASSUME TransitInvariant, EffectsInvariant, [PipelineNext]_pipelineVars
             PROVE  EffectsInvariant'
  OBVIOUS
<1>1. ASSUME UNCHANGED received, stage' # "played"
      PROVE  EffectsInvariant'
  BY <1>1 DEF EffectsInvariant, IsComposite
<1>2. ASSUME NEW file \in Files, PreProcess(file)
      PROVE  EffectsInvariant'
  BY <1>1, <1>2 DEF PreProcess, Fail
<1>3. ASSUME NEW call, NEW effect, NEW info, Send(call, effect, info)
      PROVE  EffectsInvariant'
  BY <1>1, <1>3 DEF Send
<1>4. ASSUME NEW file \in Files, NEW info \in Infos, PlayVibratorCustom(file, info)
      PROVE  EffectsInvariant'
  BY <1>1, <1>3, <1>4 DEF PlayVibratorCustom, Fail
<1>5. ASSUME NEW patterns, ScriptPattern(patterns)
      PROVE  EffectsInvariant'
  BY <1>1, <1>5 DEF ScriptPattern, Fail
<1>6. ASSUME NEW p \in Natives, NativePackage(p)
      PROVE  EffectsInvariant'
  BY <1>1, <1>6 DEF NativePackage
<1>7. ASSUME NEW how, NEW results, Edit(how, results)
      PROVE  EffectsInvariant'
  BY <1>1, <1>7 DEF Edit, Fail
<1>8. ASSUME NEW seekTime \in SeekTimes, Seek(seekTime)
      PROVE  EffectsInvariant'
  BY <1>7, <1>8 DEF Seek
<1>9. ASSUME NEW curve \in Curves, Modulate(curve)
      PROVE  EffectsInvariant'
  <2>1. CASE ModulationUndefined(curve, package)
    BY <1>1, <1>9, <2>1 DEF Modulate, Fail
  <2>2. CASE ~ModulationUndefined(curve, package)
    BY <1>7, <1>9, <2>2 DEF Modulate
  <2> QED
    BY <2>1, <2>2
<1>10. ASSUME NEW info \in Infos, NEW i \in DOMAIN package.patterns, PlayPattern(i, info)
       PROVE  EffectsInvariant'
  BY <1>1, <1>3, <1>10 DEF PlayPattern
<1>11. ASSUME NEW info \in Infos, PlayPackageBySessionId(info)
       PROVE  EffectsInvariant'
  BY <1>3, <1>11 DEF PlayPackageBySessionId
<1>12. ASSUME Receive
       PROVE  EffectsInvariant'
  <2> DEFINE info == CustomHapticInfoUnmarshalling(parcel.info)
             effects == IF sent.call = "PlayPattern" THEN PatternUnmarshalling(parcel.effect)
                        ELSE PackageUnmarshalling(parcel.effect)
             whole == IF sent.call = "PlayPattern" THEN Head(sent.effect.patterns) ELSE sent.effect
             Kept(e) == CASE sent.call = "PlayPattern" ->
                               MergeVibratorParmeters(info, PatternToPlay(e, info.sessionId))
                          [] sent.call = "PlayVibratorCustom" -> MergeVibratorParmeters(info, e)
                          [] sent.call = "PlayPackageBySessionId" -> e
  <2>1. stage = "sent"
    BY <1>12 DEF Receive
  <2>2. /\ sent.call \in Calls /\ sent.info \in InfoSet
        /\ MayCarry(sent.call, sent.effect, source)
        /\ parcel = [effect |-> IF sent.call = "PlayPattern"
                                THEN PatternMarshalling(Head(sent.effect.patterns))
                                ELSE PackageMarshalling(sent.effect),
                     info |-> CustomHapticInfoMarshalling(sent.info)]
    BY <2>1 DEF TransitInvariant, CallIsSent
  <2>3. info \in InfoSet
    BY <2>2, InfoRead
  <2>4. effects \subseteq {whole}
    BY <2>2, EffectRead
  <2>5. sent.effect \in PackageSet
    BY <2>2 DEF MayCarry
  <2>6. sent.call = "PlayPattern" => whole \in PatternSet
    <3>1. sent.effect.patterns \in Seq(PatternSet)
      BY <2>5, PackageFields
    <3>2. sent.call = "PlayPattern" => sent.effect.patterns # <<>>
      BY <2>2 DEF MayCarry
    <3> QED
      BY <3>1, <3>2
  <2>7. \/ UNCHANGED received
        \/ \E e \in effects : received' = Kept(e)
    BY <1>12 DEF Receive
  <2>8. stage' # "played"
    BY <1>12 DEF Receive
  <2>9. Kept(whole) \in PackageSet
    <3>1. CASE sent.call = "PlayPattern"
      <4>1. Kept(whole) = MergeVibratorParmeters(info, PatternToPlay(whole, info.sessionId))
        BY <3>1, Zenon
      <4> HIDE DEF info, whole, Kept
      <4>2. PatternToPlay(whole, info.sessionId) \in PackageSet
        BY <2>6, <3>1, ToPlayType
      <4> QED
        BY <2>3, <4>1, <4>2, MergeType
    <3>2. CASE sent.call = "PlayVibratorCustom"
      <4>1. whole = sent.effect
        BY <3>2
      <4>2. Kept(whole) = MergeVibratorParmeters(info, whole)
        BY <3>2
      <4> HIDE DEF info, whole, Kept
      <4> QED
        BY <2>3, <2>5, <4>1, <4>2, MergeType
    <3>3. CASE sent.call = "PlayPackageBySessionId"
      <4>1. whole = sent.effect
        BY <3>3
      <4>2. Kept(whole) = whole
        BY <3>3
      <4> QED
        BY <2>5, <4>1, <4>2
    <3> QED
      BY <2>2, <3>1, <3>2, <3>3 DEF Calls
  <2> HIDE DEF info, effects, whole, Kept
  <2>10. received' \in PackageSet
    BY <2>4, <2>7, <2>9 DEF EffectsInvariant
  <2> QED
    BY <2>8, <2>10 DEF EffectsInvariant, IsComposite
<1>13. ASSUME PlayHd
       PROVE  EffectsInvariant'
  <2>1. played'.how = "hd" /\ received' = received
    BY <1>13 DEF PlayHd, NothingPlayed
  <2> QED
    BY <2>1 DEF EffectsInvariant, IsComposite
<1>14. ForThread \in PackageSet
  <2>1. NoPackage \in PackageSet
    BY DEF NoPackage, Package, PackageSet
  <2> QED
    BY <2>1 DEF ForThread, EffectsInvariant
<1>15. ASSUME NEW position \in Positions, PlayEffects(position)
       PROVE  EffectsInvariant'
  <2> DEFINE taken == CopyInfoWithIndexEvents(ForThread, position)
  <2>1. taken \in PackageSet
    BY <1>14, TakenType
  <2>2. PlayComposite("effect", position, taken, TransformEffect(taken, Waves))
    BY <1>15 DEF PlayEffects
  <2> HIDE DEF taken
  <2> QED
    BY <2>1, <2>2, CompositePlayed
<1>16. ASSUME NEW position \in Positions, PlayTimes(position)
       PROVE  EffectsInvariant'
  <2>1. PlayComposite("time", position, ForThread, TransformTime(ForThread))
    BY <1>16 DEF PlayTimes
  <2> QED
    BY <1>14, <2>1, CompositePlayed
<1>17. CASE UNCHANGED pipelineVars
  BY <1>17 DEF pipelineVars, EffectsInvariant, IsComposite
<1>18. ASSUME PipelineNext
       PROVE  EffectsInvariant'
  BY <1>2, <1>4, <1>5, <1>6, <1>8, <1>9, <1>10, <1>11, <1>12, <1>13, <1>15, <1>16, <1>18
  DEF PipelineNext
<1> QED
  BY <1>17, <1>18

\* The composite effects follow the events they are made of, each event is
\* heard to its end and the motor rests: EffectsFollowEvents.
THEOREM EffectsFollowTheirEvents ==
  PipelineSpec => []EffectsFollowEvents
<1>1. PipelineInit => TransitInvariant /\ EffectsInvariant
  <2> SUFFICES ASSUME PipelineInit
               PROVE  TransitInvariant /\ EffectsInvariant
    OBVIOUS
  <2>1. TransitInvariant
    BY DEF PipelineInit, TransitInvariant, CallIsSent, RefusedForParameters
  <2>2. NoPackage \in PackageSet
    BY DEF NoPackage, Package, PackageSet
  <2> QED
    BY <2>1, <2>2 DEF PipelineInit, EffectsInvariant, IsComposite
<1>2. EffectsInvariant => EffectsFollowEvents
  <2> SUFFICES ASSUME EffectsInvariant, IsComposite, InOrder(Flattened(played.package)),
                      \A i \in DOMAIN Flattened(played.package) :
                        Flattened(played.package)[i].time >= 0
               PROVE  EffectsFollowEvents
    BY DEF EffectsFollowEvents
  <2> DEFINE p == played.package
             es == played.effects
  <2>1. p \in PackageSet /\ es \in TransformEffect(p, Waves) \cup TransformTime(p)
    BY DEF EffectsInvariant
  <2>2. \A i : StartOf(i) = Starts(es, i)
    BY DEF StartOf, Starts
  <2>3. InOrder(Flattened(p)) /\ \A i \in DOMAIN Flattened(p) : Flattened(p)[i].time >= 0
    OBVIOUS
  <2> HIDE DEF p, es
  <2>4. LET events == Flattened(p)
            mixed  == MixedWaveProcess(p)
            n      == Len(es)
        IN  /\ n = Len(mixed) + 1
            /\ \A i \in 1 .. n : es[i].delay >= 0
            /\ \A i \in DOMAIN mixed : Starts(es, i) = mixed[i].time
            /\ Starts(es, n) = EndOf(Last(mixed))
            /\ \A i \in DOMAIN events :
                 \E j \in DOMAIN mixed :
                   /\ mixed[j].time <= events[i].time
                   /\ EndOf(events[i]) <= EndOf(mixed[j]) + VIBRATOR_DELAY
            /\ \A i \in 2 .. Len(mixed) :
                 mixed[i - 1].tag = EVENT_TAG_CONTINUOUS =>
                   \/ mixed[i].time - EndOf(mixed[i - 1]) >= VIBRATOR_DELAY
                   \/ mixed[i - 1].duration = 0
    BY <2>1, <2>3, EffectsFollow
  <2> QED
    BY <2>2, <2>4, Zenon DEF EffectsFollowEvents, p, es
<1> QED
  BY <1>1, <1>2, TransitStep, EffectsStep, HistoryHolds, PTL DEF PipelineSpec

================================================================================
