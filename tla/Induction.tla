------------------------------ MODULE Induction ------------------------------
(***************************************************************************)
(* Induction over the natural numbers, stated with a set where the         *)
(* library's theorems have an operator: a set of naturals that contains 0  *)
(* and the successor of each of its elements contains them all.  It comes  *)
(* from the library's theorem that a non-empty subset of a well-founded    *)
(* set has a minimal element.  Then what it gives: a function defined by   *)
(* recursion exists, and the properties of the library's FlattenSeq.       *)
(***************************************************************************)
EXTENDS SequencesExt, WellFoundedInduction, SequenceTheorems, TLAPS

Less == {x \in Nat \X Nat : x[1] < x[2]}

\* The naturals are well-founded.
LEMMA LessWellFounded == IsWellFoundedOn(Less, Nat)
<1>1. IsWellFoundedOn(OpToRel(<, Nat), Nat)
  BY NatLessThanWellFounded
<1>2. Less \subseteq OpToRel(<, Nat)
  BY DEF OpToRel, Less
<1> QED
  BY <1>1, <1>2, IsWellFoundedOnSubrelation

\* A non-empty set of naturals has a least element.
LEMMA LeastElement ==
  ASSUME NEW T, T \subseteq Nat, T # {}
  PROVE  \E n \in T : \A m \in T : n <= m
<1>1. PICK n \in T : \A m \in T : <<m, n>> \notin Less
  BY LessWellFounded, WFMin
<1>2. ASSUME NEW m \in T
      PROVE  n <= m
  <2>1. n \in Nat /\ m \in Nat
    OBVIOUS
  <2>2. <<m, n>> \in Less <=> m < n
    BY <2>1 DEF Less
  <2> QED
    BY <1>1, <2>1, <2>2
<1> QED
  BY <1>2

\* Induction: what holds of 0, and of n + 1 when it holds of n, holds of every n.
LEMMA SetInduction ==
  ASSUME NEW T, 0 \in T, \A n \in Nat : n \in T => n + 1 \in T
  PROVE  Nat \subseteq T
<1> SUFFICES ASSUME Nat \ T # {}
             PROVE  FALSE
  OBVIOUS
<1>1. Nat \ T \subseteq Nat
  OBVIOUS
<1>2. PICK n \in Nat \ T : \A m \in Nat \ T : n <= m
  BY <1>1, LeastElement
<1>3. n - 1 \in Nat /\ n - 1 \in T
  BY <1>2
<1> QED
  BY <1>2, <1>3

-----------------------------------------------------------------------------
(***************************************************************************)
(* A function on 0 .. n that is defined by recursion, a value for 0 and a  *)
(* value for each other argument from the one before it, exists.           *)
(***************************************************************************)
\* f begins with `base' and goes on by `step'.
Recurs(f, n, base, step) == f[0] = base /\ \A k \in 1 .. n : f[k] = step[<<k, f[k - 1]>>]

LEMMA RecursionExists ==
  ASSUME NEW V, NEW base \in V, NEW n \in Nat, NEW step \in [(1 .. n) \X V -> V]
  PROVE  \E f \in [0 .. n -> V] : Recurs(f, n, base, step)
<1> DEFINE T == {m \in Nat : m <= n => \E f \in [0 .. m -> V] : Recurs(f, m, base, step)}
<1>1. 0 \in T
  <2> DEFINE f == [k \in 0 .. 0 |-> base]
  <2>1. f \in [0 .. 0 -> V] /\ Recurs(f, 0, base, step)
    BY DEF Recurs
  <2> QED
    BY <2>1
<1>2. ASSUME NEW m \in Nat, m \in T
      PROVE  m + 1 \in T
  <2> SUFFICES ASSUME m + 1 <= n
               PROVE  \E f \in [0 .. m + 1 -> V] : Recurs(f, m + 1, base, step)
    OBVIOUS
  <2>1. PICK g \in [0 .. m -> V] : Recurs(g, m, base, step)
    BY <1>2
  <2>2. g[m] \in V /\ <<m + 1, g[m]>> \in (1 .. n) \X V
    BY <2>1
  <2> DEFINE v == step[<<m + 1, g[m]>>]
             f == [k \in 0 .. m + 1 |-> IF k <= m THEN g[k] ELSE v]
  <2>3. v \in V
    BY <2>2
  <2> HIDE DEF v
  <2>4. f \in [0 .. m + 1 -> V]
    BY <2>3
  <2>5. f[0] = base
    BY <2>1 DEF Recurs
  <2>6. ASSUME NEW k \in 1 .. m + 1
        PROVE  f[k] = step[<<k, f[k - 1]>>]
    <3>1. CASE k <= m
      <4>1. f[k] = g[k] /\ f[k - 1] = g[k - 1] /\ k \in 1 .. m
        BY <3>1
      <4> QED
        BY <2>1, <4>1 DEF Recurs
    <3>2. CASE k = m + 1
      <4>1. f[k] = v /\ f[k - 1] = g[m]
        BY <3>2
      <4> QED
        BY <3>2, <4>1 DEF v
    <3> QED
      BY <3>1, <3>2
  <2> HIDE DEF f
  <2> QED
    BY <2>4, <2>5, <2>6 DEF Recurs
<1> HIDE DEF T
<1>3. n \in T
  BY <1>1, <1>2, SetInduction
<1> QED
  BY <1>3 DEF T

\* And there is no other, of any function that goes on by `step' as long as its values
\* are in V.
Follows(g, V, n, base, step) ==
  g[0] = base /\ \A k \in 1 .. n : g[k - 1] \in V => g[k] = step[<<k, g[k - 1]>>]

Agree(g, f, n) == \A k \in 0 .. n : g[k] = f[k]

LEMMA RecursionUnique ==
  ASSUME NEW V, NEW base, NEW n \in Nat, NEW step,
         NEW f \in [0 .. n -> V], Recurs(f, n, base, step),
         NEW g, Follows(g, V, n, base, step)
  PROVE  Agree(g, f, n)
<1> DEFINE T == {m \in Nat : m <= n => g[m] = f[m]}
<1>1. 0 \in T
  BY DEF Recurs, Follows
<1>2. ASSUME NEW m \in Nat, m \in T
      PROVE  m + 1 \in T
  <2> SUFFICES ASSUME m + 1 <= n
               PROVE  g[m + 1] = f[m + 1]
    OBVIOUS
  <2>1. g[m] = f[m] /\ f[m] \in V
    BY <1>2
  <2>2. m + 1 \in 1 .. n /\ (m + 1) - 1 = m
    OBVIOUS
  <2>3. f[m + 1] = step[<<m + 1, f[m]>>]
    BY <2>2 DEF Recurs
  <2>4. g[m + 1] = step[<<m + 1, g[m]>>]
    BY <2>1, <2>2 DEF Follows
  <2> QED
    BY <2>1, <2>3, <2>4
<1> HIDE DEF T
<1>3. Nat \subseteq T
  BY <1>1, <1>2, SetInduction
<1>4. ASSUME NEW k \in 0 .. n
      PROVE  g[k] = f[k]
  <2>1. k \in T
    BY <1>3
  <2> QED
    BY <2>1 DEF T
<1> QED
  BY <1>4 DEF Agree
-----------------------------------------------------------------------------
(***************************************************************************)
(* What the library's FlattenSeq returns.                                  *)
(***************************************************************************)
\* f is the function that FlattenSeq(s) computes.
Flattens(f, s) == f = [i \in 1 .. Len(s) |-> IF i = 1 THEN s[i] ELSE f[i - 1] \o s[i]]

\* Such a function exists for every sequence of sequences.
LEMMA FlattenExists ==
  ASSUME NEW X
  PROVE  \A s \in Seq(Seq(X)) : \E f \in [1 .. Len(s) -> Seq(X)] : Flattens(f, s)
<1> DEFINE T == {n \in Nat : \A s \in Seq(Seq(X)) :
                   Len(s) = n => \E f \in [1 .. n -> Seq(X)] : Flattens(f, s)}
<1>1. 0 \in T
  <2>1. ASSUME NEW s \in Seq(Seq(X)), Len(s) = 0
        PROVE  \E f \in [1 .. 0 -> Seq(X)] : Flattens(f, s)
    <3> DEFINE f == [i \in 1 .. 0 |-> <<>>]
    <3>1. f \in [1 .. 0 -> Seq(X)] /\ Flattens(f, s)
      BY <2>1 DEF Flattens
    <3> QED
      BY <3>1
  <2> QED
    BY <2>1
<1>2. ASSUME NEW n \in Nat, n \in T
      PROVE  n + 1 \in T
  <2> SUFFICES ASSUME NEW s \in Seq(Seq(X)), Len(s) = n + 1
               PROVE  \E f \in [1 .. n + 1 -> Seq(X)] : Flattens(f, s)
    BY <1>2
  <2>1. PICK t \in Seq(Seq(X)), e \in Seq(X) : s = Append(t, e)
    <3>1. s # <<>>
      BY EmptySeq
    <3> QED
      BY <3>1, SequenceEmptyOrAppend
  <2>2. Len(t) = n /\ s[n + 1] = e /\ \A i \in 1 .. n : s[i] = t[i]
    BY <2>1, AppendProperties, LenProperties
  <2>3. PICK g \in [1 .. n -> Seq(X)] : Flattens(g, t)
    BY <1>2, <2>2
  <2> DEFINE f == [i \in 1 .. n + 1 |->
                     IF i <= n THEN g[i] ELSE IF n = 0 THEN e ELSE g[n] \o e]
  <2>4. \A i \in 1 .. n : g[i] = IF i = 1 THEN t[i] ELSE g[i - 1] \o t[i]
    BY <2>2, <2>3 DEF Flattens
  <2>5. n # 0 => g[n] \o e \in Seq(X)
    <3>1. n # 0 => g[n] \in Seq(X)
      OBVIOUS
    <3> QED
      BY <3>1, ConcatProperties
  <2>6. f \in [1 .. n + 1 -> Seq(X)]
    BY <2>5
  <2>7. ASSUME NEW i \in 1 .. n + 1
        PROVE  f[i] = IF i = 1 THEN s[i] ELSE f[i - 1] \o s[i]
    <3>1. CASE i <= n
      <4>1. i \in 1 .. n /\ f[i] = g[i] /\ (i # 1 => f[i - 1] = g[i - 1])
        BY <3>1
      <4> QED
        BY <2>2, <2>4, <4>1
    <3>2. CASE i = n + 1
      <4>1. f[i] = IF n = 0 THEN e ELSE g[n] \o e
        BY <3>2
      <4>2. n # 0 => f[i - 1] = g[n]
        BY <3>2
      <4> QED
        BY <2>2, <3>2, <4>1, <4>2
    <3> QED
      BY <3>1, <3>2
  <2>8. Flattens(f, s)
    BY <2>6, <2>7 DEF Flattens
  <2> QED
    BY <2>6, <2>8
<1> HIDE DEF T
<1>3. Nat \subseteq T
  BY <1>1, <1>2, SetInduction
<1>4. ASSUME NEW s \in Seq(Seq(X))
      PROVE  \E f \in [1 .. Len(s) -> Seq(X)] : Flattens(f, s)
  <2>1. Len(s) \in T
    BY <1>3, LenProperties
  <2> QED
    BY <2>1 DEF T
<1> QED
  BY <1>4

\* Its value at a place.
LEMMA FlattenStep ==
  ASSUME NEW f, NEW s, Flattens(f, s), NEW i \in 1 .. Len(s)
  PROVE  f[i] = IF i = 1 THEN s[i] ELSE f[i - 1] \o s[i]
<1> DEFINE g == [k \in 1 .. Len(s) |-> IF k = 1 THEN s[k] ELSE f[k - 1] \o s[k]]
<1>1. g[i] = IF i = 1 THEN s[i] ELSE f[i - 1] \o s[i]
  OBVIOUS
<1>2. f = g
  BY DEF Flattens
<1> HIDE DEF g
<1> QED
  BY <1>1, <1>2

\* What it returns at a place depends on the elements up to there only.
LEMMA FlattenPrefix ==
  ASSUME NEW s, NEW t, NEW f, NEW g, Flattens(f, s), Flattens(g, t),
         Len(s) \in Nat, Len(t) \in Nat,
         NEW n \in Nat, n <= Len(s), n <= Len(t), \A i \in 1 .. n : s[i] = t[i]
  PROVE  \A i \in 1 .. n : f[i] = g[i]
<1> DEFINE T == {i \in Nat : i \in 1 .. n => f[i] = g[i]}
<1>1. 0 \in T
  OBVIOUS
<1>2. ASSUME NEW i \in Nat, i \in T
      PROVE  i + 1 \in T
  <2> SUFFICES ASSUME i + 1 \in 1 .. n
               PROVE  f[i + 1] = g[i + 1]
    OBVIOUS
  <2>a. /\ i + 1 \in 1 .. Len(s) /\ i + 1 \in 1 .. Len(t)
        /\ (i + 1) - 1 = i /\ (i + 1 = 1 <=> i = 0)
    OBVIOUS
  <2>1. f[i + 1] = IF i = 0 THEN s[i + 1] ELSE f[i] \o s[i + 1]
    BY <2>a, FlattenStep
  <2>2. g[i + 1] = IF i = 0 THEN t[i + 1] ELSE g[i] \o t[i + 1]
    BY <2>a, FlattenStep
  <2>3. i # 0 => f[i] = g[i]
    BY <1>2
  <2> QED
    BY <2>1, <2>2, <2>3
<1> HIDE DEF T
<1>3. Nat \subseteq T
  BY <1>1, <1>2, SetInduction
<1> QED
  BY <1>3 DEF T

\* FlattenSeq is the value of such a function at the end of the sequence.
LEMMA FlattenIs ==
  ASSUME NEW X, NEW s \in Seq(Seq(X)), s # <<>>,
         NEW f \in [1 .. Len(s) -> Seq(X)], Flattens(f, s)
  PROVE  FlattenSeq(s) = f[Len(s)]
<1> DEFINE F == CHOOSE g : Flattens(g, s)
<1>1. Flattens(F, s)
  OBVIOUS
<1>2. Len(s) \in Nat \ {0}
  BY EmptySeq
<1>3. FlattenSeq(s) = F[Len(s)]
  BY <1>2 DEF FlattenSeq, Flattens
<1> HIDE DEF F
<1> QED
  BY <1>1, <1>2, <1>3, FlattenPrefix

\* The concatenation of no sequences is empty.
LEMMA FlattenEmpty == FlattenSeq(<<>>) = <<>>
BY DEF FlattenSeq

\* The concatenation of one sequence is that sequence.
LEMMA FlattenOne ==
  ASSUME NEW X, NEW e \in Seq(X)
  PROVE  FlattenSeq(<<e>>) = e
<1> DEFINE f == [i \in 1 .. 1 |-> e]
<1>1. <<e>> \in Seq(Seq(X)) /\ Len(<<e>>) = 1 /\ <<e>> # <<>>
  OBVIOUS
<1>2. f \in [1 .. Len(<<e>>) -> Seq(X)] /\ Flattens(f, <<e>>)
  BY <1>1 DEF Flattens
<1>3. f[1] = e
  OBVIOUS
<1> HIDE DEF f
<1>4. FlattenSeq(<<e>>) = f[Len(<<e>>)]
  BY <1>1, <1>2, FlattenIs
<1> QED
  BY <1>1, <1>3, <1>4

\* A sequence that is added at the end comes last.
LEMMA FlattenAppend ==
  ASSUME NEW X, NEW s \in Seq(Seq(X)), NEW e \in Seq(X)
  PROVE  FlattenSeq(Append(s, e)) = FlattenSeq(s) \o e
<1>1. CASE s = <<>>
  <2>1. Append(s, e) = <<e>>
    BY <1>1
  <2> QED
    BY <1>1, <2>1, FlattenOne, FlattenEmpty, ConcatEmptySeq
<1>2. CASE s # <<>>
  <2> DEFINE t == Append(s, e)
  <2>1. /\ t \in Seq(Seq(X)) /\ t # <<>> /\ Len(t) = Len(s) + 1 /\ Len(s) \in Nat \ {0}
        /\ t[Len(t)] = e /\ \A i \in 1 .. Len(s) : t[i] = s[i]
    BY <1>2, AppendProperties, EmptySeq
  <2> HIDE DEF t
  <2>2. PICK f \in [1 .. Len(s) -> Seq(X)] : Flattens(f, s)
    BY FlattenExists
  <2>3. PICK g \in [1 .. Len(t) -> Seq(X)] : Flattens(g, t)
    BY <2>1, FlattenExists
  <2>4. g[Len(s)] = f[Len(s)]
    <3>1. /\ Len(s) \in Nat /\ Len(t) \in Nat /\ Len(s) <= Len(s) /\ Len(s) <= Len(t)
          /\ \A i \in 1 .. Len(s) : t[i] = s[i]
      BY <2>1
    <3>2. \A i \in 1 .. Len(s) : g[i] = f[i]
      BY <2>2, <2>3, <3>1, FlattenPrefix
    <3> QED
      BY <2>1, <3>2
  <2>5. g[Len(t)] = g[Len(s)] \o e
    <3>1. Len(t) \in 1 .. Len(t) /\ Len(t) # 1 /\ Len(t) - 1 = Len(s)
      BY <2>1
    <3>2. g[Len(t)] = IF Len(t) = 1 THEN t[Len(t)] ELSE g[Len(t) - 1] \o t[Len(t)]
      <4>1. Flattens(g, t) /\ Len(t) \in 1 .. Len(t)
        BY <2>3, <3>1
      <4> QED
        BY <4>1, FlattenStep, ZenonT(40)
    <3> QED
      BY <2>1, <3>1, <3>2
  <2>6. FlattenSeq(s) = f[Len(s)] /\ FlattenSeq(t) = g[Len(t)]
    BY <1>2, <2>1, <2>2, <2>3, FlattenIs
  <2> QED
    BY <2>4, <2>5, <2>6 DEF t
<1> QED
  BY <1>1, <1>2

\* The concatenation of sequences is a sequence.
LEMMA FlattenType ==
  ASSUME NEW X, NEW s \in Seq(Seq(X))
  PROVE  FlattenSeq(s) \in Seq(X)
<1>1. CASE s = <<>>
  <2>1. FlattenSeq(s) = <<>>
    BY <1>1, FlattenEmpty
  <2> QED
    BY <2>1, EmptySeq
<1>2. CASE s # <<>>
  <2>1. PICK f \in [1 .. Len(s) -> Seq(X)] : Flattens(f, s)
    BY FlattenExists
  <2>2. FlattenSeq(s) = f[Len(s)]
    BY <1>2, <2>1, FlattenIs
  <2>3. Len(s) \in 1 .. Len(s)
    BY <1>2, EmptySeq
  <2>4. f[Len(s)] \in Seq(X)
    BY <2>3
  <2> QED
    BY <2>2, <2>4
<1> QED
  BY <1>1, <1>2

\* The first sequence comes first.
LEMMA FlattenHead ==
  ASSUME NEW X
  PROVE  \A s \in Seq(Seq(X)) : s # <<>> => FlattenSeq(s) = Head(s) \o FlattenSeq(Tail(s))
<1>0. ASSUME NEW h \in Seq(X), NEW r \in Seq(X), NEW e \in Seq(X)
      PROVE  (h \o r) \o e = h \o (r \o e)
  BY ConcatAssociative
<1> DEFINE T == {n \in Nat : \A s \in Seq(Seq(X)) :
                   Len(s) = n + 1 => FlattenSeq(s) = Head(s) \o FlattenSeq(Tail(s))}
<1>1. 0 \in T
  <2> SUFFICES ASSUME NEW s \in Seq(Seq(X)), Len(s) = 1
               PROVE  FlattenSeq(s) = Head(s) \o FlattenSeq(Tail(s))
    OBVIOUS
  <2>1. s = <<s[1]>> /\ s[1] \in Seq(X) /\ Head(s) = s[1] /\ Tail(s) = <<>>
    <3>1. s # <<>> /\ s[1] \in Seq(X) /\ Head(s) = s[1]
      BY EmptySeq, ElementOfSeq
    <3>2. <<s[1]>> \in Seq(Seq(X)) /\ Len(<<s[1]>>) = 1 /\ <<s[1]>>[1] = s[1]
      BY <3>1
    <3>3. s = <<s[1]>>
      BY <3>2, SeqEqual
    <3>4. Tail(s) \in Seq(Seq(X)) /\ Len(Tail(s)) = 0
      BY <3>1, HeadTailProperties
    <3> QED
      BY <3>1, <3>3, <3>4, EmptySeq
  <2>2. FlattenSeq(s) = s[1]
    BY <2>1, FlattenOne
  <2> QED
    BY <2>1, <2>2, FlattenEmpty, ConcatEmptySeq
<1>2. ASSUME NEW n \in Nat, n \in T
      PROVE  n + 1 \in T
  <2> SUFFICES ASSUME NEW s \in Seq(Seq(X)), Len(s) = n + 2
               PROVE  FlattenSeq(s) = Head(s) \o FlattenSeq(Tail(s))
    BY <1>2
  <2>1. s # <<>>
    BY EmptySeq
  <2>2. PICK t \in Seq(Seq(X)), e \in Seq(X) : s = Append(t, e)
    BY <2>1, SequenceEmptyOrAppend
  <2>3. Len(t) = n + 1 /\ t # <<>>
    BY <2>2, AppendProperties, EmptySeq
  <2>4. FlattenSeq(t) = Head(t) \o FlattenSeq(Tail(t))
    BY <1>2, <2>3
  <2>5. Head(s) = Head(t) /\ Tail(s) = Append(Tail(t), e)
    BY <2>2, <2>3, HeadTailAppend
  <2>6. Head(t) \in Seq(X) /\ Tail(t) \in Seq(Seq(X))
    BY <2>3, HeadTailProperties
  <2>7. FlattenSeq(s) = FlattenSeq(t) \o e
    BY <2>2, FlattenAppend
  <2>8. FlattenSeq(Tail(s)) = FlattenSeq(Tail(t)) \o e /\ FlattenSeq(Tail(t)) \in Seq(X)
    BY <2>5, <2>6, FlattenAppend, FlattenType
  <2>9. (Head(t) \o FlattenSeq(Tail(t))) \o e = Head(t) \o (FlattenSeq(Tail(t)) \o e)
    <3>1. Head(t) \in Seq(X) /\ FlattenSeq(Tail(t)) \in Seq(X)
      BY <2>6, <2>8
    <3> QED
      BY <1>0, <2>2, <3>1
  <2> QED
    BY <2>4, <2>5, <2>7, <2>8, <2>9
<1> HIDE DEF T
<1>3. Nat \subseteq T
  BY <1>1, <1>2, SetInduction
<1>4. ASSUME NEW s \in Seq(Seq(X)), s # <<>>
      PROVE  FlattenSeq(s) = Head(s) \o FlattenSeq(Tail(s))
  <2>1. Len(s) - 1 \in Nat /\ Len(s) = (Len(s) - 1) + 1
    BY <1>4, EmptySeq
  <2>2. Len(s) - 1 \in T
    BY <1>3, <2>1
  <2> QED
    BY <2>1, <2>2 DEF T
<1> QED
  BY <1>4
=============================================================================
