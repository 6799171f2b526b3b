---------------------------- MODULE ConfigProofs ----------------------------
(***************************************************************************)
(* What Config::Load makes of a text, and of what Config::Save writes, for *)
(* texts of any length: the lemmas about the options that the theorems of  *)
(* PersistenceProofs rest on.                                              *)
(***************************************************************************)
EXTENDS Config, Induction

\* The characters: those that are told apart here, and all others.
Signs == STRING \cup {"#", "=", " ", "tab", "nl", "w", "i", "f", "S", "s", "0", "1"}

Slots == [Name : Seq(Signs), Value : Seq(Signs), IsCom : BOOLEAN]

States == [State : {"NONE", "COM", "PRENAME", "NAME", "PREVALUE", "VALUE"},
           Name : Seq(Signs), Value : Seq(Signs), preccar : Signs, Values : Seq(Slots)]

\* What ends a name, a value, and what they do not begin with.
NameEnds  == Blanks \cup {" ", "="}
ValueEnds == Blanks \cup {"="}
Gaps      == Blanks \cup {" "}

-----------------------------------------------------------------------------
(***************************************************************************)
(* The automaton.                                                          *)
(***************************************************************************)
\* A state of the automaton, field by field.
LEMMA StateFields ==
  ASSUME NEW r \in States
  PROVE  /\ r.State \in {"NONE", "COM", "PRENAME", "NAME", "PREVALUE", "VALUE"}
         /\ r.Name \in Seq(Signs) /\ r.Value \in Seq(Signs) /\ r.preccar \in Signs
         /\ r.Values \in Seq(Slots)
BY DEF States

LEMMA SlotTypes ==
  ASSUME NEW name \in Seq(Signs), NEW value \in Seq(Signs)
  PROVE  Slot(name, value) \in Slots /\ Comment(name) \in Slots
<1>1. <<>> \in Seq(Signs)
  OBVIOUS
<1> QED
  BY <1>1 DEF Slot, Comment, Slots

\* A state with some of its fields changed.
LEMMA StateChanges ==
  ASSUME NEW r \in States, NEW c \in Signs,
         NEW s \in {"NONE", "COM", "PRENAME", "NAME", "PREVALUE", "VALUE"},
         NEW n \in Seq(Signs), NEW v \in Seq(Signs), NEW l \in Seq(Slots)
  PROVE  /\ [r EXCEPT !.State = s] \in States
         /\ [r EXCEPT !.Name = n] \in States
         /\ [r EXCEPT !.Value = v] \in States
         /\ [r EXCEPT !.preccar = c] \in States
         /\ [r EXCEPT !.State = s, !.Name = n] \in States
         /\ [r EXCEPT !.State = s, !.Value = v] \in States
         /\ [r EXCEPT !.State = s, !.Values = l] \in States
<1>1. [r EXCEPT !.State = s] \in States
  BY DEF States
<1>2. [r EXCEPT !.Name = n] \in States /\ [r EXCEPT !.Value = v] \in States
  BY DEF States
<1>3. [r EXCEPT !.preccar = c] \in States
  BY DEF States
<1>4. [r EXCEPT !.State = s, !.Name = n] \in States
  BY DEF States
<1>5. [r EXCEPT !.State = s, !.Value = v] \in States
  BY DEF States
<1>6. [r EXCEPT !.State = s, !.Values = l] \in States
  BY DEF States
<1> QED
  BY <1>1, <1>2, <1>3, <1>4, <1>5, <1>6

\* The next character leads to a state.
LEMMA StepType ==
  ASSUME NEW r \in States, NEW c \in Signs
  PROVE  Read(r, c) \in States
<1> DEFINE n == r.Name
           v == r.Value
           l == r.Values
<1>1. /\ n \in Seq(Signs) /\ v \in Seq(Signs) /\ l \in Seq(Slots)
      /\ r.State \in {"NONE", "COM", "PRENAME", "NAME", "PREVALUE", "VALUE"}
      /\ r.preccar \in Signs
  BY StateFields
<1>2. /\ Append(n, c) \in Seq(Signs) /\ Append(v, c) \in Seq(Signs)
      /\ <<c>> \in Seq(Signs) /\ <<>> \in Seq(Signs) /\ <<r.preccar, c>> \in Seq(Signs)
      /\ Append(l, Comment(n)) \in Seq(Slots) /\ Append(l, Slot(n, v)) \in Seq(Slots)
  <2>1. <<c>> \in Seq(Signs) /\ <<>> \in Seq(Signs) /\ <<r.preccar, c>> \in Seq(Signs)
    BY <1>1
  <2>2. Append(n, c) \in Seq(Signs) /\ Append(v, c) \in Seq(Signs)
    BY <1>1, AppendProperties
  <2>3. Comment(n) \in Slots /\ Slot(n, v) \in Slots
    BY <1>1, SlotTypes
  <2> QED
    BY <1>1, <2>1, <2>2, <2>3, AppendProperties
<1>3. ASSUME NEW s \in States
      PROVE  [s EXCEPT !.preccar = c] \in States
  BY DEF States
<1>4. CASE r.State = "NONE"
  <2>1. None(r, c) \in States
    BY <1>2, StateChanges DEF None
  <2> QED
    BY <1>3, <1>4, <2>1 DEF Read
<1>5. CASE r.State = "COM"
  <2>1. Com(r, c) \in States
    BY <1>2, StateChanges DEF Com, n, l
  <2> QED
    BY <1>3, <1>5, <2>1 DEF Read
<1>6. CASE r.State = "PRENAME"
  <2>1. PreName(r, c) \in States
    BY <1>2, StateChanges DEF PreName
  <2> QED
    BY <1>3, <1>6, <2>1 DEF Read
<1>7. CASE r.State = "NAME"
  <2>1. InName(r, c) \in States
    BY <1>2, StateChanges DEF InName, n
  <2> QED
    BY <1>3, <1>7, <2>1 DEF Read
<1>8. CASE r.State = "PREVALUE"
  <2>1. PreValue(r, c) \in States
    BY <1>2, StateChanges DEF PreValue
  <2> QED
    BY <1>3, <1>8, <2>1 DEF Read
<1>9. CASE r.State = "VALUE"
  <2>1. InValue(r, c) \in States
    BY <1>2, StateChanges DEF InValue, v, l, n
  <2> QED
    BY <1>3, <1>9, <2>1 DEF Read
<1> QED
  BY <1>1, <1>4, <1>5, <1>6, <1>7, <1>8, <1>9

\* What it does with the next character, state by state.
LEMMA StepPreccar ==
  ASSUME NEW r \in States, NEW c \in Signs
  PROVE  Read(r, c).preccar = c
<1>1. ASSUME NEW s \in States
      PROVE  [s EXCEPT !.preccar = c].preccar = c
  BY DEF States
<1> DEFINE s == CASE r.State = "NONE"     -> None(r, c)
                  [] r.State = "COM"      -> Com(r, c)
                  [] r.State = "PRENAME"  -> PreName(r, c)
                  [] r.State = "NAME"     -> InName(r, c)
                  [] r.State = "PREVALUE" -> PreValue(r, c)
                  [] r.State = "VALUE"    -> InValue(r, c)
<1>2. Read(r, c) = [s EXCEPT !.preccar = c] /\ Read(r, c) \in States
  BY StepType DEF Read
<1> HIDE DEF s
<1> QED
  BY <1>2 DEF States

LEMMA StepNone ==
  ASSUME NEW r \in States, NEW c \in Signs, r.State = "NONE"
  PROVE  /\ Read(r, c).Values = r.Values
         /\ c = "#" => Read(r, c).State = "COM" /\ Read(r, c).Name = <<>>
         /\ c # "#" => Read(r, c).State = "PRENAME"
BY DEF States, None, Read

LEMMA StepCom ==
  ASSUME NEW r \in States, NEW c \in Signs, r.State = "COM"
  PROVE  /\ c = "nl" => /\ Read(r, c).State = "NONE"
                        /\ Read(r, c).Values = Append(r.Values, Comment(r.Name))
         /\ c # "nl" => /\ Read(r, c).State = "COM" /\ Read(r, c).Values = r.Values
                        /\ Read(r, c).Name = Append(r.Name, c)
BY DEF States, Com, Read

LEMMA StepPreName ==
  ASSUME NEW r \in States, NEW c \in Signs, r.State = "PRENAME"
  PROVE  /\ Read(r, c).Values = r.Values
         /\ c \in Blanks => Read(r, c).State = "NONE"
         /\ c = " " => Read(r, c).State = "PRENAME"
         /\ c \notin Blanks \cup {" "} =>
              Read(r, c).State = "NAME" /\ Read(r, c).Name = <<r.preccar, c>>
BY DEF States, PreName, Read, Blanks

LEMMA StepName ==
  ASSUME NEW r \in States, NEW c \in Signs, r.State = "NAME"
  PROVE  /\ Read(r, c).Values = r.Values
         /\ c \in {" ", "="} => Read(r, c).State = "PREVALUE" /\ Read(r, c).Name = r.Name
         /\ c \in Blanks => Read(r, c).State = "NONE"
         /\ c \notin Blanks \cup {" ", "="} =>
              Read(r, c).State = "NAME" /\ Read(r, c).Name = Append(r.Name, c)
BY DEF States, InName, Read, Blanks

LEMMA StepPreValue ==
  ASSUME NEW r \in States, NEW c \in Signs, r.State = "PREVALUE"
  PROVE  /\ Read(r, c).Values = r.Values /\ Read(r, c).Name = r.Name
         /\ c \in Blanks => Read(r, c).State = "NONE"
         /\ c = " " => Read(r, c).State = "PREVALUE"
         /\ c \notin Blanks \cup {" "} =>
              Read(r, c).State = "VALUE" /\ Read(r, c).Value = <<c>>
BY DEF States, PreValue, Read, Blanks

LEMMA StepValue ==
  ASSUME NEW r \in States, NEW c \in Signs, r.State = "VALUE"
  PROVE  /\ c \in Blanks \cup {"="} =>
              /\ Read(r, c).State = "NONE"
              /\ Read(r, c).Values = Append(r.Values, Slot(r.Name, r.Value))
         /\ c \notin Blanks \cup {"="} =>
              /\ Read(r, c).State = "VALUE" /\ Read(r, c).Values = r.Values
              /\ Read(r, c).Name = r.Name /\ Read(r, c).Value = Append(r.Value, c)
BY DEF States, InValue, Read, Blanks

\* The characters that end something, where they end it.
LEMMA ComEnd ==
  ASSUME NEW p \in States, NEW m, NEW l, p.State = "COM", p.Name = m, p.Values = l
  PROVE  /\ Read(p, "nl").State = "NONE"
         /\ Read(p, "nl").Values = Append(l, Comment(m))
BY DEF States, Com, Read

LEMMA NameGoesOn ==
  ASSUME NEW p \in States, NEW c \in Signs, p.State = "NAME", c \notin NameEnds,
         NEW m, NEW l, p.Name = m, p.Values = l
  PROVE  /\ Read(p, c).State = "NAME" /\ Read(p, c).Values = l
         /\ Read(p, c).Name = Append(m, c)
BY DEF States, InName, Read, NameEnds

LEMMA NameEnd ==
  ASSUME NEW p \in States, NEW m, NEW l, p.State = "NAME", p.Name = m, p.Values = l
  PROVE  /\ Read(p, "=").State = "PREVALUE" /\ Read(p, "=").Values = l
         /\ Read(p, "=").Name = m
BY DEF States, InName, Read

LEMMA ValueEnd ==
  ASSUME NEW p \in States, NEW m, NEW v, NEW l,
         p.State = "VALUE", p.Name = m, p.Value = v, p.Values = l
  PROVE  /\ Read(p, "nl").State = "NONE"
         /\ Read(p, "nl").Values = Append(l, Slot(m, v))
BY DEF States, InValue, Read, Blanks

\* The state in which it begins.
LEMMA BeginType == Begin \in States /\ Begin.State = "NONE" /\ Begin.Values = <<>>
BY DEF Begin, States, Signs
-----------------------------------------------------------------------------
(***************************************************************************)
(* A text is read character by character.                                  *)
(***************************************************************************)
\* f has the states of the automaton, from r on.
Runs(f, r, text) ==
  /\ f \in [0 .. Len(text) -> States]
  /\ f[0] = r
  /\ \A k \in 1 .. Len(text) : f[k] = Read(f[k - 1], text[k])

LEMMA RunExists ==
  ASSUME NEW r \in States, NEW text \in Seq(Signs)
  PROVE  \E f : Runs(f, r, text) /\ Through(r, text) = f[Len(text)]
<1> DEFINE n == Len(text)
           step == [p \in (1 .. n) \X States |-> Read(p[2], text[p[1]])]
           D(h) == h = [k \in 0 .. Len(text) |-> IF k = 0 THEN r ELSE Read(h[k - 1], text[k])]
           g == CHOOSE h : D(h)
<1>1. n \in Nat /\ \A k \in 1 .. n : text[k] \in Signs
  BY LenProperties, ElementOfSeq
<1>2. ASSUME NEW k \in 1 .. n, NEW v \in States
      PROVE  step[<<k, v>>] = Read(v, text[k]) /\ step[<<k, v>>] \in States
  BY <1>1, StepType
<1>3. step \in [(1 .. n) \X States -> States]
  <2>1. ASSUME NEW p \in (1 .. n) \X States
        PROVE  Read(p[2], text[p[1]]) \in States
    BY <1>1, StepType
  <2> QED
    BY <2>1
<1> HIDE DEF step
<1>5. PICK f \in [0 .. n -> States] : Recurs(f, n, r, step)
  BY <1>1, <1>3, RecursionExists
<1>6. f[0] = r /\ \A k \in 1 .. n : f[k] = Read(f[k - 1], text[k])
  <2>1. ASSUME NEW k \in 1 .. n
        PROVE  f[k - 1] \in States
    <3>1. k - 1 \in 0 .. n
      BY <1>1
    <3> QED
      BY <3>1
  <2> QED
    BY <1>2, <1>5, <2>1 DEF Recurs
<1>7. D(f)
  <2>1. ASSUME NEW k \in 0 .. n
        PROVE  f[k] = IF k = 0 THEN r ELSE Read(f[k - 1], text[k])
    <3>1. k = 0 \/ k \in 1 .. n
      BY <1>1
    <3> QED
      BY <1>6, <3>1
  <2> QED
    BY <2>1
<1>8. D(g)
  BY <1>7, Zenon
<1>9. Through(r, text) = g[n]
  BY DEF Through
<1> HIDE DEF g
<1>10. \A k \in 0 .. n : g[k] = IF k = 0 THEN r ELSE Read(g[k - 1], text[k])
  BY <1>8, Zenon
<1>11. g[0] = r /\ \A k \in 1 .. n : g[k - 1] \in States => g[k] = step[<<k, g[k - 1]>>]
  <2>1. 0 \in 0 .. n /\ \A k \in 1 .. n : k \in 0 .. n /\ k # 0
    BY <1>1
  <2> QED
    BY <1>2, <1>10, <2>1
<1> HIDE DEF D, n
<1>12. Agree(g, f, n)
  <2>1. n \in Nat /\ f \in [0 .. n -> States]
        /\ Recurs(f, n, r, step) /\ Follows(g, States, n, r, step)
    BY <1>1, <1>5, <1>11 DEF Follows
  <2> QED
    BY <2>1, RecursionUnique
<1> USE DEF n
<1>13. Through(r, text) = f[n]
  BY <1>1, <1>9, <1>12 DEF Agree
<1> QED
  BY <1>5, <1>6, <1>13 DEF Runs

\* There is one.
LEMMA RunIs ==
  ASSUME NEW r \in States, NEW text \in Seq(Signs), NEW f, Runs(f, r, text)
  PROVE  Through(r, text) = f[Len(text)] /\ Through(r, text) \in States
<1> DEFINE n == Len(text)
<1>1. n \in Nat
  BY LenProperties
<1>2. PICK g : Runs(g, r, text) /\ Through(r, text) = g[n]
  BY RunExists
<1> DEFINE T == {k \in Nat : k <= n => f[k] = g[k]}
<1>3. 0 \in T
  BY <1>2 DEF Runs
<1>4. ASSUME NEW k \in Nat, k \in T
      PROVE  k + 1 \in T
  <2> SUFFICES ASSUME k + 1 <= n
               PROVE  f[k + 1] = g[k + 1]
    OBVIOUS
  <2>1. k + 1 \in 1 .. n /\ (k + 1) - 1 = k /\ f[k] = g[k]
    BY <1>1, <1>4
  <2>2. f[k + 1] = Read(f[k], text[k + 1]) /\ g[k + 1] = Read(g[k], text[k + 1])
    BY <1>2, <2>1 DEF Runs
  <2> QED
    BY <2>1, <2>2
<1> HIDE DEF T
<1>5. n \in T
  BY <1>1, <1>3, <1>4, SetInduction
<1>6. g[n] \in States
  BY <1>1, <1>2 DEF Runs
<1> QED
  BY <1>1, <1>2, <1>5, <1>6 DEF T

LEMMA ThroughType ==
  ASSUME NEW r \in States, NEW text \in Seq(Signs)
  PROVE  Through(r, text) \in States
<1>1. PICK f : Runs(f, r, text)
  BY RunExists
<1> QED
  BY <1>1, RunIs

\* One text after the other.
LEMMA ThroughConcat ==
  ASSUME NEW r \in States, NEW a \in Seq(Signs), NEW b \in Seq(Signs)
  PROVE  Through(r, a \o b) = Through(Through(r, a), b)
<1> DEFINE m == Len(a)
           n == Len(b)
           c == a \o b
<1>1. m \in Nat /\ n \in Nat
  BY LenProperties
<1>2. /\ c \in Seq(Signs) /\ Len(c) = m + n
      /\ \A i \in 1 .. m + n : c[i] = IF i <= m THEN a[i] ELSE b[i - m]
  BY ConcatProperties
<1>3. PICK f : Runs(f, r, a) /\ Through(r, a) = f[m]
  BY RunExists
<1>4. f[m] \in States
  BY <1>3, ThroughType
<1>5. PICK g : Runs(g, f[m], b) /\ Through(f[m], b) = g[n]
  BY <1>4, RunExists
<1> DEFINE h == [k \in 0 .. m + n |-> IF k <= m THEN f[k] ELSE g[k - m]]
<1>6. /\ f \in [0 .. m -> States] /\ f[0] = r
      /\ \A k \in 1 .. m : f[k] = Read(f[k - 1], a[k])
      /\ g \in [0 .. n -> States] /\ g[0] = f[m]
      /\ \A k \in 1 .. n : g[k] = Read(g[k - 1], b[k])
  BY <1>3, <1>5 DEF Runs
<1> HIDE DEF m, n, c
<1>7. ASSUME NEW k \in 0 .. n
      PROVE  h[m + k] = g[k]
  <2>1. m + k \in 0 .. m + n /\ (m + k) - m = k /\ (m + k <= m <=> k = 0)
    BY <1>1
  <2>2. h[m + k] = IF m + k <= m THEN f[m + k] ELSE g[(m + k) - m]
    BY <2>1
  <2> QED
    BY <1>1, <1>6, <2>1, <2>2
<1>8. h \in [0 .. m + n -> States] /\ h[0] = r
  BY <1>1, <1>6
<1>9. ASSUME NEW k \in 1 .. m + n
      PROVE  h[k] = Read(h[k - 1], c[k])
  <2>1. CASE k <= m
    <3>1. k \in 1 .. m /\ h[k] = f[k] /\ h[k - 1] = f[k - 1] /\ c[k] = a[k]
      BY <1>1, <1>2, <2>1
    <3> QED
      BY <1>6, <3>1
  <2>2. CASE k > m
    <3> DEFINE j == k - m
    <3>1. j \in 1 .. n /\ j - 1 \in 0 .. n /\ j \in 0 .. n /\ m + j = k /\ m + (j - 1) = k - 1
      BY <1>1, <2>2
    <3>2. c[k] = b[j]
      BY <1>1, <1>2, <2>2
    <3> HIDE DEF j
    <3>3. h[k] = g[j] /\ h[k - 1] = g[j - 1]
      BY <1>7, <3>1
    <3> QED
      BY <1>6, <3>1, <3>2, <3>3
  <2> QED
    BY <1>1, <2>1, <2>2
<1>10. h[m + n] = g[n]
  BY <1>1, <1>7
<1> HIDE DEF h
<1>11. Runs(h, r, c)
  BY <1>2, <1>8, <1>9 DEF Runs
<1>12. Through(r, c) = h[m + n]
  BY <1>2, <1>11, RunIs
<1> QED
  BY <1>3, <1>5, <1>10, <1>12 DEF c

\* No character, or one.
LEMMA ThroughOne ==
  ASSUME NEW r \in States
  PROVE  /\ Through(r, <<>>) = r
         /\ \A c \in Signs : Through(r, <<c>>) = Read(r, c)
<1>1. Through(r, <<>>) = r
  <2>1. <<>> \in Seq(Signs) /\ Len(<<>>) = 0
    OBVIOUS
  <2>2. PICK f : Runs(f, r, <<>>) /\ Through(r, <<>>) = f[Len(<<>>)]
    BY <2>1, RunExists
  <2> QED
    BY <2>1, <2>2 DEF Runs
<1>2. ASSUME NEW c \in Signs
      PROVE  Through(r, <<c>>) = Read(r, c)
  <2> DEFINE text == <<c>>
  <2>1. text \in Seq(Signs) /\ Len(text) = 1 /\ text[1] = c
    OBVIOUS
  <2> HIDE DEF text
  <2>2. PICK f : Runs(f, r, text) /\ Through(r, text) = f[Len(text)]
    BY <2>1, RunExists
  <2>3. f[1] = Read(f[0], text[1]) /\ f[0] = r
    BY <2>1, <2>2 DEF Runs
  <2> QED
    BY <2>1, <2>2, <2>3 DEF text
<1> QED
  BY <1>1, <1>2

\* One character more.
LEMMA ThroughAppend ==
  ASSUME NEW r \in States, NEW text \in Seq(Signs), NEW c \in Signs
  PROVE  Through(r, Append(text, c)) = Read(Through(r, text), c)
<1>1. Append(text, c) = text \o <<c>>
  BY AppendIsConcat
<1>2. <<c>> \in Seq(Signs)
  OBVIOUS
<1>3. Through(r, text) \in States
  BY ThroughType
<1>4. Through(Through(r, text), <<c>>) = Read(Through(r, text), c)
  BY <1>3, ThroughOne
<1>5. Through(r, text \o <<c>>) = Through(Through(r, text), <<c>>)
  BY <1>2, ThroughConcat
<1> QED
  BY <1>1, <1>4, <1>5


\* The beginning of a text.
LEMMA Prefix ==
  ASSUME NEW X, NEW s \in Seq(X), NEW k \in 0 .. Len(s)
  PROVE  /\ SubSeq(s, 1, k) \in Seq(X) /\ Len(SubSeq(s, 1, k)) = k
         /\ \A i \in 1 .. k : SubSeq(s, 1, k)[i] = s[i]
         /\ k < Len(s) => SubSeq(s, 1, k + 1) = Append(SubSeq(s, 1, k), s[k + 1])
         /\ k = 0 => SubSeq(s, 1, k) = <<>>
         /\ k = Len(s) => SubSeq(s, 1, k) = s
<1>1. Len(s) \in Nat
  BY LenProperties
<1>2. ASSUME NEW j \in 0 .. Len(s)
      PROVE  /\ SubSeq(s, 1, j) \in Seq(X) /\ Len(SubSeq(s, 1, j)) = j
             /\ \A i \in 1 .. j : SubSeq(s, 1, j)[i] = s[i]
  <2>1. \A i \in 1 .. j : s[i] \in X
    BY <1>1, ElementOfSeq
  <2>2. /\ SubSeq(s, 1, j) \in Seq(X) /\ Len(SubSeq(s, 1, j)) = IF 1 <= j THEN j - 1 + 1 ELSE 0
        /\ \A i \in 1 .. j - 1 + 1 : SubSeq(s, 1, j)[i] = s[1 + i - 1]
    BY <1>1, <2>1, SubSeqProperties
  <2> QED
    BY <1>1, <2>2
<1>3. ASSUME k < Len(s)
      PROVE  SubSeq(s, 1, k + 1) = Append(SubSeq(s, 1, k), s[k + 1])
  <2> DEFINE a == SubSeq(s, 1, k + 1)
             p == SubSeq(s, 1, k)
             b == Append(p, s[k + 1])
  <2>1. k + 1 \in 0 .. Len(s) /\ s[k + 1] \in X
    BY <1>1, <1>3, ElementOfSeq
  <2>2. a \in Seq(X) /\ Len(a) = k + 1 /\ \A i \in 1 .. k + 1 : a[i] = s[i]
    BY <1>2, <2>1
  <2>3. p \in Seq(X) /\ Len(p) = k /\ \A i \in 1 .. k : p[i] = s[i]
    BY <1>2
  <2> HIDE DEF a, p
  <2>4. b \in Seq(X) /\ Len(b) = k + 1 /\ (\A i \in 1 .. k : b[i] = p[i]) /\ b[k + 1] = s[k + 1]
    BY <2>1, <2>3, AppendProperties
  <2> HIDE DEF b
  <2>5. \A i \in 1 .. Len(a) : a[i] = b[i]
    BY <2>2, <2>3, <2>4
  <2>6. a = b
    BY <2>2, <2>4, <2>5, SeqEqual
  <2> QED
    BY <2>6 DEF a, b, p
<1>4. k = Len(s) => SubSeq(s, 1, k) = s
  BY SubSeqFull
<1>5. k = 0 => SubSeq(s, 1, k) = <<>>
  BY <1>2, EmptySeq
<1> QED
  BY <1>2, <1>3, <1>4, <1>5

\* The states of a run are those at the beginnings of its text.
LEMMA RunPart ==
  ASSUME NEW r \in States, NEW text \in Seq(Signs), NEW f, Runs(f, r, text),
         NEW k \in 0 .. Len(text)
  PROVE  Through(r, SubSeq(text, 1, k)) = f[k]
<1> DEFINE part == SubSeq(text, 1, k)
           g == [j \in 0 .. k |-> f[j]]
<1>1. Len(text) \in Nat
  BY LenProperties
<1>2. part \in Seq(Signs) /\ Len(part) = k /\ \A i \in 1 .. k : part[i] = text[i]
  BY Prefix
<1> HIDE DEF part
<1>3. g \in [0 .. k -> States] /\ g[0] = r
  BY <1>1 DEF Runs
<1>4. ASSUME NEW i \in 1 .. k
      PROVE  g[i] = Read(g[i - 1], part[i])
  <2>1. i \in 1 .. Len(text) /\ g[i] = f[i] /\ g[i - 1] = f[i - 1]
    BY <1>1
  <2> QED
    BY <1>2, <2>1 DEF Runs
<1>5. Runs(g, r, part)
  BY <1>2, <1>3, <1>4 DEF Runs
<1>6. Through(r, part) = g[k]
  BY <1>2, <1>5, RunIs
<1> QED
  BY <1>6 DEF part
-----------------------------------------------------------------------------
(***************************************************************************)
(* What Load can make of a text, and Save and Load keep.                   *)
(***************************************************************************)
LegibleName(n) ==
  /\ Len(n) >= 2
  /\ n[1] # "#" /\ n[2] \notin Gaps
  /\ \A i \in 3 .. Len(n) : n[i] \notin NameEnds

LegibleValue(v) ==
  /\ Len(v) >= 1
  /\ v[1] \notin Gaps
  /\ \A i \in 2 .. Len(v) : v[i] \notin ValueEnds

LegibleText(n) == \A i \in 1 .. Len(n) : n[i] # "nl"

Legible(s) ==
  /\ s.IsCom => LegibleText(s.Name)
  /\ ~s.IsCom => LegibleName(s.Name) /\ LegibleValue(s.Value)

\* A slot as Load makes it: a comment has no value.
Plain(s) == IF s.IsCom THEN Comment(s.Name) ELSE s

Plains(vs) == [i \in DOMAIN vs |-> Plain(vs[i])]

AllLegible(vs) == \A i \in DOMAIN vs : Legible(vs[i])
AllPlain(vs)   == \A i \in DOMAIN vs : Plain(vs[i]) = vs[i]

\* What holds of the automaton whatever it reads.
Sound(r) ==
  /\ AllLegible(r.Values) /\ AllPlain(r.Values)
  /\ r.State = "COM" => LegibleText(r.Name)
  /\ r.State = "PRENAME" => r.preccar # "#"
  /\ r.State \in {"NAME", "PREVALUE", "VALUE"} => LegibleName(r.Name)
  /\ r.State = "VALUE" => LegibleValue(r.Value)

LEMMA PlainSlots ==
  ASSUME NEW s \in Slots
  PROVE  /\ Plain(s) \in Slots /\ Plain(s).Name = s.Name /\ Plain(s).IsCom = s.IsCom
         /\ ~s.IsCom => Plain(s).Value = s.Value
         /\ Plain(Plain(s)) = Plain(s) /\ Line(Plain(s)) = Line(s)
         /\ Legible(s) => Legible(Plain(s))
<1>1. CASE s.IsCom
  <2>1. Plain(s) = Comment(s.Name) /\ s.Name \in Seq(Signs)
    BY <1>1 DEF Plain, Slots
  <2>2. Comment(s.Name).Name = s.Name /\ Comment(s.Name).IsCom = TRUE
    BY DEF Comment
  <2>3. Comment(s.Name) \in Slots
    BY <2>1, SlotTypes
  <2> QED
    BY <1>1, <2>1, <2>2, <2>3 DEF Plain, Line, Legible
<1>2. CASE ~s.IsCom
  BY <1>2 DEF Plain
<1> QED
  BY <1>1, <1>2

LEMMA SlotFields ==
  ASSUME NEW n, NEW v
  PROVE  /\ Slot(n, v).Name = n /\ Slot(n, v).Value = v /\ Slot(n, v).IsCom = FALSE
         /\ Comment(n).Name = n /\ Comment(n).Value = <<>> /\ Comment(n).IsCom = TRUE
         /\ Plain(Slot(n, v)) = Slot(n, v) /\ Plain(Comment(n)) = Comment(n)
BY DEF Slot, Comment, Plain

\* One slot more.
LEMMA SoundAppend ==
  ASSUME NEW vs \in Seq(Slots), AllLegible(vs), AllPlain(vs),
         NEW s \in Slots, Legible(s), Plain(s) = s
  PROVE  AllLegible(Append(vs, s)) /\ AllPlain(Append(vs, s))
<1> DEFINE l == Append(vs, s)
           n == Len(vs)
<1>1. /\ l \in Seq(Slots) /\ Len(l) = n + 1 /\ (\A i \in 1 .. n : l[i] = vs[i]) /\ l[n + 1] = s
      /\ n \in Nat /\ DOMAIN vs = 1 .. n
  BY AppendProperties, LenProperties
<1> HIDE DEF l, n
<1>2. DOMAIN l = 1 .. n + 1
  BY <1>1, LenProperties
<1>3. ASSUME NEW i \in DOMAIN l
      PROVE  Legible(l[i]) /\ Plain(l[i]) = l[i]
  <2>1. i \in 1 .. n \/ i = n + 1
    BY <1>1, <1>2
  <2> QED
    BY <1>1, <2>1 DEF AllLegible, AllPlain
<1> QED
  BY <1>3 DEF AllLegible, AllPlain, l


\* Legible texts, one character longer.
LEMMA LegibleGrows ==
  ASSUME NEW t \in Seq(Signs), NEW c \in Signs
  PROVE  /\ LegibleText(t) /\ c # "nl" => LegibleText(Append(t, c))
         /\ LegibleName(t) /\ c \notin NameEnds => LegibleName(Append(t, c))
         /\ LegibleValue(t) /\ c \notin ValueEnds => LegibleValue(Append(t, c))
         /\ LegibleText(<<>>)
         /\ c \notin Gaps => LegibleValue(<<c>>)
<1> DEFINE u == Append(t, c)
           n == Len(t)
<1>1. n \in Nat /\ Len(u) = n + 1 /\ (\A i \in 1 .. n : u[i] = t[i]) /\ u[n + 1] = c
  BY AppendProperties, LenProperties
<1> HIDE DEF u
<1>2. \A i \in 1 .. Len(u) : i \in 1 .. n \/ i = n + 1
  BY <1>1
<1>3. LegibleText(t) /\ c # "nl" => LegibleText(u)
  BY <1>1, <1>2 DEF LegibleText
<1>4. ASSUME LegibleName(t), c \notin NameEnds
      PROVE  LegibleName(u)
  <2>1. /\ Len(t) >= 2 /\ t[1] # "#" /\ t[2] \notin Gaps
        /\ \A i \in 3 .. Len(t) : t[i] \notin NameEnds
    BY <1>4 DEF LegibleName
  <2>2. u[1] = t[1] /\ u[2] = t[2] /\ Len(u) >= 2
    BY <1>1, <2>1
  <2>3. ASSUME NEW i \in 3 .. Len(u)
        PROVE  u[i] \notin NameEnds
    <3>1. CASE i \in 1 .. n
      BY <1>1, <2>1, <3>1
    <3>2. CASE i = n + 1
      BY <1>1, <1>4, <3>2
    <3> QED
      BY <1>1, <3>1, <3>2
  <2> QED
    BY <2>1, <2>2, <2>3 DEF LegibleName
<1>5. ASSUME LegibleValue(t), c \notin ValueEnds
      PROVE  LegibleValue(u)
  <2>1. /\ Len(t) >= 1 /\ t[1] \notin Gaps
        /\ \A i \in 2 .. Len(t) : t[i] \notin ValueEnds
    BY <1>5 DEF LegibleValue
  <2>2. u[1] = t[1] /\ Len(u) >= 1
    BY <1>1, <2>1
  <2>3. ASSUME NEW i \in 2 .. Len(u)
        PROVE  u[i] \notin ValueEnds
    <3>1. CASE i \in 1 .. n
      BY <1>1, <2>1, <3>1
    <3>2. CASE i = n + 1
      BY <1>1, <1>5, <3>2
    <3> QED
      BY <1>1, <3>1, <3>2
  <2> QED
    BY <2>1, <2>2, <2>3 DEF LegibleValue
<1>6. LegibleText(<<>>)
  BY DEF LegibleText
<1>7. c \notin Gaps => LegibleValue(<<c>>)
  <2> DEFINE v == <<c>>
  <2>1. Len(v) = 1 /\ v[1] = c
    OBVIOUS
  <2> HIDE DEF v
  <2>2. c \notin Gaps => LegibleValue(v)
    BY <2>1 DEF LegibleValue
  <2> QED
    BY <2>2 DEF v
<1> QED
  BY <1>3, <1>4, <1>5, <1>6, <1>7 DEF u

LEMMA LegiblePair ==
  ASSUME NEW p, p # "#", NEW c, c \notin Gaps
  PROVE  LegibleName(<<p, c>>)
<1> DEFINE n == <<p, c>>
<1>1. Len(n) = 2 /\ n[1] = p /\ n[2] = c
  OBVIOUS
<1> HIDE DEF n
<1>2. LegibleName(n)
  BY <1>1 DEF LegibleName
<1> QED
  BY <1>2 DEF n

\* Every character keeps the automaton sound.
LEMMA SoundStep ==
  ASSUME NEW r \in States, Sound(r), NEW c \in Signs
  PROVE  Sound(Read(r, c))
<1> DEFINE s == Read(r, c)
<1> SUFFICES Sound(s)
  OBVIOUS
<1>1. /\ r.State \in {"NONE", "COM", "PRENAME", "NAME", "PREVALUE", "VALUE"}
      /\ r.Name \in Seq(Signs) /\ r.Value \in Seq(Signs) /\ r.Values \in Seq(Slots)
  BY StateFields
<1>2. AllLegible(r.Values) /\ AllPlain(r.Values)
  BY DEF Sound
<1>3. s.preccar = c
  BY StepPreccar
<1> HIDE DEF s
<1>4. CASE r.State = "NONE"
  <2>1. /\ s.Values = r.Values
        /\ c = "#" => s.State = "COM" /\ s.Name = <<>>
        /\ c # "#" => s.State = "PRENAME"
    BY <1>4, StepNone DEF s
  <2> QED
    BY <1>2, <1>3, <2>1, LegibleGrows, EmptySeq DEF Sound
<1>5. CASE r.State = "COM"
  <2>1. LegibleText(r.Name)
    BY <1>5 DEF Sound
  <2>2. CASE c = "nl"
    <3>1. s.State = "NONE" /\ s.Values = Append(r.Values, Comment(r.Name))
      BY <1>5, <2>2, StepCom DEF s
    <3>2. Legible(Comment(r.Name)) /\ Comment(r.Name) \in Slots
          /\ Plain(Comment(r.Name)) = Comment(r.Name)
      BY <1>1, <2>1, SlotFields, SlotTypes DEF Legible
    <3>3. AllLegible(s.Values) /\ AllPlain(s.Values)
      BY <1>1, <1>2, <3>1, <3>2, SoundAppend
    <3> QED
      BY <3>1, <3>3 DEF Sound
  <2>3. CASE c # "nl"
    <3>1. s.State = "COM" /\ s.Values = r.Values /\ s.Name = Append(r.Name, c)
      BY <1>5, <2>3, StepCom DEF s
    <3>2. LegibleText(s.Name)
      BY <1>1, <2>1, <2>3, <3>1, LegibleGrows
    <3> QED
      BY <1>2, <3>1, <3>2 DEF Sound
  <2> QED
    BY <2>2, <2>3
<1>6. CASE r.State = "PRENAME"
  <2>1. /\ s.Values = r.Values
        /\ c \in Blanks => s.State = "NONE"
        /\ c = " " => s.State = "PRENAME"
        /\ c \notin Gaps => s.State = "NAME" /\ s.Name = <<r.preccar, c>>
    BY <1>6, StepPreName DEF s, Gaps
  <2>2. r.preccar # "#"
    BY <1>6 DEF Sound
  <2>3. c \notin Gaps => LegibleName(s.Name)
    BY <2>1, <2>2, LegiblePair
  <2> QED
    BY <1>2, <1>3, <2>1, <2>3 DEF Sound, Gaps
<1>7. CASE r.State = "NAME"
  <2>1. /\ s.Values = r.Values
        /\ c \in {" ", "="} => s.State = "PREVALUE" /\ s.Name = r.Name
        /\ c \in Blanks => s.State = "NONE"
        /\ c \notin NameEnds => s.State = "NAME" /\ s.Name = Append(r.Name, c)
    BY <1>7, StepName DEF s, NameEnds
  <2>2. LegibleName(r.Name)
    BY <1>7 DEF Sound
  <2>3. c \notin NameEnds => LegibleName(s.Name)
    BY <1>1, <2>1, <2>2, LegibleGrows
  <2> QED
    BY <1>2, <2>1, <2>2, <2>3 DEF Sound, NameEnds
<1>8. CASE r.State = "PREVALUE"
  <2>1. /\ s.Values = r.Values /\ s.Name = r.Name
        /\ c \in Blanks => s.State = "NONE"
        /\ c = " " => s.State = "PREVALUE"
        /\ c \notin Gaps => s.State = "VALUE" /\ s.Value = <<c>>
    BY <1>8, StepPreValue DEF s, Gaps
  <2>2. LegibleName(r.Name)
    BY <1>8 DEF Sound
  <2>3. c \notin Gaps => LegibleValue(s.Value)
    BY <1>1, <2>1, LegibleGrows
  <2> QED
    BY <1>2, <2>1, <2>2, <2>3 DEF Sound, Gaps
<1>9. CASE r.State = "VALUE"
  <2>1. LegibleName(r.Name) /\ LegibleValue(r.Value)
    BY <1>9 DEF Sound
  <2>2. CASE c \in ValueEnds
    <3> DEFINE o == Slot(r.Name, r.Value)
    <3>1. s.State = "NONE" /\ s.Values = Append(r.Values, o)
      BY <1>9, <2>2, StepValue DEF s, ValueEnds
    <3>2. Legible(o) /\ o \in Slots /\ Plain(o) = o
      <4>1. o \in Slots
        BY <1>1, SlotTypes
      <4>2. /\ o.Name = r.Name /\ o.Value = r.Value /\ o.IsCom = FALSE
            /\ Plain(o) = o
        BY DEF Slot, Plain
      <4> HIDE DEF o
      <4> QED
        BY <2>1, <4>1, <4>2 DEF Legible
    <3> HIDE DEF o
    <3>3. AllLegible(s.Values) /\ AllPlain(s.Values)
      BY <1>1, <1>2, <3>1, <3>2, SoundAppend
    <3> QED
      BY <3>1, <3>3 DEF Sound
  <2>3. CASE c \notin ValueEnds
    <3>1. /\ s.State = "VALUE" /\ s.Values = r.Values
          /\ s.Name = r.Name /\ s.Value = Append(r.Value, c)
      BY <1>9, <2>3, StepValue DEF s, ValueEnds
    <3>2. LegibleValue(s.Value)
      BY <1>1, <2>1, <2>3, <3>1, LegibleGrows
    <3> QED
      BY <1>2, <2>1, <3>1, <3>2 DEF Sound
  <2> QED
    BY <2>2, <2>3
<1> QED
  BY <1>1, <1>4, <1>5, <1>6, <1>7, <1>8, <1>9 DEF s

\* And so does every text.
LEMMA SoundText ==
  ASSUME NEW text \in Seq(Signs)
  PROVE  Through(Begin, text) \in States /\ Sound(Through(Begin, text))
<1> DEFINE n == Len(text)
<1>1. n \in Nat /\ \A k \in 1 .. n : text[k] \in Signs
  BY LenProperties, ElementOfSeq
<1>2. Begin \in States /\ Begin.State = "NONE" /\ Begin.Values = <<>>
  BY BeginType
<1>3. PICK f : Runs(f, Begin, text) /\ Through(Begin, text) = f[n]
  BY <1>2, RunExists
<1>4. /\ f \in [0 .. n -> States] /\ f[0] = Begin
      /\ \A k \in 1 .. n : f[k] = Read(f[k - 1], text[k])
  BY <1>3 DEF Runs
<1> HIDE DEF n
<1> DEFINE T == {k \in Nat : k <= n => Sound(f[k])}
<1>5. 0 \in T
  <2>1. Sound(Begin)
    BY <1>2 DEF Sound, AllLegible, AllPlain
  <2> QED
    BY <1>4, <2>1
<1>6. ASSUME NEW k \in Nat, k \in T
      PROVE  k + 1 \in T
  <2> SUFFICES ASSUME k + 1 <= n
               PROVE  Sound(f[k + 1])
    OBVIOUS
  <2>1. k + 1 \in 1 .. n /\ (k + 1) - 1 = k /\ k \in 0 .. n /\ Sound(f[k])
    BY <1>1, <1>6
  <2>2. f[k] \in States /\ f[k + 1] = Read(f[k], text[k + 1]) /\ text[k + 1] \in Signs
    BY <1>1, <1>4, <2>1
  <2> QED
    BY <2>1, <2>2, SoundStep
<1> HIDE DEF T
<1>7. n \in T
  BY <1>1, <1>5, <1>6, SetInduction
<1> QED
  BY <1>1, <1>2, <1>3, <1>7, ThroughType DEF T

\* What Load returns.
LEMMA LoadSlots ==
  ASSUME NEW text \in Seq(Signs)
  PROVE  Load(text) \in Seq(Slots) /\ AllLegible(Load(text)) /\ AllPlain(Load(text))
<1> DEFINE r == Through(Begin, text)
           o == Slot(r.Name, r.Value)
<1>1. r \in States /\ Sound(r)
  BY SoundText
<1>2. Load(text) = IF r.State = "VALUE" THEN Append(r.Values, o) ELSE r.Values
  BY DEF Load
<1> HIDE DEF r
<1>3. r.Name \in Seq(Signs) /\ r.Value \in Seq(Signs) /\ r.Values \in Seq(Slots)
      /\ AllLegible(r.Values) /\ AllPlain(r.Values)
  BY <1>1, StateFields DEF Sound
<1>4. o \in Slots
  BY <1>3, SlotTypes
<1>o. o.Name = r.Name /\ o.Value = r.Value /\ o.IsCom = FALSE /\ Plain(o) = o
  BY DEF Slot, Plain
<1> HIDE DEF o
<1>5. r.State = "VALUE" => Legible(o)
  BY <1>1, <1>o DEF Sound, Legible
<1> QED
  BY <1>2, <1>3, <1>4, <1>5, <1>o, SoundAppend, AppendProperties
-----------------------------------------------------------------------------
(***************************************************************************)
(* What Load makes of a line that Save wrote: the slot, at its end, and    *)
(* nothing before.                                                         *)
(***************************************************************************)
\* f has the states on a line of length n, from one that has the slots vs on.
Yields(f, n, vs, s) ==
  /\ \A k \in 0 .. n - 1 : f[k].Values = vs
  /\ f[n].State = "NONE"
  /\ f[n].Values = Append(vs, s)

LEMMA CommentRun ==
  ASSUME NEW r \in States, r.State = "NONE", NEW name \in Seq(Signs), LegibleText(name),
         NEW n, n = Len(name), NEW L \in Seq(Signs), Len(L) = n + 2,
         L[1] = "#", \A i \in 1 .. n : L[i + 1] = name[i], L[n + 2] = "nl",
         NEW f, Runs(f, r, L)
  PROVE  Yields(f, n + 2, r.Values, Comment(name))
<1>1. n \in Nat /\ \A k \in 1 .. n : name[k] \in Signs /\ name[k] # "nl"
  BY LenProperties, ElementOfSeq DEF LegibleText
<1>2. /\ f \in [0 .. n + 2 -> States] /\ f[0] = r
      /\ \A k \in 1 .. n + 2 : f[k] = Read(f[k - 1], L[k])
  BY DEF Runs
<1>3. ASSUME NEW k \in 0 .. n + 2
      PROVE  f[k] \in States
  BY <1>2
<1>4. ASSUME NEW k \in 1 .. n + 2
      PROVE  L[k] \in Signs /\ f[k - 1] \in States
  <2>1. k - 1 \in 0 .. n + 2
    BY <1>1
  <2> QED
    BY <1>3, <2>1, ElementOfSeq
<1> DEFINE P(k) == /\ f[k + 1].State = "COM" /\ f[k + 1].Values = r.Values
                   /\ f[k + 1].Name = SubSeq(name, 1, k)
           T == {k \in Nat : k <= n => P(k)}
<1>5. 0 \in T
  <2>1. 1 \in 1 .. n + 2 /\ 1 - 1 = 0
    BY <1>1
  <2>2. f[1] = Read(r, "#") /\ "#" \in Signs
    BY <1>2, <1>4, <2>1
  <2>3. f[1].State = "COM" /\ f[1].Values = r.Values /\ f[1].Name = <<>>
    BY <2>2, StepNone
  <2>4. SubSeq(name, 1, 0) = <<>> /\ 0 + 1 = 1
    BY <1>1, Prefix
  <2>5. P(0)
    BY <2>3, <2>4
  <2> HIDE DEF P
  <2> QED
    BY <2>5
<1>6. ASSUME NEW k \in Nat, k \in T
      PROVE  k + 1 \in T
  <2> SUFFICES ASSUME k + 1 <= n
               PROVE  P(k + 1)
    OBVIOUS
  <2>1. /\ P(k) /\ k + 2 \in 1 .. n + 2 /\ (k + 2) - 1 = k + 1 /\ k + 1 \in 1 .. n
        /\ (k + 1) + 1 = k + 2 /\ k \in 0 .. n /\ k < n
    BY <1>1, <1>6
  <2>2. L[k + 2] = name[k + 1] /\ name[k + 1] # "nl"
    BY <1>1, <2>1
  <2>3. f[k + 2] = Read(f[k + 1], name[k + 1]) /\ f[k + 1] \in States /\ name[k + 1] \in Signs
    BY <1>1, <1>2, <1>4, <2>1, <2>2
  <2>4. /\ f[k + 2].State = "COM" /\ f[k + 2].Values = r.Values
        /\ f[k + 2].Name = Append(SubSeq(name, 1, k), name[k + 1])
    <3> DEFINE p == f[k + 1]
               q == f[k + 2]
               c == name[k + 1]
               m == SubSeq(name, 1, k)
    <3>1. p.State = "COM" /\ p.Values = r.Values /\ p.Name = m
      BY <2>1
    <3>2. q = Read(p, c) /\ p \in States /\ c \in Signs /\ c # "nl"
      BY <2>2, <2>3
    <3> HIDE DEF p, q, c, m
    <3>3. q.State = "COM" /\ q.Values = r.Values /\ q.Name = Append(m, c)
      BY <3>1, <3>2, StepCom
    <3> QED
      BY <3>3 DEF q, c, m
  <2>5. SubSeq(name, 1, k + 1) = Append(SubSeq(name, 1, k), name[k + 1])
    BY <2>1, Prefix
  <2> QED
    BY <2>1, <2>4, <2>5
<1> HIDE DEF T
<1>s. Nat \subseteq T
  BY <1>5, <1>6, SetInduction
<1>7. ASSUME NEW k \in 0 .. n
      PROVE  P(k)
  <2>1. k \in T /\ k <= n
    BY <1>1, <1>s
  <2> HIDE DEF P
  <2> QED
    BY <2>1 DEF T
<1>8. /\ f[n + 1].State = "COM" /\ f[n + 1].Values = r.Values /\ f[n + 1].Name = name
  <2>1. n \in 0 .. n /\ SubSeq(name, 1, n) = name
    BY <1>1, Prefix
  <2> QED
    BY <1>7, <2>1
<1>9. f[n + 2].State = "NONE" /\ f[n + 2].Values = Append(r.Values, Comment(name))
  <2>1. n + 2 \in 1 .. n + 2 /\ (n + 2) - 1 = n + 1
    BY <1>1
  <2>2. f[n + 2] = Read(f[n + 1], "nl") /\ f[n + 1] \in States /\ "nl" \in Signs
    BY <1>2, <1>4, <2>1
  <2> DEFINE p == f[n + 1]
             q == f[n + 2]
             l == r.Values
  <2>3. /\ p.State = "COM" /\ p.Values = l /\ p.Name = name
        /\ q = Read(p, "nl") /\ p \in States
    BY <1>8, <2>2
  <2> HIDE DEF p, q, l
  <2>4. q.State = "NONE" /\ q.Values = Append(l, Comment(name))
    BY <2>3, ComEnd
  <2> QED
    BY <2>4 DEF q, l
<1>10. ASSUME NEW k \in 0 .. (n + 2) - 1
       PROVE  f[k].Values = r.Values
  <2>1. CASE k = 0
    BY <1>2, <2>1
  <2>2. CASE k # 0
    <3>1. k - 1 \in 0 .. n /\ (k - 1) + 1 = k
      BY <1>1, <2>2
    <3>2. P(k - 1)
      BY <1>7, <3>1
    <3> QED
      BY <3>1, <3>2
  <2> QED
    BY <2>1, <2>2
<1> QED
  BY <1>9, <1>10 DEF Yields

LEMMA OptionRun ==
  ASSUME NEW r \in States, r.State = "NONE",
         NEW name \in Seq(Signs), LegibleName(name), NEW a, a = Len(name),
         NEW value \in Seq(Signs), LegibleValue(value), NEW b, b = Len(value),
         NEW L \in Seq(Signs), Len(L) = a + b + 2,
         \A i \in 1 .. a : L[i] = name[i], L[a + 1] = "=",
         \A i \in 1 .. b : L[a + 1 + i] = value[i], L[a + b + 2] = "nl",
         NEW f, Runs(f, r, L)
  PROVE  Yields(f, a + b + 2, r.Values, Slot(name, value))
<1> DEFINE n == a + b + 2
<1>1. /\ a \in Nat /\ b \in Nat /\ a >= 2 /\ b >= 1
      /\ \A k \in 1 .. a : name[k] \in Signs
      /\ \A k \in 1 .. b : value[k] \in Signs
  BY LenProperties, ElementOfSeq DEF LegibleName, LegibleValue
<1>2. /\ f \in [0 .. n -> States] /\ f[0] = r
      /\ \A k \in 1 .. n : f[k] = Read(f[k - 1], L[k])
  BY DEF Runs
<1>3. ASSUME NEW k \in 0 .. n
      PROVE  f[k] \in States
  BY <1>2
<1>4. ASSUME NEW k \in 1 .. n
      PROVE  L[k] \in Signs /\ f[k - 1] \in States /\ f[k] = Read(f[k - 1], L[k])
  <2>1. k - 1 \in 0 .. n
    BY <1>1
  <2> QED
    BY <1>2, <1>3, <2>1, ElementOfSeq
<1>a. n \in Nat /\ 1 \in 1 .. n /\ 2 \in 1 .. n /\ a + 1 \in 1 .. n /\ a + 2 \in 1 .. n
      /\ n - 1 = a + b + 1 /\ n \in 1 .. n /\ a \in 0 .. n
  BY <1>1
<1>5. f[1].State = "PRENAME" /\ f[1].Values = r.Values /\ f[1].preccar = name[1]
  <2>1. f[1] = Read(r, name[1]) /\ name[1] \in Signs /\ name[1] # "#"
    <3>1. 1 \in 1 .. a /\ 1 - 1 = 0
      BY <1>1
    <3>2. L[1] = name[1] /\ name[1] \in Signs
      BY <1>1, <3>1
    <3>3. f[1] = Read(f[1 - 1], L[1])
      BY <1>4, <1>a
    <3> QED
      BY <1>2, <3>1, <3>2, <3>3 DEF LegibleName
  <2> QED
    BY <2>1, StepNone, StepPreccar
<1>6. f[2].State = "NAME" /\ f[2].Values = r.Values /\ f[2].Name = SubSeq(name, 1, 2)
  <2>1. f[2] = Read(f[1], name[2]) /\ name[2] \in Signs /\ name[2] \notin Gaps /\ f[1] \in States
    <3>1. 2 \in 1 .. a /\ 2 - 1 = 1
      BY <1>1
    <3>2. L[2] = name[2] /\ name[2] \in Signs
      BY <1>1, <3>1
    <3>3. f[2] = Read(f[2 - 1], L[2]) /\ f[2 - 1] \in States
      BY <1>4, <1>a
    <3> QED
      BY <3>1, <3>2, <3>3 DEF LegibleName
  <2>2. f[2].State = "NAME" /\ f[2].Values = r.Values /\ f[2].Name = <<name[1], name[2]>>
    <3> DEFINE p == f[1]
               q == f[2]
               c == name[2]
    <3>1. /\ p.State = "PRENAME" /\ p.Values = r.Values /\ p.preccar = name[1]
          /\ q = Read(p, c) /\ p \in States /\ c \in Signs /\ c \notin Gaps
      BY <1>5, <2>1
    <3> HIDE DEF p, q, c
    <3>2. q.State = "NAME" /\ q.Values = r.Values /\ q.Name = <<name[1], c>>
      BY <3>1, StepPreName, ZenonT(40) DEF Gaps
    <3> QED
      BY <3>2 DEF q, c
  <2>3. SubSeq(name, 1, 2) = <<name[1], name[2]>>
    <3> DEFINE p == <<name[1], name[2]>>
               q == SubSeq(name, 1, 2)
    <3>1. name[1] \in Signs /\ name[2] \in Signs /\ 2 \in 0 .. a
      BY <1>1
    <3>2. p \in Seq(Signs) /\ Len(p) = 2 /\ p[1] = name[1] /\ p[2] = name[2]
      BY <3>1
    <3>3. q \in Seq(Signs) /\ Len(q) = 2 /\ \A i \in 1 .. 2 : q[i] = name[i]
      BY <3>1, Prefix
    <3> HIDE DEF p, q
    <3>4. \A i \in 1 .. Len(p) : p[i] = q[i]
      BY <3>2, <3>3
    <3>5. p = q
      BY <3>2, <3>3, <3>4, SeqEqual, SMTT(40)
    <3> QED
      BY <3>5 DEF p, q
  <2> QED
    BY <2>2, <2>3
<1> DEFINE P(k) == /\ f[k].State = "NAME" /\ f[k].Values = r.Values
                   /\ f[k].Name = SubSeq(name, 1, k)
           T == {k \in Nat : 2 <= k /\ k <= a => P(k)}
<1>7. 0 \in T
  OBVIOUS
<1>8. ASSUME NEW k \in Nat, k \in T
      PROVE  k + 1 \in T
  <2> SUFFICES ASSUME 2 <= k + 1, k + 1 <= a
               PROVE  P(k + 1)
    OBVIOUS
  <2>1. CASE k + 1 = 2
    BY <1>6, <2>1
  <2>2. CASE k + 1 # 2
    <3>1. /\ P(k) /\ k + 1 \in 1 .. n /\ (k + 1) - 1 = k /\ k + 1 \in 3 .. a /\ k + 1 \in 1 .. a
          /\ k \in 0 .. a /\ k < a
      BY <1>1, <1>8, <2>2
    <3>2. L[k + 1] = name[k + 1] /\ name[k + 1] \notin NameEnds /\ name[k + 1] \in Signs
      BY <1>1, <3>1 DEF LegibleName
    <3>3. f[k + 1] = Read(f[k], name[k + 1]) /\ f[k] \in States
      <4>1. f[k + 1] = Read(f[(k + 1) - 1], L[k + 1]) /\ f[(k + 1) - 1] \in States
        BY <1>4, <3>1
      <4> QED
        BY <3>1, <3>2, <4>1
    <3>4. /\ f[k + 1].State = "NAME" /\ f[k + 1].Values = r.Values
          /\ f[k + 1].Name = Append(SubSeq(name, 1, k), name[k + 1])
      <4> DEFINE p == f[k]
                 q == f[k + 1]
                 c == name[k + 1]
                 m == SubSeq(name, 1, k)
      <4>1. p.State = "NAME" /\ p.Values = r.Values /\ p.Name = m
        BY <3>1
      <4>2. q = Read(p, c) /\ p \in States /\ c \in Signs /\ c \notin NameEnds
        BY <3>2, <3>3
      <4> HIDE DEF p, q, c, m
      <4>3. q.State = "NAME" /\ q.Values = r.Values /\ q.Name = Append(m, c)
        BY <4>1, <4>2, NameGoesOn, SMTT(40)
      <4> QED
        BY <4>3 DEF q, c, m
    <3>5. SubSeq(name, 1, k + 1) = Append(SubSeq(name, 1, k), name[k + 1])
      BY <3>1, Prefix
    <3> QED
      BY <3>1, <3>4, <3>5
  <2> QED
    BY <2>1, <2>2
<1> HIDE DEF T
<1>s. Nat \subseteq T
  BY <1>7, <1>8, SetInduction
<1>9. ASSUME NEW k \in 2 .. a
      PROVE  P(k)
  <2>1. k \in T /\ 2 <= k /\ k <= a
    BY <1>1, <1>s
  <2> HIDE DEF P
  <2> QED
    BY <2>1 DEF T
<1>10. f[a + 1].State = "PREVALUE" /\ f[a + 1].Values = r.Values /\ f[a + 1].Name = name
  <2>1. a \in 2 .. a /\ SubSeq(name, 1, a) = name /\ (a + 1) - 1 = a
    BY <1>1, Prefix
  <2>2. f[a].State = "NAME" /\ f[a].Values = r.Values /\ f[a].Name = name
    BY <1>9, <2>1
  <2>3. f[a + 1] = Read(f[(a + 1) - 1], L[a + 1]) /\ f[(a + 1) - 1] \in States
        /\ L[a + 1] \in Signs
    BY <1>4, <1>a
  <2>4. f[a + 1] = Read(f[a], "=") /\ f[a] \in States /\ "=" \in Signs
    BY <2>1, <2>3
  <2> QED
    BY <2>2, <2>4, NameEnd
<1>11. /\ f[a + 2].State = "VALUE" /\ f[a + 2].Values = r.Values /\ f[a + 2].Name = name
       /\ f[a + 2].Value = SubSeq(value, 1, 1)
  <2>1. 1 \in 1 .. b /\ a + 1 + 1 = a + 2 /\ (a + 2) - 1 = a + 1
    BY <1>1
  <2>2. L[a + 2] = value[1] /\ value[1] \in Signs /\ value[1] \notin Gaps
    BY <1>1, <2>1 DEF LegibleValue
  <2>3. f[a + 2] = Read(f[(a + 2) - 1], L[a + 2]) /\ f[(a + 2) - 1] \in States
    BY <1>4, <1>a
  <2>4. f[a + 2] = Read(f[a + 1], value[1]) /\ f[a + 1] \in States
    BY <2>1, <2>2, <2>3
  <2>5. /\ f[a + 2].State = "VALUE" /\ f[a + 2].Values = r.Values /\ f[a + 2].Name = name
        /\ f[a + 2].Value = <<value[1]>>
    <3> DEFINE p == f[a + 1]
               q == f[a + 2]
               c == value[1]
    <3>1. /\ p.State = "PREVALUE" /\ p.Values = r.Values /\ p.Name = name
          /\ q = Read(p, c) /\ p \in States /\ c \in Signs /\ c \notin Gaps
      BY <1>10, <2>2, <2>4
    <3> HIDE DEF p, q, c
    <3>2. q.State = "VALUE" /\ q.Values = r.Values /\ q.Name = name /\ q.Value = <<c>>
      BY <3>1, StepPreValue DEF Gaps
    <3> QED
      BY <3>2 DEF q, c
  <2>6. SubSeq(value, 1, 1) = <<value[1]>>
    <3> DEFINE p == <<value[1]>>
               q == SubSeq(value, 1, 1)
    <3>1. 1 \in 0 .. b
      BY <1>1
    <3>2. p \in Seq(Signs) /\ Len(p) = 1 /\ p[1] = value[1]
      BY <2>2
    <3>3. q \in Seq(Signs) /\ Len(q) = 1 /\ \A i \in 1 .. 1 : q[i] = value[i]
      BY <3>1, Prefix
    <3> HIDE DEF p, q
    <3>4. \A i \in 1 .. Len(p) : p[i] = q[i]
      BY <3>2, <3>3
    <3>5. p = q
      BY <3>2, <3>3, <3>4, SeqEqual
    <3> QED
      BY <3>5 DEF p, q
  <2> QED
    BY <2>5, <2>6
<1> DEFINE Q(k) == /\ f[a + 1 + k].State = "VALUE" /\ f[a + 1 + k].Values = r.Values
                   /\ f[a + 1 + k].Name = name /\ f[a + 1 + k].Value = SubSeq(value, 1, k)
           U == {k \in Nat : 1 <= k /\ k <= b => Q(k)}
<1>12. 0 \in U
  OBVIOUS
<1>13. ASSUME NEW k \in Nat, k \in U
       PROVE  k + 1 \in U
  <2> SUFFICES ASSUME k + 1 <= b
               PROVE  Q(k + 1)
    OBVIOUS
  <2>1. CASE k = 0
    <3>1. a + 1 + (k + 1) = a + 2 /\ k + 1 = 1
      BY <1>1, <2>1
    <3> QED
      BY <1>11, <3>1
  <2>2. CASE k # 0
    <3>q. Q(k)
      <4> HIDE DEF Q
      <4> QED
        BY <1>1, <1>13, <2>2
    <3>1. /\ a + 2 + k \in 1 .. n /\ (a + 2 + k) - 1 = a + 1 + k
          /\ k + 1 \in 2 .. b /\ k + 1 \in 1 .. b /\ k \in 0 .. b /\ k < b
          /\ a + 1 + (k + 1) = a + 2 + k
      BY <1>1, <2>2
    <3>2. L[a + 2 + k] = value[k + 1] /\ value[k + 1] \notin ValueEnds /\ value[k + 1] \in Signs
      BY <1>1, <3>1 DEF LegibleValue
    <3>3. f[a + 2 + k] = Read(f[a + 1 + k], value[k + 1]) /\ f[a + 1 + k] \in States
      <4>1. /\ f[a + 2 + k] = Read(f[(a + 2 + k) - 1], L[a + 2 + k])
            /\ f[(a + 2 + k) - 1] \in States
        BY <1>4, <3>1
      <4> QED
        BY <3>1, <3>2, <4>1
    <3>4. /\ f[a + 2 + k].State = "VALUE" /\ f[a + 2 + k].Values = r.Values
          /\ f[a + 2 + k].Name = name
          /\ f[a + 2 + k].Value = Append(SubSeq(value, 1, k), value[k + 1])
      <4> DEFINE p == f[a + 1 + k]
                 q == f[a + 2 + k]
                 c == value[k + 1]
                 m == SubSeq(value, 1, k)
      <4>1. p.State = "VALUE" /\ p.Values = r.Values /\ p.Name = name /\ p.Value = m
        BY <3>q
      <4>2. q = Read(p, c) /\ p \in States /\ c \in Signs /\ c \notin ValueEnds
        BY <3>2, <3>3
      <4> HIDE DEF p, q, c, m
      <4>3. /\ q.State = "VALUE" /\ q.Values = r.Values /\ q.Name = name
            /\ q.Value = Append(m, c)
        BY <4>1, <4>2, StepValue, SMTT(40) DEF ValueEnds
      <4> QED
        BY <4>3 DEF q, c, m
    <3>5. SubSeq(value, 1, k + 1) = Append(SubSeq(value, 1, k), value[k + 1])
      BY <3>1, Prefix
    <3> QED
      BY <3>1, <3>4, <3>5
  <2> QED
    BY <2>1, <2>2
<1> HIDE DEF U
<1>t. Nat \subseteq U
  BY <1>12, <1>13, SetInduction
<1>14. ASSUME NEW k \in 1 .. b
       PROVE  Q(k)
  <2>1. k \in U /\ 1 <= k /\ k <= b
    BY <1>1, <1>t
  <2> HIDE DEF Q
  <2> QED
    BY <2>1 DEF U
<1>15. f[n].State = "NONE" /\ f[n].Values = Append(r.Values, Slot(name, value))
  <2>1. b \in 1 .. b /\ SubSeq(value, 1, b) = value /\ a + 1 + b = n - 1
    BY <1>1, Prefix
  <2>2. /\ f[n - 1].State = "VALUE" /\ f[n - 1].Values = r.Values
        /\ f[n - 1].Name = name /\ f[n - 1].Value = value
    BY <1>14, <2>1
  <2>3. f[n] = Read(f[n - 1], "nl") /\ f[n - 1] \in States /\ "nl" \in Signs
    BY <1>4, <1>a
  <2> HIDE DEF n
  <2> DEFINE p == f[n - 1]
             q == f[n]
             l == r.Values
  <2>4. /\ p.State = "VALUE" /\ p.Values = l /\ p.Name = name /\ p.Value = value
        /\ q = Read(p, "nl") /\ p \in States
    BY <2>2, <2>3
  <2> HIDE DEF p, q, l
  <2>5. q.State = "NONE" /\ q.Values = Append(l, Slot(name, value))
    BY <2>4, ValueEnd, SMTT(40)
  <2> QED
    BY <2>5 DEF q, l
<1>16. ASSUME NEW k \in 0 .. n - 1
       PROVE  f[k].Values = r.Values
  <2>1. k = 0 \/ k = 1 \/ k \in 2 .. a \/ k = a + 1 \/ k - a - 1 \in 1 .. b
    BY <1>1, <1>a
  <2>2. CASE k \in 2 .. a
    BY <1>9, <2>2
  <2>3. CASE k - a - 1 \in 1 .. b
    <3>1. a + 1 + (k - a - 1) = k
      BY <1>1
    <3>2. Q(k - a - 1)
      BY <1>14, <2>3
    <3> QED
      BY <3>1, <3>2
  <2> QED
    BY <1>2, <1>5, <1>10, <2>1, <2>2, <2>3
<1> QED
  BY <1>15, <1>16 DEF Yields


\* One text after another, place by place.
LEMMA Joined ==
  ASSUME NEW x \in Seq(Signs), NEW y \in Seq(Signs), NEW m, m = Len(x), NEW n, n = Len(y)
  PROVE  /\ x \o y \in Seq(Signs) /\ Len(x \o y) = m + n
         /\ \A i \in 1 .. m : (x \o y)[i] = x[i]
         /\ \A i \in 1 .. n : (x \o y)[m + i] = y[i]
<1> DEFINE z == x \o y
<1>1. m \in Nat /\ n \in Nat
  BY LenProperties
<1>2. /\ z \in Seq(Signs) /\ Len(z) = m + n
      /\ \A i \in 1 .. m + n : z[i] = IF i <= m THEN x[i] ELSE y[i - m]
  BY ConcatProperties
<1> HIDE DEF z
<1>3. ASSUME NEW i \in 1 .. m
      PROVE  z[i] = x[i]
  BY <1>1, <1>2
<1>4. ASSUME NEW i \in 1 .. n
      PROVE  z[m + i] = y[i]
  <2>1. m + i \in 1 .. m + n /\ ~(m + i <= m) /\ (m + i) - m = i
    BY <1>1
  <2> QED
    BY <1>2, <2>1
<1> QED
  BY <1>2, <1>3, <1>4 DEF z

\* A text and one more character.
LEMMA JoinedOne ==
  ASSUME NEW x \in Seq(Signs), NEW c \in Signs, NEW m, m = Len(x)
  PROVE  /\ x \o <<c>> \in Seq(Signs) /\ Len(x \o <<c>>) = m + 1
         /\ \A i \in 1 .. m : (x \o <<c>>)[i] = x[i]
         /\ (x \o <<c>>)[m + 1] = c
<1> DEFINE y == <<c>>
           n == 1
<1>1. y \in Seq(Signs) /\ n = Len(y) /\ y[1] = c
  OBVIOUS
<1> HIDE DEF y, n
<1>2. /\ x \o y \in Seq(Signs) /\ Len(x \o y) = m + n
      /\ \A i \in 1 .. m : (x \o y)[i] = x[i]
      /\ \A i \in 1 .. n : (x \o y)[m + i] = y[i]
  BY <1>1, Joined
<1>3. n = 1 /\ 1 \in 1 .. n
  BY DEF n
<1> QED
  BY <1>1, <1>2, <1>3 DEF y

\* How a line is laid out.
LEMMA CommentLaid ==
  ASSUME NEW s \in Slots, s.IsCom, NEW n, n = Len(s.Name)
  PROVE  /\ Line(s) \in Seq(Signs) /\ Len(Line(s)) = n + 2
         /\ Line(s)[1] = "#" /\ (\A i \in 1 .. n : Line(s)[i + 1] = s.Name[i])
         /\ Line(s)[n + 2] = "nl"
<1> DEFINE name == s.Name
           a == <<"#">>
           p == a \o name
           q == p \o <<"nl">>
           one == 1
           w == one + n
<1>1. name \in Seq(Signs) /\ n \in Nat /\ n = Len(name)
  BY LenProperties DEF Slots
<1>2. a \in Seq(Signs) /\ one = Len(a) /\ a[1] = "#" /\ "nl" \in Signs
  BY DEF Signs
<1>3. Line(s) = q
  BY DEF Line
<1> HIDE DEF a, name, one
<1>4. /\ p \in Seq(Signs) /\ Len(p) = one + n /\ (\A i \in 1 .. one : p[i] = a[i])
      /\ \A i \in 1 .. n : p[one + i] = name[i]
  BY <1>1, <1>2, Joined
<1> HIDE DEF p
<1>5. w = Len(p) /\ w \in Nat /\ p \in Seq(Signs) /\ "nl" \in Signs
  BY <1>1, <1>2, <1>4 DEF one
<1> HIDE DEF w
<1>6. /\ q \in Seq(Signs) /\ Len(q) = w + 1
      /\ (\A i \in 1 .. w : q[i] = p[i]) /\ q[w + 1] = "nl"
  BY <1>5, JoinedOne
<1> HIDE DEF q
<1>7. one = 1 /\ w = n + 1 /\ w + 1 = n + 2
  BY <1>1 DEF w, one
<1>8. /\ 1 \in 1 .. one /\ 1 \in 1 .. w
      /\ \A i \in 1 .. n : i + 1 \in 1 .. w /\ one + i = i + 1
  BY <1>1, <1>7
<1>9. q[1] = "#" /\ \A i \in 1 .. n : q[i + 1] = name[i]
  BY <1>2, <1>4, <1>6, <1>8
<1> QED
  BY <1>3, <1>6, <1>7, <1>9 DEF name

OptionAt(L, name, value, a, b) ==
  /\ L \in Seq(Signs) /\ Len(L) = a + b + 2
  /\ (\A i \in 1 .. a : L[i] = name[i]) /\ L[a + 1] = "="
  /\ (\A i \in 1 .. b : L[a + 1 + i] = value[i]) /\ L[a + b + 2] = "nl"

LEMMA OptionLaid ==
  ASSUME NEW s \in Slots, ~s.IsCom
  PROVE  OptionAt(Line(s), s.Name, s.Value, Len(s.Name), Len(s.Value))
<1> DEFINE name == s.Name
           value == s.Value
           a == Len(s.Name)
           b == Len(s.Value)
           p == name \o <<"=">>
           q == p \o value
           t == q \o <<"nl">>
           w == a + 1
<1>1. /\ name \in Seq(Signs) /\ a \in Nat /\ a = Len(name)
      /\ value \in Seq(Signs) /\ b \in Nat /\ b = Len(value)
  BY LenProperties DEF Slots
<1>2. "=" \in Signs /\ "nl" \in Signs
  BY DEF Signs
<1>3. Line(s) = t
  BY DEF Line
<1> HIDE DEF name, value, a, b
<1>4. /\ p \in Seq(Signs) /\ Len(p) = a + 1
      /\ (\A i \in 1 .. a : p[i] = name[i]) /\ p[a + 1] = "="
  BY <1>1, <1>2, JoinedOne
<1> HIDE DEF p
<1>c. w = Len(p) /\ w \in Nat /\ p \in Seq(Signs) /\ value \in Seq(Signs) /\ b \in Nat /\ b = Len(value)
  BY <1>1, <1>4
<1> HIDE DEF w
<1>5. /\ q \in Seq(Signs) /\ Len(q) = w + b
      /\ (\A i \in 1 .. w : q[i] = p[i])
      /\ \A i \in 1 .. b : q[w + i] = value[i]
  BY <1>c, Joined
<1> HIDE DEF q
<1> DEFINE k == w + b
<1>d. k = Len(q) /\ k \in Nat
  BY <1>1, <1>5, <1>c
<1> HIDE DEF k
<1>6. /\ t \in Seq(Signs) /\ Len(t) = k + 1
      /\ (\A i \in 1 .. k : t[i] = q[i]) /\ t[k + 1] = "nl"
  BY <1>2, <1>5, <1>d, JoinedOne
<1> HIDE DEF t
<1> USE DEF w, k
<1>7. (a + 1) + b + 1 = a + b + 2
  BY <1>1
<1>8. ASSUME NEW i \in 1 .. a
      PROVE  t[i] = name[i]
  <2>1. i \in 1 .. a + 1 /\ i \in 1 .. (a + 1) + b
    BY <1>1
  <2> QED
    BY <1>4, <1>5, <1>6, <2>1
<1>9. t[a + 1] = "="
  <2>1. a + 1 \in 1 .. a + 1 /\ a + 1 \in 1 .. (a + 1) + b
    BY <1>1
  <2> QED
    BY <1>4, <1>5, <1>6, <2>1
<1>10. ASSUME NEW i \in 1 .. b
       PROVE  t[a + 1 + i] = value[i]
  <2>1. (a + 1) + i \in 1 .. (a + 1) + b
    BY <1>1
  <2> QED
    BY <1>5, <1>6, <2>1
<1>11. OptionAt(t, name, value, a, b)
  BY <1>6, <1>7, <1>8, <1>9, <1>10 DEF OptionAt
<1> QED
  BY <1>3, <1>11 DEF name, value, a, b

LEMMA LineType ==
  ASSUME NEW s \in Slots
  PROVE  Line(s) \in Seq(Signs)
BY CommentLaid, OptionLaid DEF OptionAt

\* A line yields its slot.
LEMMA LineRun ==
  ASSUME NEW r \in States, r.State = "NONE", NEW s \in Slots, Legible(s),
         NEW f, Runs(f, r, Line(s))
  PROVE  Yields(f, Len(Line(s)), r.Values, Plain(s))
<1>1. s.Name \in Seq(Signs) /\ s.Value \in Seq(Signs) /\ s.IsCom \in BOOLEAN
  BY DEF Slots
<1>2. CASE s.IsCom
  <2> DEFINE L == Line(s)
             n == Len(s.Name)
             name == s.Name
  <2>1. /\ L \in Seq(Signs) /\ Len(L) = n + 2 /\ L[1] = "#"
        /\ (\A i \in 1 .. n : L[i + 1] = name[i]) /\ L[n + 2] = "nl"
    BY <1>2, CommentLaid
  <2>2. name \in Seq(Signs) /\ LegibleText(name) /\ n = Len(name) /\ Runs(f, r, L)
    BY <1>1, <1>2 DEF Legible
  <2>3. Plain(s) = Comment(name)
    BY <1>2 DEF Plain
  <2> HIDE DEF L, n, name
  <2>4. Yields(f, n + 2, r.Values, Comment(name))
    BY <2>1, <2>2, CommentRun
  <2> QED
    BY <2>1, <2>3, <2>4 DEF L
<1>3. CASE ~s.IsCom
  <2> DEFINE L == Line(s)
             name == s.Name
             value == s.Value
             u == Len(s.Name)
             w == Len(s.Value)
  <2>1. /\ L \in Seq(Signs) /\ Len(L) = u + w + 2 /\ (\A i \in 1 .. u : L[i] = name[i])
        /\ L[u + 1] = "=" /\ (\A i \in 1 .. w : L[u + 1 + i] = value[i])
        /\ L[u + w + 2] = "nl"
    <3>1. OptionAt(L, name, value, u, w)
      BY <1>3, OptionLaid
    <3> HIDE DEF L, name, value, u, w
    <3> QED
      BY <3>1 DEF OptionAt
  <2>2. /\ name \in Seq(Signs) /\ LegibleName(name) /\ u = Len(name)
        /\ value \in Seq(Signs) /\ LegibleValue(value) /\ w = Len(value) /\ Runs(f, r, L)
    BY <1>1, <1>3 DEF Legible
  <2>3. Plain(s) = Slot(name, value)
    <3>1. s = [Name |-> s.Name, Value |-> s.Value, IsCom |-> s.IsCom] /\ s.IsCom = FALSE
      BY <1>1, <1>3 DEF Slots
    <3> QED
      BY <1>3, <3>1 DEF Plain, Slot
  <2> HIDE DEF L, u, w, name, value
  <2>4. Yields(f, u + w + 2, r.Values, Slot(name, value))
    BY <2>1, <2>2, OptionRun
  <2> QED
    BY <2>1, <2>3, <2>4 DEF L
<1> QED
  BY <1>1, <1>2, <1>3
-----------------------------------------------------------------------------
(***************************************************************************)
(* What Load makes of a text that Save wrote, and of its beginnings.       *)
(***************************************************************************)
Lines(vs) == [i \in DOMAIN vs |-> Line(vs[i])]

LEMMA LinesType ==
  ASSUME NEW vs \in Seq(Slots)
  PROVE  /\ Lines(vs) \in Seq(Seq(Signs)) /\ Len(Lines(vs)) = Len(vs)
         /\ \A i \in 1 .. Len(vs) : Lines(vs)[i] = Line(vs[i])
<1> DEFINE n == Len(vs)
<1>1. n \in Nat /\ DOMAIN vs = 1 .. n
  BY LenProperties
<1>2. ASSUME NEW i \in 1 .. n
      PROVE  Line(vs[i]) \in Seq(Signs)
  BY <1>1, ElementOfSeq, LineType
<1>3. Lines(vs) = [i \in 1 .. n |-> Line(vs[i])]
  BY <1>1 DEF Lines
<1> HIDE DEF n
<1>4. Lines(vs) \in Seq(Seq(Signs)) /\ Len(Lines(vs)) = n
  BY <1>1, <1>2, <1>3, IsASeq
<1> QED
  BY <1>3, <1>4 DEF n

LEMMA LinesAppend ==
  ASSUME NEW vs \in Seq(Slots), NEW s \in Slots
  PROVE  Lines(Append(vs, s)) = Append(Lines(vs), Line(s))
<1> DEFINE l == Append(vs, s)
           p == Lines(l)
           e == Line(s)
           q == Append(Lines(vs), e)
           n == Len(vs)
<1>1. /\ l \in Seq(Slots) /\ Len(l) = n + 1 /\ l[n + 1] = s
      /\ n \in Nat /\ \A i \in 1 .. n : l[i] = vs[i]
  BY AppendProperties, LenProperties
<1>2. e \in Seq(Signs)
  BY LineType
<1>3. /\ Lines(vs) \in Seq(Seq(Signs)) /\ Len(Lines(vs)) = n
      /\ \A i \in 1 .. n : Lines(vs)[i] = Line(vs[i])
  BY LinesType
<1> HIDE DEF l, e
<1>4. p \in Seq(Seq(Signs)) /\ Len(p) = n + 1 /\ \A i \in 1 .. n + 1 : p[i] = Line(l[i])
  <2>1. p \in Seq(Seq(Signs)) /\ Len(p) = Len(l) /\ \A i \in 1 .. Len(l) : p[i] = Line(l[i])
    BY <1>1, LinesType
  <2> QED
    BY <1>1, <2>1
<1>5. /\ q \in Seq(Seq(Signs)) /\ Len(q) = n + 1 /\ q[n + 1] = e
      /\ \A i \in 1 .. n : q[i] = Lines(vs)[i]
  BY <1>2, <1>3, AppendProperties
<1> HIDE DEF p, q, n
<1>6. ASSUME NEW i \in 1 .. n + 1
      PROVE  p[i] = q[i]
  <2>1. CASE i = n + 1
    BY <1>1, <1>4, <1>5, <2>1 DEF e
  <2>2. CASE i # n + 1
    <3>1. i \in 1 .. n
      BY <1>1, <2>2
    <3> QED
      BY <1>1, <1>3, <1>4, <1>5, <3>1
  <2> QED
    BY <2>1, <2>2
<1>7. p = q
  BY <1>4, <1>5, <1>6, SeqEqual
<1> QED
  BY <1>7 DEF p, q, l, e

LEMMA TextIs ==
  ASSUME NEW vs
  PROVE  Text(vs) = FlattenSeq(Lines(vs))
BY DEF Text, Lines

LEMMA TextType ==
  ASSUME NEW vs \in Seq(Slots)
  PROVE  Text(vs) \in Seq(Signs)
<1>1. Lines(vs) \in Seq(Seq(Signs))
  BY LinesType
<1> QED
  BY <1>1, TextIs, FlattenType

LEMMA TextEmpty == Text(<<>>) = <<>>
<1>1. Lines(<<>>) = <<>>
  BY DEF Lines
<1> QED
  BY <1>1, TextIs, FlattenEmpty

LEMMA TextAppend ==
  ASSUME NEW vs \in Seq(Slots), NEW s \in Slots
  PROVE  Text(Append(vs, s)) = Text(vs) \o Line(s)
<1> DEFINE ls == Lines(vs)
           e == Line(s)
<1>1. ls \in Seq(Seq(Signs)) /\ e \in Seq(Signs)
  BY LinesType, LineType
<1>2. Lines(Append(vs, s)) = Append(ls, e)
  BY LinesAppend
<1>3. Text(vs) = FlattenSeq(ls) /\ Text(Append(vs, s)) = FlattenSeq(Append(ls, e))
  BY <1>2, TextIs
<1> HIDE DEF ls, e
<1>4. FlattenSeq(Append(ls, e)) = FlattenSeq(ls) \o e
  BY <1>1, FlattenAppend
<1> QED
  BY <1>3, <1>4 DEF e

LEMMA PlainsType ==
  ASSUME NEW vs \in Seq(Slots)
  PROVE  /\ Plains(vs) \in Seq(Slots) /\ Len(Plains(vs)) = Len(vs)
         /\ \A i \in 1 .. Len(vs) : Plains(vs)[i] = Plain(vs[i])
<1> DEFINE n == Len(vs)
<1>1. n \in Nat /\ DOMAIN vs = 1 .. n
  BY LenProperties
<1>2. ASSUME NEW i \in 1 .. n
      PROVE  Plain(vs[i]) \in Slots
  BY <1>1, ElementOfSeq, PlainSlots
<1>3. Plains(vs) = [i \in 1 .. n |-> Plain(vs[i])]
  BY <1>1 DEF Plains
<1> HIDE DEF n
<1>4. Plains(vs) \in Seq(Slots) /\ Len(Plains(vs)) = n
  BY <1>1, <1>2, <1>3, IsASeq
<1> QED
  BY <1>3, <1>4 DEF n

LEMMA PlainsAppend ==
  ASSUME NEW vs \in Seq(Slots), NEW s \in Slots
  PROVE  Plains(Append(vs, s)) = Append(Plains(vs), Plain(s))
<1> DEFINE l == Append(vs, s)
           p == Plains(l)
           e == Plain(s)
           q == Append(Plains(vs), e)
           n == Len(vs)
<1>1. /\ l \in Seq(Slots) /\ Len(l) = n + 1 /\ l[n + 1] = s
      /\ n \in Nat /\ \A i \in 1 .. n : l[i] = vs[i]
  BY AppendProperties, LenProperties
<1>2. e \in Slots
  BY PlainSlots
<1>3. /\ Plains(vs) \in Seq(Slots) /\ Len(Plains(vs)) = n
      /\ \A i \in 1 .. n : Plains(vs)[i] = Plain(vs[i])
  BY PlainsType
<1> HIDE DEF l, e
<1>4. p \in Seq(Slots) /\ Len(p) = n + 1 /\ \A i \in 1 .. n + 1 : p[i] = Plain(l[i])
  <2>1. p \in Seq(Slots) /\ Len(p) = Len(l) /\ \A i \in 1 .. Len(l) : p[i] = Plain(l[i])
    BY <1>1, PlainsType
  <2> QED
    BY <1>1, <2>1
<1>5. /\ q \in Seq(Slots) /\ Len(q) = n + 1 /\ q[n + 1] = e
      /\ \A i \in 1 .. n : q[i] = Plains(vs)[i]
  BY <1>2, <1>3, AppendProperties
<1> HIDE DEF p, q, n
<1>6. ASSUME NEW i \in 1 .. n + 1
      PROVE  p[i] = q[i]
  <2>1. CASE i = n + 1
    BY <1>1, <1>4, <1>5, <2>1 DEF e
  <2>2. CASE i # n + 1
    <3>1. i \in 1 .. n
      BY <1>1, <2>2
    <3> QED
      BY <1>1, <1>3, <1>4, <1>5, <3>1
  <2> QED
    BY <2>1, <2>2
<1>7. p = q
  BY <1>4, <1>5, <1>6, SeqEqual
<1> QED
  BY <1>7 DEF p, q, l, e


\* The beginnings of two texts, one after the other.
LEMMA BeginningsOf ==
  ASSUME NEW x \in Seq(Signs), NEW y \in Seq(Signs), NEW k \in Nat
  PROVE  /\ k <= Len(x) => SubSeq(x \o y, 1, k) = SubSeq(x, 1, k)
         /\ Len(x) <= k /\ k <= Len(x) + Len(y) =>
              SubSeq(x \o y, 1, k) = x \o SubSeq(y, 1, k - Len(x))
<1> DEFINE z == x \o y
           u == Len(x)
           w == Len(y)
           p == SubSeq(z, 1, k)
<1>1. u \in Nat /\ w \in Nat
  BY LenProperties
<1>2. /\ z \in Seq(Signs) /\ Len(z) = u + w
      /\ (\A i \in 1 .. u : z[i] = x[i])
      /\ \A i \in 1 .. w : z[u + i] = y[i]
  BY Joined
<1> HIDE DEF z, u, w
<1>3. ASSUME k <= u + w
      PROVE  p \in Seq(Signs) /\ Len(p) = k /\ \A i \in 1 .. k : p[i] = z[i]
  <2>1. k \in 0 .. Len(z)
    BY <1>1, <1>2, <1>3
  <2> QED
    BY <1>2, <2>1, Prefix
<1> HIDE DEF p
<1>4. ASSUME k <= u
      PROVE  p = SubSeq(x, 1, k)
  <2> DEFINE q == SubSeq(x, 1, k)
  <2>1. k \in 0 .. Len(x) /\ k <= u + w
    BY <1>1, <1>4 DEF u
  <2>2. q \in Seq(Signs) /\ Len(q) = k /\ \A i \in 1 .. k : q[i] = x[i]
    BY <2>1, Prefix
  <2> HIDE DEF q
  <2>3. p \in Seq(Signs) /\ Len(p) = k /\ \A i \in 1 .. k : p[i] = z[i]
    BY <1>3, <2>1
  <2>4. \A i \in 1 .. k : p[i] = q[i]
    BY <1>1, <1>2, <1>4, <2>2, <2>3
  <2>5. p = q
    BY <2>2, <2>3, <2>4, SeqEqual
  <2> QED
    BY <2>5 DEF q
<1>5. ASSUME u <= k, k <= u + w
      PROVE  p = x \o SubSeq(y, 1, k - u)
  <2> DEFINE j == k - u
             b == SubSeq(y, 1, j)
             q == x \o b
  <2>1. j \in 0 .. Len(y) /\ j \in Nat /\ k = u + j /\ j <= w
    BY <1>1, <1>5 DEF w
  <2> HIDE DEF j
  <2>2. b \in Seq(Signs) /\ j = Len(b) /\ \A i \in 1 .. j : b[i] = y[i]
    BY <2>1, Prefix
  <2> HIDE DEF b
  <2>3. u = Len(x)
    BY DEF u
  <2>4. /\ q \in Seq(Signs) /\ Len(q) = u + j
        /\ (\A i \in 1 .. u : q[i] = x[i])
        /\ \A i \in 1 .. j : q[u + i] = b[i]
    BY <1>1, <2>2, <2>3, Joined
  <2> HIDE DEF q
  <2>5. p \in Seq(Signs) /\ Len(p) = k /\ \A i \in 1 .. k : p[i] = z[i]
    BY <1>3, <1>5
  <2>6. ASSUME NEW i \in 1 .. k
        PROVE  p[i] = q[i]
    <3>1. CASE i <= u
      <4>1. i \in 1 .. u
        BY <3>1, <1>1
      <4> QED
        BY <1>2, <2>4, <2>5, <4>1
    <3>2. CASE ~(i <= u)
      <4>1. i - u \in 1 .. j /\ i - u \in 1 .. w /\ u + (i - u) = i
        BY <1>1, <2>1, <3>2
      <4> HIDE DEF z
      <4> QED
        BY <1>2, <2>2, <2>4, <2>5, <4>1
    <3> QED
      BY <3>1, <3>2
  <2>7. p = q
    BY <2>1, <2>4, <2>5, <2>6, SeqEqual
  <2> QED
    BY <2>7 DEF q, b, j
<1> QED
  BY <1>4, <1>5 DEF p, z, u, w

\* q has the first slots of vs, not all.
Misses(q, vs) == /\ q \in Seq(Slots) /\ Len(q) < Len(vs)
                 /\ \A i \in 1 .. Len(q) : q[i] = Plain(vs[i])

\* The slots that Load has at the end of the text of vs, and before it.
Restores(vs) ==
  /\ Through(Begin, Text(vs)).State = "NONE"
  /\ Through(Begin, Text(vs)).Values = Plains(vs)
  /\ \A k \in 0 .. Len(Text(vs)) - 1 :
       Misses(Through(Begin, SubSeq(Text(vs), 1, k)).Values, vs)

LEMMA RestoresNone == Restores(<<>>)
<1>1. Text(<<>>) = <<>> /\ <<>> \in Seq(Signs) /\ Len(<<>>) = 0
  BY TextEmpty
<1>2. PICK f : Runs(f, Begin, <<>>)
  BY <1>1, BeginType, RunExists
<1>3. Through(Begin, <<>>) = Begin
  <2>1. Through(Begin, <<>>) = f[0]
    BY <1>1, <1>2, BeginType, RunIs
  <2> QED
    BY <1>2, <2>1 DEF Runs
<1>4. Plains(<<>>) = <<>>
  BY DEF Plains
<1> QED
  BY <1>1, <1>3, <1>4, BeginType DEF Restores

LEMMA MissesMore ==
  ASSUME NEW vs \in Seq(Slots), NEW s \in Slots, NEW q, Misses(q, vs) \/ q = Plains(vs)
  PROVE  Misses(q, Append(vs, s))
<1> DEFINE l == Append(vs, s)
           n == Len(vs)
<1>1. /\ l \in Seq(Slots) /\ Len(l) = n + 1 /\ n \in Nat /\ \A i \in 1 .. n : l[i] = vs[i]
  BY AppendProperties, LenProperties
<1>2. /\ q \in Seq(Slots) /\ Len(q) <= n /\ Len(q) \in Nat
      /\ \A i \in 1 .. Len(q) : q[i] = Plain(vs[i])
  <2>1. CASE Misses(q, vs)
    BY <1>1, <2>1, LenProperties DEF Misses
  <2>2. CASE q = Plains(vs)
    BY <1>1, <2>2, PlainsType
  <2> QED
    BY <2>1, <2>2
<1> HIDE DEF l, n
<1>3. Misses(q, l)
  BY <1>1, <1>2 DEF Misses
<1> QED
  BY <1>3 DEF l

LEMMA RestoresMore ==
  ASSUME NEW vs \in Seq(Slots), NEW s \in Slots, Legible(s), Restores(vs)
  PROVE  Restores(Append(vs, s))
<1> DEFINE l == Append(vs, s)
           t == Text(vs)
           e == Line(s)
           x == Text(l)
           r == Through(Begin, t)
           u == Len(t)
           w == Len(e)
<1>1. t \in Seq(Signs) /\ e \in Seq(Signs) /\ x = t \o e /\ r \in States /\ Begin \in States
  <2>1. t \in Seq(Signs) /\ e \in Seq(Signs) /\ x = t \o e
    BY TextType, LineType, TextAppend
  <2> HIDE DEF t
  <2> QED
    BY <2>1, ThroughType, BeginType
<1>2. u \in Nat /\ w \in Nat
  BY <1>1, LenProperties
<1>3. r.State = "NONE" /\ r.Values = Plains(vs)
  BY DEF Restores
<1>4. PICK f : Runs(f, r, e) /\ Through(r, e) = f[w]
  BY <1>1, RunExists
<1>5. Yields(f, w, Plains(vs), Plain(s))
  <2> HIDE DEF r
  <2>1. Yields(f, w, r.Values, Plain(s))
    BY <1>1, <1>3, <1>4, LineRun
  <2> QED
    BY <1>3, <2>1
<1>6. Plains(l) = Append(Plains(vs), Plain(s))
  BY PlainsAppend
<1>7. ASSUME NEW k \in 0 .. u - 1
      PROVE  Misses(Through(Begin, SubSeq(t, 1, k)).Values, vs)
  BY DEF Restores
<1> HIDE DEF t, e, x, r
<1>8. Through(Begin, x) = f[w]
  <2>1. Through(Begin, t \o e) = Through(Through(Begin, t), e)
    BY <1>1, ThroughConcat
  <2> QED
    BY <1>1, <1>4, <2>1 DEF r
<1>9. Through(Begin, x).State = "NONE" /\ Through(Begin, x).Values = Plains(l)
  BY <1>5, <1>6, <1>8 DEF Yields
<1>10. Len(x) = u + w
  BY <1>1, ConcatProperties
<1> HIDE DEF u, w
<1>11. ASSUME NEW k \in 0 .. u + w - 1
       PROVE  Misses(Through(Begin, SubSeq(x, 1, k)).Values, l)
  <2>1. k \in Nat /\ k <= u + w
    BY <1>2
  <2>2. CASE k < u
    <3>1. k \in 0 .. u - 1 /\ k <= u
      BY <1>2, <2>2
    <3>2. SubSeq(x, 1, k) = SubSeq(t, 1, k)
      BY <1>1, <2>1, <3>1, BeginningsOf DEF u
    <3>3. Misses(Through(Begin, SubSeq(t, 1, k)).Values, vs)
      BY <1>7, <3>1
    <3> QED
      BY <3>2, <3>3, MissesMore
  <2>3. CASE ~(k < u)
    <3> DEFINE j == k - u
               b == SubSeq(e, 1, j)
    <3>1. u <= k /\ j \in 0 .. w - 1 /\ j \in 0 .. Len(e)
      BY <1>2, <2>1, <2>3 DEF w
    <3>2. SubSeq(x, 1, k) = t \o b
      <4>1. Len(t) <= k /\ k <= Len(t) + Len(e) /\ k - Len(t) = j
        BY <2>1, <3>1 DEF u, w
      <4> HIDE DEF j
      <4> QED
        BY <1>1, <2>1, <4>1, BeginningsOf
    <3>3. b \in Seq(Signs)
      BY <1>1, <3>1, Prefix
    <3>4. Through(r, b) = f[j]
      BY <1>1, <1>4, <3>1, RunPart
    <3> HIDE DEF b, j
    <3>5. Through(Begin, t \o b) = Through(r, b)
      BY <1>1, <3>3, ThroughConcat DEF r
    <3>6. f[j].Values = Plains(vs)
      BY <1>5, <3>1 DEF Yields
    <3>7. Through(Begin, SubSeq(x, 1, k)).Values = Plains(vs)
      BY <3>2, <3>4, <3>5, <3>6
    <3> QED
      BY <3>7, MissesMore
  <2> QED
    BY <2>2, <2>3
<1>12. Restores(l)
  <2>1. Len(x) - 1 = u + w - 1
    BY <1>2, <1>10
  <2>2. \A k \in 0 .. Len(x) - 1 : Misses(Through(Begin, SubSeq(x, 1, k)).Values, l)
    BY <1>11, <2>1
  <2> HIDE DEF l
  <2> QED
    BY <1>9, <2>2 DEF Restores, x
<1> QED
  BY <1>12


LEMMA AllRestore ==
  ASSUME NEW vs \in Seq(Slots), AllLegible(vs)
  PROVE  Restores(vs)
<1> DEFINE T == {n \in Nat : \A l \in Seq(Slots) : Len(l) = n /\ AllLegible(l) => Restores(l)}
<1>1. 0 \in T
  <2>1. ASSUME NEW l \in Seq(Slots), Len(l) = 0
        PROVE  Restores(l)
    <3>1. l = <<>>
      BY <2>1, EmptySeq
    <3> QED
      BY <3>1, RestoresNone
  <2> QED
    BY <2>1
<1>2. ASSUME NEW n \in Nat, n \in T
      PROVE  n + 1 \in T
  <2> SUFFICES ASSUME NEW l \in Seq(Slots), Len(l) = n + 1, AllLegible(l)
               PROVE  Restores(l)
    BY <1>2
  <2>1. PICK t \in Seq(Slots), s \in Slots : l = Append(t, s)
    <3>1. l # <<>>
      BY EmptySeq
    <3> QED
      BY <3>1, SequenceEmptyOrAppend
  <2>2. Len(t) = n /\ l[n + 1] = s /\ \A i \in 1 .. n : l[i] = t[i]
    BY <2>1, AppendProperties, LenProperties
  <2>3. DOMAIN l = 1 .. n + 1 /\ DOMAIN t = 1 .. n
    BY <2>2, LenProperties
  <2>4. Legible(s) /\ AllLegible(t)
    <3>1. n + 1 \in 1 .. n + 1 /\ \A i \in 1 .. n : i \in 1 .. n + 1
      OBVIOUS
    <3> QED
      BY <2>2, <2>3, <3>1 DEF AllLegible
  <2>5. Restores(t)
    BY <1>2, <2>2, <2>4
  <2> QED
    BY <2>1, <2>4, <2>5, RestoresMore
<1> HIDE DEF T
<1>3. Nat \subseteq T
  BY <1>1, <1>2, SetInduction
<1>4. Len(vs) \in T
  BY <1>3, LenProperties
<1> QED
  BY <1>4 DEF T

(***************************************************************************)
(* What Save writes of any legible slots, Load reads back: the options as  *)
(* they are, the comments without the value that they may have had.        *)
(***************************************************************************)
THEOREM TextIsLoaded ==
  ASSUME NEW vs \in Seq(Slots), AllLegible(vs)
  PROVE  Load(Text(vs)) = Plains(vs)
<1>1. Restores(vs)
  BY AllRestore
<1>2. Through(Begin, Text(vs)).State = "NONE" /\ Through(Begin, Text(vs)).Values = Plains(vs)
  BY <1>1 DEF Restores
<1> QED
  BY <1>2 DEF Load

(***************************************************************************)
(* What Load makes of a text, of any text, it makes of that again when it  *)
(* is saved.                                                               *)
(***************************************************************************)
THEOREM SaveLoads ==
  ASSUME NEW text \in Seq(Signs)
  PROVE  Load(Text(Load(text))) = Load(text)
<1> DEFINE vs == Load(text)
<1>1. vs \in Seq(Slots) /\ AllLegible(vs) /\ AllPlain(vs)
  BY LoadSlots
<1> HIDE DEF vs
<1>2. Load(Text(vs)) = Plains(vs)
  BY <1>1, TextIsLoaded
<1>3. Plains(vs) = vs
  <2>1. /\ Plains(vs) \in Seq(Slots) /\ Len(Plains(vs)) = Len(vs)
        /\ \A i \in 1 .. Len(vs) : Plains(vs)[i] = Plain(vs[i])
    BY <1>1, PlainsType
  <2>2. \A i \in 1 .. Len(vs) : Plains(vs)[i] = vs[i]
    <3>1. DOMAIN vs = 1 .. Len(vs)
      BY <1>1, LenProperties
    <3> QED
      BY <1>1, <2>1, <3>1 DEF AllPlain
  <2> DEFINE p == Plains(vs)
  <2> HIDE DEF p
  <2>3. p \in Seq(Slots) /\ Len(p) = Len(vs) /\ \A i \in 1 .. Len(p) : p[i] = vs[i]
    BY <2>1, <2>2 DEF p
  <2>4. p = vs
    BY <1>1, <2>3, SeqEqual
  <2> QED
    BY <2>4 DEF p
<1> QED
  BY <1>2, <1>3 DEF vs

(***************************************************************************)
(* What Save writes of legible slots, Load reads when it is cut short      *)
(* after any number of characters: at most as many slots, and all but the  *)
(* last one as they were.                                                  *)
(***************************************************************************)
THEOREM CutText ==
  ASSUME NEW vs \in Seq(Slots), AllLegible(vs), NEW k \in 0 .. Len(Text(vs))
  PROVE  LET slots == Load(SubSeq(Text(vs), 1, k))
         IN  /\ slots \in Seq(Slots) /\ Len(slots) <= Len(vs)
             /\ \A i \in 1 .. Len(slots) - 1 : Line(slots[i]) = Line(vs[i])
<1> DEFINE x == Text(vs)
           b == SubSeq(x, 1, k)
           r == Through(Begin, b)
           l == r.Values
           slots == Load(b)
           n == Len(vs)
<1>1. Restores(vs) /\ x \in Seq(Signs) /\ n \in Nat /\ Len(x) \in Nat
  BY AllRestore, TextType, LenProperties
<1> HIDE DEF n
<1>2. b \in Seq(Signs) /\ slots \in Seq(Slots)
  <2> HIDE DEF x
  <2>1. k \in 0 .. Len(x)
    BY DEF x
  <2>2. b \in Seq(Signs)
    BY <1>1, <2>1, Prefix
  <2> QED
    BY <2>2, LoadSlots
<1>3. r \in States
  BY <1>2, BeginType, ThroughType
<1>4. \A i \in 1 .. n : Line(Plain(vs[i])) = Line(vs[i])
  BY ElementOfSeq, PlainSlots DEF n
<1>5. CASE k = Len(x)
  <2>1. b = x
    <3> HIDE DEF x
    <3> QED
      BY <1>1, <1>5, Prefix
  <2>2. slots = Plains(vs)
    BY <2>1, TextIsLoaded
  <2>3. Len(slots) = n /\ \A i \in 1 .. n : slots[i] = Plain(vs[i])
    BY <2>2, PlainsType DEF n
  <2> HIDE DEF slots
  <2>4. \A i \in 1 .. n - 1 : i \in 1 .. n
    BY <1>1
  <2>5. Len(slots) <= n /\ \A i \in 1 .. Len(slots) - 1 : Line(slots[i]) = Line(vs[i])
    BY <1>1, <1>4, <2>3, <2>4
  <2> QED
    BY <1>2, <2>5 DEF slots, n
<1>6. CASE k # Len(x)
  <2>1. k \in 0 .. Len(Text(vs)) - 1
    BY <1>1, <1>6
  <2>2. Misses(l, vs)
    BY <1>1, <2>1 DEF Restores
  <2> HIDE DEF x, b, r
  <2> DEFINE o == Slot(r.Name, r.Value)
  <2>3. slots = IF r.State = "VALUE" THEN Append(l, o) ELSE l
    BY DEF Load, r
  <2>4. /\ l \in Seq(Slots) /\ Len(l) < n /\ Len(l) \in Nat
        /\ \A i \in 1 .. Len(l) : l[i] = Plain(vs[i])
    BY <2>2, LenProperties DEF Misses, n
  <2>5. o \in Slots
    BY <1>3, SlotTypes, StateFields
  <2> HIDE DEF l, o
  <2>6. /\ slots \in Seq(Slots) /\ Len(slots) \in {Len(l), Len(l) + 1}
        /\ \A i \in 1 .. Len(l) : slots[i] = l[i]
    <3>1. CASE r.State = "VALUE"
      BY <2>3, <2>4, <2>5, <3>1, AppendProperties
    <3>2. CASE r.State # "VALUE"
      BY <2>3, <2>4, <3>2
    <3> QED
      BY <3>1, <3>2
  <2> HIDE DEF slots
  <2>7. Len(slots) <= n /\ \A i \in 1 .. Len(slots) - 1 : i \in 1 .. Len(l) /\ i \in 1 .. n
    BY <1>1, <2>4, <2>6
  <2>8. \A i \in 1 .. Len(slots) - 1 : Line(slots[i]) = Line(vs[i])
    BY <1>4, <2>4, <2>6, <2>7
  <2> QED
    BY <2>6, <2>7, <2>8 DEF slots, b, x, n
<1> QED
  BY <1>5, <1>6
-----------------------------------------------------------------------------
(***************************************************************************)
(* The options among the slots.                                            *)
(***************************************************************************)
\* The first of some slots.
LEMMA FirstSlot ==
  ASSUME NEW T, T \subseteq Nat, T # {}
  PROVE  LET m == CHOOSE i \in T : \A j \in T : i <= j
         IN  m \in T /\ \A j \in T : m <= j
<1>1. \E i \in T : \A j \in T : i <= j
  BY LeastElement
<1> QED
  BY <1>1

\* ws is vs with the value of the slot m changed.
Changes(ws, vs, m, value) ==
  /\ ws \in Seq(Slots) /\ Len(ws) = Len(vs) /\ m \in 1 .. Len(vs)
  /\ \A i \in 1 .. Len(vs) : i # m => ws[i] = vs[i]
  /\ ws[m].Name = vs[m].Name /\ ws[m].IsCom = vs[m].IsCom /\ ws[m].Value = value

\* ws is vs with one slot more.
Adds(ws, vs, s) ==
  /\ ws \in Seq(Slots) /\ Len(ws) = Len(vs) + 1 /\ ws[Len(vs) + 1] = s
  /\ \A i \in 1 .. Len(vs) : ws[i] = vs[i]

\* WriteStringValue changes the first slot of a name or adds one.
LEMMA WriteCases ==
  ASSUME NEW vs \in Seq(Slots), NEW name \in Seq(Signs), NEW value \in Seq(Signs)
  PROVE  \/ /\ ~ValueExist(vs, name)
            /\ Adds(WriteStringValue(vs, name, value), vs, Slot(name, value))
         \/ /\ ValueExist(vs, name)
            /\ \E m \in 1 .. Len(vs) :
                 /\ Changes(WriteStringValue(vs, name, value), vs, m, value)
                 /\ vs[m].Name = name
                 /\ \A j \in 1 .. Len(vs) : vs[j].Name = name => m <= j
<1> DEFINE ws == WriteStringValue(vs, name, value)
           n == Len(vs)
           named == {i \in DOMAIN vs : vs[i].Name = name}
           first == CHOOSE i \in named : \A j \in named : i <= j
<1>1. n \in Nat /\ DOMAIN vs = 1 .. n /\ Slot(name, value) \in Slots
  BY LenProperties, SlotTypes
<1>2. CASE ~ValueExist(vs, name)
  <2>1. ws = Append(vs, Slot(name, value))
    BY <1>2 DEF WriteStringValue
  <2>2. Adds(ws, vs, Slot(name, value))
    BY <1>1, <2>1, AppendProperties DEF Adds
  <2> QED
    BY <1>2, <2>2
<1>3. CASE ValueExist(vs, name)
  <2>1. named # {} /\ named \subseteq Nat
    BY <1>1, <1>3 DEF ValueExist, Options
  <2>2. first \in named /\ \A j \in named : first <= j
    <3> HIDE DEF named
    <3> QED
      BY <2>1, FirstSlot
  <2>3. ws = [vs EXCEPT ![first].Value = value]
    BY <1>3 DEF WriteStringValue
  <2> DEFINE m == first
  <2>4. /\ m \in 1 .. n /\ vs[m].Name = name
        /\ \A j \in 1 .. n : vs[j].Name = name => m <= j
    BY <1>1, <2>2
  <2> HIDE DEF m
  <2>5. ws = [vs EXCEPT ![m].Value = value]
    BY <2>3 DEF m
  <2>6. Changes(ws, vs, m, value)
    <3> DEFINE e == [vs[m] EXCEPT !.Value = value]
    <3>1. vs[m] \in Slots
      BY <2>4, ElementOfSeq
    <3>2. e \in Slots /\ e.Name = vs[m].Name /\ e.IsCom = vs[m].IsCom /\ e.Value = value
      BY <3>1 DEF Slots
    <3>3. ws = [vs EXCEPT ![m] = e]
      BY <2>5
    <3> HIDE DEF ws, e
    <3>4. ws \in Seq(Slots) /\ Len(ws) = n /\ ws[m] = e /\ \A i \in 1 .. n : i # m => ws[i] = vs[i]
      BY <2>4, <3>2, <3>3, ExceptSeq
    <3> QED
      BY <2>4, <3>2, <3>4 DEF Changes
  <2> QED
    BY <1>3, <2>4, <2>6
<1> QED
  BY <1>2, <1>3

\* What is written can be read, and the rest still can.
LEMMA WriteLegible ==
  ASSUME NEW vs \in Seq(Slots), AllLegible(vs), NEW name \in Seq(Signs), LegibleName(name),
         NEW value \in Seq(Signs), LegibleValue(value)
  PROVE  /\ WriteStringValue(vs, name, value) \in Seq(Slots)
         /\ AllLegible(WriteStringValue(vs, name, value))
<1> DEFINE ws == WriteStringValue(vs, name, value)
           n == Len(vs)
           s == Slot(name, value)
<1>1. n \in Nat /\ \A i \in 1 .. n : Legible(vs[i])
  BY LenProperties DEF AllLegible
<1>2. s.IsCom = FALSE /\ s.Name = name /\ s.Value = value
  BY DEF Slot
<1>3. Legible(s)
  BY <1>2 DEF Legible
<1> HIDE DEF s, ws
<1>4. CASE Adds(ws, vs, s)
  <2>1. ws \in Seq(Slots) /\ Len(ws) = n + 1
    BY <1>4 DEF Adds
  <2>2. ASSUME NEW i \in 1 .. n + 1
        PROVE  Legible(ws[i])
    <3>1. i \in 1 .. n \/ i = n + 1
      BY <1>1
    <3> QED
      BY <1>1, <1>3, <1>4, <3>1 DEF Adds
  <2> QED
    BY <2>1, <2>2, LenProperties DEF AllLegible, ws
<1>5. ASSUME NEW m \in 1 .. n, Changes(ws, vs, m, value), vs[m].Name = name
      PROVE  ws \in Seq(Slots) /\ AllLegible(ws)
  <2>1. ws \in Seq(Slots) /\ Len(ws) = n
    BY <1>5 DEF Changes
  <2>2. ASSUME NEW i \in 1 .. n
        PROVE  Legible(ws[i])
    <3>1. CASE i = m
      BY <1>1, <1>5, <3>1 DEF Changes, Legible
    <3>2. CASE i # m
      BY <1>1, <1>5, <3>2 DEF Changes
    <3> QED
      BY <3>1, <3>2
  <2> QED
    BY <2>1, <2>2, LenProperties DEF AllLegible
<1> QED
  BY <1>4, <1>5, WriteCases DEF ws, s

LEMMA DefaultLegible ==
  ASSUME NEW vs \in Seq(Slots), AllLegible(vs), NEW name \in Seq(Signs), LegibleName(name),
         NEW value \in Seq(Signs), LegibleValue(value)
  PROVE  /\ ReadOrDefault(vs, name, value) \in Seq(Slots)
         /\ AllLegible(ReadOrDefault(vs, name, value))
BY WriteLegible DEF ReadOrDefault

\* The option name reads the same in ws and in vs.
Alike(ws, vs, name) ==
  /\ ws \in Seq(Slots) /\ Len(vs) <= Len(ws)
  /\ \A i \in 1 .. Len(vs) :
       /\ ws[i].IsCom = vs[i].IsCom /\ ws[i].Name = vs[i].Name
       /\ ~vs[i].IsCom /\ vs[i].Name = name => ws[i].Value = vs[i].Value
  /\ \A i \in Len(vs) + 1 .. Len(ws) : ws[i].Name # name

LEMMA WriteOther ==
  ASSUME NEW vs \in Seq(Slots), NEW other \in Seq(Signs), NEW value \in Seq(Signs),
         NEW name, name # other
  PROVE  Alike(WriteStringValue(vs, other, value), vs, name)
<1> DEFINE ws == WriteStringValue(vs, other, value)
           n == Len(vs)
           s == Slot(other, value)
<1>1. n \in Nat
  BY LenProperties
<1>2. s.Name = other
  BY DEF Slot
<1> HIDE DEF s, ws
<1>3. CASE Adds(ws, vs, s)
  <2>1. /\ ws \in Seq(Slots) /\ Len(ws) = n + 1 /\ ws[n + 1] = s
        /\ \A i \in 1 .. n : ws[i] = vs[i]
    BY <1>3 DEF Adds
  <2>2. \A i \in n + 1 .. Len(ws) : i = n + 1
    BY <1>1, <2>1
  <2>3. n <= Len(ws)
    BY <1>1, <2>1
  <2>4. \A i \in n + 1 .. Len(ws) : ws[i].Name # name
    BY <1>2, <2>1, <2>2
  <2> QED
    BY <2>1, <2>3, <2>4 DEF Alike, ws
<1>4. ASSUME NEW m \in 1 .. n, Changes(ws, vs, m, value), vs[m].Name = other
      PROVE  Alike(ws, vs, name)
  <2>1. /\ ws \in Seq(Slots) /\ Len(ws) = n
        /\ \A i \in 1 .. n : i # m => ws[i] = vs[i]
        /\ ws[m].Name = vs[m].Name /\ ws[m].IsCom = vs[m].IsCom
    BY <1>4 DEF Changes
  <2>2. n <= Len(ws) /\ \A i \in n + 1 .. Len(ws) : FALSE
    BY <1>1, <2>1
  <2>3. ASSUME NEW i \in 1 .. n
        PROVE  /\ ws[i].IsCom = vs[i].IsCom /\ ws[i].Name = vs[i].Name
               /\ ~vs[i].IsCom /\ vs[i].Name = name => ws[i].Value = vs[i].Value
    <3>1. CASE i = m
      BY <1>4, <2>1, <3>1
    <3>2. CASE i # m
      BY <2>1, <3>2
    <3> QED
      BY <3>1, <3>2
  <2> QED
    BY <2>1, <2>2, <2>3 DEF Alike
<1> QED
  BY <1>3, <1>4, WriteCases DEF ws, s

LEMMA DefaultOther ==
  ASSUME NEW vs \in Seq(Slots), NEW other \in Seq(Signs), NEW value \in Seq(Signs),
         NEW name, name # other
  PROVE  Alike(ReadOrDefault(vs, other, value), vs, name)
<1>1. Alike(vs, vs, name)
  <2>1. Len(vs) \in Nat
    BY LenProperties
  <2>2. Len(vs) <= Len(vs) /\ \A i \in Len(vs) + 1 .. Len(vs) : FALSE
    BY <2>1
  <2> QED
    BY <2>2 DEF Alike
<1> QED
  BY <1>1, WriteOther DEF ReadOrDefault

LEMMA PlainsAlike ==
  ASSUME NEW vs \in Seq(Slots), NEW name
  PROVE  Alike(Plains(vs), vs, name)
<1> DEFINE ws == Plains(vs)
           n == Len(vs)
<1>1. /\ n \in Nat /\ ws \in Seq(Slots) /\ Len(ws) = n
      /\ \A i \in 1 .. n : ws[i] = Plain(vs[i])
  BY LenProperties, PlainsType
<1> HIDE DEF ws
<1>2. n <= Len(ws) /\ \A i \in n + 1 .. Len(ws) : FALSE
  BY <1>1
<1>3. ASSUME NEW i \in 1 .. n
      PROVE  /\ ws[i].IsCom = vs[i].IsCom /\ ws[i].Name = vs[i].Name
             /\ ~vs[i].IsCom /\ vs[i].Name = name => ws[i].Value = vs[i].Value
  <2>1. vs[i] \in Slots
    BY <1>1, ElementOfSeq
  <2> QED
    BY <1>1, <2>1, PlainSlots
<1>4. Alike(ws, vs, name)
  BY <1>1, <1>2, <1>3 DEF Alike
<1> QED
  BY <1>4 DEF ws

\* It does read the same.
LEMMA AlikeReads ==
  ASSUME NEW vs \in Seq(Slots), NEW name, NEW ws, Alike(ws, vs, name)
  PROVE  /\ Options(ws, name) = Options(vs, name)
         /\ ValueExist(ws, name) <=> ValueExist(vs, name)
         /\ ValueExist(vs, name) => Value(ws, name) = Value(vs, name)
         /\ Hidden(vs, name) => Hidden(ws, name)
<1> DEFINE n == Len(vs)
<1>1. n \in Nat /\ DOMAIN vs = 1 .. n /\ DOMAIN ws = 1 .. Len(ws) /\ Len(ws) \in Nat /\ n <= Len(ws)
  BY LenProperties DEF Alike
<1>2. /\ \A i \in 1 .. n :
           /\ ws[i].IsCom = vs[i].IsCom /\ ws[i].Name = vs[i].Name
           /\ ~vs[i].IsCom /\ vs[i].Name = name => ws[i].Value = vs[i].Value
      /\ \A i \in n + 1 .. Len(ws) : ws[i].Name # name
  BY DEF Alike
<1> HIDE DEF n
<1>3. \A i \in 1 .. Len(ws) : i \in 1 .. n \/ i \in n + 1 .. Len(ws)
  BY <1>1
<1>4. \A i \in 1 .. n : i \in 1 .. Len(ws)
  BY <1>1
<1>5. Options(ws, name) = Options(vs, name)
  BY <1>1, <1>2, <1>3, <1>4 DEF Options
<1>6. ValueExist(ws, name) <=> ValueExist(vs, name)
  BY <1>5 DEF ValueExist
<1>7. ASSUME ValueExist(vs, name)
      PROVE  Value(ws, name) = Value(vs, name)
  <2> DEFINE T == Options(vs, name)
             m == CHOOSE i \in T : \A j \in T : i <= j
  <2>1. T # {} /\ T \subseteq Nat
    BY <1>1, <1>7 DEF ValueExist, Options
  <2> HIDE DEF T
  <2>2. m \in T
    BY <2>1, FirstSlot
  <2>3. Value(ws, name) = ws[m].Value /\ Value(vs, name) = vs[m].Value
    BY <1>5 DEF Value, T
  <2> HIDE DEF m
  <2>4. m \in 1 .. n /\ ~vs[m].IsCom /\ vs[m].Name = name
    BY <1>1, <2>2 DEF T, Options
  <2> QED
    BY <1>2, <2>3, <2>4
<1>8. ASSUME Hidden(vs, name)
      PROVE  Hidden(ws, name)
  <2>1. PICK i \in 1 .. n : /\ vs[i].IsCom /\ vs[i].Name = name
                            /\ \A j \in Options(vs, name) : i < j
    BY <1>1, <1>8 DEF Hidden
  <2>2. i \in DOMAIN ws /\ ws[i].IsCom /\ ws[i].Name = name
    BY <1>1, <1>2, <1>4, <2>1
  <2> QED
    BY <1>5, <2>1, <2>2 DEF Hidden
<1> QED
  BY <1>5, <1>6, <1>7, <1>8

\* An option that was written is read as it was written, or hidden.
LEMMA WriteShows ==
  ASSUME NEW vs \in Seq(Slots), NEW name \in Seq(Signs), NEW value \in Seq(Signs)
  PROVE  LET ws == WriteStringValue(vs, name, value)
         IN  ValueExist(ws, name) /\ (Hidden(ws, name) \/ Value(ws, name) = value)
<1> DEFINE ws == WriteStringValue(vs, name, value)
           n == Len(vs)
           s == Slot(name, value)
           T == Options(ws, name)
           first == CHOOSE i \in T : \A j \in T : i <= j
<1>1. n \in Nat /\ DOMAIN vs = 1 .. n
  BY LenProperties
<1>2. s.Name = name /\ s.Value = value /\ s.IsCom = FALSE
  BY DEF Slot
<1>3. Value(ws, name) = ws[first].Value
  BY DEF Value
<1> HIDE DEF s, ws
<1>4. ASSUME NEW m \in T, \A j \in T : m <= j, T \subseteq Nat
      PROVE  first = m
  <2> HIDE DEF T
  <2>1. first \in T /\ \A j \in T : first <= j
    BY <1>4, FirstSlot DEF first
  <2>2. first \in Nat /\ m \in Nat /\ first <= m /\ m <= first
    BY <1>4, <2>1
  <2> QED
    BY <2>2
<1> HIDE DEF first
<1>5. CASE Adds(ws, vs, s) /\ ~ValueExist(vs, name)
  <2>1. /\ DOMAIN ws = 1 .. n + 1 /\ ws[n + 1] = s
        /\ \A i \in 1 .. n : ws[i] = vs[i]
    BY <1>5, LenProperties DEF Adds
  <2>2. \A i \in 1 .. n : ~(~vs[i].IsCom /\ vs[i].Name = name)
    BY <1>1, <1>5 DEF ValueExist, Options
  <2>3. \A i \in 1 .. n + 1 : i \in 1 .. n \/ i = n + 1
    BY <1>1
  <2>4. T = {n + 1}
    BY <1>1, <1>2, <2>1, <2>2, <2>3 DEF Options
  <2> HIDE DEF T
  <2>5. first = n + 1
    BY <1>1, <1>4, <2>4
  <2> QED
    BY <1>2, <1>3, <2>1, <2>4, <2>5 DEF ValueExist, T, ws
<1>6. ASSUME NEW m \in 1 .. n, Changes(ws, vs, m, value), vs[m].Name = name,
             \A j \in 1 .. n : vs[j].Name = name => m <= j, ValueExist(vs, name)
      PROVE  ValueExist(ws, name) /\ (Hidden(ws, name) \/ Value(ws, name) = value)
  <2>1. /\ DOMAIN ws = 1 .. n
        /\ \A i \in 1 .. n : i # m => ws[i] = vs[i]
        /\ ws[m].Name = vs[m].Name /\ ws[m].IsCom = vs[m].IsCom /\ ws[m].Value = value
    BY <1>6, LenProperties DEF Changes
  <2>2. \A i \in 1 .. n : ws[i].Name = vs[i].Name /\ ws[i].IsCom = vs[i].IsCom
    BY <2>1
  <2>3. T = Options(vs, name) /\ T \subseteq 1 .. n
    BY <1>1, <2>1, <2>2 DEF Options
  <2>4. ValueExist(ws, name)
    BY <1>6, <2>3 DEF ValueExist
  <2>5. \A j \in T : m <= j
    BY <1>1, <1>6, <2>3 DEF Options
  <2>6. CASE vs[m].IsCom
    <3>1. m \notin T
      BY <2>1, <2>6 DEF Options
    <3>2. \A j \in T : m < j
      BY <1>1, <2>3, <2>5, <3>1
    <3>3. m \in DOMAIN ws /\ ws[m].IsCom /\ ws[m].Name = name
      BY <1>6, <2>1, <2>6
    <3> QED
      BY <2>4, <3>2, <3>3 DEF Hidden
  <2>7. CASE ~vs[m].IsCom
    <3>1. m \in T
      BY <1>1, <1>6, <2>1, <2>7 DEF Options
    <3>2. T \subseteq Nat
      BY <1>1, <2>3
    <3> HIDE DEF T
    <3>3. first = m
      BY <1>4, <2>5, <3>1, <3>2
    <3> QED
      BY <1>3, <2>1, <2>4, <3>3
  <2> QED
    BY <2>6, <2>7
<1> QED
  BY <1>5, <1>6, WriteCases DEF ws, s
=============================================================================
