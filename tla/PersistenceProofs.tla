-------------------------- MODULE PersistenceProofs --------------------------
(***************************************************************************)
(* Theorems about what LoadDownloads makes of what SaveDownloads wrote,    *)
(* whole or cut short, for every list and every width of a long; and about *)
(* what the options of config.cfg are in the next session, whatever the    *)
(* user put in the file.                                                   *)
(***************************************************************************)
EXTENDS Persistence, ConfigProofs, FiniteSetTheorems

-----------------------------------------------------------------------------
(***************************************************************************)
(* Numbers: two digits hold a long, and give it back.                      *)
(***************************************************************************)
Long == -(LongMax + 1) .. LongMax

\* Quotient and remainder.
LEMMA Division ==
  ASSUME NEW a \in Int, NEW b \in Nat \ {0}
  PROVE  a \div b \in Int /\ a % b \in 0 .. b - 1 /\ a = b * (a \div b) + (a % b)
<1>1. a \div b \in Int /\ a % b \in 0 .. b - 1
  OBVIOUS
<1>2. a = b * (a \div b) + (a % b)
  OBVIOUS
<1> QED
  BY <1>1, <1>2

\* There is one remainder.
LEMMA Remainder ==
  ASSUME NEW b \in Nat \ {0}, NEW k \in Int, NEW r \in 0 .. b - 1
  PROVE  (b * k + r) % b = r /\ (b * k + r) \div b = k
<1> DEFINE a == b * k + r
           q == a \div b
           m == a % b
<1>1. a \in Int /\ q \in Int /\ m \in 0 .. b - 1 /\ a = b * q + m
  OBVIOUS
<1>2. b * q + m = b * k + r
  BY <1>1
<1> HIDE DEF a, q, m
<1>3. b * (q - k) = r - m
  BY <1>1, <1>2
<1>4. q - k >= 1 => b * (q - k) >= b
  BY <1>1
<1>5. q - k <= -1 => b * (q - k) <= -b
  BY <1>1
<1>6. q = k
  BY <1>1, <1>3, <1>4, <1>5
<1>7. m = r
  BY <1>1, <1>2, <1>6
<1> QED
  BY <1>6, <1>7 DEF a, q, m

\* A long has two digits: its values are as many as the pairs of digits.
LEMMA LongWidth == LongMax \in Nat /\ 2 * (LongMax + 1) = Base * Base
<1>1. PICK h \in Nat \ {0} : Base = 2 * h
  <2>a. Base \in Nat \ {0, 1} /\ Base % 2 = 0
    BY ConstantsAssumption, Zenon
  <2>1. Base = 2 * (Base \div 2) + (Base % 2) /\ Base \div 2 \in Nat
    <3>1. Base = 2 * (Base \div 2) + (Base % 2) /\ Base \div 2 \in Int
      BY <2>a, Division
    <3> QED
      BY <2>a, <3>1
  <2>2. Base \div 2 # 0
    BY <2>1, ConstantsAssumption
  <2> QED
    BY <2>1, <2>2, ConstantsAssumption
<1>2. Base * Base = 2 * (2 * h * h) + 0 /\ 2 * h * h \in Nat /\ 2 * h * h >= 1
  <2>1. h * h \in Nat /\ h * h >= 1
    BY <1>1
  <2>2. Base * Base = 2 * h * (2 * h)
    BY <1>1
  <2>3. 2 * h * (2 * h) = 2 * (2 * (h * h))
    OBVIOUS
  <2> QED
    BY <2>1, <2>2, <2>3
<1>3. (Base * Base) \div 2 = 2 * h * h
  BY <1>2
<1> QED
  BY <1>2, <1>3 DEF LongMax

\* The conversion to a long yields a long.
LEMMA AsLongRange ==
  ASSUME NEW n \in Int
  PROVE  AsLong(n) \in Long
<1> DEFINE w == 2 * (LongMax + 1)
           m == n + LongMax + 1
<1>1. LongMax \in Nat
  BY LongWidth
<1>2. w \in Nat \ {0} /\ m \in Int
  BY <1>1
<1> HIDE DEF w, m
<1>3. m % w \in 0 .. (w - 1)
  BY <1>2
<1> QED
  BY <1>1, <1>3 DEF AsLong, w, m, Long

\* A long, whatever its sign, is the one that its two digits stand for.
LEMMA DigitsBack ==
  ASSUME NEW n \in Long
  PROVE  /\ n % Base \in 0 .. Base - 1 /\ (n \div Base) % Base \in 0 .. Base - 1
         /\ AsLong((n % Base) + Base * ((n \div Base) % Base)) = n
<1> DEFINE q == n \div Base
           r == n % Base
           p == q \div Base
           s == q % Base
           w == Base * Base
           v == r + Base * s
<1>1. Base \in Nat \ {0, 1} /\ LongMax \in Nat /\ 2 * (LongMax + 1) = w /\ w \in Nat \ {0}
  BY LongWidth, ConstantsAssumption
<1>2. n \in Int /\ n >= -(LongMax + 1) /\ n <= LongMax
  BY <1>1 DEF Long
<1>3. q \in Int /\ r \in 0 .. Base - 1 /\ n = Base * q + r
  BY <1>1, <1>2
<1> HIDE DEF q, r
<1>4. p \in Int /\ s \in 0 .. Base - 1 /\ q = Base * p + s
  BY <1>1, <1>3
<1> HIDE DEF p, s
<1>5. n = w * p + v /\ v \in Int
  <2>1. Base * (Base * p + s) = Base * Base * p + Base * s
    BY <1>1, <1>4
  <2> QED
    BY <1>1, <1>3, <1>4, <2>1
<1>6. v \in 0 .. w - 1
  <2>1. Base * s <= Base * (Base - 1) /\ Base * s >= 0
    BY <1>1, <1>4
  <2>2. Base * (Base - 1) = w - Base
    BY <1>1
  <2> QED
    <3> DEFINE x == Base * s
    <3>1. x <= w - Base /\ x >= 0 /\ v = r + x /\ x \in Int
      BY <1>1, <1>4, <2>1, <2>2
    <3> HIDE DEF x, w, v
    <3> QED
      BY <1>1, <1>3, <3>1
<1> HIDE DEF v, w
<1>7. AsLong(v) = n
  <2> DEFINE H == LongMax + 1
  <2>1. H \in Nat \ {0} /\ w = 2 * H /\ AsLong(v) = ((v + H) % w) - H /\ -H <= n /\ n < H
    BY <1>1, <1>2, <1>5 DEF AsLong
  <2> HIDE DEF H
  <2>2. n + H \in 0 .. w - 1 /\ v + H = w * (-p) + (n + H)
    BY <1>1, <1>2, <1>4, <1>5, <2>1
  <2>3. (v + H) % w = n + H
    <3> DEFINE k == -p
               m == n + H
    <3>1. k \in Int /\ m \in 0 .. w - 1
      BY <1>4, <2>2
    <3>2. (w * k + m) % w = m
      BY <1>1, <3>1, Remainder
    <3> QED
      BY <2>2, <3>2
  <2> QED
    BY <1>2, <2>1, <2>3
<1> QED
  BY <1>3, <1>4, <1>7 DEF v, q, r, s
-----------------------------------------------------------------------------
(***************************************************************************)
(* The file: where the fields of a download are, and the downloads of a    *)
(* list.                                                                   *)
(***************************************************************************)
\* The elements of a concatenation.
LEMMA ConcatAt ==
  ASSUME NEW s \in Seq(Int), NEW t \in Seq(Int)
  PROVE  /\ s \o t \in Seq(Int) /\ Len(s \o t) = Len(s) + Len(t)
         /\ Len(s) \in Nat /\ Len(t) \in Nat
         /\ \A i \in 1 .. Len(s) : (s \o t)[i] = s[i]
         /\ \A i \in 1 .. Len(t) : (s \o t)[Len(s) + i] = t[i]
<1>1. Len(s) \in Nat /\ Len(t) \in Nat
  BY LenProperties
<1>2. /\ s \o t \in Seq(Int) /\ Len(s \o t) = Len(s) + Len(t)
      /\ \A i \in 1 .. Len(s) + Len(t) : (s \o t)[i] = IF i <= Len(s) THEN s[i] ELSE t[i - Len(s)]
  BY ConcatProperties
<1>3. ASSUME NEW i \in 1 .. Len(s)
      PROVE  (s \o t)[i] = s[i]
  BY <1>1, <1>2
<1>4. ASSUME NEW i \in 1 .. Len(t)
      PROVE  (s \o t)[Len(s) + i] = t[i]
  <2>1. Len(s) + i \in 1 .. Len(s) + Len(t) /\ ~(Len(s) + i <= Len(s)) /\ (Len(s) + i) - Len(s) = i
    BY <1>1
  <2> QED
    BY <1>2, <2>1
<1> QED
  BY <1>1, <1>2, <1>3, <1>4

\* The two digits of a long.
LEMMA DigitsType ==
  ASSUME NEW n \in Long
  PROVE  /\ Digits(n) \in Seq(Int) /\ Len(Digits(n)) = 2
         /\ Digits(n)[1] = n % Base /\ Digits(n)[2] = (n \div Base) % Base
<1>1. n % Base \in Int /\ (n \div Base) % Base \in Int
  BY DigitsBack
<1> QED
  BY <1>1 DEF Digits

\* Where the fields of a download are: w holds what d has, from its place a on.
Laid(w, a, d) ==
  LET L == Len(d.pLink)
      M == Len(d.pFileName)
  IN /\ w[a + 1] = d.kind
     /\ w[a + 2] = L
     /\ \A i \in 1 .. L : w[a + 2 + i] = d.pLink[i]
     /\ w[a + 3 + L] = M
     /\ \A i \in 1 .. M : w[a + 3 + L + i] = d.pFileName[i]
     /\ w[a + 4 + L + M] = d.iFileSize % Base
     /\ w[a + 5 + L + M] = (d.iFileSize \div Base) % Base
     /\ w[a + 6 + L + M] = d.iDataPos % Base
     /\ w[a + 7 + L + M] = (d.iDataPos \div Base) % Base

\* The length of what is saved of a download.
Span(d) == 7 + Len(d.pLink) + Len(d.pFileName)

\* What two parts of given lengths make.
Joins(u, s, t, n, m) ==
  /\ u \in Seq(Int) /\ Len(u) = n + m
  /\ \A i \in 1 .. n : u[i] = s[i]
  /\ \A i \in 1 .. m : u[n + i] = t[i]

\* Where a second part goes.
LEMMA Glue ==
  ASSUME NEW s \in Seq(Int), NEW t \in Seq(Int), NEW n \in Nat, NEW m \in Nat,
         Len(s) = n, Len(t) = m, NEW u, u = s \o t
  PROVE  Joins(u, s, t, n, m)
<1>1. /\ s \o t \in Seq(Int) /\ Len(s \o t) = Len(s) + Len(t)
      /\ \A i \in 1 .. Len(s) : (s \o t)[i] = s[i]
      /\ \A i \in 1 .. Len(t) : (s \o t)[Len(s) + i] = t[i]
  BY ConcatAt
<1> QED
  BY <1>1 DEF Joins

\* What is saved of a download.
LEMMA FieldsLaid ==
  ASSUME NEW d \in Downloads
  PROVE  /\ Fields(d) \in Seq(Int) /\ Len(Fields(d)) = Span(d) /\ Span(d) \in Nat \ {0}
         /\ Laid(Fields(d), 0, d)
<1> DEFINE L == Len(d.pLink)
           M == Len(d.pFileName)
           a1 == <<d.kind, L>>
           a2 == a1 \o d.pLink
           a3 == a2 \o <<M>>
           a4 == a3 \o d.pFileName
           a5 == a4 \o Digits(d.iFileSize)
           a6 == a5 \o Digits(d.iDataPos)
<1>1. /\ d.kind \in Int /\ d.pLink \in Seq(Int) /\ d.pFileName \in Seq(Int)
      /\ d.iFileSize \in Long /\ d.iDataPos \in Long
  BY DEF Downloads, Long
<1>2. L \in Nat /\ M \in Nat
  BY <1>1, LenProperties
<1>3. Fields(d) = a6
  BY DEF Fields
<1>4. a1 \in Seq(Int) /\ Len(a1) = 2 /\ a1[1] = d.kind /\ a1[2] = L
  BY <1>1, <1>2
<1>m. <<M>> \in Seq(Int) /\ Len(<<M>>) = 1 /\ <<M>>[1] = M
  BY <1>2
<1>d. /\ Digits(d.iFileSize) \in Seq(Int) /\ Len(Digits(d.iFileSize)) = 2
      /\ Digits(d.iDataPos) \in Seq(Int) /\ Len(Digits(d.iDataPos)) = 2
  BY <1>1, DigitsType
<1> DEFINE link == d.pLink
           name == d.pFileName
           one == <<M>>
           D == Digits(d.iFileSize)
           E == Digits(d.iDataPos)
<1>a. a2 = a1 \o link /\ a3 = a2 \o one /\ a4 = a3 \o name /\ a5 = a4 \o D /\ a6 = a5 \o E
  OBVIOUS
<1>b. /\ link \in Seq(Int) /\ Len(link) = L /\ name \in Seq(Int) /\ Len(name) = M
      /\ one \in Seq(Int) /\ Len(one) = 1 /\ one[1] = M
      /\ D \in Seq(Int) /\ Len(D) = 2 /\ E \in Seq(Int) /\ Len(E) = 2
  BY <1>1, <1>m, <1>d
<1>c. /\ D[1] = d.iFileSize % Base /\ D[2] = (d.iFileSize \div Base) % Base
      /\ E[1] = d.iDataPos % Base /\ E[2] = (d.iDataPos \div Base) % Base
  BY <1>1, DigitsType
<1>e. Laid(a6, 0, d) <=>
        /\ a6[0 + 1] = d.kind
        /\ a6[0 + 2] = L
        /\ \A i \in 1 .. L : a6[0 + 2 + i] = link[i]
        /\ a6[0 + 3 + L] = M
        /\ \A i \in 1 .. M : a6[0 + 3 + L + i] = name[i]
        /\ a6[0 + 4 + L + M] = d.iFileSize % Base
        /\ a6[0 + 5 + L + M] = (d.iFileSize \div Base) % Base
        /\ a6[0 + 6 + L + M] = d.iDataPos % Base
        /\ a6[0 + 7 + L + M] = (d.iDataPos \div Base) % Base
  BY DEF Laid
<1>f. Span(d) = 7 + L + M
  BY DEF Span
<1> HIDE DEF a1, a2, a3, a4, a5, a6, L, M, link, name, one, D, E
<1>n. 2 \in Nat /\ 1 \in Nat /\ 2 + L \in Nat /\ 3 + L \in Nat /\ 3 + L + M \in Nat /\ 5 + L + M \in Nat
  BY <1>2
<1>5. Joins(a2, a1, link, 2, L)
  BY <1>2, <1>n, <1>a, <1>b, <1>4, Glue, Zenon
<1>s. a2 \in Seq(Int) /\ Len(a2) = 2 + L
  BY <1>5 DEF Joins
<1>6. Joins(a3, a2, one, 2 + L, 1)
  BY <1>2, <1>n, <1>a, <1>b, <1>s, Glue, Zenon
<1>t. a3 \in Seq(Int) /\ Len(a3) = 3 + L
  BY <1>2, <1>6 DEF Joins
<1>7. Joins(a4, a3, name, 3 + L, M)
  BY <1>2, <1>n, <1>a, <1>b, <1>t, Glue, Zenon
<1>u. a4 \in Seq(Int) /\ Len(a4) = 3 + L + M
  BY <1>2, <1>7 DEF Joins
<1>8. Joins(a5, a4, D, 3 + L + M, 2)
  BY <1>2, <1>n, <1>a, <1>b, <1>u, Glue, Zenon
<1>v. a5 \in Seq(Int) /\ Len(a5) = 5 + L + M
  BY <1>2, <1>8 DEF Joins
<1>w. Joins(a6, a5, E, 5 + L + M, 2)
  BY <1>2, <1>n, <1>a, <1>b, <1>v, Glue, Zenon
<1>9. /\ a6 \in Seq(Int) /\ Len(a6) = 7 + L + M
      /\ a6[1] = d.kind /\ a6[2] = L /\ a6[3 + L] = M
      /\ \A i \in 1 .. L : a6[2 + i] = link[i]
      /\ \A i \in 1 .. M : a6[3 + L + i] = name[i]
      /\ a6[4 + L + M] = D[1] /\ a6[5 + L + M] = D[2]
      /\ a6[6 + L + M] = E[1] /\ a6[7 + L + M] = E[2]
  <2>1. /\ \A i \in 1 .. 5 + L + M : a6[i] = a5[i]
        /\ \A i \in 1 .. 3 + L + M : a5[i] = a4[i]
        /\ \A i \in 1 .. 3 + L : a4[i] = a3[i]
        /\ \A i \in 1 .. 2 + L : a3[i] = a2[i]
        /\ \A i \in 1 .. 2 : a2[i] = a1[i]
    BY <1>5, <1>6, <1>7, <1>8, <1>w DEF Joins
  <2>2. /\ \A i \in 1 .. 3 + L + M : a6[i] = a4[i]
        /\ \A i \in 1 .. 3 + L : a6[i] = a3[i]
        /\ \A i \in 1 .. 2 + L : a6[i] = a2[i]
        /\ \A i \in 1 .. 2 : a6[i] = a1[i]
    <3>1. \A i \in 1 .. 3 + L + M : i \in 1 .. 5 + L + M
      BY <1>2
    <3>2. \A i \in 1 .. 3 + L : i \in 1 .. 3 + L + M
      BY <1>2
    <3>3. \A i \in 1 .. 2 + L : i \in 1 .. 3 + L
      BY <1>2
    <3>4. \A i \in 1 .. 2 : i \in 1 .. 2 + L
      BY <1>2
    <3> QED
      BY <2>1, <3>1, <3>2, <3>3, <3>4, Zenon
  <2>3. a6 \in Seq(Int) /\ Len(a6) = 7 + L + M
    BY <1>2, <1>w DEF Joins
  <2>4. a6[1] = d.kind /\ a6[2] = L
    BY <1>4, <2>2
  <2>5. a6[3 + L] = M
    <3>1. 3 + L \in 1 .. 3 + L /\ 3 + L = (2 + L) + 1
      BY <1>2
    <3>2. a3[(2 + L) + 1] = M
      BY <1>6, <1>b DEF Joins
    <3> QED
      BY <2>2, <3>1, <3>2
  <2>6. ASSUME NEW i \in 1 .. L
        PROVE  a6[2 + i] = link[i]
    <3>1. 2 + i \in 1 .. 2 + L
      BY <1>2
    <3>2. a2[2 + i] = link[i]
      BY <1>5 DEF Joins
    <3> QED
      BY <2>2, <3>1, <3>2
  <2>7. ASSUME NEW i \in 1 .. M
        PROVE  a6[3 + L + i] = name[i]
    <3>1. 3 + L + i \in 1 .. 3 + L + M
      BY <1>2
    <3>2. a4[3 + L + i] = name[i]
      BY <1>7 DEF Joins
    <3> QED
      BY <2>2, <3>1, <3>2
  <2>8. a6[4 + L + M] = D[1] /\ a6[5 + L + M] = D[2]
    <3>1. /\ 4 + L + M = (3 + L + M) + 1 /\ 5 + L + M = (3 + L + M) + 2
          /\ 4 + L + M \in 1 .. 5 + L + M /\ 5 + L + M \in 1 .. 5 + L + M
      BY <1>2
    <3>2. a5[(3 + L + M) + 1] = D[1] /\ a5[(3 + L + M) + 2] = D[2]
      BY <1>8 DEF Joins
    <3> QED
      BY <2>1, <3>1, <3>2
  <2>9. a6[6 + L + M] = E[1] /\ a6[7 + L + M] = E[2]
    <3>1. 6 + L + M = (5 + L + M) + 1 /\ 7 + L + M = (5 + L + M) + 2
      BY <1>2
    <3>2. a6[(5 + L + M) + 1] = E[1] /\ a6[(5 + L + M) + 2] = E[2]
      BY <1>w DEF Joins
    <3> QED
      BY <3>1, <3>2
  <2> QED
    BY <2>3, <2>4, <2>5, <2>6, <2>7, <2>8, <2>9
<1>10. Laid(a6, 0, d)
  <2>1. /\ 0 + 1 = 1 /\ 0 + 2 = 2 /\ 0 + 3 + L = 3 + L
        /\ 0 + 4 + L + M = 4 + L + M /\ 0 + 5 + L + M = 5 + L + M
        /\ 0 + 6 + L + M = 6 + L + M /\ 0 + 7 + L + M = 7 + L + M
    BY <1>2
  <2>2. \A i \in 1 .. L : 0 + 2 + i = 2 + i
    BY <1>2
  <2>3. \A i \in 1 .. M : 0 + 3 + L + i = 3 + L + i
    BY <1>2
  <2> QED
    BY <1>9, <1>c, <1>e, <2>1, <2>2, <2>3
<1> QED
  BY <1>2, <1>3, <1>9, <1>10, <1>f
-----------------------------------------------------------------------------
(***************************************************************************)
(* The reader: what each fread does within the file, and past its end.     *)
(***************************************************************************)
\* Where the reader may be, and what its variables may hold.
Reader == [at : Nat \ {0}, Size : Int, buffer : Seq(Int)]

\* A kind or a length.
LEMMA FieldReads ==
  ASSUME NEW w \in Seq(Int), NEW r \in Reader, NEW f, f = Field(w, r)
  PROVE  /\ f \in Reader
         /\ r.at <= Len(w) => f.at = r.at + 1 /\ f.Size = w[r.at]
         /\ r.at > Len(w) => f.at = r.at /\ f.Size = 0
<1>1. r.at \in Nat \ {0} /\ r.Size \in Int /\ r.buffer \in Seq(Int) /\ Len(w) \in Nat
  BY LenProperties DEF Reader
<1>2. r = [at |-> r.at, Size |-> r.Size, buffer |-> r.buffer]
  BY DEF Reader
<1>3. CASE r.at <= Len(w)
  <2>1. w[r.at] \in Int
    BY <1>1, <1>3, ElementOfSeq
  <2>2. f = [at |-> r.at + 1, Size |-> w[r.at], buffer |-> r.buffer]
    BY <1>2, <1>3 DEF Field
  <2> QED
    BY <1>1, <1>3, <2>1, <2>2 DEF Reader
<1>4. CASE r.at > Len(w)
  <2>1. f = [at |-> r.at, Size |-> 0, buffer |-> r.buffer]
    BY <1>1, <1>2, <1>4 DEF Field
  <2> QED
    BY <1>1, <1>4, <2>1 DEF Reader
<1> QED
  BY <1>1, <1>3, <1>4

\* What append(buffer, Size) adds is made of characters.
LEMMA AppendedType ==
  ASSUME NEW r \in Reader
  PROVE  Appended(r) \in Seq(Int)
<1>1. r.Size \in Int /\ r.buffer \in Seq(Int)
  BY DEF Reader
<1>2. \A i \in DOMAIN r.buffer : r.buffer[i] \in Int
  BY <1>1
<1> DEFINE v(i) == IF i \in DOMAIN r.buffer THEN r.buffer[i] ELSE Junk
<1>3. \A i : v(i) \in Int
  BY <1>2, ConstantsAssumption
<1>4. Appended(r) = [i \in 1 .. r.Size |-> v(i)]
  BY DEF Appended
<1> HIDE DEF v
<1>5. CASE r.Size >= 0
  <2> DEFINE n == r.Size
             g == [i \in 1 .. n |-> v(i)]
  <2>1. n \in Nat
    BY <1>1, <1>5
  <2> HIDE DEF n
  <2>2. g \in [1 .. n -> Int]
    BY <1>3
  <2>3. g \in Seq(Int)
    BY <2>1, <2>2
  <2> QED
    BY <1>4, <2>3 DEF n
<1>6. CASE r.Size < 0
  <2> DEFINE g == [i \in 1 .. 0 |-> v(i)]
  <2>1. 1 .. r.Size = 1 .. 0
    BY <1>1, <1>6
  <2>2. g \in [1 .. 0 -> Int]
    BY <1>3
  <2>3. g \in Seq(Int)
    BY <2>2
  <2> QED
    BY <1>4, <2>1, <2>3
<1> QED
  BY <1>1, <1>5, <1>6

\* The characters of a text.
LEMMA CharsReads ==
  ASSUME NEW w \in Seq(Int), NEW r \in Reader, NEW f, f = Chars(w, r)
  PROVE  /\ f \in Reader /\ f.Size = r.Size
         /\ r.at > Len(w) => f.at = r.at
         /\ r.at <= Len(w) + 1 /\ r.at + r.Size > Len(w) + 1 => f.at = Len(w) + 1
         /\ r.Size >= 0 /\ r.at + r.Size <= Len(w) + 1 =>
              /\ f.at = r.at + r.Size
              /\ Appended(f) = [i \in 1 .. r.Size |-> w[r.at + i - 1]]
<1> DEFINE N == Len(w)
           a == r.at
           n == r.Size
           b == r.buffer
           last == IF a + n - 1 <= N THEN a + n - 1 ELSE N
           got == SubSeq(w, a, last)
           rest == SubSeq(b, Len(got) + 1, Len(b))
<1>1. a \in Nat \ {0} /\ n \in Int /\ b \in Seq(Int) /\ N \in Nat /\ Len(b) \in Nat
  BY LenProperties DEF Reader
<1>2. f = [at |-> a + Len(got), Size |-> n, buffer |-> got \o rest]
  <2>1. r = [at |-> a, Size |-> n, buffer |-> b]
    BY DEF Reader
  <2>2. f = [r EXCEPT !.at = @ + Len(got), !.buffer = got \o rest]
    BY DEF Chars
  <2> DEFINE g == got
             h == got \o rest
  <2>3. f = [r EXCEPT !.at = r.at + Len(g), !.buffer = h]
    BY <2>2
  <2> HIDE DEF g, h
  <2>4. f = [at |-> a + Len(g), Size |-> n, buffer |-> h]
    BY <2>1, <2>3
  <2> QED
    BY <2>4 DEF g, h
<1>3. last \in Int /\ last <= N
  BY <1>1
<1>4. \A i \in a .. last : w[i] \in Int
  <2>1. \A i \in a .. last : i \in 1 .. N
    BY <1>1, <1>3
  <2> QED
    BY <2>1
<1> DEFINE k == IF a <= last THEN last - a + 1 ELSE 0
<1>5. /\ got \in Seq(Int) /\ Len(got) = k
      /\ \A i \in 1 .. last - a + 1 : got[i] = w[a + i - 1]
  BY <1>1, <1>3, <1>4, SubSeqProperties
<1>6. k \in Nat
  BY <1>1, <1>3
<1>7. rest \in Seq(Int)
  <2>1. Len(got) + 1 \in Int /\ Len(b) \in Int
    BY <1>1, <1>5, <1>6
  <2>2. \A i \in Len(got) + 1 .. Len(b) : b[i] \in Int
    BY <1>1, <1>5, <1>6
  <2> HIDE DEF got
  <2> QED
    BY <2>1, <2>2, SubSeqProperties
<1> HIDE DEF rest, got
<1> DEFINE c == got \o rest
<1>8. c \in Seq(Int) /\ \A i \in 1 .. k : c[i] = got[i] /\ i \in DOMAIN c
  <2>1. /\ c \in Seq(Int) /\ Len(c) = Len(got) + Len(rest) /\ Len(rest) \in Nat
        /\ \A i \in 1 .. Len(got) : c[i] = got[i]
    BY <1>5, <1>7, ConcatAt
  <2> HIDE DEF c
  <2>2. \A i \in 1 .. k : i \in DOMAIN c
    BY <1>5, <1>6, <2>1
  <2> QED
    BY <1>5, <2>1, <2>2
<1>9. f = [at |-> a + k, Size |-> n, buffer |-> c]
  BY <1>2, <1>5
<1> HIDE DEF c
<1>10. f \in Reader /\ f.Size = r.Size
  <2>1. a + k \in Nat \ {0} /\ n \in Int /\ c \in Seq(Int)
    BY <1>1, <1>6, <1>8
  <2> HIDE DEF k, n, a
  <2>2. f \in Reader /\ f.Size = n
    BY <1>9, <2>1 DEF Reader
  <2> QED
    BY <2>2 DEF n
<1>11. r.at > Len(w) => f.at = r.at
  BY <1>1, <1>3, <1>9
<1>12. r.at <= Len(w) + 1 /\ r.at + r.Size > Len(w) + 1 => f.at = Len(w) + 1
  BY <1>1, <1>9
<1>13. ASSUME r.Size >= 0, r.at + r.Size <= Len(w) + 1
       PROVE  /\ f.at = r.at + r.Size
              /\ Appended(f) = [i \in 1 .. r.Size |-> w[r.at + i - 1]]
  <2>a. last = a + n - 1
    BY <1>1, <1>13
  <2>1. k = n /\ last - a + 1 = n
    <3> HIDE DEF last
    <3>1. last - a + 1 = n
      BY <1>1, <2>a
    <3> QED
      BY <1>1, <1>13, <2>a, <3>1
  <2>2. \A i \in 1 .. n : i \in DOMAIN c /\ c[i] = w[a + i - 1]
    BY <1>5, <1>8, <2>1
  <2>3. Appended(f) = [i \in 1 .. n |-> IF i \in DOMAIN c THEN c[i] ELSE Junk]
    BY <1>9 DEF Appended
  <2> DEFINE h == [i \in 1 .. n |-> IF i \in DOMAIN c THEN c[i] ELSE Junk]
  <2>4. h = [i \in 1 .. n |-> w[a + i - 1]]
    BY <2>2
  <2>5. f.at = a + n
    BY <1>9, <2>1
  <2> HIDE DEF h
  <2> QED
    BY <2>3, <2>4, <2>5 DEF h
<1> QED
  BY <1>10, <1>11, <1>12, <1>13

\* The digits of any number are integers, and those of zero stand for zero.
LEMMA DigitsInt ==
  ASSUME NEW n \in Int
  PROVE  /\ Digits(n)[1] \in Int /\ Digits(n)[2] \in Int
         /\ n = 0 => Digits(n)[1] = 0 /\ Digits(n)[2] = 0
<1>1. Base \in Nat \ {0}
  BY ConstantsAssumption
<1>2. n \div Base \in Int /\ n % Base \in Int
  BY <1>1
<1> DEFINE q == n \div Base
<1>3. q % Base \in Int
  <2> HIDE DEF q
  <2>1. q \in Int
    BY <1>2 DEF q
  <2> QED
    BY <1>1, <2>1
<1>4. Digits(n)[1] = n % Base /\ Digits(n)[2] = q % Base
  BY DEF Digits
<1>5. ASSUME n = 0
      PROVE  n % Base = 0 /\ q % Base = 0
  <2>1. 0 = Base * 0 + 0 /\ 0 \in 0 .. Base - 1 /\ 0 \in Int
    BY <1>1
  <2>2. (Base * 0 + 0) % Base = 0 /\ (Base * 0 + 0) \div Base = 0
    BY <1>1, <2>1, Remainder
  <2> QED
    BY <1>5, <2>1, <2>2
<1> QED
  BY <1>2, <1>3, <1>4, <1>5

\* A size: of the two digits, those that the file has.
LEMMA NumberReads ==
  ASSUME NEW w \in Seq(Int), NEW r \in Reader, NEW f, f = Number(w, r)
  PROVE  /\ f \in Reader
         /\ r.at > Len(w) => f.at = r.at /\ (r.Size = 0 => f.Size = 0)
         /\ r.at = Len(w) => f.at = Len(w) + 1
         /\ r.at < Len(w) => f.at = r.at + 2 /\ f.Size = w[r.at] + Base * w[r.at + 1]
<1> DEFINE N == Len(w)
           a == r.at
           has(k) == a + k <= N
           digit(k) == IF has(k) THEN w[a + k] ELSE Digits(r.Size)[k + 1]
           K == {k \in {0, 1} : has(k)}
           c == Cardinality(K)
           x == digit(0)
           y == digit(1)
<1>1. a \in Nat \ {0} /\ r.Size \in Int /\ r.buffer \in Seq(Int) /\ N \in Nat /\ Base \in Nat \ {0}
  BY LenProperties, ConstantsAssumption DEF Reader
<1>2. f = [at |-> a + c, Size |-> x + Base * y, buffer |-> r.buffer]
  <2> DEFINE z == x + Base * y
             e == a + c
  <2>1. r = [at |-> a, Size |-> r.Size, buffer |-> r.buffer]
    BY DEF Reader
  <2>2. f = [r EXCEPT !.Size = z, !.at = e]
    BY DEF Number
  <2> HIDE DEF z, e
  <2>3. f = [at |-> e, Size |-> z, buffer |-> r.buffer]
    BY <2>1, <2>2
  <2> QED
    BY <2>3 DEF z, e
<1>3. Digits(r.Size)[1] \in Int /\ Digits(r.Size)[2] \in Int
  BY <1>1, DigitsInt
<1>4. x \in Int /\ y \in Int
  <2>1. has(0) => w[a + 0] \in Int
    BY <1>1
  <2>2. has(1) => w[a + 1] \in Int
    BY <1>1
  <2>3. 0 + 1 = 1 /\ 1 + 1 = 2
    OBVIOUS
  <2> QED
    BY <1>3, <2>1, <2>2, <2>3
<1>5. /\ a > N => c = 0
      /\ a = N => c = 1
      /\ a < N => c = 2
  <2>1. ASSUME a > N
        PROVE  c = 0
    <3>1. K = {}
      BY <1>1, <2>1
    <3> QED
      BY <3>1, FS_EmptySet
  <2>2. ASSUME a = N
        PROVE  c = 1
    <3>1. K = {0}
      BY <1>1, <2>2
    <3> QED
      BY <3>1, FS_Singleton
  <2>3. ASSUME a < N
        PROVE  c = 2
    <3>1. K = {0} \cup {1} /\ 1 \notin {0}
      BY <1>1, <2>3
    <3>2. IsFiniteSet({0}) /\ Cardinality({0}) = 1
      BY FS_Singleton
    <3>3. Cardinality({0} \cup {1}) = Cardinality({0}) + 1
      BY <3>1, <3>2, FS_AddElement
    <3>4. Cardinality({0} \cup {1}) = 2
      <4> DEFINE one == Cardinality({0})
                 two == Cardinality({0} \cup {1})
      <4>1. one = 1 /\ two = one + 1
        BY <3>2, <3>3
      <4> HIDE DEF one, two
      <4>2. two = 2
        BY <4>1
      <4> QED
        BY <4>2 DEF two
    <3> HIDE DEF K
    <3> QED
      BY <3>1, <3>4
  <2> QED
    BY <2>1, <2>2, <2>3
<1>6. c \in Nat
  BY <1>1, <1>5
<1>7. x + Base * y \in Int
  BY <1>1, <1>4, SMTT(30)
<1>8. a > N /\ r.Size = 0 => x + Base * y = 0
  <2> SUFFICES ASSUME a > N, r.Size = 0
               PROVE  x + Base * y = 0
    OBVIOUS
  <2>1. ~has(0) /\ ~has(1) /\ 0 + 1 = 1 /\ 1 + 1 = 2
    BY <1>1
  <2>2. x = 0 /\ y = 0
    BY <1>1, <2>1, DigitsInt
  <2> QED
    BY <1>1, <2>2
<1>9. a < N => x = w[a] /\ y = w[a + 1]
  <2>1. a < N => has(0) /\ has(1) /\ a + 0 = a
    BY <1>1
  <2> QED
    BY <2>1
<1> HIDE DEF x, y, c, N, a
<1> DEFINE z == x + Base * y
<1> HIDE DEF z
<1>10. f = [at |-> a + c, Size |-> z, buffer |-> r.buffer]
  BY <1>2 DEF z
<1>11. z \in Int /\ a + c \in Nat \ {0}
  BY <1>1, <1>6, <1>7 DEF z
<1>12. f.at = a + c /\ f.Size = z /\ f \in Reader
  BY <1>1, <1>10, <1>11 DEF Reader
<1>13. /\ a > N => f.at = a /\ (r.Size = 0 => f.Size = 0)
       /\ a = N => f.at = N + 1
       /\ a < N => f.at = a + 2 /\ f.Size = w[a] + Base * w[a + 1]
  <2>1. a > N => f.at = a
    BY <1>1, <1>5, <1>12
  <2>2. a > N /\ r.Size = 0 => f.Size = 0
    BY <1>8, <1>12 DEF z
  <2>3. a = N => f.at = N + 1
    BY <1>1, <1>5, <1>12
  <2>4. a < N => f.at = a + 2
    BY <1>1, <1>5, <1>12
  <2>5. a < N => f.Size = w[a] + Base * w[a + 1]
    BY <1>9, <1>12 DEF z
  <2> QED
    BY <2>1, <2>2, <2>3, <2>4, <2>5
<1> QED
  BY <1>12, <1>13 DEF a, N

\* The sizes of a download that is read are longs, and its status follows from them.
LEMMA RestoredType ==
  ASSUME NEW kind \in Int, NEW link \in Seq(Int), NEW file \in Seq(Int),
         NEW size \in Int, NEW pos \in Int
  PROVE  /\ Restored(kind, link, file, size, pos) \in Downloads
         /\ size = pos => Restored(kind, link, file, size, pos).Status = "FINISH"
<1> DEFINE x == AsLong(size)
           y == AsLong(pos)
           s == IF x = y THEN "FINISH" ELSE "STOP"
<1>1. x \in Long /\ y \in Long /\ (size = pos => x = y)
  BY AsLongRange
<1>2. Restored(kind, link, file, size, pos)
        = [kind |-> kind, pLink |-> link, pFileName |-> file, iFileSize |-> x,
           iDataPos |-> y, Status |-> s]
  BY DEF Restored, Download
<1> HIDE DEF x, y
<1> QED
  BY <1>1, <1>2 DEF Downloads, Long

\* A download that is read back as it was.
LEMMA RestoredSame ==
  ASSUME NEW d \in Downloads, NEW size, NEW pos,
         AsLong(size) = d.iFileSize, AsLong(pos) = d.iDataPos
  PROVE  Restored(d.kind, d.pLink, d.pFileName, size, pos) = d
<1>1. d = [kind |-> d.kind, pLink |-> d.pLink, pFileName |-> d.pFileName,
           iFileSize |-> d.iFileSize, iDataPos |-> d.iDataPos, Status |-> d.Status]
  BY DEF Downloads
<1>2. d.Status = IF d.iFileSize = d.iDataPos THEN "FINISH" ELSE "STOP"
  BY DEF Downloads
<1>3. Restored(d.kind, d.pLink, d.pFileName, size, pos)
      = [kind |-> d.kind, pLink |-> d.pLink, pFileName |-> d.pFileName,
         iFileSize |-> d.iFileSize, iDataPos |-> d.iDataPos,
         Status |-> IF d.iFileSize = d.iDataPos THEN "FINISH" ELSE "STOP"]
  BY DEF Restored, Download
<1> QED
  BY <1>1, <1>2, <1>3

\* One turn of the loop, fread by fread.
Turn(w, r, kind, link, name, size, pos, n) ==
  /\ kind = Field(w, r)
  /\ link = Chars(w, Field(w, kind))
  /\ name = Chars(w, Field(w, link))
  /\ size = Number(w, name)
  /\ pos = Number(w, size)
  /\ n = [r |-> pos,
          dl |-> Restored(kind.Size, Appended(link), Appended(name), size.Size, pos.Size)]

\* Every call of ReadDownload makes one.
LEMMA TurnExists ==
  ASSUME NEW w \in Seq(Int), NEW r \in Reader
  PROVE  \E kind, link, name, size, pos \in Reader :
           Turn(w, r, kind, link, name, size, pos, ReadDownload(w, r))
<1> DEFINE kind == Field(w, r)
           l == Field(w, kind)
           link == Chars(w, l)
           m == Field(w, link)
           name == Chars(w, m)
           size == Number(w, name)
           pos == Number(w, size)
<1>1. kind \in Reader
  BY FieldReads
<1>2. l \in Reader
  <2> HIDE DEF kind
  <2> QED
    BY <1>1, FieldReads
<1>3. link \in Reader
  <2> HIDE DEF l
  <2> QED
    BY <1>2, CharsReads
<1>4. m \in Reader
  <2> HIDE DEF link
  <2> QED
    BY <1>3, FieldReads
<1>5. name \in Reader
  <2> HIDE DEF m
  <2> QED
    BY <1>4, CharsReads
<1>6. size \in Reader
  <2> HIDE DEF name
  <2> QED
    BY <1>5, NumberReads
<1>7. pos \in Reader
  <2> HIDE DEF size
  <2> QED
    BY <1>6, NumberReads
<1>8. Turn(w, r, kind, link, name, size, pos, ReadDownload(w, r))
  BY Zenon DEF Turn, ReadDownload
<1> HIDE DEF kind, link, name, size, pos
<1> QED
  BY <1>1, <1>3, <1>5, <1>6, <1>7, <1>8, Zenon

\* Whatever the file, what is read is a download; past the end, it is complete.
LEMMA TurnType ==
  ASSUME NEW w \in Seq(Int), NEW r \in Reader
  PROVE  /\ ReadDownload(w, r).r \in Reader /\ ReadDownload(w, r).dl \in Downloads
         /\ r.at > Len(w) => /\ ReadDownload(w, r).r.at = r.at
                             /\ ReadDownload(w, r).dl.Status = "FINISH"
<1> DEFINE n == ReadDownload(w, r)
           N == Len(w)
<1>1. PICK kind, link, name, size, pos \in Reader : Turn(w, r, kind, link, name, size, pos, n)
  BY TurnExists
<1> HIDE DEF n
<1> DEFINE dl == Restored(kind.Size, Appended(link), Appended(name), size.Size, pos.Size)
<1>2. n.r = pos /\ n.dl = dl
  <2> HIDE DEF dl
  <2>1. n = [r |-> pos, dl |-> dl]
    BY <1>1 DEF Turn, dl
  <2> QED
    BY <2>1
<1>3. kind.Size \in Int /\ size.Size \in Int /\ pos.Size \in Int
  BY DEF Reader
<1>4. Appended(link) \in Seq(Int) /\ Appended(name) \in Seq(Int)
  BY AppendedType
<1>5. dl \in Downloads /\ (size.Size = pos.Size => dl.Status = "FINISH")
  BY <1>3, <1>4, RestoredType
<1> HIDE DEF dl
<1>6. ASSUME r.at > N
      PROVE  pos.at = r.at /\ size.Size = pos.Size
  <2>1. kind.at = r.at
    BY <1>1, <1>6, FieldReads DEF Turn
  <2> DEFINE l == Field(w, kind)
             m == Field(w, link)
  <2>2. l \in Reader /\ l.at = r.at
    BY <1>6, <2>1, FieldReads
  <2>3. link = Chars(w, l)
    BY <1>1 DEF Turn
  <2> HIDE DEF l
  <2>4. link.at = r.at
    BY <1>6, <2>2, <2>3, CharsReads
  <2>5. m \in Reader /\ m.at = r.at /\ m.Size = 0
    BY <1>6, <2>4, FieldReads
  <2>6. name = Chars(w, m)
    BY <1>1 DEF Turn
  <2> HIDE DEF m
  <2>7. name.at = r.at /\ name.Size = 0
    BY <1>6, <2>5, <2>6, CharsReads
  <2>8. size = Number(w, name) /\ pos = Number(w, size)
    BY <1>1 DEF Turn
  <2>9. size.at = r.at /\ size.Size = 0
    BY <1>6, <2>7, <2>8, NumberReads
  <2>10. pos.at = r.at /\ pos.Size = 0
    BY <1>6, <2>8, <2>9, NumberReads
  <2> QED
    BY <2>9, <2>10
<1> QED
  BY <1>2, <1>5, <1>6 DEF n

\* The reader is at p, or at the end of the file if that comes first.
Upto(f, p, N) ==
  /\ p <= N + 1 => f.at = p
  /\ p > N + 1 => f.at = N + 1

\* f is the text of n characters that w has from its place p on.
IsText(f, w, p, n) == f = [i \in 1 .. n |-> w[p + i - 1]]

\* A text of the file is the one it was saved from.
LEMMA TextSame ==
  ASSUME NEW t \in Seq(Int), NEW n, n = Len(t), NEW w, NEW p \in Nat,
         \A i \in 1 .. n : w[p + i - 1] = t[i], NEW f, IsText(f, w, p, n)
  PROVE  f = t
<1>1. n \in Nat /\ t = [i \in 1 .. n |-> t[i]]
  BY LenProperties
<1> QED
  BY <1>1 DEF IsText

\* An entry of the file is read as the download it was written for, if the file has
\* all of it; otherwise reading it ends at the end of the file.
LEMMA EntryReads ==
  ASSUME NEW w \in Seq(Int), NEW r \in Reader, NEW a \in Nat, NEW d \in Downloads, NEW B,
         Laid(B, a, d), r.at = a + 1, a <= Len(w), \A i \in 1 .. Len(w) : w[i] = B[i]
  PROVE  /\ a + Span(d) <= Len(w) => /\ ReadDownload(w, r).dl = d
                                     /\ ReadDownload(w, r).r.at = a + Span(d) + 1
         /\ a + Span(d) > Len(w) => ReadDownload(w, r).r.at = Len(w) + 1
<1> DEFINE n == ReadDownload(w, r)
           N == Len(w)
           L == Len(d.pLink)
           M == Len(d.pFileName)
<1>1. PICK kind, link, name, size, pos \in Reader : Turn(w, r, kind, link, name, size, pos, n)
  BY TurnExists
<1> HIDE DEF n
<1>2. /\ d.kind \in Int /\ d.pLink \in Seq(Int) /\ d.pFileName \in Seq(Int)
      /\ d.iFileSize \in Long /\ d.iDataPos \in Long
  BY DEF Downloads, Long
<1>3. N \in Nat /\ L \in Nat /\ M \in Nat
  BY <1>2, LenProperties
<1>4. Span(d) = 7 + L + M
  BY DEF Span
<1> DEFINE l == Field(w, kind)
           m == Field(w, link)
<1>5. /\ kind = Field(w, r) /\ link = Chars(w, l) /\ name = Chars(w, m)
      /\ size = Number(w, name) /\ pos = Number(w, size)
  BY <1>1 DEF Turn
<1>6. l \in Reader /\ m \in Reader
  BY FieldReads
<1>7. /\ B[a + 1] = d.kind
      /\ B[a + 2] = L
      /\ \A i \in 1 .. L : B[a + 2 + i] = d.pLink[i]
      /\ B[a + 3 + L] = M
      /\ \A i \in 1 .. M : B[a + 3 + L + i] = d.pFileName[i]
      /\ B[a + 4 + L + M] = d.iFileSize % Base
      /\ B[a + 5 + L + M] = (d.iFileSize \div Base) % Base
      /\ B[a + 6 + L + M] = d.iDataPos % Base
      /\ B[a + 7 + L + M] = (d.iDataPos \div Base) % Base
  BY DEF Laid
<1>w. N = Len(w) /\ L = Len(d.pLink) /\ M = Len(d.pFileName) /\ a <= N
  OBVIOUS
<1>b. \A i \in 1 .. N : w[i] = B[i]
  OBVIOUS
<1> HIDE DEF L, M, N
<1>8. Upto(kind, a + 2, N) /\ (a + 1 <= N => kind.Size = d.kind)
  <2>1. /\ a + 1 <= N => kind.at = (a + 1) + 1 /\ kind.Size = w[a + 1]
        /\ a + 1 > N => kind.at = a + 1
    BY <1>5, <1>w, FieldReads, SMTT(30)
  <2>2. a + 1 <= N => w[a + 1] = B[a + 1]
    BY <1>3, <1>b
  <2> QED
    BY <1>3, <1>7, <1>w, <2>1, <2>2 DEF Upto
<1>9. Upto(l, a + 3, N) /\ (a + 2 <= N => l.Size = L)
  <2>1. /\ kind.at <= N => l.at = kind.at + 1 /\ l.Size = w[kind.at]
        /\ kind.at > N => l.at = kind.at
    BY <1>w, FieldReads
  <2>2. a + 2 <= N => w[a + 2] = B[a + 2]
    BY <1>3, <1>b
  <2> HIDE DEF l
  <2> QED
    BY <1>3, <1>7, <1>8, <2>1, <2>2, SMTT(30) DEF Upto
<1> HIDE DEF l, n
<1>10. /\ Upto(link, a + 3 + L, N)
       /\ a + 2 + L <= N => Appended(link) = d.pLink
  <2>1. /\ l.at > N => link.at = l.at
        /\ l.at <= N + 1 /\ l.at + l.Size > N + 1 => link.at = N + 1
        /\ l.Size >= 0 /\ l.at + l.Size <= N + 1 =>
             /\ link.at = l.at + l.Size
             /\ Appended(link) = [i \in 1 .. l.Size |-> w[l.at + i - 1]]
    BY <1>5, <1>6, <1>w, CharsReads
  <2>2. CASE a + 2 + L <= N
    <3>1. l.Size = L /\ l.at = a + 3 /\ l.at + l.Size <= N + 1 /\ L >= 0
      <4> QED
        BY <1>3, <1>9, <2>2 DEF Upto
    <3>2. link.at = a + 3 + L /\ Appended(link) = [i \in 1 .. L |-> w[a + 3 + i - 1]]
      BY <2>1, <3>1
    <3> DEFINE q == a + 3
    <3>3. \A i \in 1 .. L : w[q + i - 1] = d.pLink[i]
      <4> SUFFICES ASSUME NEW i \in 1 .. L
                   PROVE  w[q + i - 1] = d.pLink[i]
        OBVIOUS
      <4>1. q + i - 1 = a + 2 + i /\ a + 2 + i \in 1 .. N
        BY <1>3, <2>2
      <4>2. w[a + 2 + i] = B[a + 2 + i] /\ B[a + 2 + i] = d.pLink[i]
        BY <1>7, <1>b, <4>1
      <4> HIDE DEF q
      <4> QED
        BY <4>1, <4>2
    <3>4. q \in Nat
      BY <1>3
    <3>5. IsText(Appended(link), w, q, L)
      BY <3>2 DEF IsText
    <3>6. Appended(link) = d.pLink
      <4> HIDE DEF q
      <4> QED
        BY <1>2, <1>w, <3>3, <3>4, <3>5, TextSame, Zenon
    <3>7. link.at = a + 3 + L
      BY <3>2
    <3>8. Upto(link, a + 3 + L, N)
      BY <1>3, <2>2, <3>7 DEF Upto
    <3> QED
      BY <3>6, <3>8
  <2>3. CASE a + 2 + L > N
    <3>1. link.at = N + 1
      <4>1. CASE a + 2 <= N
        BY <1>3, <1>9, <2>1, <2>3, <4>1 DEF Upto
      <4>2. CASE a + 2 > N
        BY <1>3, <1>9, <2>1, <4>2 DEF Upto
      <4> QED
        BY <1>3, <4>1, <4>2
    <3> QED
      BY <1>3, <2>3, <3>1 DEF Upto
  <2> QED
    BY <1>3, <2>2, <2>3
<1>11. Upto(m, a + 4 + L, N) /\ (a + 3 + L <= N => m.Size = M)
  <2>1. /\ link.at <= N => m.at = link.at + 1 /\ m.Size = w[link.at]
        /\ link.at > N => m.at = link.at
    BY <1>w, FieldReads
  <2>2. a + 3 + L <= N => w[a + 3 + L] = B[a + 3 + L]
    BY <1>3, <1>b
  <2> HIDE DEF m
  <2>3. Upto(m, a + 4 + L, N)
    BY <1>3, <1>10, <2>1, SMTT(30) DEF Upto
  <2>4. a + 3 + L <= N => m.Size = M
    <3>1. a + 3 + L <= N => link.at = a + 3 + L
      BY <1>3, <1>10 DEF Upto
    <3> QED
      BY <1>3, <1>7, <2>1, <2>2, <3>1
  <2> QED
    BY <2>3, <2>4
<1> HIDE DEF m
<1>12. /\ Upto(name, a + 4 + L + M, N)
       /\ a + 3 + L + M <= N => Appended(name) = d.pFileName
  <2>1. /\ m.at > N => name.at = m.at
        /\ m.at <= N + 1 /\ m.at + m.Size > N + 1 => name.at = N + 1
        /\ m.Size >= 0 /\ m.at + m.Size <= N + 1 =>
             /\ name.at = m.at + m.Size
             /\ Appended(name) = [i \in 1 .. m.Size |-> w[m.at + i - 1]]
    BY <1>5, <1>6, <1>w, CharsReads
  <2>2. CASE a + 3 + L + M <= N
    <3>1. m.Size = M /\ m.at = a + 4 + L /\ m.at + m.Size <= N + 1 /\ M >= 0
      <4> QED
        BY <1>3, <1>11, <2>2 DEF Upto
    <3>2. name.at = a + 4 + L + M /\ Appended(name) = [i \in 1 .. M |-> w[a + 4 + L + i - 1]]
      BY <2>1, <3>1
    <3> DEFINE q == a + 4 + L
    <3>3. \A i \in 1 .. M : w[q + i - 1] = d.pFileName[i]
      <4> SUFFICES ASSUME NEW i \in 1 .. M
                   PROVE  w[q + i - 1] = d.pFileName[i]
        OBVIOUS
      <4>1. q + i - 1 = a + 3 + L + i /\ a + 3 + L + i \in 1 .. N
        BY <1>3, <2>2
      <4>2. w[a + 3 + L + i] = B[a + 3 + L + i] /\ B[a + 3 + L + i] = d.pFileName[i]
        BY <1>7, <1>b, <4>1
      <4> HIDE DEF q
      <4> QED
        BY <4>1, <4>2
    <3>4. q \in Nat
      BY <1>3
    <3>5. IsText(Appended(name), w, q, M)
      BY <3>2 DEF IsText
    <3>6. Appended(name) = d.pFileName
      <4> HIDE DEF q
      <4> QED
        BY <1>2, <1>w, <3>3, <3>4, <3>5, TextSame, Zenon
    <3>7. name.at = a + 4 + L + M
      BY <3>2
    <3>8. Upto(name, a + 4 + L + M, N)
      BY <1>3, <2>2, <3>7 DEF Upto
    <3> QED
      BY <3>6, <3>8
  <2>3. CASE a + 3 + L + M > N
    <3>1. name.at = N + 1
      <4>1. CASE a + 3 + L <= N
        BY <1>3, <1>11, <2>1, <2>3, <4>1 DEF Upto
      <4>2. CASE a + 3 + L > N
        BY <1>3, <1>11, <2>1, <4>2 DEF Upto
      <4> QED
        BY <1>3, <4>1, <4>2
    <3> QED
      BY <1>3, <2>3, <3>1 DEF Upto
  <2> QED
    BY <1>3, <2>2, <2>3
<1> DEFINE p == a + 4 + L + M
<1>13. /\ Upto(size, p + 2, N)
       /\ p + 1 <= N => size.Size = w[p] + Base * w[p + 1]
  <2>1. /\ name.at > N => size.at = name.at
        /\ name.at = N => size.at = N + 1
        /\ name.at < N => size.at = name.at + 2 /\ size.Size = w[name.at] + Base * w[name.at + 1]
    BY <1>5, NumberReads DEF N
  <2>2. p \in Nat
    BY <1>3
  <2>3. Upto(name, p, N)
    BY <1>12
  <2> HIDE DEF p
  <2>4. p + 1 <= N => name.at = p /\ name.at < N
    BY <1>3, <2>2, <2>3 DEF Upto
  <2>5. Upto(size, p + 2, N)
    BY <1>3, <2>1, <2>2, <2>3 DEF Upto
  <2> QED
    BY <2>1, <2>4, <2>5
<1>14. /\ Upto(pos, p + 4, N)
       /\ p + 3 <= N => pos.Size = w[p + 2] + Base * w[p + 3]
  <2>1. /\ size.at > N => pos.at = size.at
        /\ size.at = N => pos.at = N + 1
        /\ size.at < N => pos.at = size.at + 2 /\ pos.Size = w[size.at] + Base * w[size.at + 1]
    BY <1>5, NumberReads DEF N
  <2>2. p \in Nat
    BY <1>3
  <2> HIDE DEF p
  <2>4. p + 3 <= N => size.at = p + 2 /\ size.at < N /\ (p + 2) + 1 = p + 3
    BY <1>3, <2>2, <1>13 DEF Upto
  <2>5. Upto(pos, p + 4, N)
    BY <1>3, <2>1, <2>2, <1>13 DEF Upto
  <2> QED
    BY <2>1, <2>4, <2>5
<1>15. a + Span(d) + 1 = p + 4
  BY <1>3, <1>4
<1>16. n.r = pos /\ n.dl = Restored(kind.Size, Appended(link), Appended(name), size.Size, pos.Size)
  <2> DEFINE e == Restored(kind.Size, Appended(link), Appended(name), size.Size, pos.Size)
  <2>1. n = [r |-> pos, dl |-> e]
    BY <1>1 DEF Turn
  <2> HIDE DEF e
  <2>2. n.r = pos /\ n.dl = e
    BY <2>1
  <2> QED
    BY <2>2 DEF e
<1>17. ASSUME a + Span(d) > N
       PROVE  n.r.at = N + 1
  <2> HIDE DEF p
  <2>1. p \in Nat
    BY <1>3 DEF p
  <2>2. p + 4 > N + 1
    BY <1>3, <1>4, <1>15, <1>17, <2>1
  <2> QED
    BY <1>14, <1>16, <2>2 DEF Upto
<1>18. ASSUME a + Span(d) <= N
       PROVE  n.dl = d /\ n.r.at = a + Span(d) + 1
  <2>1. p \in Nat /\ p + 3 <= N /\ p + 4 <= N + 1 /\ p + 1 <= N
    BY <1>3, <1>4, <1>18
  <2>2. /\ a + 1 <= N /\ a + 2 + L <= N /\ a + 3 + L + M <= N
    BY <1>3, <1>4, <1>18
  <2>3. kind.Size = d.kind /\ Appended(link) = d.pLink /\ Appended(name) = d.pFileName
    BY <1>8, <1>10, <1>12, <2>2
  <2>4. /\ w[p] = d.iFileSize % Base /\ w[p + 1] = (d.iFileSize \div Base) % Base
        /\ w[p + 2] = d.iDataPos % Base /\ w[p + 3] = (d.iDataPos \div Base) % Base
    <3>1. /\ p + 1 = a + 5 + L + M /\ p + 2 = a + 6 + L + M /\ p + 3 = a + 7 + L + M
          /\ p \in 1 .. N /\ p + 1 \in 1 .. N /\ p + 2 \in 1 .. N /\ p + 3 \in 1 .. N
      BY <1>3, <2>1
    <3>2. /\ w[p] = B[p] /\ w[p + 1] = B[p + 1] /\ w[p + 2] = B[p + 2] /\ w[p + 3] = B[p + 3]
      <4> HIDE DEF p
      <4> QED
        BY <1>b, <3>1
    <3>3. /\ B[p] = d.iFileSize % Base /\ B[p + 1] = (d.iFileSize \div Base) % Base
          /\ B[p + 2] = d.iDataPos % Base /\ B[p + 3] = (d.iDataPos \div Base) % Base
      BY <1>7, <3>1, Zenon
    <3> QED
      BY <3>2, <3>3, Zenon
  <2>5. /\ AsLong((d.iFileSize % Base) + Base * ((d.iFileSize \div Base) % Base)) = d.iFileSize
        /\ AsLong((d.iDataPos % Base) + Base * ((d.iDataPos \div Base) % Base)) = d.iDataPos
    BY <1>2, DigitsBack
  <2>6. AsLong(size.Size) = d.iFileSize /\ AsLong(pos.Size) = d.iDataPos
    <3>1. size.Size = w[p] + Base * w[p + 1] /\ pos.Size = w[p + 2] + Base * w[p + 3]
      BY <1>13, <1>14, <2>1
    <3> HIDE DEF p
    <3> QED
      BY <2>4, <2>5, <3>1, Zenon
  <2>7. Restored(d.kind, d.pLink, d.pFileName, size.Size, pos.Size) = d
    BY <2>6, RestoredSame
  <2>8. n.dl = d
    BY <1>16, <2>3, <2>7, Zenon
  <2>9. pos.at = p + 4
    BY <1>14, <2>1 DEF Upto
  <2> QED
    BY <1>15, <1>16, <2>8, <2>9, Zenon
<1> QED
  BY <1>17, <1>18 DEF n, N
-----------------------------------------------------------------------------
(***************************************************************************)
(* The file of a list: its entries one after the other.                    *)
(***************************************************************************)
\* What holds the same bytes from another place on holds the same download.
LEMMA LaidMoves ==
  ASSUME NEW u, NEW w, NEW a \in Nat, NEW b \in Nat, NEW d \in Downloads,
         \A i \in 1 .. Span(d) : u[a + i] = w[b + i], Laid(w, b, d)
  PROVE  Laid(u, a, d)
<1> DEFINE L == Len(d.pLink)
           M == Len(d.pFileName)
<1>1. d.pLink \in Seq(Int) /\ d.pFileName \in Seq(Int)
  BY DEF Downloads
<1>2. L \in Nat /\ M \in Nat
  BY <1>1, LenProperties
<1>3. Span(d) = 7 + L + M
  BY DEF Span
<1>4. /\ w[b + 1] = d.kind
      /\ w[b + 2] = L
      /\ \A i \in 1 .. L : w[b + 2 + i] = d.pLink[i]
      /\ w[b + 3 + L] = M
      /\ \A i \in 1 .. M : w[b + 3 + L + i] = d.pFileName[i]
      /\ w[b + 4 + L + M] = d.iFileSize % Base
      /\ w[b + 5 + L + M] = (d.iFileSize \div Base) % Base
      /\ w[b + 6 + L + M] = d.iDataPos % Base
      /\ w[b + 7 + L + M] = (d.iDataPos \div Base) % Base
  BY DEF Laid
<1>5. Laid(u, a, d) <=>
        /\ u[a + 1] = d.kind
        /\ u[a + 2] = L
        /\ \A i \in 1 .. L : u[a + 2 + i] = d.pLink[i]
        /\ u[a + 3 + L] = M
        /\ \A i \in 1 .. M : u[a + 3 + L + i] = d.pFileName[i]
        /\ u[a + 4 + L + M] = d.iFileSize % Base
        /\ u[a + 5 + L + M] = (d.iFileSize \div Base) % Base
        /\ u[a + 6 + L + M] = d.iDataPos % Base
        /\ u[a + 7 + L + M] = (d.iDataPos \div Base) % Base
  BY DEF Laid
<1> HIDE DEF L, M
<1>6. u[a + 1] = w[b + 1] /\ u[a + 2] = w[b + 2]
  BY <1>2, <1>3
<1>7. ASSUME NEW i \in 1 .. L
      PROVE  u[a + 2 + i] = d.pLink[i]
  <2>1. 2 + i \in 1 .. Span(d) /\ a + (2 + i) = a + 2 + i /\ b + (2 + i) = b + 2 + i
    BY <1>2, <1>3
  <2>2. u[a + (2 + i)] = w[b + (2 + i)]
    BY <2>1
  <2> QED
    BY <1>4, <2>1, <2>2
<1>8. u[a + 3 + L] = w[b + 3 + L]
  <2>1. 3 + L \in 1 .. Span(d) /\ a + (3 + L) = a + 3 + L /\ b + (3 + L) = b + 3 + L
    BY <1>2, <1>3
  <2>2. u[a + (3 + L)] = w[b + (3 + L)]
    BY <2>1
  <2> QED
    BY <2>1, <2>2
<1>9. ASSUME NEW i \in 1 .. M
      PROVE  u[a + 3 + L + i] = d.pFileName[i]
  <2>1. /\ 3 + L + i \in 1 .. Span(d) /\ a + (3 + L + i) = a + 3 + L + i
        /\ b + (3 + L + i) = b + 3 + L + i
    BY <1>2, <1>3
  <2>2. u[a + (3 + L + i)] = w[b + (3 + L + i)]
    BY <2>1
  <2> QED
    BY <1>4, <2>1, <2>2
<1>10. ASSUME NEW k \in 4 .. 7
       PROVE  u[a + k + L + M] = w[b + k + L + M]
  <2>1. /\ k + L + M \in 1 .. Span(d) /\ a + (k + L + M) = a + k + L + M
        /\ b + (k + L + M) = b + k + L + M
    BY <1>2, <1>3
  <2>2. u[a + (k + L + M)] = w[b + (k + L + M)]
    BY <2>1
  <2> QED
    BY <2>1, <2>2
<1>11. /\ u[a + 4 + L + M] = w[b + 4 + L + M] /\ u[a + 5 + L + M] = w[b + 5 + L + M]
       /\ u[a + 6 + L + M] = w[b + 6 + L + M] /\ u[a + 7 + L + M] = w[b + 7 + L + M]
  BY <1>10
<1> QED
  BY <1>4, <1>5, <1>6, <1>7, <1>8, <1>9, <1>11, Zenon

\* What comes after a download does not matter to it.
LEMMA LaidStays ==
  ASSUME NEW u, NEW w, NEW b \in Nat, NEW d \in Downloads, NEW n \in Nat,
         b + Span(d) <= n, \A i \in 1 .. n : u[i] = w[i], Laid(w, b, d)
  PROVE  Laid(u, b, d)
<1>1. Span(d) \in Nat
  BY FieldsLaid
<1>2. ASSUME NEW k \in 1 .. Span(d)
      PROVE  u[b + k] = w[b + k]
  <2>1. b + k \in 1 .. n
    BY <1>1
  <2> QED
    BY <2>1
<1> QED
  BY <1>2, LaidMoves

\* The entries of l are in w one after the other, after a first number; off[i] is where
\* the first i end.
Layout(w, l, off) ==
  /\ w \in Seq(Int) /\ off \in [0 .. Len(l) -> Nat]
  /\ off[0] = 1 /\ off[Len(l)] = Len(w)
  /\ \A i \in 1 .. Len(l) : off[i] = off[i - 1] + Span(l[i]) /\ Laid(w, off[i - 1], l[i])
  /\ \A i, j \in 0 .. Len(l) : i <= j => off[i] <= off[j]

\* What is saved of each download of a list.
Parts(l) == [i \in DOMAIN l |-> Fields(l[i])]

\* The parts are sequences of numbers.
LEMMA PartsType ==
  ASSUME NEW l \in Seq(Downloads)
  PROVE  Parts(l) \in Seq(Seq(Int)) /\ Len(Parts(l)) = Len(l)
<1> DEFINE n == Len(l)
           p == [i \in 1 .. n |-> Fields(l[i])]
<1>1. n \in Nat /\ DOMAIN l = 1 .. n
  BY LenProperties
<1>2. \A i \in 1 .. n : Fields(l[i]) \in Seq(Int)
  <2> SUFFICES ASSUME NEW i \in 1 .. n
               PROVE  Fields(l[i]) \in Seq(Int)
    OBVIOUS
  <2>1. l[i] \in Downloads
    BY ElementOfSeq
  <2> QED
    BY <2>1, FieldsLaid
<1>3. Parts(l) = p
  BY <1>1 DEF Parts
<1> HIDE DEF n
<1>4. p \in [1 .. n -> Seq(Int)]
  BY <1>2
<1> HIDE DEF p
<1>5. p \in Seq(Seq(Int)) /\ Len(p) = n
  BY <1>1, <1>4
<1> QED
  BY <1>3, <1>5 DEF n

\* A list with one more download has one more part.
LEMMA PartsAppend ==
  ASSUME NEW t \in Seq(Downloads), NEW e \in Downloads
  PROVE  Parts(Append(t, e)) = Append(Parts(t), Fields(e))
<1> DEFINE l == Append(t, e)
           p == Parts(l)
           q == Append(Parts(t), Fields(e))
           n == Len(t)
<1>1. /\ l \in Seq(Downloads) /\ Len(l) = n + 1 /\ l[n + 1] = e
      /\ n \in Nat /\ \A i \in 1 .. n : l[i] = t[i]
  BY AppendProperties, LenProperties
<1>2. Fields(e) \in Seq(Int)
  BY FieldsLaid
<1>3. Parts(t) \in Seq(Seq(Int)) /\ Len(Parts(t)) = n
  BY PartsType
<1> HIDE DEF l
<1>4. p \in Seq(Seq(Int)) /\ Len(p) = n + 1
  BY <1>1, PartsType
<1>5. /\ q \in Seq(Seq(Int)) /\ Len(q) = n + 1 /\ q[n + 1] = Fields(e)
      /\ \A i \in 1 .. n : q[i] = Parts(t)[i]
  BY <1>2, <1>3, AppendProperties
<1>6. DOMAIN l = 1 .. n + 1 /\ DOMAIN t = 1 .. n
  BY <1>1
<1>7. p[n + 1] = Fields(e) /\ \A i \in 1 .. n : p[i] = Fields(t[i])
  <2>1. \A i \in 1 .. n + 1 : p[i] = Fields(l[i])
    BY <1>6 DEF Parts
  <2>2. n + 1 \in 1 .. n + 1 /\ \A i \in 1 .. n : i \in 1 .. n + 1
    BY <1>1
  <2> HIDE DEF p
  <2> QED
    BY <1>1, <2>1, <2>2
<1>8. \A i \in 1 .. n : Parts(t)[i] = Fields(t[i])
  BY <1>6 DEF Parts
<1> HIDE DEF p, q, n
<1>9. ASSUME NEW i \in 1 .. n + 1
      PROVE  p[i] = q[i]
  <2>1. CASE i \in 1 .. n
    BY <1>5, <1>7, <1>8, <2>1
  <2>2. CASE i = n + 1
    BY <1>5, <1>7, <2>2
  <2> QED
    BY <1>1, <2>1, <2>2
<1>10. p = q
  BY <1>4, <1>5, <1>9, SeqEqual
<1> QED
  BY <1>10 DEF p, q, l

\* One more entry comes after the others.
LEMMA LayoutAppend ==
  ASSUME NEW t \in Seq(Downloads), NEW e \in Downloads, NEW w, NEW off, Layout(w, t, off),
         NEW u, Joins(u, w, Fields(e), Len(w), Span(e))
  PROVE  \E new : Layout(u, Append(t, e), new)
<1> DEFINE n == Len(t)
           a == Len(w)
           m == Span(e)
           l == Append(t, e)
           new == [i \in 0 .. n + 1 |-> IF i <= n THEN off[i] ELSE a + m]
<1>1. /\ l \in Seq(Downloads) /\ Len(l) = n + 1 /\ l[n + 1] = e
      /\ n \in Nat /\ \A i \in 1 .. n : l[i] = t[i]
  BY AppendProperties, LenProperties
<1>2. /\ w \in Seq(Int) /\ off \in [0 .. n -> Nat] /\ off[0] = 1 /\ off[n] = a
      /\ \A i \in 1 .. n : off[i] = off[i - 1] + Span(t[i]) /\ Laid(w, off[i - 1], t[i])
      /\ \A i, j \in 0 .. n : i <= j => off[i] <= off[j]
  BY DEF Layout
<1>3. /\ Fields(e) \in Seq(Int) /\ Len(Fields(e)) = m /\ m \in Nat \ {0}
      /\ Laid(Fields(e), 0, e)
  BY FieldsLaid
<1>4. a \in Nat
  BY <1>2, LenProperties
<1>6. /\ u \in Seq(Int) /\ Len(u) = a + m
      /\ \A i \in 1 .. a : u[i] = w[i]
      /\ \A i \in 1 .. m : u[a + i] = Fields(e)[i]
  BY DEF Joins
<1> HIDE DEF l, n, a
<1>7. new \in [0 .. n + 1 -> Nat]
  BY <1>1, <1>2, <1>3, <1>4
<1>8. /\ \A i \in 0 .. n : new[i] = off[i]
      /\ new[n + 1] = a + m
  BY <1>1
<1> HIDE DEF new
<1>9. ASSUME NEW i \in 1 .. n + 1
      PROVE  new[i] = new[i - 1] + Span(l[i]) /\ Laid(u, new[i - 1], l[i])
  <2>1. CASE i = n + 1
    <3>1. i - 1 = n /\ n \in 0 .. n
      BY <1>1, <2>1
    <3>2. new[i] = a + m /\ new[i - 1] = a /\ l[i] = e
      BY <1>1, <1>2, <1>8, <2>1, <3>1
    <3>3. Laid(u, a, e)
      <4>1. ASSUME NEW k \in 1 .. m
            PROVE  u[a + k] = Fields(e)[0 + k]
        <5>1. u[a + k] = Fields(e)[k] /\ 0 + k = k
          BY <1>3, <1>6
        <5> QED
          BY <5>1
      <4> QED
        BY <1>3, <1>4, <4>1, LaidMoves
    <3> QED
      BY <3>2, <3>3
  <2>2. CASE i \in 1 .. n
    <3> DEFINE d == t[i]
               b == off[i - 1]
    <3>1. i \in 0 .. n /\ i - 1 \in 0 .. n
      BY <1>1, <2>2
    <3>2. new[i] = off[i] /\ new[i - 1] = b /\ l[i] = d /\ d \in Downloads
      BY <1>1, <1>8, <2>2, <3>1 DEF n
    <3>3. off[i] = b + Span(d) /\ Laid(w, b, d) /\ b \in Nat /\ off[i] \in Nat
      BY <1>2, <2>2, <3>1
    <3>4. off[i] <= a
      BY <1>1, <1>2, <3>1
    <3> HIDE DEF d, b
    <3>7. Laid(u, b, d)
      BY <1>4, <1>6, <3>2, <3>3, <3>4, LaidStays
    <3> QED
      BY <3>2, <3>3, <3>7
  <2> QED
    BY <1>1, <2>1, <2>2
<1>10. ASSUME NEW i \in 0 .. n + 1, NEW j \in 0 .. n + 1, i <= j
       PROVE  new[i] <= new[j]
  <2>1. CASE j \in 0 .. n
    <3>1. i \in 0 .. n
      BY <1>1, <1>10, <2>1
    <3> QED
      BY <1>2, <1>8, <1>10, <2>1, <3>1
  <2>2. CASE i = n + 1
    <3>1. j = n + 1
      BY <1>1, <1>10, <2>2
    <3> QED
      BY <1>3, <1>4, <1>8, <2>2, <3>1
  <2>3. CASE i \in 0 .. n /\ j = n + 1
    <3>1. off[i] <= a /\ off[i] \in Nat
      BY <1>1, <1>2, <2>3
    <3> QED
      BY <1>3, <1>4, <1>8, <2>3, <3>1
  <2> QED
    BY <1>1, <2>1, <2>2, <2>3
<1>11. new[0] = 1
  BY <1>1, <1>2, <1>8
<1>12. Layout(u, l, new)
  BY <1>1, <1>6, <1>7, <1>8, <1>9, <1>10, <1>11 DEF Layout
<1> QED
  BY <1>12 DEF l

\* Concatenation is associative.
LEMMA Associates ==
  ASSUME NEW x \in Seq(Int), NEW y \in Seq(Int), NEW z \in Seq(Int)
  PROVE  (x \o y) \o z = x \o (y \o z)
BY ConcatAssociative, SMTT(30)

\* The file of a list: how many there are, then the entries.
LEMMA LayoutExists ==
  ASSUME NEW c \in Int
  PROVE  \A l \in Seq(Downloads) : \E off : Layout(<<c>> \o FlattenSeq(Parts(l)), l, off)
<1> DEFINE F(l) == <<c>> \o FlattenSeq(Parts(l))
           T == {n \in Nat : \A l \in Seq(Downloads) :
                               Len(l) = n => \E off : Layout(F(l), l, off)}
<1>1. 0 \in T
  <2> SUFFICES ASSUME NEW l \in Seq(Downloads), Len(l) = 0
               PROVE  \E off : Layout(F(l), l, off)
    OBVIOUS
  <2>1. Parts(l) = <<>>
    BY PartsType, EmptySeq
  <2>2. <<c>> \in Seq(Int) /\ Len(<<c>>) = 1
    OBVIOUS
  <2>3. F(l) = <<c>>
    <3>1. <<c>> \o <<>> = <<c>>
      BY <2>2, ConcatEmptySeq
    <3> QED
      BY <2>1, <3>1, FlattenEmpty
  <2> DEFINE off == [i \in 0 .. 0 |-> 1]
             w == <<c>>
  <2>4. off \in [0 .. 0 -> Nat] /\ off[0] = 1
    OBVIOUS
  <2>5. w \in Seq(Int) /\ Len(w) = 1
    BY <2>2
  <2> HIDE DEF off, w
  <2>6. Layout(w, l, off)
    <3>1. \A i : i \notin 1 .. 0
      OBVIOUS
    <3>2. \A i, j \in 0 .. 0 : off[i] <= off[j]
      BY <2>4
    <3> QED
      BY <2>4, <2>5, <3>1, <3>2 DEF Layout
  <2> QED
    BY <2>3, <2>6 DEF w
<1>2. ASSUME NEW n \in Nat, n \in T
      PROVE  n + 1 \in T
  <2> SUFFICES ASSUME NEW l \in Seq(Downloads), Len(l) = n + 1
               PROVE  \E off : Layout(F(l), l, off)
    OBVIOUS
  <2>1. PICK t \in Seq(Downloads), e \in Downloads : l = Append(t, e)
    <3>1. l # <<>>
      BY EmptySeq
    <3> QED
      BY <3>1, SequenceEmptyOrAppend
  <2>2. Len(t) = n
    BY <2>1, AppendProperties, LenProperties
  <2>3. PICK off : Layout(F(t), t, off)
    BY <1>2, <2>2
  <2>4. Parts(l) = Append(Parts(t), Fields(e))
    BY <2>1, PartsAppend
  <2>5. Parts(t) \in Seq(Seq(Int)) /\ Fields(e) \in Seq(Int)
    BY PartsType, FieldsLaid
  <2>6. FlattenSeq(Parts(l)) = FlattenSeq(Parts(t)) \o Fields(e) /\ FlattenSeq(Parts(t)) \in Seq(Int)
    BY <2>4, <2>5, FlattenAppend, FlattenType
  <2>7. F(l) = F(t) \o Fields(e)
    <3>1. ASSUME NEW x \in Seq(Int), NEW y \in Seq(Int), NEW z \in Seq(Int)
          PROVE  x \o (y \o z) = (x \o y) \o z
      BY Associates
    <3>2. <<c>> \in Seq(Int)
      OBVIOUS
    <3>3. <<c>> \o (FlattenSeq(Parts(t)) \o Fields(e)) = (<<c>> \o FlattenSeq(Parts(t))) \o Fields(e)
      BY <2>5, <2>6, <3>1, <3>2
    <3> QED
      BY <2>6, <3>3
  <2>8. F(t) \in Seq(Int)
    BY <2>3 DEF Layout
  <2> HIDE DEF F
  <2>9. Joins(F(l), F(t), Fields(e), Len(F(t)), Span(e))
    <3>1. Fields(e) \in Seq(Int) /\ Len(Fields(e)) = Span(e) /\ Span(e) \in Nat
      BY FieldsLaid
    <3>2. Len(F(t)) \in Nat
      BY <2>8, LenProperties
    <3> QED
      BY <2>7, <2>8, <3>1, <3>2, Glue, Zenon
  <2>10. \E new : Layout(F(l), Append(t, e), new)
    BY <2>3, <2>9, LayoutAppend, Zenon
  <2> QED
    BY <2>1, <2>10
<1> HIDE DEF T
<1>3. Nat \subseteq T
  BY <1>1, <1>2, SetInduction
<1>4. ASSUME NEW l \in Seq(Downloads)
      PROVE  \E off : Layout(F(l), l, off)
  <2>1. Len(l) \in T
    BY <1>3, LenProperties
  <2> QED
    BY <2>1 DEF T
<1> QED
  BY <1>4

\* What is saved of a list.
LEMMA BytesLaid ==
  ASSUME NEW l \in Seq(Downloads)
  PROVE  Bytes(l)[1] = Len(l) /\ \E off : Layout(Bytes(l), l, off)
<1> DEFINE n == Len(l)
           body == FlattenSeq(Parts(l))
           one == <<n>>
<1>1. n \in Nat /\ n \in Int /\ one \in Seq(Int) /\ Len(one) = 1 /\ one[1] = n
  BY LenProperties
<1>2. Bytes(l) = one \o body
  BY DEF Bytes, Parts
<1>3. body \in Seq(Int)
  BY PartsType, FlattenType
<1>4. \E off : Layout(Bytes(l), l, off)
  BY <1>1, <1>2, LayoutExists
<1>5. Joins(Bytes(l), one, body, 1, Len(body))
  <2>1. Len(body) \in Nat
    BY <1>3, LenProperties
  <2> HIDE DEF body, one
  <2> QED
    BY <1>1, <1>2, <1>3, <2>1, Glue
<1>6. Bytes(l)[1] = n
  <2> HIDE DEF body, one
  <2> QED
    BY <1>1, <1>5 DEF Joins
<1> QED
  BY <1>4, <1>6
-----------------------------------------------------------------------------
(***************************************************************************)
(* The list: what LoadDownloads makes of the beginning of a file that      *)
(* SaveDownloads wrote.                                                    *)
(***************************************************************************)
\* The state of LoadDownloads before the first turn of its loop, and after the next one.
Start == [r |-> AtStart, dls |-> <<>>]
After(w, s) ==
  LET next == ReadDownload(w, s.r)
  IN [r |-> next.r, dls |-> Append(s.dls, next.dl)]
Loading == [r : Reader, dls : Seq(Downloads)]

\* f is the function that LoadDownloads computes, for n turns.
Reading(f, w, n) == f = [i \in 0 .. n |-> IF i = 0 THEN Start ELSE After(w, f[i - 1])]

\* The first state is one, and a turn leads to another, with one more download.
LEMMA AfterType ==
  ASSUME NEW w \in Seq(Int)
  PROVE  /\ Start \in Loading
         /\ \A s \in Loading : /\ After(w, s) \in Loading
                              /\ Len(After(w, s).dls) = Len(s.dls) + 1
                              /\ After(w, s).r = ReadDownload(w, s.r).r
                              /\ After(w, s).dls[Len(s.dls) + 1] = ReadDownload(w, s.r).dl
                              /\ \A j \in 1 .. Len(s.dls) : After(w, s).dls[j] = s.dls[j]
<1>1. Start \in Loading
  <2>1. AtStart \in Reader
    BY DEF AtStart, Reader
  <2>2. <<>> \in Seq(Downloads)
    BY EmptySeq
  <2> QED
    BY <2>1, <2>2 DEF Start, Loading
<1>2. ASSUME NEW s \in Loading
      PROVE  /\ After(w, s) \in Loading
             /\ Len(After(w, s).dls) = Len(s.dls) + 1
             /\ After(w, s).r = ReadDownload(w, s.r).r
             /\ After(w, s).dls[Len(s.dls) + 1] = ReadDownload(w, s.r).dl
             /\ \A j \in 1 .. Len(s.dls) : After(w, s).dls[j] = s.dls[j]
  <2> DEFINE r == ReadDownload(w, s.r).r
             dl == ReadDownload(w, s.r).dl
             l == s.dls
             new == Append(l, dl)
  <2>1. s.r \in Reader /\ l \in Seq(Downloads)
    BY DEF Loading
  <2>2. r \in Reader /\ dl \in Downloads
    BY <2>1, TurnType
  <2>3. After(w, s) = [r |-> r, dls |-> new]
    BY DEF After
  <2> HIDE DEF r, dl, l
  <2>4. /\ new \in Seq(Downloads) /\ Len(new) = Len(l) + 1 /\ new[Len(l) + 1] = dl
        /\ \A j \in 1 .. Len(l) : new[j] = l[j]
    BY <2>1, <2>2, AppendProperties
  <2> HIDE DEF new
  <2>5. After(w, s).r = r /\ After(w, s).dls = new
    BY <2>3
  <2>6. After(w, s) \in Loading
    BY <2>2, <2>3, <2>4 DEF Loading
  <2> QED
    BY <2>4, <2>5, <2>6 DEF r, dl, l
<1> QED
  BY <1>1, <1>2

\* Such a function exists.
LEMMA ReadingExists ==
  ASSUME NEW w \in Seq(Int)
  PROVE  \A n \in Nat : \E f : Reading(f, w, n)
<1> DEFINE T == {n \in Nat : \E f : Reading(f, w, n)}
<1>1. 0 \in T
  <2> DEFINE f == [i \in 0 .. 0 |-> Start]
  <2>1. Reading(f, w, 0)
    BY DEF Reading
  <2> QED
    BY <2>1
<1>2. ASSUME NEW n \in Nat, n \in T
      PROVE  n + 1 \in T
  <2>1. PICK g : Reading(g, w, n)
    BY <1>2
  <2>2. \A i \in 0 .. n : g[i] = IF i = 0 THEN Start ELSE After(w, g[i - 1])
    <3>1. g = [i \in 0 .. n |-> IF i = 0 THEN Start ELSE After(w, g[i - 1])]
      BY <2>1, Zenon DEF Reading
    <3> QED
      BY <3>1, Zenon
  <2> DEFINE f == [i \in 0 .. n + 1 |-> IF i <= n THEN g[i] ELSE After(w, g[n])]
  <2>3. ASSUME NEW i \in 0 .. n + 1
        PROVE  f[i] = IF i = 0 THEN Start ELSE After(w, f[i - 1])
    <3>1. CASE i <= n
      <4>1. i \in 0 .. n /\ f[i] = g[i] /\ (i # 0 => f[i - 1] = g[i - 1])
        BY <3>1
      <4> QED
        BY <2>2, <4>1
    <3>2. CASE i = n + 1
      <4>1. f[i] = After(w, g[n]) /\ i # 0 /\ f[i - 1] = g[n]
        BY <3>2
      <4> QED
        BY <4>1
    <3> QED
      BY <3>1, <3>2
  <2>4. Reading(f, w, n + 1)
    BY <2>3 DEF Reading
  <2> QED
    BY <2>4
<1> HIDE DEF T
<1>3. Nat \subseteq T
  BY <1>1, <1>2, SetInduction
<1> QED
  BY <1>3 DEF T

\* LoadDownloads takes n turns.
Turns(w, count, n) == n = IF w = <<>> THEN count ELSE w[1]

\* f[i] is the state of LoadDownloads after i turns.
Loads(f, w, count, n) ==
  /\ LoadDownloads(w, count) = f[n].dls
  /\ f[0] = Start
  /\ \A i \in 1 .. n : f[i] = After(w, f[i - 1])

\* LoadDownloads takes as many turns as the count says; here they are.
LEMMA LoadIs ==
  ASSUME NEW w \in Seq(Int), NEW count, NEW n \in Nat, Turns(w, count, n)
  PROVE  \E f : Loads(f, w, count, n)
<1> DEFINE f == CHOOSE g : Reading(g, w, n)
<1>1. Reading(f, w, n)
  BY ReadingExists
<1>2. LoadDownloads(w, count) = f[n].dls
  BY Zenon DEF LoadDownloads, Reading, Start, After, Turns
<1> HIDE DEF f
<1>3. \A i \in 0 .. n : f[i] = IF i = 0 THEN Start ELSE After(w, f[i - 1])
  <2>1. f = [i \in 0 .. n |-> IF i = 0 THEN Start ELSE After(w, f[i - 1])]
    BY <1>1, Zenon DEF Reading
  <2> QED
    BY <2>1, Zenon
<1>4. f[0] = Start /\ \A i \in 1 .. n : f[i] = After(w, f[i - 1])
  BY <1>3
<1>5. Loads(f, w, count, n)
  BY <1>2, <1>4 DEF Loads
<1> QED
  BY <1>5

\* Whatever the file, LoadDownloads makes a list of downloads of it.
LEMMA LoadType ==
  ASSUME NEW w \in Seq(Int), NEW count, NEW n \in Nat, Turns(w, count, n)
  PROVE  LoadDownloads(w, count) \in Seq(Downloads)
<1>p. PICK f : Loads(f, w, count, n)
  BY LoadIs
<1>1. /\ LoadDownloads(w, count) = f[n].dls
      /\ f[0] = Start
      /\ \A i \in 1 .. n : f[i] = After(w, f[i - 1])
  BY <1>p DEF Loads
<1> DEFINE T == {i \in Nat : i <= n => f[i] \in Loading}
<1>2. 0 \in T
  BY <1>1, AfterType
<1>3. ASSUME NEW i \in Nat, i \in T
      PROVE  i + 1 \in T
  <2> SUFFICES ASSUME i + 1 <= n
               PROVE  f[i + 1] \in Loading
    OBVIOUS
  <2>1. i + 1 \in 1 .. n /\ (i + 1) - 1 = i /\ f[i] \in Loading
    BY <1>3
  <2>2. f[i + 1] = After(w, f[i])
    BY <1>1, <2>1
  <2> QED
    BY <2>1, <2>2, AfterType
<1> HIDE DEF T
<1>4. Nat \subseteq T
  BY <1>2, <1>3, SetInduction
<1>5. f[n] \in Loading
  BY <1>4 DEF T
<1> QED
  BY <1>1, <1>5 DEF Loading

\* s is the beginning of t.
Begins(s, t) == Len(s) <= Len(t) /\ \A i \in 1 .. Len(s) : s[i] = t[i]

\* dls is what is read of the beginning w of the file of l.
Reads(dls, w, l, off) ==
  /\ dls \in Seq(Downloads)
  /\ Len(dls) = Len(l)
  /\ \A j \in 1 .. Len(l) :
       /\ off[j] <= Len(w) => dls[j] = l[j]
       /\ off[j - 1] >= Len(w) => dls[j].Status = "FINISH"

\* What is read of the beginning w of the file of a list: entries that are all there are
\* read as they were written, and those that are not there at all are complete.
LEMMA LoadReads ==
  ASSUME NEW B, NEW l \in Seq(Downloads), NEW off, Layout(B, l, off), B[1] = Len(l),
         NEW w \in Seq(Int), w # <<>>, Begins(w, B), NEW count
  PROVE  Reads(LoadDownloads(w, count), w, l, off)
<1> DEFINE n == Len(l)
           N == Len(w)
<1>b. \A i \in 1 .. Len(w) : w[i] = B[i]
  BY DEF Begins
<1>1. n \in Nat /\ N \in Nat \ {0} /\ w[1] = n
  <2>1. n \in Nat /\ N \in Nat
    BY LenProperties
  <2>2. N # 0
    BY EmptySeq
  <2>3. 1 \in 1 .. Len(w)
    BY <2>1, <2>2
  <2> QED
    BY <1>b, <2>1, <2>2, <2>3
<1>2. /\ off \in [0 .. n -> Nat] /\ off[0] = 1
      /\ \A i \in 1 .. n : off[i] = off[i - 1] + Span(l[i]) /\ Laid(B, off[i - 1], l[i])
      /\ \A i, j \in 0 .. n : i <= j => off[i] <= off[j]
  BY DEF Layout
<1>p. PICK f : Loads(f, w, count, n)
  <2>1. Turns(w, count, n)
    BY <1>1 DEF Turns
  <2> HIDE DEF n
  <2> QED
    BY <1>1, <2>1, LoadIs
<1>3. /\ LoadDownloads(w, count) = f[n].dls
      /\ f[0] = Start
      /\ \A i \in 1 .. n : f[i] = After(w, f[i - 1])
  BY <1>p DEF Loads
<1> DEFINE AsFar(i) ==
             /\ f[i] \in Loading
             /\ Len(f[i].dls) = i
             /\ off[i] <= N => f[i].r.at = off[i] + 1
             /\ off[i] > N => f[i].r.at = N + 1
             /\ \A j \in 1 .. i : /\ off[j] <= N => f[i].dls[j] = l[j]
                                  /\ off[j - 1] >= N => f[i].dls[j].Status = "FINISH"
           T == {i \in Nat : i <= n => AsFar(i)}
<1>4. 0 \in T
  <2>1. f[0] = Start /\ Start \in Loading
    BY <1>3, AfterType
  <2>2. Start.r.at = 2 /\ Start.dls = <<>>
    BY DEF Start, AtStart
  <2>3. Len(f[0].dls) = 0
    BY <2>1, <2>2, EmptySeq
  <2>4. f[0].r.at = off[0] + 1 /\ off[0] <= N
    BY <1>1, <1>2, <2>1, <2>2
  <2>5. AsFar(0)
    BY <1>1, <1>2, <2>1, <2>3, <2>4
  <2> QED
    BY <2>5
<1>5. ASSUME NEW i \in Nat, i \in T
      PROVE  i + 1 \in T
  <2> HIDE DEF AsFar
  <2> SUFFICES ASSUME i + 1 <= n
               PROVE  AsFar(i + 1)
    OBVIOUS
  <2>r. AsFar(i)
    BY <1>5, <1>1
  <2> USE DEF AsFar
  <2> DEFINE s == f[i]
             t == f[i + 1]
             d == l[i + 1]
             a == off[i]
             b == off[i + 1]
             next == ReadDownload(w, s.r)
  <2>1. i + 1 \in 1 .. n /\ (i + 1) - 1 = i /\ i \in 0 .. n /\ i + 1 \in 0 .. n
    BY <1>1
  <2>2. AsFar(i)
    BY <2>r
  <2>3. t = After(w, s)
    BY <1>3, <2>1
  <2>4. /\ t \in Loading /\ Len(t.dls) = i + 1 /\ t.r = next.r /\ t.dls[i + 1] = next.dl
        /\ \A j \in 1 .. i : t.dls[j] = s.dls[j]
    <3>1. s \in Loading /\ Len(s.dls) = i
      BY <2>2
    <3> HIDE DEF s, t
    <3> QED
      BY <2>3, <3>1, AfterType
  <2>5. s.r \in Reader
    BY <2>2 DEF Loading
  <2>6. d \in Downloads
    BY <2>1, ElementOfSeq
  <2>7. a \in Nat /\ b \in Nat /\ b = a + Span(d) /\ Laid(B, a, d)
    BY <1>2, <2>1
  <2>8. Span(d) \in Nat \ {0}
    BY <2>6, FieldsLaid
  <2>9. (a <= N => s.r.at = a + 1) /\ (a > N => s.r.at = N + 1)
    BY <2>2
  <2>10. ASSUME a >= N
         PROVE  t.r.at = N + 1 /\ next.dl.Status = "FINISH"
    <3>1. s.r.at = N + 1
      BY <1>1, <2>7, <2>9, <2>10
    <3>2. s.r.at > Len(w)
      BY <1>1, <3>1
    <3> QED
      BY <2>4, <2>5, <3>1, <3>2, TurnType
  <2>11. ASSUME a <= N
         PROVE  /\ b <= N => next.dl = d /\ t.r.at = b + 1
                /\ b > N => t.r.at = N + 1
    <3>1. s.r.at = a + 1
      BY <2>9, <2>11
    <3>2. /\ a + Span(d) <= N => next.dl = d /\ next.r.at = a + Span(d) + 1
          /\ a + Span(d) > N => next.r.at = N + 1
      <4> DEFINE r == s.r
      <4>1. r \in Reader /\ r.at = a + 1 /\ a <= Len(w) /\ \A k \in 1 .. Len(w) : w[k] = B[k]
        BY <1>b, <2>5, <2>11, <3>1
      <4>2. a \in Nat /\ d \in Downloads /\ Laid(B, a, d)
        BY <2>6, <2>7
      <4> HIDE DEF r, a, d
      <4>3. /\ a + Span(d) <= Len(w) => /\ ReadDownload(w, r).dl = d
                                        /\ ReadDownload(w, r).r.at = a + Span(d) + 1
            /\ a + Span(d) > Len(w) => ReadDownload(w, r).r.at = Len(w) + 1
        BY <4>1, <4>2, EntryReads, Zenon
      <4> QED
        BY <4>3, Zenon DEF r
    <3> HIDE DEF a, b, d, t, s, N
    <3> QED
      BY <2>4, <2>7, <3>2
  <2> HIDE DEF s, t, d, a, b, N, next
  <2>12. b >= a /\ (b <= N => a <= N)
    BY <1>1, <2>7, <2>8 DEF N
  <2>13. /\ b <= N => t.r.at = b + 1
         /\ b > N => t.r.at = N + 1
    <3>1. CASE a <= N
      BY <2>11, <3>1
    <3>2. CASE ~(a <= N)
      BY <1>1, <2>7, <2>10, <2>12, <3>2 DEF N
    <3> QED
      BY <3>1, <3>2
  <2>14. ASSUME NEW j \in 1 .. i + 1
         PROVE  /\ off[j] <= N => t.dls[j] = l[j]
                /\ off[j - 1] >= N => t.dls[j].Status = "FINISH"
    <3>1. CASE j \in 1 .. i
      BY <2>2, <2>4, <3>1 DEF s
    <3>2. CASE j = i + 1
      <4>1. off[j] = b /\ off[j - 1] = a /\ t.dls[j] = next.dl /\ l[j] = d
        BY <2>1, <2>4, <3>2 DEF a, b, d
      <4> QED
        BY <2>10, <2>11, <2>12, <4>1
    <3> QED
      BY <3>1, <3>2
  <2> QED
    BY <2>4, <2>13, <2>14 DEF t, b
<1>6. Nat \subseteq T
  <2> HIDE DEF T
  <2> QED
    BY <1>4, <1>5, SetInduction
<1>7. AsFar(n)
  <2>1. n \in T
    BY <1>1, <1>6
  <2> HIDE DEF AsFar
  <2> QED
    BY <1>1, <2>1
<1>8. f[n].dls \in Seq(Downloads)
  BY <1>7 DEF Loading
<1> QED
  BY <1>3, <1>7, <1>8 DEF Reads
-----------------------------------------------------------------------------
(***************************************************************************)
(* The sessions of the program.                                            *)
(***************************************************************************)
\* The file on disk is the beginning of what was last saved, and all of it if that is
\* known; while it is written, the stream holds the rest.
Held ==
  /\ List \in Seq(Downloads)
  /\ listed \in [list : Seq(Downloads), whole : BOOLEAN]
  /\ store \in Seq(Int) /\ Begins(store, Bytes(listed.list))
  /\ listed.whole => store = Bytes(listed.list)
  /\ pc = "downloads" /\ out # <<>> =>
       /\ ~listed.whole /\ out \in Seq(Int)
       /\ store \o out = Bytes(listed.list)
  /\ pc \in {"off", "up"} => out = <<>>

\* What is saved of a list begins with their number.
LEMMA BytesType ==
  ASSUME NEW l \in Seq(Downloads)
  PROVE  /\ Bytes(l) \in Seq(Int) /\ Bytes(l) # <<>> /\ Len(Bytes(l)) \in Nat \ {0}
         /\ Bytes(l)[1] = Len(l) /\ Len(l) \in Nat
<1>1. PICK off : Layout(Bytes(l), l, off)
  BY BytesLaid
<1>2. Bytes(l) \in Seq(Int) /\ off[0] = 1 /\ off[Len(l)] = Len(Bytes(l)) /\ off[0] <= off[Len(l)]
  <2>1. Len(l) \in Nat
    BY LenProperties
  <2>2. 0 \in 0 .. Len(l) /\ Len(l) \in 0 .. Len(l) /\ 0 <= Len(l)
    BY <2>1
  <2> QED
    BY <1>1, <2>2 DEF Layout
<1>3. Len(Bytes(l)) \in Nat /\ Len(l) \in Nat
  BY <1>2, LenProperties
<1>4. Len(Bytes(l)) \in Nat \ {0}
  BY <1>2, <1>3
<1>5. Bytes(l) # <<>>
  BY <1>2, <1>4, EmptySeq
<1> QED
  BY <1>2, <1>3, <1>4, <1>5, BytesLaid

\* The next number goes from the stream to the file.
LEMMA WriteMoves ==
  ASSUME NEW s \in Seq(Int), NEW o \in Seq(Int), o # <<>>
  PROVE  /\ Append(s, Head(o)) \in Seq(Int) /\ Tail(o) \in Seq(Int)
         /\ Append(s, Head(o)) \o Tail(o) = s \o o
<1> DEFINE h == Head(o)
           r == Tail(o)
           one == <<h>>
<1>1. h \in Int /\ r \in Seq(Int)
  BY HeadTailProperties
<1>2. o = one \o r /\ one \in Seq(Int) /\ Append(s, h) = s \o one /\ Append(s, h) \in Seq(Int)
  BY <1>1
<1> HIDE DEF h, r, one
<1>3. (s \o one) \o r = s \o (one \o r)
  BY <1>1, <1>2, Associates, SMTT(40)
<1>4. Append(s, h) \o r = s \o o
  BY <1>2, <1>3, Zenon
<1> QED
  BY <1>1, <1>2, <1>4 DEF h, r

\* What the rest is added to is the beginning.
LEMMA BeginsPart ==
  ASSUME NEW u \in Seq(Int), NEW r \in Seq(Int), NEW t, t = u \o r
  PROVE  Begins(u, t)
<1>1. Len(u) \in Nat /\ Len(r) \in Nat
  BY LenProperties
<1>2. Joins(t, u, r, Len(u), Len(r))
  BY <1>1, Glue
<1>3. Len(t) = Len(u) + Len(r) /\ \A i \in 1 .. Len(u) : t[i] = u[i]
  BY <1>2, Zenon DEF Joins
<1>4. Len(u) <= Len(t)
  BY <1>1, <1>3
<1> QED
  BY <1>3, <1>4, Zenon DEF Begins

\* LoadDownloads makes a list of downloads of any beginning of what was saved.
LEMMA LaunchType ==
  ASSUME NEW l \in Seq(Downloads), NEW w \in Seq(Int), Begins(w, Bytes(l)),
         NEW count \in Counts
  PROVE  LoadDownloads(w, count) \in Seq(Downloads)
<1>1. count \in Nat
  BY ConstantsAssumption
<1>2. CASE w = <<>>
  <2>1. Turns(w, count, count)
    BY <1>2 DEF Turns
  <2> QED
    BY <1>1, <2>1, LoadType
<1>3. CASE w # <<>>
  <2>1. Len(w) \in Nat \ {0}
    BY <1>3, EmptySeq
  <2>2. w[1] = Len(l) /\ Len(l) \in Nat
    <3>1. 1 \in 1 .. Len(w)
      BY <2>1
    <3>2. w[1] = Bytes(l)[1]
      BY <3>1 DEF Begins
    <3> QED
      BY <3>2, BytesType
  <2>3. Turns(w, count, Len(l))
    BY <1>3, <2>2 DEF Turns
  <2> QED
    BY <2>2, <2>3, LoadType
<1> QED
  BY <1>2, <1>3

\* A download that goes on is still one that a list may hold.
LEMMA ProgressType ==
  ASSUME Total <= LongMax, NEW d \in Downloads, d.iDataPos < Total
  PROVE  [d EXCEPT !.iFileSize = Total, !.iDataPos = @ + 1,
                   !.Status = IF d.iDataPos + 1 = Total THEN "FINISH" ELSE "STOP"]
           \in Downloads
<1>1. Total \in Nat \ {0} /\ LongMax \in Nat
  BY LongWidth, ConstantsAssumption
<1>2. d.iDataPos \in Long /\ d.kind \in Int /\ d.pLink \in Seq(Int) /\ d.pFileName \in Seq(Int)
  BY DEF Downloads, Long
<1> DEFINE p == d.iDataPos + 1
           s == IF p = Total THEN "FINISH" ELSE "STOP"
<1>3. p \in Long /\ Total \in Long
  BY <1>1, <1>2 DEF Long
<1>4. [d EXCEPT !.iFileSize = Total, !.iDataPos = @ + 1, !.Status = s]
        = [d EXCEPT !.iFileSize = Total, !.iDataPos = p, !.Status = s]
  <2> HIDE DEF s
  <2>1. d = [kind |-> d.kind, pLink |-> d.pLink, pFileName |-> d.pFileName,
             iFileSize |-> d.iFileSize, iDataPos |-> d.iDataPos, Status |-> d.Status]
    BY DEF Downloads
  <2> QED
    BY <2>1
<1>5. (s = "FINISH" <=> Total = p) /\ s \in {"STOP", "FINISH"}
  OBVIOUS
<1> DEFINE R == [kind : Int, pLink : Seq(Int), pFileName : Seq(Int), iFileSize : Long,
                 iDataPos : Long, Status : {"STOP", "FINISH"}]
           e == [d EXCEPT !.iFileSize = Total, !.iDataPos = p, !.Status = s]
<1>6. d \in R
  BY DEF Downloads, Long
<1> HIDE DEF p, s
<1>7. e \in R /\ e.iFileSize = Total /\ e.iDataPos = p /\ e.Status = s
  BY <1>3, <1>5, <1>6
<1> HIDE DEF e
<1>8. e \in Downloads
  BY <1>5, <1>7 DEF Downloads, Long
<1> QED
  BY <1>4, <1>8 DEF p, s, e

\* What touches neither the file nor the history keeps Held.
LEMMA HeldStays ==
  ASSUME Held, List' \in Seq(Downloads), UNCHANGED <<store, listed>>,
         out' = <<>> \/ (pc' = pc /\ out' = out) \/ (pc' # "downloads" /\ pc' \notin {"off", "up"})
  PROVE  Held'
BY DEF Held

\* The first state.
LEMMA HeldInit == Init => Held
<1> SUFFICES ASSUME Init
             PROVE  Held
  OBVIOUS
<1>1. List = <<>> /\ store = <<0>> /\ out = <<>> /\ listed = [list |-> <<>>, whole |-> TRUE]
  BY DEF Init
<1>2. <<>> \in Seq(Downloads)
  BY EmptySeq
<1>3. Bytes(<<>>) = <<0>>
  <2>1. Parts(<<>>) = <<>>
    <3>1. Len(Parts(<<>>)) = 0 /\ Parts(<<>>) \in Seq(Seq(Int))
      BY <1>2, PartsType, EmptySeq
    <3> QED
      BY <3>1, EmptySeq
  <2>2. Bytes(<<>>) = <<Len(<<>>)>> \o FlattenSeq(Parts(<<>>))
    BY DEF Bytes, Parts
  <2>3. <<0>> \in Seq(Int) /\ Len(<<>>) = 0
    OBVIOUS
  <2>4. <<0>> \o <<>> = <<0>>
    BY <2>3, ConcatEmptySeq
  <2> QED
    BY <2>1, <2>2, <2>3, <2>4, FlattenEmpty
<1>4. listed.list = <<>> /\ listed \in [list : Seq(Downloads), whole : BOOLEAN]
  BY <1>1, <1>2
<1>5. store \in Seq(Int) /\ Begins(store, store)
  <2>1. store \in Seq(Int) /\ Len(store) = 1
    BY <1>1
  <2> QED
    BY <2>1 DEF Begins
<1> QED
  BY <1>1, <1>2, <1>3, <1>4, <1>5 DEF Held

\* Every step.
LEMMA HeldNext ==
  ASSUME Total <= LongMax
  PROVE  Held /\ [Next]_vars => Held'
<1> SUFFICES ASSUME Held, [Next]_vars
             PROVE  Held'
  OBVIOUS
<1>1. /\ List \in Seq(Downloads)
      /\ listed \in [list : Seq(Downloads), whole : BOOLEAN]
      /\ listed.list \in Seq(Downloads)
      /\ store \in Seq(Int) /\ Begins(store, Bytes(listed.list))
      /\ listed.whole => store = Bytes(listed.list)
      /\ pc = "downloads" /\ out # <<>> =>
           /\ ~listed.whole /\ out \in Seq(Int)
           /\ store \o out = Bytes(listed.list)
      /\ pc \in {"off", "up"} => out = <<>>
  BY DEF Held
<1>2. CASE Launch
  <2>1. PICK count \in Counts : List' = LoadDownloads(store, count)
    BY <1>2 DEF Launch
  <2>2. pc = "off" /\ UNCHANGED <<store, out, listed>>
    BY <1>2 DEF Launch, files
  <2>3. List' \in Seq(Downloads)
    BY <1>1, <2>1, LaunchType
  <2> QED
    BY <1>1, <2>2, <2>3, HeldStays
<1>3. ASSUME NEW d \in New, AddDownload(d)
      PROVE  Held'
  <2>1. List' = Append(List, d) /\ UNCHANGED <<pc, store, out, listed>>
    BY <1>3 DEF AddDownload, files
  <2>2. d \in Downloads
    BY ConstantsAssumption
  <2>3. List' \in Seq(Downloads)
    BY <1>1, <2>1, <2>2, AppendProperties
  <2> QED
    BY <2>1, <2>3, HeldStays
<1>4. ASSUME NEW i \in 1 .. MaxList, DeleteDownload(i)
      PROVE  Held'
  <2>1. i \in DOMAIN List /\ List' = RemoveAt(List, i) /\ UNCHANGED <<pc, store, out, listed>>
    BY <1>4 DEF DeleteDownload, files
  <2>2. List' \in Seq(Downloads)
    <3>1. i \in 1 .. Len(List) /\ Len(List) \in Nat
      BY <1>1, <2>1
    <3> DEFINE a == SubSeq(List, 1, i - 1)
               b == SubSeq(List, i + 1, Len(List))
    <3>2. \A k \in 1 .. Len(List) : List[k] \in Downloads
      BY <1>1, ElementOfSeq
    <3>3. a \in Seq(Downloads)
      <4>1. \A k \in 1 .. i - 1 : List[k] \in Downloads
        BY <3>1, <3>2
      <4> QED
        BY <3>1, <4>1, SubSeqProperties
    <3>4. b \in Seq(Downloads)
      <4>1. \A k \in i + 1 .. Len(List) : List[k] \in Downloads
        BY <3>1, <3>2
      <4> QED
        BY <3>1, <4>1, SubSeqProperties
    <3>5. List' = a \o b
      BY <2>1 DEF RemoveAt
    <3> HIDE DEF a, b
    <3> QED
      BY <3>3, <3>4, <3>5, ConcatProperties
  <2> QED
    BY <2>1, <2>2, HeldStays
<1>5. ASSUME NEW i \in 1 .. MaxList, Progress(i)
      PROVE  Held'
  <2> DEFINE d == List[i]
             s == IF d.iDataPos + 1 = Total THEN "FINISH" ELSE "STOP"
             e == [d EXCEPT !.iFileSize = Total, !.iDataPos = @ + 1, !.Status = s]
  <2>1. /\ i \in 1 .. Len(List) /\ d.iDataPos < Total
        /\ UNCHANGED <<pc, store, out, listed>>
    BY <1>1, <1>5 DEF Progress, files
  <2>2. d \in Downloads
    BY <1>1, <2>1, ElementOfSeq
  <2>3. e \in Downloads
    <3> HIDE DEF d
    <3> QED
      BY <2>1, <2>2, ProgressType
  <2>4. List' = [List EXCEPT ![i] = e]
    BY <1>1, <1>5, <2>1 DEF Progress
  <2> HIDE DEF e
  <2>5. List' \in Seq(Downloads)
    BY <1>1, <2>1, <2>3, <2>4, ExceptSeq
  <2> QED
    BY <2>1, <2>5, HeldStays
<1>6. CASE Resize
  BY <1>1, <1>6, HeldStays DEF Resize, files
<1>7. CASE SaveDownloads
  <2>1. pc = "up" /\ pc' = "downloads" /\ List' = List /\ out = <<>>
    BY <1>1, <1>7 DEF SaveDownloads
  <2>2. CASE store' = <<>> /\ out' = Bytes(List)
    <3>1. listed' = [list |-> List, whole |-> FALSE]
      BY <1>7, <2>2 DEF SaveDownloads
    <3>2. listed'.list = List /\ listed'.whole = FALSE
      BY <3>1
    <3>3. listed' \in [list : Seq(Downloads), whole : BOOLEAN]
      BY <1>1, <3>1
    <3> DEFINE B == Bytes(List)
    <3>4. B \in Seq(Int) /\ Len(B) \in Nat
      BY <1>1, BytesType
    <3> HIDE DEF B
    <3>5. <<>> \o B = B /\ <<>> \in Seq(Int)
      BY <3>4, ConcatEmptySeq
    <3>6. Begins(<<>>, B)
      BY <3>4 DEF Begins
    <3> QED
      BY <1>1, <2>1, <2>2, <3>2, <3>3, <3>4, <3>5, <3>6 DEF Held, B
  <2>3. CASE UNCHANGED <<store, out>>
    <3>1. CASE store = <<>>
      <4>1. listed' = [list |-> List, whole |-> FALSE] /\ store' = <<>> /\ out' = <<>>
        BY <1>7, <2>1, <2>3, <3>1 DEF SaveDownloads
      <4>2. listed'.list = List /\ listed'.whole = FALSE
        BY <4>1
      <4>3. listed' \in [list : Seq(Downloads), whole : BOOLEAN]
        BY <1>1, <4>1
      <4> DEFINE B == Bytes(List)
      <4>4. B \in Seq(Int) /\ Len(B) \in Nat
        BY <1>1, BytesType
      <4> HIDE DEF B
      <4>5. Begins(<<>>, B) /\ <<>> \in Seq(Int)
        BY <4>4 DEF Begins
      <4> QED
        BY <1>1, <2>1, <4>1, <4>2, <4>3, <4>5 DEF Held, B
    <3>2. CASE store # <<>>
      <4>1. UNCHANGED <<store, listed, List>> /\ out' = <<>>
        BY <1>7, <2>1, <2>3, <3>2 DEF SaveDownloads
      <4> QED
        BY <1>1, <4>1, HeldStays
    <3> QED
      BY <3>1, <3>2
  <2> QED
    BY <1>7, <2>2, <2>3 DEF SaveDownloads
<1>8. CASE Write
  <2>1. /\ pc \in {"downloads", "config"} /\ out # <<>> /\ UNCHANGED <<pc, List, listed>>
        /\ out' = Tail(out)
        /\ pc = "downloads" => store' = Append(store, Head(out))
        /\ pc # "downloads" => store' = store
    BY <1>8 DEF Write
  <2>2. CASE pc = "downloads"
    <3> DEFINE B == Bytes(listed.list)
    <3>1. ~listed.whole /\ out \in Seq(Int) /\ store \o out = B
      BY <1>1, <2>1, <2>2
    <3>2. /\ store' \in Seq(Int) /\ out' \in Seq(Int) /\ store' \o out' = B
      BY <1>1, <2>1, <2>2, <3>1, WriteMoves
    <3> HIDE DEF B
    <3>3. Begins(store', B)
      BY <3>2, BeginsPart
    <3>4. B = Bytes(listed'.list) /\ ~listed'.whole
      BY <2>1, <3>1 DEF B
    <3> QED
      BY <1>1, <2>1, <2>2, <3>2, <3>3, <3>4 DEF Held
  <2>3. CASE pc = "config"
    BY <1>1, <2>1, <2>3, HeldStays
  <2> QED
    BY <2>1, <2>2, <2>3
<1>9. CASE SaveConfig
  <2>1. /\ pc = "downloads" /\ out = <<>> /\ pc' = "config" /\ UNCHANGED <<List, store>>
        /\ listed' = [listed EXCEPT !.whole = @ \/ store = Bytes(listed.list)]
    BY <1>9 DEF SaveConfig
  <2> DEFINE x == listed.whole \/ store = Bytes(listed.list)
  <2>2. listed.whole \in BOOLEAN /\ x \in BOOLEAN
    BY <1>1
  <2>3. listed' = [list |-> listed.list, whole |-> x]
    BY <1>1, <2>1
  <2> HIDE DEF x
  <2>4. /\ listed'.list = listed.list /\ listed'.whole = x
        /\ listed' \in [list : Seq(Downloads), whole : BOOLEAN]
    BY <1>1, <2>2, <2>3
  <2>5. x => store = Bytes(listed.list)
    BY <1>1 DEF x
  <2> QED
    BY <1>1, <2>1, <2>4, <2>5 DEF Held
<1>10. ASSUME Gone
       PROVE  Held'
  <2>1. List' = <<>> /\ out' = <<>> /\ UNCHANGED <<store, listed>>
    BY <1>10 DEF Gone
  <2>2. List' \in Seq(Downloads)
    BY <2>1, EmptySeq
  <2> QED
    BY <2>1, <2>2, HeldStays
<1>11. CASE Exit
  BY <1>10, <1>11 DEF Exit
<1>12. CASE Crash
  BY <1>10, <1>12 DEF Crash
<1>13. CASE UNCHANGED vars
  BY <1>1, <1>13, HeldStays DEF vars, files
<1> QED
  BY <1>2, <1>3, <1>4, <1>5, <1>6, <1>7, <1>8, <1>9, <1>11, <1>12, <1>13, Zenon DEF Next

(***************************************************************************)
(* At every moment the file on disk is the beginning of what the last save *)
(* writes, and all of it once that save has been seen to end.              *)
(***************************************************************************)
THEOREM FileHolds ==
  ASSUME Total <= LongMax
  PROVE  Spec => []Held
<1>1. Init => Held
  BY HeldInit
<1>2. Held /\ [Next]_vars => Held'
  BY HeldNext
<1> QED
  BY <1>1, <1>2, PTL DEF Spec

(***************************************************************************)
(* A list whose save came to its end is read back as it was, whatever      *)
(* lists, links, names and sizes there are: LoadDownloads is the inverse   *)
(* of SaveDownloads.                                                       *)
(***************************************************************************)
THEOREM ListComesBack == Spec => []ListKept
<1>1. ASSUME Total <= LongMax
      PROVE  Spec => []ListKept
  <2>1. Held => ListKept
    <3> SUFFICES ASSUME Held, listed.whole, NEW count \in Counts
                 PROVE  LoadDownloads(store, count) = listed.list
      BY DEF ListKept
    <3> DEFINE l == listed.list
               B == Bytes(l)
               dls == LoadDownloads(B, count)
    <3>1. l \in Seq(Downloads) /\ store = B
      BY DEF Held
    <3> HIDE DEF l
    <3>2. B \in Seq(Int) /\ B # <<>> /\ Len(B) \in Nat /\ Len(l) \in Nat /\ B[1] = Len(l)
      BY <3>1, BytesType
    <3>3. PICK off : Layout(B, l, off)
      BY <3>1, BytesLaid
    <3> HIDE DEF B
    <3>4. \A j \in 1 .. Len(l) : off[j] <= Len(B)
      <4>1. /\ off[Len(l)] = Len(B)
            /\ \A i, j \in 0 .. Len(l) : i <= j => off[i] <= off[j]
        BY <3>3 DEF Layout
      <4>2. \A j \in 1 .. Len(l) : j \in 0 .. Len(l) /\ j <= Len(l) /\ Len(l) \in 0 .. Len(l)
        BY <3>2
      <4> QED
        BY <4>1, <4>2
    <3>b. Begins(B, B)
      BY <3>2 DEF Begins
    <3>5. /\ dls \in Seq(Downloads)
          /\ Len(dls) = Len(l)
          /\ \A j \in 1 .. Len(l) : off[j] <= Len(B) => dls[j] = l[j]
      BY <3>1, <3>2, <3>3, <3>b, LoadReads DEF Reads
    <3> HIDE DEF dls
    <3>6. dls = l
      BY <3>1, <3>4, <3>5, SeqEqual
    <3> QED
      BY <3>1, <3>6 DEF dls, l
  <2> QED
    BY <1>1, <2>1, FileHolds, PTL
<1>2. ASSUME ~(Total <= LongMax)
      PROVE  Spec => []ListKept
  <2>1. ListKept
    BY <1>2 DEF ListKept
  <2> QED
    BY <2>1, PTL
<1> QED
  BY <1>1, <1>2

(***************************************************************************)
(* Of a save that was cut short LoadDownloads makes a list of the right    *)
(* length, in which all but one of the entries that are not as they were   *)
(* saved are complete.                                                     *)
(***************************************************************************)
THEOREM TornIsFinished ==
  ASSUME Total <= LongMax
  PROVE  Spec => []TornFinished
<1>1. Held => TornFinished
  <2> DEFINE l == listed.list
             B == Bytes(l)
             dls == LoadDownloads(store, 0)
             Wrong == {i \in DOMAIN dls : dls[i] # l[i] /\ dls[i].Status # "FINISH"}
  <2> SUFFICES ASSUME Held, store # <<>>
               PROVE  Len(dls) = Len(l) /\ Cardinality(Wrong) <= 1
    BY DEF TornFinished
  <2>1. l \in Seq(Downloads) /\ store \in Seq(Int) /\ Begins(store, B)
    BY DEF Held
  <2> HIDE DEF l
  <2>2. B \in Seq(Int) /\ Len(l) \in Nat /\ B[1] = Len(l) /\ Len(store) \in Nat
    BY <2>1, BytesType, LenProperties
  <2>3. PICK off : Layout(B, l, off)
    BY <2>1, BytesLaid
  <2> HIDE DEF B
  <2>5. /\ dls \in Seq(Downloads)
        /\ Len(dls) = Len(l)
        /\ \A j \in 1 .. Len(l) :
             /\ off[j] <= Len(store) => dls[j] = l[j]
             /\ off[j - 1] >= Len(store) => dls[j].Status = "FINISH"
    <3> DEFINE w == store
               c == 0
    <3>1. w \in Seq(Int) /\ w # <<>> /\ Begins(w, B)
      BY <2>1
    <3>2. dls = LoadDownloads(w, c)
      OBVIOUS
    <3> HIDE DEF w, c, dls
    <3>3. Reads(LoadDownloads(w, c), w, l, off)
      BY <2>1, <2>2, <2>3, <3>1, LoadReads
    <3> QED
      BY <3>2, <3>3, Zenon DEF w, Reads
  <2> HIDE DEF dls
  <2>6. off \in [0 .. Len(l) -> Nat] /\ \A i, j \in 0 .. Len(l) : i <= j => off[i] <= off[j]
    BY <2>3 DEF Layout
  <2>7. ASSUME NEW i \in Wrong
        PROVE  i \in 1 .. Len(l) /\ off[i - 1] < Len(store) /\ Len(store) < off[i]
    <3>1. i \in 1 .. Len(l)
      BY <2>5
    <3>2. off[i] \in Nat /\ off[i - 1] \in Nat
      BY <2>2, <2>6, <3>1
    <3> QED
      BY <2>2, <2>5, <3>1, <3>2, SMTT(30)
  <2>8. ASSUME NEW i \in Wrong, NEW j \in Wrong, i < j
        PROVE  FALSE
    <3>1. /\ i \in 1 .. Len(l) /\ j \in 1 .. Len(l)
          /\ off[j - 1] < Len(store) /\ Len(store) < off[i]
      BY <2>7
    <3>2. i \in 0 .. Len(l) /\ j - 1 \in 0 .. Len(l) /\ i <= j - 1
      BY <2>2, <2>8, <3>1
    <3>3. off[i] <= off[j - 1] /\ off[i] \in Nat /\ off[j - 1] \in Nat
      BY <2>6, <3>2
    <3> QED
      BY <2>2, <3>1, <3>3
  <2>9. \A i \in Wrong : i \in Int
    BY <2>2, <2>7
  <2> HIDE DEF Wrong
  <2>10. \A i, j \in Wrong : i = j
    <3> SUFFICES ASSUME NEW i \in Wrong, NEW j \in Wrong, i # j
                 PROVE  FALSE
      OBVIOUS
    <3>1. i < j \/ j < i
      BY <2>9
    <3> QED
      BY <2>8, <3>1
  <2>11. Cardinality(Wrong) <= 1
    <3>1. CASE Wrong = {}
      BY <3>1, FS_EmptySet
    <3>2. CASE Wrong # {}
      <4>1. PICK k : k \in Wrong
        BY <3>2
      <4>2. Wrong = {k}
        BY <2>10, <4>1
      <4>3. Cardinality({k}) = 1
        BY FS_Singleton
      <4> QED
        BY <4>2, <4>3
    <3> QED
      BY <3>1, <3>2
  <2> QED
    BY <2>5, <2>11
<1> QED
  BY <1>1, FileHolds, PTL
-----------------------------------------------------------------------------
(***************************************************************************)
(* The options, from one session to the next.                              *)
(***************************************************************************)
\* The names and values of the program are legible, and its names differ.
LEMMA NamesLegible ==
  /\ Width \in Seq(Signs) /\ LegibleName(Width)
  /\ FullScreenRead \in Seq(Signs) /\ LegibleName(FullScreenRead)
  /\ FullscreenWritten \in Seq(Signs) /\ LegibleName(FullscreenWritten)
  /\ Width # FullScreenRead /\ Width # FullscreenWritten
<1>1. ASSUME NEW c \in Signs, NEW d \in Signs, c # "#", d \notin Gaps
      PROVE  <<c, d>> \in Seq(Signs) /\ LegibleName(<<c, d>>)
  <2> DEFINE n == <<c, d>>
  <2>1. n \in Seq(Signs) /\ Len(n) = 2 /\ n[1] = c /\ n[2] = d
    OBVIOUS
  <2> HIDE DEF n
  <2>2. LegibleName(n)
    BY <1>1, <2>1 DEF LegibleName
  <2> QED
    BY <2>1, <2>2 DEF n
<1>2. "w" \in Signs /\ "i" \in Signs /\ "f" \in Signs /\ "S" \in Signs /\ "s" \in Signs
  BY DEF Signs
<1>3. "i" \notin Gaps /\ "S" \notin Gaps /\ "s" \notin Gaps
  BY DEF Gaps, Blanks
<1>4. <<"w", "i">> # <<"f", "S">> /\ <<"w", "i">> # <<"f", "s">>
  OBVIOUS
<1>5. <<"w", "i">> \in Seq(Signs) /\ LegibleName(<<"w", "i">>)
  BY <1>1, <1>2, <1>3
<1>6. <<"f", "S">> \in Seq(Signs) /\ LegibleName(<<"f", "S">>)
  BY <1>1, <1>2, <1>3
<1>7. <<"f", "s">> \in Seq(Signs) /\ LegibleName(<<"f", "s">>)
  BY <1>1, <1>2, <1>3
<1> QED
  BY <1>4, <1>5, <1>6, <1>7 DEF Width, FullScreenRead, FullscreenWritten

LEMMA NumbersLegible ==
  ASSUME NEW n
  PROVE  /\ ToText(n) \in Seq(Signs) /\ LegibleValue(ToText(n)) /\ AtoI(ToText(n)) \in {0, 1}
         /\ n \in {0, 1} => AtoI(ToText(n)) = n
<1>1. ASSUME NEW v, v \in {<<"0">>, <<"1">>}
      PROVE  v \in Seq(Signs) /\ Len(v) = 1 /\ v[1] \notin Gaps
  <2>1. "0" \in Signs /\ "1" \in Signs /\ "0" \notin Gaps /\ "1" \notin Gaps
    BY DEF Signs, Gaps, Blanks
  <2>2. ASSUME NEW c \in Signs
        PROVE  <<c>> \in Seq(Signs) /\ Len(<<c>>) = 1 /\ <<c>>[1] = c
    OBVIOUS
  <2>3. CASE v = <<"0">>
    BY <2>1, <2>2, <2>3
  <2>4. CASE v = <<"1">>
    BY <2>1, <2>2, <2>4
  <2> QED
    BY <1>1, <2>3, <2>4
<1>2. ToText(n) \in {<<"0">>, <<"1">>}
  BY DEF ToText
<1>3. LegibleValue(ToText(n))
  BY <1>1, <1>2 DEF LegibleValue
<1>4. AtoI(<<"1">>) = 1 /\ AtoI(<<"0">>) = 0
  BY DEF AtoI
<1> QED
  BY <1>1, <1>2, <1>3, <1>4 DEF ToText

\* The width n can be read among the slots, or is hidden there.
Shows(vs, n) ==
  Hidden(vs, Width) \/ (ValueExist(vs, Width) /\ Value(vs, Width) = ToText(n))

LEMMA ShowsAlike ==
  ASSUME NEW vs \in Seq(Slots), NEW ws, Alike(ws, vs, Width), NEW n, Shows(vs, n)
  PROVE  Shows(ws, n)
<1>1. /\ ValueExist(ws, Width) <=> ValueExist(vs, Width)
      /\ ValueExist(vs, Width) => Value(ws, Width) = Value(vs, Width)
      /\ Hidden(vs, Width) => Hidden(ws, Width)
  BY AlikeReads
<1> QED
  BY <1>1 DEF Shows

\* The defaults leave it as it is, and can be read.
LEMMA DefaultsShow ==
  ASSUME NEW vs \in Seq(Slots), AllLegible(vs)
  PROVE  /\ WithDefaults(vs) \in Seq(Slots) /\ AllLegible(WithDefaults(vs))
         /\ \A n : ValueExist(vs, Width) /\ Shows(vs, n) => Shows(WithDefaults(vs), n)
<1> DEFINE a == ToText(DefaultWidth)
           b == ToText(0)
           ws == ReadOrDefault(vs, Width, a)
           us == ReadOrDefault(ws, FullScreenRead, b)
<1>1. a \in Seq(Signs) /\ LegibleValue(a) /\ b \in Seq(Signs) /\ LegibleValue(b)
  BY NumbersLegible
<1>2. WithDefaults(vs) = us
  BY DEF WithDefaults
<1> HIDE DEF a, b
<1>3. ws \in Seq(Slots) /\ AllLegible(ws)
  BY <1>1, NamesLegible, DefaultLegible
<1>4. ValueExist(vs, Width) => ws = vs
  BY DEF ReadOrDefault
<1> HIDE DEF ws
<1>5. us \in Seq(Slots) /\ AllLegible(us) /\ Alike(us, ws, Width)
  BY <1>1, <1>3, NamesLegible, DefaultLegible, DefaultOther
<1> HIDE DEF us
<1>6. ASSUME NEW n, ValueExist(vs, Width), Shows(vs, n)
      PROVE  Shows(us, n)
  BY <1>3, <1>4, <1>5, <1>6, ShowsAlike
<1> QED
  BY <1>2, <1>5, <1>6

\* What OnClose writes back can be read.
LEMMA ClosingShows ==
  ASSUME Values \in Seq(Slots), AllLegible(Values)
  PROVE  /\ Closing \in Seq(Slots) /\ AllLegible(Closing)
         /\ ValueExist(Closing, Width) /\ Shows(Closing, width)
<1> DEFINE a == ToText(width)
           b == ToText(IF maximized THEN 1 ELSE 0)
           ws == WriteStringValue(Values, Width, a)
           us == WriteStringValue(ws, FullscreenWritten, b)
<1>1. a \in Seq(Signs) /\ LegibleValue(a) /\ b \in Seq(Signs) /\ LegibleValue(b)
  BY NumbersLegible
<1>2. Closing = us
  BY DEF Closing
<1>3. a = ToText(width)
  OBVIOUS
<1> HIDE DEF a, b
<1>4. ws \in Seq(Slots) /\ AllLegible(ws)
  BY <1>1, NamesLegible, WriteLegible
<1>5. ValueExist(ws, Width) /\ (Hidden(ws, Width) \/ Value(ws, Width) = a)
  BY <1>1, NamesLegible, WriteShows
<1> HIDE DEF ws
<1>6. Shows(ws, width)
  BY <1>3, <1>5 DEF Shows
<1>7. us \in Seq(Slots) /\ AllLegible(us) /\ Alike(us, ws, Width)
  BY <1>1, <1>4, NamesLegible, WriteLegible, WriteOther
<1> HIDE DEF us
<1>8. Shows(us, width) /\ ValueExist(us, Width)
  BY <1>4, <1>5, <1>6, <1>7, ShowsAlike, AlikeReads
<1> QED
  BY <1>2, <1>7, <1>8

(***************************************************************************)
(* The options can be written so that Load reads them; while config.cfg is *)
(* written the stream holds the rest of their text; and after an orderly   *)
(* exit the file shows the width that the window had.                      *)
(***************************************************************************)
OptionsHeld ==
  /\ pc \in {"off", "up", "downloads", "config"}
  /\ width \in {0, 1} /\ maximized \in BOOLEAN
  /\ Values \in Seq(Slots) /\ AllLegible(Values)
  /\ config \in Seq(Signs)
  /\ pc = "config" => /\ out \in Seq(Signs) /\ config \o out = Text(Values)
                      /\ sized = NoSave
                      /\ ValueExist(Values, Width) /\ Shows(Values, width)
  /\ sized # NoSave => \E n \in {0, 1} : /\ sized = [width |-> n]
                                         /\ ValueExist(Load(config), Width)
                                         /\ Shows(Load(config), n)

LEMMA OptionsInit == Init => OptionsHeld
<1> SUFFICES ASSUME Init
             PROVE  OptionsHeld
  OBVIOUS
<1>1. /\ pc = "off" /\ Values = <<>> /\ width = DefaultWidth /\ maximized = FALSE
      /\ config \in Texts /\ sized = NoSave
  BY DEF Init
<1>2. <<>> \in Seq(Slots) /\ AllLegible(<<>>)
  BY DEF AllLegible
<1>3. config \in Seq(Signs)
  <2>1. config \in Seq(STRING) /\ STRING \subseteq Signs
    BY <1>1, ConstantsAssumption DEF Signs
  <2> QED
    BY <2>1, SeqMonotonic
<1> QED
  BY <1>1, <1>2, <1>3 DEF OptionsHeld, DefaultWidth

\* The next character goes from the stream to the file.
LEMMA SignMoves ==
  ASSUME NEW s \in Seq(Signs), NEW o \in Seq(Signs), o # <<>>
  PROVE  /\ Append(s, Head(o)) \in Seq(Signs) /\ Tail(o) \in Seq(Signs)
         /\ Append(s, Head(o)) \o Tail(o) = s \o o
<1> DEFINE h == Head(o)
           r == Tail(o)
           one == <<h>>
<1>0. ASSUME NEW x \in Seq(Signs), NEW y \in Seq(Signs), NEW z \in Seq(Signs)
      PROVE  (x \o y) \o z = x \o (y \o z)
  BY ConcatAssociative, SMTT(40)
<1>1. h \in Signs /\ r \in Seq(Signs)
  BY HeadTailProperties
<1>2. o = one \o r /\ one \in Seq(Signs) /\ Append(s, h) = s \o one /\ Append(s, h) \in Seq(Signs)
  BY <1>1
<1> HIDE DEF h, r, one
<1>3. (s \o one) \o r = s \o (one \o r)
  BY <1>0, <1>1, <1>2, SMTT(40)
<1>4. Append(s, h) \o r = s \o o
  BY <1>2, <1>3, Zenon
<1> QED
  BY <1>1, <1>2, <1>4 DEF h, r

\* What is on disk while it is written is the beginning of the text.
LEMMA WrittenPart ==
  ASSUME NEW s \in Seq(Signs), NEW o \in Seq(Signs), NEW t, s \o o = t
  PROVE  t \in Seq(Signs) /\ Len(s) \in 0 .. Len(t) /\ SubSeq(t, 1, Len(s)) = s
<1> DEFINE k == Len(s)
<1>1. t \in Seq(Signs) /\ Len(t) = k + Len(o) /\ k \in Nat /\ Len(o) \in Nat
  BY ConcatProperties, LenProperties
<1>2. SubSeq(s \o o, 1, k) = SubSeq(s, 1, k)
  BY <1>1, BeginningsOf
<1>3. SubSeq(s, 1, k) = s
  BY <1>1, Prefix
<1> QED
  BY <1>1, <1>2, <1>3


\* What leaves the options alone, and config.cfg.
LEMMA OptionsStay ==
  ASSUME OptionsHeld, UNCHANGED <<Values, config, sized>>,
         width' \in {0, 1}, maximized' \in BOOLEAN,
         pc' \in {"off", "up", "downloads"} \/ UNCHANGED <<pc, out, width>>
  PROVE  OptionsHeld'
BY DEF OptionsHeld

LEMMA OptionsNext == OptionsHeld /\ [Next]_vars => OptionsHeld'
<1> SUFFICES ASSUME OptionsHeld, [Next]_vars
             PROVE  OptionsHeld'
  OBVIOUS
<1>1. /\ pc \in {"off", "up", "downloads", "config"}
      /\ width \in {0, 1} /\ maximized \in BOOLEAN
      /\ Values \in Seq(Slots) /\ AllLegible(Values) /\ config \in Seq(Signs)
  BY DEF OptionsHeld
<1>2. /\ pc = "config" => /\ out \in Seq(Signs) /\ config \o out = Text(Values)
                          /\ sized = NoSave
                          /\ ValueExist(Values, Width) /\ Shows(Values, width)
      /\ sized # NoSave => \E n \in {0, 1} : /\ sized = [width |-> n]
                                             /\ ValueExist(Load(config), Width)
                                             /\ Shows(Load(config), n)
  BY DEF OptionsHeld
<1>3. CASE Launch
  <2>1. /\ pc' = "up" /\ Values' = WithDefaults(Load(config))
        /\ width' = AtoI(Value(Values', Width)) /\ UNCHANGED <<config, sized>>
    BY <1>3 DEF Launch, files
  <2>2. maximized' \in BOOLEAN
    <3>1. maximized' = (AtoI(Value(Values', FullScreenRead)) # 0)
      BY <1>3 DEF Launch
    <3> QED
      BY <3>1
  <2>3. width' \in {0, 1}
    BY <2>1 DEF AtoI
  <2> DEFINE vs == Load(config)
  <2>4. vs \in Seq(Slots) /\ AllLegible(vs)
    BY <1>1, LoadSlots
  <2> HIDE DEF vs
  <2>5. WithDefaults(vs) \in Seq(Slots) /\ AllLegible(WithDefaults(vs))
    BY <2>4, DefaultsShow
  <2>6. Values' \in Seq(Slots) /\ AllLegible(Values)'
    <3>1. Values' = WithDefaults(vs)
      BY <2>1 DEF vs
    <3>2. Values' \in Seq(Slots) /\ AllLegible(Values')
      BY <2>5, <3>1
    <3> QED
      BY <3>2 DEF AllLegible
  <2> QED
    BY <1>1, <1>2, <2>1, <2>2, <2>3, <2>6 DEF OptionsHeld
<1>4. ASSUME NEW d \in New, AddDownload(d)
      PROVE  OptionsHeld'
  BY <1>1, <1>4, OptionsStay DEF AddDownload, files
<1>5. ASSUME NEW i \in 1 .. MaxList, DeleteDownload(i)
      PROVE  OptionsHeld'
  BY <1>1, <1>5, OptionsStay DEF DeleteDownload, files
<1>6. ASSUME NEW i \in 1 .. MaxList, Progress(i)
      PROVE  OptionsHeld'
  <2>1. UNCHANGED <<pc, Values, width, maximized, store, config, out, sized>>
    BY <1>6 DEF Progress, files
  <2> QED
    BY <1>1, <2>1, OptionsStay
<1>7. CASE Resize
  <2>1. /\ pc = "up" /\ pc' = pc /\ UNCHANGED <<Values, config, sized>>
        /\ width' = 1 - width /\ maximized' \in BOOLEAN
    BY <1>7 DEF Resize, files
  <2>2. width' \in {0, 1}
    BY <1>1, <2>1
  <2> QED
    BY <2>1, <2>2, OptionsStay
<1>8. CASE SaveDownloads
  <2>1. pc' = "downloads" /\ UNCHANGED <<Values, width, maximized, config, sized>>
    BY <1>8 DEF SaveDownloads
  <2> QED
    BY <1>1, <2>1, OptionsStay
<1>9. CASE Write
  <2>1. /\ out # <<>> /\ out' = Tail(out) /\ pc \in {"downloads", "config"}
        /\ UNCHANGED <<pc, Values, width, maximized, sized>>
        /\ pc = "downloads" => config' = config
        /\ pc # "downloads" => config' = Append(config, Head(out))
    BY <1>9 DEF Write
  <2>2. CASE pc = "downloads"
    BY <1>1, <2>1, <2>2, OptionsStay
  <2>3. CASE pc = "config"
    <3>1. /\ out \in Seq(Signs) /\ config \o out = Text(Values) /\ sized = NoSave
          /\ ValueExist(Values, Width) /\ Shows(Values, width)
      BY <1>2, <2>3
    <3>2. config' \in Seq(Signs) /\ out' \in Seq(Signs) /\ config' \o out' = config \o out
      BY <1>1, <2>1, <2>3, <3>1, SignMoves
    <3>3. config' \o out' = Text(Values')
      BY <2>1, <3>1, <3>2
    <3>4. sized' = NoSave
      BY <2>1, <3>1
    <3> QED
      BY <1>1, <2>1, <3>1, <3>2, <3>3, <3>4 DEF OptionsHeld
  <2> QED
    BY <2>1, <2>2, <2>3
<1>10. CASE SaveConfig
  <2> DEFINE c == Closing
  <2>1. /\ pc' = "config" /\ Values' = c /\ config' = <<>> /\ out' = Text(c)
        /\ sized' = NoSave /\ UNCHANGED <<width, maximized>>
    BY <1>10 DEF SaveConfig
  <2>2. /\ c \in Seq(Slots) /\ AllLegible(c)
        /\ ValueExist(c, Width) /\ Shows(c, width)
    BY <1>1, ClosingShows
  <2> HIDE DEF c
  <2>3. Text(c) \in Seq(Signs) /\ <<>> \in Seq(Signs) /\ <<>> \o Text(c) = Text(c)
    BY <2>2, TextType, ConcatEmptySeq, EmptySeq
  <2>4. Values' \in Seq(Slots) /\ AllLegible(Values') /\ ValueExist(Values', Width)
        /\ Shows(Values', width')
    BY <2>1, <2>2
  <2>5. config' \o out' = Text(Values')
    BY <2>1, <2>3
  <2>6. AllLegible(Values)' /\ ValueExist(Values, Width)' /\ Shows(Values, width)'
    BY <2>4
  <2>7. out' \in Seq(Signs) /\ config' \in Seq(Signs)
    BY <2>1, <2>3
  <2> QED
    BY <1>1, <2>1, <2>4, <2>5, <2>6, <2>7 DEF OptionsHeld
<1>11. CASE Exit
  <2>1. /\ pc = "config" /\ out = <<>> /\ sized' = [width |-> width] /\ pc' = "off"
        /\ Values' = <<>> /\ width' = DefaultWidth /\ maximized' = FALSE /\ config' = config
    BY <1>11 DEF Exit, Gone
  <2>2. /\ config \o <<>> = Text(Values) /\ ValueExist(Values, Width) /\ Shows(Values, width)
    BY <1>2, <2>1
  <2>3. config = Text(Values)
    BY <1>1, <2>2, ConcatEmptySeq
  <2>4. Load(config) = Plains(Values)
    BY <1>1, <2>3, TextIsLoaded
  <2>5. Alike(Plains(Values), Values, Width)
    BY <1>1, PlainsAlike
  <2>6. ValueExist(Load(config), Width) /\ Shows(Load(config), width)
    BY <1>1, <2>2, <2>4, <2>5, AlikeReads, ShowsAlike
  <2>7. <<>> \in Seq(Slots) /\ AllLegible(<<>>)
    BY DEF AllLegible
  <2>8. Values' \in Seq(Slots) /\ AllLegible(Values)'
    BY <2>1, <2>7 DEF AllLegible
  <2> HIDE DEF OptionsHeld
  <2>9. \E n \in {0, 1} : /\ sized' = [width |-> n]
                          /\ ValueExist(Load(config), Width)'
                          /\ Shows(Load(config), n)'
    <3>1. width \in {0, 1}
      BY <1>1
    <3>2. ValueExist(Load(config'), Width) /\ Shows(Load(config'), width)
      BY <2>1, <2>6
    <3> QED
      BY <2>1, <3>1, <3>2
  <2> QED
    BY <1>1, <2>1, <2>8, <2>9 DEF OptionsHeld, DefaultWidth
<1>12. CASE Crash
  <2>1. /\ pc' = "off" /\ Values' = <<>> /\ width' = DefaultWidth /\ maximized' = FALSE
        /\ UNCHANGED <<config, sized>>
    BY <1>12 DEF Crash, Gone
  <2>2. <<>> \in Seq(Slots) /\ AllLegible(<<>>)
    BY DEF AllLegible
  <2>3. Values' \in Seq(Slots) /\ AllLegible(Values)'
    BY <2>1, <2>2 DEF AllLegible
  <2> QED
    BY <1>1, <1>2, <2>1, <2>3 DEF OptionsHeld, DefaultWidth
<1>13. CASE UNCHANGED vars
  BY <1>1, <1>13, OptionsStay DEF vars, files
<1> QED
  BY <1>3, <1>4, <1>5, <1>6, <1>7, <1>8, <1>9, <1>10, <1>11, <1>12, <1>13, Zenon DEF Next

LEMMA OptionsAlways == Spec => []OptionsHeld
<1>1. Init => OptionsHeld
  BY OptionsInit
<1>2. OptionsHeld /\ [Next]_vars => OptionsHeld'
  BY OptionsNext
<1> QED
  BY <1>1, <1>2, PTL DEF Spec

(***************************************************************************)
(* What Load understands of config.cfg, Save writes so that Load           *)
(* understands the same, whatever the user put in the file, and wherever a *)
(* save was cut short.                                                     *)
(***************************************************************************)
THEOREM ConfigIsStable == Spec => []Stable
<1>1. OptionsHeld => Stable
  <2> SUFFICES ASSUME OptionsHeld
               PROVE  Stable
    OBVIOUS
  <2>1. config \in Seq(Signs)
    BY DEF OptionsHeld
  <2> QED
    BY <2>1, SaveLoads DEF Stable
<1> QED
  BY <1>1, OptionsAlways, PTL

(***************************************************************************)
(* A save of the options that is cut short, at any character, loses those  *)
(* after the cut and no other.                                             *)
(***************************************************************************)
THEOREM CutConfig == Spec => []CutLosesTheEnd
<1>1. OptionsHeld => CutLosesTheEnd
  <2> SUFFICES ASSUME OptionsHeld, pc = "config"
               PROVE  LET slots == Load(config)
                      IN  /\ Len(slots) <= Len(Values)
                          /\ \A i \in 1 .. Len(slots) - 1 : Line(slots[i]) = Line(Values[i])
    BY DEF CutLosesTheEnd
  <2> DEFINE t == Text(Values)
             k == Len(config)
  <2>1. /\ config \in Seq(Signs) /\ out \in Seq(Signs) /\ config \o out = t
        /\ Values \in Seq(Slots) /\ AllLegible(Values)
    BY DEF OptionsHeld
  <2>2. k \in 0 .. Len(t) /\ SubSeq(t, 1, k) = config
    BY <2>1, WrittenPart
  <2>3. k \in 0 .. Len(Text(Values)) /\ SubSeq(Text(Values), 1, k) = config
    BY <2>2
  <2> HIDE DEF k
  <2> QED
    BY <2>1, <2>3, CutText
<1> QED
  BY <1>1, OptionsAlways, PTL

(***************************************************************************)
(* The width of the window comes back as it was at the last orderly exit,  *)
(* whatever crashes and cut saves of the list of downloads came after it,  *)
(* unless a comment that reads like the option hides it.                   *)
(***************************************************************************)
THEOREM WidthComesBack == Spec => WidthKept
<1>1. OptionsHeld /\ [Next]_vars
        => [pc = "off" /\ pc' = "up" /\ sized # NoSave
              => width' = sized.width \/ Hidden(Values', Width)]_vars
  <2> SUFFICES ASSUME OptionsHeld, [Next]_vars, pc = "off", pc' = "up", sized # NoSave
               PROVE  width' = sized.width \/ Hidden(Values', Width)
    OBVIOUS
  <2>1. Launch
    BY DEF Next, vars, AddDownload, DeleteDownload, Progress, Resize, SaveDownloads, Write,
           SaveConfig, Exit, Crash
  <2>2. PICK n \in {0, 1} : /\ sized = [width |-> n]
                            /\ ValueExist(Load(config), Width) /\ Shows(Load(config), n)
    BY DEF OptionsHeld
  <2> DEFINE vs == Load(config)
             ws == WithDefaults(vs)
  <2>3. Values' = ws /\ width' = AtoI(Value(Values', Width))
    BY <2>1 DEF Launch
  <2>4. vs \in Seq(Slots) /\ AllLegible(vs)
    <3>1. config \in Seq(Signs)
      BY DEF OptionsHeld
    <3> QED
      BY <3>1, LoadSlots
  <2>5. ValueExist(vs, Width) /\ Shows(vs, n)
    BY <2>2
  <2> HIDE DEF vs
  <2>6. Shows(ws, n)
    BY <2>4, <2>5, DefaultsShow
  <2> HIDE DEF ws
  <2>7. Hidden(ws, Width) \/ Value(ws, Width) = ToText(n)
    BY <2>6 DEF Shows
  <2>8. AtoI(ToText(n)) = n
    BY NumbersLegible
  <2>9. sized.width = n
    BY <2>2
  <2> QED
    BY <2>3, <2>7, <2>8, <2>9
<1> QED
  BY <1>1, OptionsAlways, PTL DEF Spec, WidthKept

(***************************************************************************)
(* Every variable has its type: the list and the file hold downloads and   *)
(* numbers, the slots are options and comments, and nothing is left in a   *)
(* stream when no file is written.                                         *)
(***************************************************************************)
THEOREM PersistenceTypeOK ==
  ASSUME Total <= LongMax
  PROVE  Spec => []TypeOK
<1>1. OptionsHeld /\ Held => TypeOK
  <2> SUFFICES ASSUME OptionsHeld, Held
               PROVE  TypeOK
    OBVIOUS
  <2>1. /\ pc \in {"off", "up", "downloads", "config"} /\ width \in {0, 1}
        /\ maximized \in BOOLEAN /\ Values \in Seq(Slots)
    BY DEF OptionsHeld
  <2>2. /\ List \in Seq(Downloads) /\ listed.whole \in BOOLEAN /\ store \in Seq(Int)
        /\ pc \in {"off", "up"} => out = <<>>
    BY DEF Held
  <2>3. \A i \in DOMAIN List : List[i].Status \in {"STOP", "FINISH"}
    <3>1. \A d \in Downloads : d.Status \in {"STOP", "FINISH"}
      BY DEF Downloads
    <3>2. \A i \in DOMAIN List : List[i] \in Downloads
      BY <2>2, ElementOfSeq, LenProperties
    <3> QED
      BY <3>1, <3>2
  <2>4. \A i \in DOMAIN Values : Values[i].IsCom \in BOOLEAN
    <3>1. \A s \in Slots : s.IsCom \in BOOLEAN
      BY DEF Slots
    <3>2. \A i \in DOMAIN Values : Values[i] \in Slots
      BY <2>1, ElementOfSeq, LenProperties
    <3> QED
      BY <3>1, <3>2
  <2> QED
    BY <2>1, <2>2, <2>3, <2>4 DEF TypeOK
<1> QED
  BY <1>1, OptionsAlways, FileHolds, PTL
=============================================================================
