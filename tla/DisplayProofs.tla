---------------------------- MODULE DisplayProofs ----------------------------
(***************************************************************************)
(* Theorems about what the window shows: the blocks that the page of a     *)
(* download draws (ProgressBlocks), what Parser makes of links and headers,*)
(* and the rows and pages themselves (Display), for every number of        *)
(* downloads, of workers and of clicks, and for inputs of any size.        *)
(***************************************************************************)
EXTENDS MCDisplay, Induction

\* The quotient and what is left.
LEMMA Quotient ==
  ASSUME NEW a \in Nat, NEW b \in Nat \ {0}
  PROVE  /\ a \div b \in Nat
         /\ (a \div b) * b <= a
         /\ a < (a \div b + 1) * b
OBVIOUS

\* Multiples keep the order.
LEMMA Multiples ==
  ASSUME NEW a \in Int, NEW c \in Int, NEW b \in Nat, a <= c
  PROVE  a * b <= c * b
OBVIOUS

\* A number of blocks fits in a quotient when they fit in the whole.
LEMMA QuotientBound ==
  ASSUME NEW a \in Nat, NEW b \in Nat \ {0}, NEW d \in Int
  PROVE  d <= a \div b <=> d * b <= a
<1> DEFINE q == a \div b
<1>1. q \in Nat /\ q * b <= a /\ a < (q + 1) * b
  BY Quotient
<1> HIDE DEF q
<1>2. d <= q => d * b <= a
  <2>1. d <= q => d * b <= q * b
    BY <1>1, Multiples
  <2>2. d * b \in Int /\ q * b \in Int
    BY <1>1
  <2> QED
    BY <1>1, <2>1, <2>2
<1>3. q + 1 <= d => a < d * b
  <2>1. q + 1 <= d => (q + 1) * b <= d * b
    BY <1>1, Multiples
  <2>2. d * b \in Int /\ (q + 1) * b \in Int
    BY <1>1
  <2> QED
    BY <1>1, <2>1, <2>2
<1>4. d * b \in Int
  OBVIOUS
<1> QED
  BY <1>1, <1>2, <1>3, <1>4 DEF q

\* A product that fits in a long is exact.
LEMMA TimesExact ==
  ASSUME NEW a \in Nat, NEW b \in Nat, a * b <= LongMax
  PROVE  Times(a, b) = a * b
<1> DEFINE n == a * b
           w == 2 * (LongMax + 1)
           m == n + LongMax + 1
<1>1. LongMax \in Nat /\ n \in Nat /\ n <= LongMax
  BY BlocksAssumption
<1> HIDE DEF n
<1>2. w \in Nat \ {0} /\ m \in Nat /\ m < w
  BY <1>1
<1> HIDE DEF w, m
<1>3. m % w = m
  BY <1>2
<1> QED
  BY <1>1, <1>3 DEF Times, w, m, n

(***************************************************************************)
(* However small the blocks and the window, every block of the file can be *)
(* scrolled to: the last line the window scrolls to is not one too few,    *)
(* whichever of the two divisions leaves a rest.                           *)
(***************************************************************************)
THEOREM BlocksReached == EveryBlockShown
<1> SUFFICES ASSUME NEW total \in 0 .. MaxTotal, NEW block \in 1 .. MaxBlock,
                    NEW width \in 1 .. MaxWidth, NEW data \in 0 .. MaxTotal,
                    data * block < total
             PROVE  \E scroll \in 0 .. Lines(total, block, width) - 1 :
                      data \in Drawn(scroll, width, 0)
  BY DEF EveryBlockShown
<1> DEFINE q == total \div block
           scroll == data \div width
<1>1. /\ total \in Nat /\ block \in Nat \ {0} /\ width \in Nat \ {0} /\ data \in Nat
      /\ data * block \in Nat
  BY BlocksAssumption
<1>2. q \in Nat /\ q \div width \in Nat
  BY <1>1, Quotient
<1>3. Lines(total, block, width) = q \div width + 1
  BY <1>1, <1>2 DEF Lines, Over
<1>4. data <= q
  BY <1>1, QuotientBound
<1>5. scroll \in Nat /\ scroll * width <= data /\ data < (scroll + 1) * width
  BY <1>1, Quotient
<1> HIDE DEF q, scroll
<1>6. scroll <= q \div width
  <2>1. scroll * width <= q
    BY <1>1, <1>2, <1>4, <1>5
  <2> QED
    BY <1>1, <1>2, <1>5, <2>1, QuotientBound
<1>7. scroll \in 0 .. Lines(total, block, width) - 1
  BY <1>2, <1>3, <1>5, <1>6
<1>8. data \in Drawn(scroll, width, 0)
  <2>1. scroll + 0 + 1 = scroll + 1 /\ scroll * width \in Int /\ (scroll + 1) * width \in Int
    BY <1>1, <1>5
  <2> QED
    BY <1>1, <1>5, <2>1 DEF Drawn
<1> QED
  BY <1>7, <1>8

(***************************************************************************)
(* As long as no block drawn reaches the end of a long, those that are blue*)
(* are the complete ones and the one being filled, and none is drawn after *)
(* the last one of the file.                                               *)
(***************************************************************************)
THEOREM BlocksColoured == BlueBlocks
<1> SUFFICES ASSUME NEW total \in 1 .. MaxTotal, NEW block \in 1 .. MaxBlock,
                    NEW width \in 1 .. MaxWidth, NEW height \in 0 .. MaxHeight,
                    NEW scroll \in 0 .. Lines(total, block, width) - 1,
                    NEW progress \in 0 .. total,
                    \A d \in Drawn(scroll, width, height) : d * block <= LongMax,
                    NEW data \in Drawn(scroll, width, height)
             PROVE  Colour(data, total, progress, block) =
                      IF data >= (total + block - 1) \div block THEN "none"
                      ELSE IF data <= progress \div block THEN "blue" ELSE "grey"
  BY DEF BlueBlocks
<1>1. /\ total \in Nat /\ block \in Nat \ {0} /\ width \in Nat \ {0} /\ height \in Nat
      /\ progress \in Nat /\ total + block - 1 \in Nat
  BY BlocksAssumption
<1>2. scroll \in Nat
  OBVIOUS
<1>3. data \in Nat
  <2>1. scroll * width \in Nat
    BY <1>1, <1>2
  <2>2. (scroll + height + 1) * width - 1 \in Int
    BY <1>1, <1>2
  <2> QED
    BY <2>1, <2>2 DEF Drawn
<1>4. Times(data, block) = data * block /\ data * block \in Nat
  BY <1>1, <1>3, TimesExact
<1> DEFINE count == (total + block - 1) \div block
           full == progress \div block
<1>5. data < count <=> data * block < total
  <2>1. data + 1 <= count <=> (data + 1) * block <= total + block - 1
    <3> DEFINE a == total + block - 1
               d == data + 1
    <3>1. a \in Nat /\ d \in Int
      BY <1>1, <1>3
    <3> HIDE DEF a, d
    <3>2. d <= a \div block <=> d * block <= a
      BY <1>1, <3>1, QuotientBound
    <3> QED
      BY <3>2 DEF a, d
  <2>2. (data + 1) * block = data * block + block
    BY <1>1, <1>3
  <2>3. count \in Nat
    BY <1>1, Quotient
  <2> HIDE DEF count
  <2> QED
    BY <1>1, <1>3, <1>4, <2>1, <2>2, <2>3
<1>6. data <= full <=> data * block <= progress
  BY <1>1, <1>3, QuotientBound, SMTT(30)
<1>7. count \in Nat /\ full \in Nat
  BY <1>1, Quotient
<1> HIDE DEF count, full
<1>8. Colour(data, total, progress, block) =
        IF data >= count THEN "none" ELSE IF data <= full THEN "blue" ELSE "grey"
  BY <1>1, <1>3, <1>4, <1>5, <1>6, <1>7 DEF Colour
<1> QED
  BY <1>8 DEF count, full

\* What the page draws is right whenever it is drawn: the property of the run.
THEOREM EveryBlock == Spec => []BlocksShown
BY BlocksReached, PTL DEF BlocksShown

\* The same for the colours.
THEOREM EveryColour == Spec => []BlocksBlue
BY BlocksColoured, PTL DEF BlocksBlue
-----------------------------------------------------------------------------
(***************************************************************************)
(* What Display makes of sequences: Without and Missing, which are         *)
(* recursive functions.                                                    *)
(***************************************************************************)
\* f is Without's function.
WithoutBy(f, seq, places) ==
  /\ f[0] = <<>>
  /\ \A k \in 1 .. Len(seq) :
       f[k] = IF k \in places THEN f[k - 1] ELSE Append(f[k - 1], seq[k])
  /\ Without(seq, places) = f[Len(seq)]

LEMMA WithoutRuns ==
  ASSUME NEW X, NEW seq \in Seq(X), NEW places
  PROVE  \E f \in [0 .. Len(seq) -> Seq(X)] : WithoutBy(f, seq, places)
<1> DEFINE n == Len(seq)
           step == [p \in (1 .. n) \X Seq(X) |->
                      IF p[1] \in places THEN p[2] ELSE Append(p[2], seq[p[1]])]
           D(h) == h = [k \in 0 .. Len(seq) |->
                          IF k = 0 THEN <<>>
                          ELSE IF k \in places THEN h[k - 1] ELSE Append(h[k - 1], seq[k])]
           g == CHOOSE h : D(h)
<1>1. n \in Nat /\ \A k \in 1 .. n : seq[k] \in X
  BY LenProperties, ElementOfSeq
<1>2. ASSUME NEW k \in 1 .. n, NEW v \in Seq(X)
      PROVE  /\ step[<<k, v>>] = IF k \in places THEN v ELSE Append(v, seq[k])
             /\ step[<<k, v>>] \in Seq(X)
  BY <1>1, AppendProperties
<1>3. step \in [(1 .. n) \X Seq(X) -> Seq(X)]
  <2>1. ASSUME NEW p \in (1 .. n) \X Seq(X)
        PROVE  (IF p[1] \in places THEN p[2] ELSE Append(p[2], seq[p[1]])) \in Seq(X)
    BY <1>1, AppendProperties
  <2> QED
    BY <2>1
<1> HIDE DEF step
<1>4. <<>> \in Seq(X)
  OBVIOUS
<1>5. PICK f \in [0 .. n -> Seq(X)] : Recurs(f, n, <<>>, step)
  BY <1>1, <1>3, <1>4, RecursionExists
<1>6. f[0] = <<>> /\ \A k \in 1 .. n :
                       f[k] = IF k \in places THEN f[k - 1] ELSE Append(f[k - 1], seq[k])
  <2>1. ASSUME NEW k \in 1 .. n
        PROVE  f[k - 1] \in Seq(X)
    <3>1. k - 1 \in 0 .. n
      BY <1>1
    <3> QED
      BY <3>1
  <2> QED
    BY <1>2, <1>5, <2>1 DEF Recurs
<1>7. D(f)
  <2>1. ASSUME NEW k \in 0 .. n
        PROVE  f[k] = IF k = 0 THEN <<>>
                      ELSE IF k \in places THEN f[k - 1] ELSE Append(f[k - 1], seq[k])
    <3>1. k = 0 \/ k \in 1 .. n
      BY <1>1
    <3> QED
      BY <1>6, <3>1
  <2> QED
    BY <2>1
<1>8. D(g)
  BY <1>7, Zenon
<1>9. Without(seq, places) = g[n]
  BY DEF Without
<1> HIDE DEF g
<1>10. \A k \in 0 .. n : g[k] = IF k = 0 THEN <<>>
          ELSE IF k \in places THEN g[k - 1] ELSE Append(g[k - 1], seq[k])
  BY <1>8, Zenon
<1>11. g[0] = <<>> /\ \A k \in 1 .. n : g[k - 1] \in Seq(X) => g[k] = step[<<k, g[k - 1]>>]
  <2>1. 0 \in 0 .. n /\ \A k \in 1 .. n : k \in 0 .. n /\ k # 0
    BY <1>1
  <2> QED
    BY <1>2, <1>10, <2>1
<1> HIDE DEF D, n
<1>12. \A k \in 0 .. n : g[k] = f[k]
  <2> DEFINE V == Seq(X)
             base == <<>>
  <2>1. n \in Nat /\ f \in [0 .. n -> V]
        /\ Recurs(f, n, base, step) /\ Follows(g, V, n, base, step)
    BY <1>1, <1>5, <1>11 DEF Follows
  <2> HIDE DEF V, base
  <2>2. Agree(g, f, n)
    BY <2>1, RecursionUnique
  <2> QED
    BY <2>2 DEF Agree
<1> USE DEF n
<1>13. Without(seq, places) = f[n]
  BY <1>1, <1>9, <1>12
<1>14. WithoutBy(f, seq, places)
  BY <1>6, <1>13 DEF WithoutBy
<1> QED
  BY <1>14

\* f is Missing's function.
MissingBy(f, list, there) ==
  /\ f[0] = <<>>
  /\ \A k \in 1 .. Len(list) :
       f[k] = IF list[k] \in there THEN f[k - 1] ELSE <<list[k]>> \o f[k - 1]
  /\ Missing(list, there) = f[Len(list)]

LEMMA MissingRuns ==
  ASSUME NEW X, NEW list \in Seq(X), NEW there
  PROVE  \E f \in [0 .. Len(list) -> Seq(X)] : MissingBy(f, list, there)
<1> DEFINE n == Len(list)
           step == [p \in (1 .. n) \X Seq(X) |->
                      IF list[p[1]] \in there THEN p[2] ELSE <<list[p[1]]>> \o p[2]]
           D(h) == h = [k \in 0 .. Len(list) |->
                          IF k = 0 THEN <<>>
                          ELSE IF list[k] \in there THEN h[k - 1] ELSE <<list[k]>> \o h[k - 1]]
           g == CHOOSE h : D(h)
<1>1. n \in Nat /\ \A k \in 1 .. n : list[k] \in X
  BY LenProperties, ElementOfSeq
<1>0. ASSUME NEW k \in 1 .. n, NEW v \in Seq(X)
      PROVE  <<list[k]>> \o v \in Seq(X)
  <2>1. <<list[k]>> \in Seq(X)
    BY <1>1
  <2> QED
    BY <2>1, ConcatProperties
<1>2. ASSUME NEW k \in 1 .. n, NEW v \in Seq(X)
      PROVE  /\ step[<<k, v>>] = IF list[k] \in there THEN v ELSE <<list[k]>> \o v
             /\ step[<<k, v>>] \in Seq(X)
  BY <1>0, <1>1
<1>3. step \in [(1 .. n) \X Seq(X) -> Seq(X)]
  <2>1. ASSUME NEW p \in (1 .. n) \X Seq(X)
        PROVE  (IF list[p[1]] \in there THEN p[2] ELSE <<list[p[1]]>> \o p[2]) \in Seq(X)
    BY <1>0
  <2> QED
    BY <2>1
<1> HIDE DEF step
<1>4. <<>> \in Seq(X)
  OBVIOUS
<1>5. PICK f \in [0 .. n -> Seq(X)] : Recurs(f, n, <<>>, step)
  BY <1>1, <1>3, <1>4, RecursionExists
<1>6. f[0] = <<>> /\ \A k \in 1 .. n :
                       f[k] = IF list[k] \in there THEN f[k - 1] ELSE <<list[k]>> \o f[k - 1]
  <2>1. ASSUME NEW k \in 1 .. n
        PROVE  f[k - 1] \in Seq(X)
    <3>1. k - 1 \in 0 .. n
      BY <1>1
    <3> QED
      BY <3>1
  <2> QED
    BY <1>2, <1>5, <2>1 DEF Recurs
<1>7. D(f)
  <2>1. ASSUME NEW k \in 0 .. n
        PROVE  f[k] = IF k = 0 THEN <<>>
                      ELSE IF list[k] \in there THEN f[k - 1] ELSE <<list[k]>> \o f[k - 1]
    <3>1. k = 0 \/ k \in 1 .. n
      BY <1>1
    <3> QED
      BY <1>6, <3>1
  <2> QED
    BY <2>1
<1>8. D(g)
  BY <1>7, Zenon
<1>9. Missing(list, there) = g[n]
  BY DEF Missing
<1> HIDE DEF g
<1>10. \A k \in 0 .. n : g[k] = IF k = 0 THEN <<>>
          ELSE IF list[k] \in there THEN g[k - 1] ELSE <<list[k]>> \o g[k - 1]
  BY <1>8, Zenon
<1>11. g[0] = <<>> /\ \A k \in 1 .. n : g[k - 1] \in Seq(X) => g[k] = step[<<k, g[k - 1]>>]
  <2>1. 0 \in 0 .. n /\ \A k \in 1 .. n : k \in 0 .. n /\ k # 0
    BY <1>1
  <2> QED
    BY <1>2, <1>10, <2>1
<1> HIDE DEF D, n
<1>12. \A k \in 0 .. n : g[k] = f[k]
  <2> DEFINE V == Seq(X)
             base == <<>>
  <2>1. n \in Nat /\ f \in [0 .. n -> V]
        /\ Recurs(f, n, base, step) /\ Follows(g, V, n, base, step)
    BY <1>1, <1>5, <1>11 DEF Follows
  <2> HIDE DEF V, base
  <2>2. Agree(g, f, n)
    BY <2>1, RecursionUnique
  <2> QED
    BY <2>2 DEF Agree
<1> USE DEF n
<1>13. Missing(list, there) = f[n]
  BY <1>1, <1>9, <1>12
<1>14. MissingBy(f, list, there)
  BY <1>6, <1>13 DEF MissingBy
<1> QED
  BY <1>14
-----------------------------------------------------------------------------
(***************************************************************************)
(* What Parser makes of a text: searches find the place they stand for, and*)
(* what is taken from there keeps its words.                               *)
(***************************************************************************)
\* The last place of a word (std::string::rfind).
LEMMA LastFound ==
  ASSUME NEW X, NEW text \in Seq(X), NEW word
  PROVE  /\ LastOf(text, word) \in 0 .. Len(text)
         /\ LastOf(text, word) # 0 => text[LastOf(text, word)] = word
         /\ \A j \in 1 .. Len(text) : text[j] = word => j <= LastOf(text, word)
<1> DEFINE at == {i \in DOMAIN text : text[i] = word}
           T == {Len(text) - i : i \in at}
<1>1. Len(text) \in Nat /\ DOMAIN text = 1 .. Len(text)
  BY LenProperties
<1>2. CASE at = {}
  BY <1>1, <1>2 DEF LastOf
<1>3. CASE at # {}
  <2>1. T \subseteq Nat /\ T # {}
    BY <1>1, <1>3
  <2>2. PICK n \in T : \A m \in T : n <= m
    BY <2>1, LeastElement
  <2>3. PICK i \in at : n = Len(text) - i
    BY <2>2
  <2>4. ASSUME NEW j \in at
        PROVE  j <= i
    <3>1. Len(text) - j \in T
      OBVIOUS
    <3>2. n <= Len(text) - j
      BY <2>2, <3>1
    <3> QED
      BY <1>1, <2>3, <3>2
  <2>5. LastOf(text, word) = CHOOSE k \in at : \A j \in at : j <= k
    BY <1>3 DEF LastOf
  <2>6. LastOf(text, word) \in at /\ \A j \in at : j <= LastOf(text, word)
    BY <2>3, <2>4, <2>5
  <2> QED
    BY <1>1, <2>6
<1> QED
  BY <1>2, <1>3

\* The first one (find_first_of).
LEMMA FirstFound ==
  ASSUME NEW X, NEW text \in Seq(X), NEW word
  PROVE  /\ FirstOf(text, word) \in 1 .. Len(text) + 1
         /\ FirstOf(text, word) # Len(text) + 1 => text[FirstOf(text, word)] = word
         /\ \A j \in 1 .. Len(text) : text[j] = word => FirstOf(text, word) <= j
<1> DEFINE at == {i \in DOMAIN text : text[i] = word}
<1>1. Len(text) \in Nat /\ DOMAIN text = 1 .. Len(text)
  BY LenProperties
<1>2. CASE at = {}
  BY <1>1, <1>2 DEF FirstOf
<1>3. CASE at # {}
  <2>1. at \subseteq Nat
    BY <1>1
  <2>2. PICK i \in at : \A j \in at : i <= j
    BY <1>3, <2>1, LeastElement
  <2>3. FirstOf(text, word) = CHOOSE k \in at : \A j \in at : k <= j
    BY <1>3 DEF FirstOf
  <2>4. FirstOf(text, word) \in at /\ \A j \in at : FirstOf(text, word) <= j
    BY <2>2, <2>3
  <2> QED
    BY <1>1, <2>4
<1> QED
  BY <1>2, <1>3

\* A part of a text.
LEMMA Part ==
  ASSUME NEW X, NEW text \in Seq(X), NEW m \in 1 .. Len(text) + 1, NEW n \in 0 .. Len(text)
  PROVE  /\ SubSeq(text, m, n) \in Seq(X)
         /\ Len(SubSeq(text, m, n)) = IF m <= n THEN n - m + 1 ELSE 0
         /\ \A i \in 1 .. Len(SubSeq(text, m, n)) : SubSeq(text, m, n)[i] = text[m + i - 1]
<1>1. Len(text) \in Nat
  BY LenProperties
<1>2. \A i \in m .. n : text[i] \in X
  BY <1>1, ElementOfSeq
<1> QED
  BY <1>1, <1>2, SubSeqProperties

\* The first line of a text holds no end of a line.
LEMMA OneLine ==
  ASSUME NEW X, NEW text \in Seq(X)
  PROVE  /\ FirstLine(text) \in Seq(X)
         /\ Len(FirstLine(text)) = FirstOf(text, "nl") - 1
         /\ Len(FirstLine(text)) <= Len(text)
         /\ \A i \in 1 .. Len(FirstLine(text)) :
              FirstLine(text)[i] = text[i] /\ text[i] # "nl"
<1> DEFINE n == FirstOf(text, "nl") - 1
<1>1. Len(text) \in Nat
  BY LenProperties
<1>2. n \in 0 .. Len(text) /\ \A j \in 1 .. Len(text) : text[j] = "nl" => n + 1 <= j
  BY <1>1, FirstFound
<1>3. FirstLine(text) = SubSeq(text, 1, n)
  BY DEF FirstLine
<1> HIDE DEF n
<1>4. 1 \in 1 .. Len(text) + 1
  BY <1>1
<1>5. /\ FirstLine(text) \in Seq(X)
      /\ Len(FirstLine(text)) = n
      /\ \A i \in 1 .. Len(FirstLine(text)) : FirstLine(text)[i] = text[i]
  BY <1>1, <1>2, <1>3, <1>4, Part
<1> QED
  BY <1>1, <1>2, <1>5 DEF n

\* What follows the last "/" of a URL, or begins with a "\\" behind it.
LEMMA NameOfUrl ==
  ASSUME NEW X, NEW url \in Seq(X)
  PROVE  /\ GetFilenameFromURL(url) \in Seq(X)
         /\ \A i \in 1 .. Len(GetFilenameFromURL(url)) :
              /\ GetFilenameFromURL(url)[i] # "/"
              /\ GetFilenameFromURL(url)[i] = "\\" => i = 1
<1> DEFINE slash == LastOf(url, "/")
           back  == LastOf(url, "\\")
           min   == IF back > slash THEN back ELSE slash + 1
           mark  == LastOf(url, "?")
           max   == IF mark > min THEN mark - 1 ELSE Len(url)
           name  == SubSeq(url, min, max)
<1>1. Len(url) \in Nat
  BY LenProperties
<1>2. slash \in 0 .. Len(url) /\ \A j \in 1 .. Len(url) : url[j] = "/" => j <= slash
  BY LastFound
<1>3. /\ back \in 0 .. Len(url) /\ \A j \in 1 .. Len(url) : url[j] = "\\" => j <= back
      /\ back # 0 => url[back] = "\\"
  BY LastFound
<1>4. mark \in 0 .. Len(url)
  BY LastFound
<1>5. GetFilenameFromURL(url) = name
  BY DEF GetFilenameFromURL
<1> HIDE DEF slash, back, mark
<1>6. min \in 1 .. Len(url) + 1 /\ max \in 0 .. Len(url)
  BY <1>1, <1>2, <1>3, <1>4
<1> HIDE DEF min, max
<1>7. /\ name \in Seq(X)
      /\ Len(name) = IF min <= max THEN max - min + 1 ELSE 0
      /\ \A i \in 1 .. Len(name) : name[i] = url[min + i - 1]
  BY <1>6, Part
<1> HIDE DEF name
<1>8. ASSUME NEW i \in 1 .. Len(name)
      PROVE  name[i] # "/" /\ (name[i] = "\\" => i = 1)
  <2>1. min + i - 1 \in 1 .. Len(url) /\ name[i] = url[min + i - 1]
    BY <1>1, <1>6, <1>7
  <2>2. CASE back > slash
    <3>1. min = back
      BY <2>2 DEF min
    <3>2. min + i - 1 > slash
      BY <1>1, <1>2, <1>3, <2>2, <3>1
    <3>3. name[i] = "\\" => min + i - 1 <= back
      BY <1>3, <2>1
    <3> QED
      BY <1>1, <1>2, <1>3, <2>1, <3>1, <3>2, <3>3
  <2>3. CASE ~(back > slash)
    <3>1. min = slash + 1
      BY <2>3 DEF min
    <3> QED
      BY <1>1, <1>2, <1>3, <2>1, <2>3, <3>1
  <2> QED
    BY <2>2, <2>3
<1> QED
  BY <1>5, <1>7, <1>8

\* The texts of a number of words are texts.
LEMMA TextsAreSeqs ==
  ASSUME NEW words, NEW n, NEW text \in TextsOver(words, n)
  PROVE  text \in Seq(words)
<1>1. PICK k \in 0 .. n : text \in [1 .. k -> words]
  BY DEF TextsOver
<1>2. k \in Nat
  OBVIOUS
<1> QED
  BY <1>1, <1>2, SeqDef

(***************************************************************************)
(* The name that the dialog offers for a link is one line and holds no     *)
(* directory, for links of any length (Parser::GetFilenameFromURL).        *)
(***************************************************************************)
THEOREM NamesAreFlat == NameFlat
<1> DEFINE W == {"/", "\\", "?", "nl", "a"}
<1> SUFFICES ASSUME NEW link \in TextsOver(W, MaxUrl), NEW i \in DOMAIN Offered(link)
             PROVE  /\ Offered(link)[i] \notin {"/", "nl"}
                    /\ Offered(link)[i] = "\\" => i = 1
  BY DEF NameFlat
<1> HIDE DEF W
<1>1. link \in Seq(W)
  BY TextsAreSeqs
<1>2. FirstLine(link) \in Seq(W)
  BY <1>1, OneLine
<1> DEFINE name == GetFilenameFromURL(FirstLine(link))
<1>3. /\ name \in Seq(W)
      /\ \A k \in 1 .. Len(name) : name[k] # "/" /\ (name[k] = "\\" => k = 1)
  BY <1>2, NameOfUrl
<1>4. Offered(link) = FirstLine(name)
  BY DEF Offered
<1> HIDE DEF name
<1>5. /\ FirstLine(name) \in Seq(W) /\ Len(FirstLine(name)) <= Len(name)
      /\ \A k \in 1 .. Len(FirstLine(name)) : FirstLine(name)[k] = name[k] /\ name[k] # "nl"
  BY <1>3, OneLine
<1>6. i \in 1 .. Len(FirstLine(name)) /\ Len(FirstLine(name)) \in Nat /\ Len(name) \in Nat
  BY <1>3, <1>4, <1>5, LenProperties
<1>7. i \in 1 .. Len(name)
  BY <1>5, <1>6
<1> QED
  BY <1>3, <1>4, <1>5, <1>6, <1>7

\* The property of the run.
THEOREM EveryName == Spec => []NamesFlat
BY NamesAreFlat, PTL DEF NamesFlat


\* A header that ends in a Content-Range that is complete.
LEMMA LastRange ==
  ASSUME NEW X, NEW header \in Seq(X), NEW p \in 1 .. Len(header) - 4,
         header[p] = "Content-Range:", header[p + 1] = "bytes", header[p + 2] = "/",
         header[p + 3] = "7", header[p + 4] = "nl",
         \A j \in p + 5 .. Len(header) : header[j] # "Content-Range:"
  PROVE  GetFileSizeHTTP(header) = 7
<1> DEFINE pos   == LastOf(header, "Content-Range:")
           rest  == SubSeq(header, pos, Len(header))
           line  == SubSeq(rest, 1, FirstOf(rest, "nl") - 1)
           slash == LastOf(line, "/")
           size  == SubSeq(line, slash + 1, Len(line))
<1>1. GetFileSizeHTTP(header) = IF pos = 0 \/ (slash = Len(line) /\ Len(line) < Len(rest)) THEN -1
                                ELSE Number(size)
  BY DEF GetFileSizeHTTP
<1>2. Len(header) \in Nat
  BY LenProperties
<1>3. pos = p
  <2>1. /\ pos \in 0 .. Len(header)
        /\ pos # 0 => header[pos] = "Content-Range:"
        /\ \A j \in 1 .. Len(header) : header[j] = "Content-Range:" => j <= pos
    BY LastFound
  <2> HIDE DEF pos
  <2>2. p <= pos
    BY <1>2, <2>1
  <2>3. pos < p + 5
    BY <1>2, <2>1
  <2>4. pos # p + 1 /\ pos # p + 2 /\ pos # p + 3 /\ pos # p + 4
    BY <1>2, <2>1
  <2> QED
    BY <1>2, <2>1, <2>2, <2>3, <2>4
<1> HIDE DEF pos
<1>4. /\ rest \in Seq(X) /\ Len(rest) = Len(header) - p + 1
      /\ \A i \in 1 .. Len(rest) : rest[i] = header[p + i - 1]
  <2>1. p \in 1 .. Len(header) + 1 /\ Len(header) \in 0 .. Len(header) /\ p <= Len(header)
    BY <1>2
  <2> QED
    BY <1>2, <1>3, <2>1, Part
<1> HIDE DEF rest
<1>5. rest[1] = "Content-Range:" /\ rest[2] = "bytes" /\ rest[3] = "/" /\ rest[4] = "7"
      /\ rest[5] = "nl" /\ Len(rest) >= 5 /\ Len(rest) \in Nat
  <2>1. Len(rest) >= 5 /\ Len(rest) \in Nat
    BY <1>2, <1>4
  <2>2. /\ 1 \in 1 .. Len(rest) /\ 2 \in 1 .. Len(rest) /\ 3 \in 1 .. Len(rest)
        /\ 4 \in 1 .. Len(rest) /\ 5 \in 1 .. Len(rest)
    BY <2>1
  <2>3. /\ rest[1] = header[p + 1 - 1] /\ rest[2] = header[p + 2 - 1]
        /\ rest[3] = header[p + 3 - 1] /\ rest[4] = header[p + 4 - 1]
        /\ rest[5] = header[p + 5 - 1]
    BY <1>4, <2>2
  <2>4. p + 1 - 1 = p /\ p + 2 - 1 = p + 1 /\ p + 3 - 1 = p + 2 /\ p + 4 - 1 = p + 3
        /\ p + 5 - 1 = p + 4
    BY <1>2
  <2> QED
    BY <2>1, <2>3, <2>4
<1>6. FirstOf(rest, "nl") = 5
  <2>1. /\ FirstOf(rest, "nl") \in 1 .. Len(rest) + 1
        /\ FirstOf(rest, "nl") # Len(rest) + 1 => rest[FirstOf(rest, "nl")] = "nl"
        /\ \A j \in 1 .. Len(rest) : rest[j] = "nl" => FirstOf(rest, "nl") <= j
    BY <1>4, FirstFound
  <2>2. FirstOf(rest, "nl") <= 5
    BY <1>5, <2>1
  <2> QED
    BY <1>5, <2>1, <2>2, SMTT(40)
<1>7. line \in Seq(X) /\ Len(line) = 4 /\ \A i \in 1 .. 4 : line[i] = rest[i]
  <2>1. 1 \in 1 .. Len(rest) + 1 /\ 4 \in 0 .. Len(rest)
    BY <1>5
  <2>2. line = SubSeq(rest, 1, 4)
    BY <1>6, SMTT(40)
  <2> HIDE DEF line
  <2> QED
    BY <1>4, <2>1, <2>2, Part
<1> HIDE DEF line
<1>8. slash = 3
  <2>1. /\ slash \in 0 .. Len(line)
        /\ slash # 0 => line[slash] = "/"
        /\ \A j \in 1 .. Len(line) : line[j] = "/" => j <= slash
    BY <1>7, LastFound
  <2> HIDE DEF slash
  <2> QED
    BY <1>5, <1>7, <2>1
<1> HIDE DEF slash
<1>9. size \in Seq(X) /\ Len(size) = 1 /\ size[1] = "7"
  <2>1. 4 \in 1 .. Len(line) + 1 /\ 4 \in 0 .. Len(line)
    BY <1>7
  <2>2. size = SubSeq(line, 4, 4)
    BY <1>7, <1>8
  <2> HIDE DEF size
  <2>3. size \in Seq(X) /\ Len(size) = 4 - 4 + 1
        /\ \A i \in 1 .. Len(size) : size[i] = line[4 + i - 1]
    <3>1. line \in Seq(X)
      BY <1>7
    <3> DEFINE m == 4
               n == 4
               part == SubSeq(line, m, n)
    <3>2. m \in 1 .. Len(line) + 1 /\ n \in 0 .. Len(line) /\ m <= n
      BY <2>1
    <3>3. size = part
      BY <2>2
    <3> HIDE DEF m, n
    <3>4. /\ part \in Seq(X)
          /\ Len(part) = IF m <= n THEN n - m + 1 ELSE 0
          /\ \A i \in 1 .. Len(part) : part[i] = line[m + i - 1]
      BY <3>1, <3>2, Part
    <3> HIDE DEF part
    <3> QED
      BY <3>2, <3>3, <3>4 DEF m, n
  <2>4. size[1] = line[4 + 1 - 1]
    BY <2>3
  <2> QED
    BY <1>5, <1>7, <2>3, <2>4
<1> HIDE DEF size
<1>10. Number(size) = 7
  <2>1. size # <<>>
    BY <1>9
  <2>2. Head(size) = size[1]
    OBVIOUS
  <2> QED
    BY <1>9, <2>1, <2>2 DEF Number
<1> QED
  BY <1>1, <1>3, <1>7, <1>8, <1>10

\* A header without a complete Content-Range.
LEMMA NoRange ==
  ASSUME NEW X, NEW header \in Seq(X)
  PROVE  GetFileSizeHTTP(header) = -1 <=>
           LET pos == LastOf(header, "Content-Range:")
           IN \/ pos = 0
              \/ \E k \in pos + 1 .. Len(header) - 1 :
                   /\ header[k] = "/" /\ header[k + 1] = "nl"
                   /\ \A j \in pos .. k : header[j] # "nl"
<1> DEFINE pos   == LastOf(header, "Content-Range:")
           rest  == SubSeq(header, pos, Len(header))
           first == FirstOf(rest, "nl")
           line  == SubSeq(rest, 1, first - 1)
           slash == LastOf(line, "/")
           size  == SubSeq(line, slash + 1, Len(line))
<1>1. GetFileSizeHTTP(header) = IF pos = 0 \/ (slash = Len(line) /\ Len(line) < Len(rest)) THEN -1
                                ELSE Number(size)
  BY DEF GetFileSizeHTTP
<1>2. Len(header) \in Nat
  BY LenProperties
<1>3. Number(size) # -1
  BY DEF Number
<1>4. pos \in 0 .. Len(header) /\ (pos # 0 => header[pos] = "Content-Range:")
  BY LastFound
<1> HIDE DEF size, pos
<1> SUFFICES ASSUME pos # 0
             PROVE  slash = Len(line) /\ Len(line) < Len(rest) <=>
                      \E k \in pos + 1 .. Len(header) - 1 :
                        /\ header[k] = "/" /\ header[k + 1] = "nl"
                        /\ \A j \in pos .. k : header[j] # "nl"
  BY <1>1, <1>3 DEF pos
<1>5. /\ rest \in Seq(X) /\ Len(rest) = Len(header) - pos + 1
      /\ \A i \in 1 .. Len(rest) : rest[i] = header[pos + i - 1]
  <2>1. pos \in 1 .. Len(header) + 1 /\ Len(header) \in 0 .. Len(header) /\ pos <= Len(header)
    BY <1>2, <1>4
  <2> QED
    BY <1>2, <2>1, Part
<1> HIDE DEF rest
<1>6. Len(rest) \in Nat \ {0} /\ rest[1] = "Content-Range:"
  BY <1>2, <1>4, <1>5
<1>7. /\ first \in 1 .. Len(rest) + 1
      /\ first # Len(rest) + 1 => rest[first] = "nl"
      /\ \A j \in 1 .. Len(rest) : rest[j] = "nl" => first <= j
  BY <1>5, FirstFound
<1> HIDE DEF first
<1>8. line \in Seq(X) /\ Len(line) = first - 1 /\ \A i \in 1 .. Len(line) : line[i] = rest[i]
  <2>1. 1 \in 1 .. Len(rest) + 1 /\ first - 1 \in 0 .. Len(rest)
    BY <1>6, <1>7
  <2> QED
    BY <1>5, <1>7, <2>1, Part
<1> HIDE DEF line
<1>9. /\ slash \in 0 .. Len(line)
      /\ slash # 0 => line[slash] = "/"
      /\ \A j \in 1 .. Len(line) : line[j] = "/" => j <= slash
  BY <1>8, LastFound
<1> HIDE DEF slash
<1>10. first # 1
  BY <1>6, <1>7
<1>11. ASSUME slash = Len(line), Len(line) < Len(rest)
       PROVE  \E k \in pos + 1 .. Len(header) - 1 :
                /\ header[k] = "/" /\ header[k + 1] = "nl"
                /\ \A j \in pos .. k : header[j] # "nl"
  <2> DEFINE k == pos + slash - 1
  <2>1. slash \in 1 .. Len(rest) - 1 /\ first = slash + 1
    BY <1>6, <1>7, <1>8, <1>9, <1>10, <1>11
  <2>2. rest[slash] = "/" /\ rest[slash + 1] = "nl"
    BY <1>6, <1>7, <1>8, <1>9, <1>11, <2>1
  <2>3. slash # 1
    BY <1>6, <2>2
  <2>4. k \in pos + 1 .. Len(header) - 1
    BY <1>2, <1>4, <1>5, <2>1, <2>3
  <2>5. header[k] = "/" /\ header[k + 1] = "nl"
    <3>1. slash \in 1 .. Len(rest) /\ slash + 1 \in 1 .. Len(rest)
          /\ pos + (slash + 1) - 1 = k + 1
      BY <1>4, <1>6, <2>1
    <3> QED
      BY <1>5, <2>2, <3>1
  <2>6. ASSUME NEW j \in pos .. k
        PROVE  header[j] # "nl"
    <3>1. j - pos + 1 \in 1 .. Len(rest) /\ j - pos + 1 < first /\ pos + (j - pos + 1) - 1 = j
      BY <1>4, <1>6, <2>1
    <3> QED
      BY <1>5, <1>6, <1>7, <3>1
  <2> HIDE DEF k
  <2> QED
    BY <2>4, <2>5, <2>6
<1>12. ASSUME NEW k \in pos + 1 .. Len(header) - 1, header[k] = "/", header[k + 1] = "nl",
              \A j \in pos .. k : header[j] # "nl"
       PROVE  slash = Len(line) /\ Len(line) < Len(rest)
  <2> DEFINE i == k - pos + 1
  <2>1. i \in 2 .. Len(rest) - 1 /\ pos + i - 1 = k /\ pos + (i + 1) - 1 = k + 1
    BY <1>2, <1>4, <1>5
  <2>2. rest[i] = "/" /\ rest[i + 1] = "nl"
    <3>1. i \in 1 .. Len(rest) /\ i + 1 \in 1 .. Len(rest)
      BY <1>6, <2>1
    <3>2. rest[i] = header[pos + i - 1] /\ rest[i + 1] = header[pos + (i + 1) - 1]
      BY <1>5, <3>1
    <3> QED
      BY <1>12, <2>1, <3>2
  <2>3. \A j \in 1 .. i : rest[j] # "nl"
    <3> TAKE j \in 1 .. i
    <3>1. j \in 1 .. Len(rest) /\ pos + j - 1 \in pos .. k
      BY <1>4, <1>6, <2>1
    <3> QED
      BY <1>5, <1>12, <3>1
  <2> HIDE DEF i
  <2>4. first = i + 1
    BY <1>6, <1>7, <2>1, <2>2, <2>3
  <2>5. line[i] = "/"
    BY <1>8, <2>1, <2>2, <2>4
  <2> QED
    BY <1>6, <1>8, <1>9, <2>1, <2>4, <2>5
<1> QED
  BY <1>11, <1>12

(***************************************************************************)
(* The size is that of the last Content-Range, whatever comes before and   *)
(* after it, for headers of any length (Parser::GetFileSizeHTTP).          *)
(***************************************************************************)
THEOREM SizeIsFound == SizeFound
<1> DEFINE W == HeaderWords \cup {"bytes"}
           mid == <<"Content-Range:", "bytes", "/", "7", "nl">>
<1> SUFFICES ASSUME NEW before \in TextsOver(HeaderWords, MaxHeader)
             PROVE  /\ \A after \in TextsOver(HeaderWords \ {"Content-Range:"}, MaxHeader) :
                         GetFileSizeHTTP(before \o mid \o after) = 7
                    /\ GetFileSizeHTTP(before) = -1 <=>
                         LET pos == LastOf(before, "Content-Range:")
                         IN \/ pos = 0
                            \/ \E k \in pos + 1 .. Len(before) - 1 :
                                 /\ before[k] = "/" /\ before[k + 1] = "nl"
                                 /\ \A j \in pos .. k : before[j] # "nl"
  BY DEF SizeFound
<1>1. before \in Seq(HeaderWords) /\ HeaderWords \subseteq W
  BY TextsAreSeqs
<1>2. before \in Seq(W) /\ Len(before) \in Nat
  BY <1>1, SeqMonotonic, LenProperties
<1>3. ASSUME NEW after \in TextsOver(HeaderWords \ {"Content-Range:"}, MaxHeader)
      PROVE  GetFileSizeHTTP(before \o mid \o after) = 7
  <2> DEFINE V == HeaderWords \ {"Content-Range:"}
             half == before \o mid
             all == half \o after
  <2>1. after \in Seq(V) /\ V \subseteq W
    BY TextsAreSeqs
  <2>2. after \in Seq(W) /\ Len(after) \in Nat /\ \A i \in 1 .. Len(after) : after[i] \in V
    BY <2>1, SeqMonotonic, LenProperties, ElementOfSeq
  <2>3. "Content-Range:" \notin V
    OBVIOUS
  <2>4. mid \in Seq(W) /\ Len(mid) = 5 /\ mid[1] = "Content-Range:" /\ mid[2] = "bytes"
        /\ mid[3] = "/" /\ mid[4] = "7" /\ mid[5] = "nl"
    BY DEF HeaderWords
  <2> HIDE DEF W, mid, V
  <2> DEFINE p == Len(before) + 1
  <2>5. half \in Seq(W) /\ Len(half) = p + 4
        /\ \A i \in 1 .. 5 : half[Len(before) + i] = mid[i]
    <3>1. /\ half \in Seq(W) /\ Len(half) = Len(before) + Len(mid)
          /\ \A i \in 1 .. Len(before) + Len(mid) :
               half[i] = IF i <= Len(before) THEN before[i] ELSE mid[i - Len(before)]
      BY <1>2, <2>4, ConcatProperties
    <3> QED
      BY <1>2, <2>4, <3>1
  <2> HIDE DEF half
  <2>6. all \in Seq(W) /\ Len(all) = p + 4 + Len(after)
        /\ (\A i \in 1 .. p + 4 : all[i] = half[i])
        /\ \A i \in p + 5 .. Len(all) : all[i] = after[i - (p + 4)]
    <3>1. /\ all \in Seq(W) /\ Len(all) = Len(half) + Len(after)
          /\ \A i \in 1 .. Len(half) + Len(after) :
               all[i] = IF i <= Len(half) THEN half[i] ELSE after[i - Len(half)]
      BY <2>2, <2>5, ConcatProperties
    <3> QED
      BY <1>2, <2>2, <2>5, <3>1, SMTT(40)
  <2> HIDE DEF all
  <2>7. p \in 1 .. Len(all) - 4
    BY <1>2, <2>2, <2>6
  <2>8. all[p] = "Content-Range:" /\ all[p + 1] = "bytes" /\ all[p + 2] = "/"
        /\ all[p + 3] = "7" /\ all[p + 4] = "nl"
    BY <1>2, <2>4, <2>5, <2>6, SMTT(40)
  <2>9. \A j \in p + 5 .. Len(all) : all[j] # "Content-Range:"
    BY <1>2, <2>2, <2>3, <2>6, SMTT(40)
  <2> HIDE DEF p
  <2>10. GetFileSizeHTTP(all) = 7
    BY <2>6, <2>7, <2>8, <2>9, LastRange
  <2> QED
    BY <2>10 DEF all, half
<1> HIDE DEF mid
<1>4. GetFileSizeHTTP(before) = -1 <=>
        LET pos == LastOf(before, "Content-Range:")
        IN \/ pos = 0
           \/ \E k \in pos + 1 .. Len(before) - 1 :
                /\ before[k] = "/" /\ before[k + 1] = "nl"
                /\ \A j \in pos .. k : before[j] # "nl"
  BY <1>1, NoRange
<1> QED
  BY <1>3, <1>4

\* The property of the run.
THEOREM EverySize == Spec => []SizesFound
BY SizeIsFound, PTL DEF SizesFound
-----------------------------------------------------------------------------
(***************************************************************************)
(* What the window shows of the list.  First, what the functions of the    *)
(* refresh return.                                                         *)
(***************************************************************************)
\* What is missing: nothing, when everything is there, and the whole list, the last
\* first, when nothing is.
LEMMA MissingIs ==
  ASSUME NEW X, NEW list \in Seq(X), NEW there
  PROVE  /\ Missing(list, there) \in Seq(X)
         /\ (\A i \in 1 .. Len(list) : list[i] \in there) => Missing(list, there) = <<>>
         /\ (\A i \in 1 .. Len(list) : list[i] \notin there) =>
              /\ Len(Missing(list, there)) = Len(list)
              /\ \A i \in 1 .. Len(list) : Missing(list, there)[i] = list[Len(list) + 1 - i]
<1> DEFINE n == Len(list)
<1>1. n \in Nat /\ \A k \in 1 .. n : list[k] \in X
  BY LenProperties, ElementOfSeq
<1>a. PICK f \in [0 .. n -> Seq(X)] : MissingBy(f, list, there)
  BY MissingRuns
<1>2. /\ f[0] = <<>>
      /\ \A k \in 1 .. n : f[k] = IF list[k] \in there THEN f[k - 1] ELSE <<list[k]>> \o f[k - 1]
      /\ Missing(list, there) = f[n]
  BY <1>a DEF MissingBy
<1> HIDE DEF n
<1>3. f[n] \in Seq(X)
  BY <1>1, <1>2
<1>4. ASSUME \A i \in 1 .. n : list[i] \in there
      PROVE  f[n] = <<>>
  <2> DEFINE T == {k \in Nat : k <= n => f[k] = <<>>}
  <2>1. 0 \in T
    BY <1>2
  <2>2. ASSUME NEW k \in Nat, k \in T
        PROVE  k + 1 \in T
    <3> SUFFICES ASSUME k + 1 <= n
                 PROVE  f[k + 1] = <<>>
      OBVIOUS
    <3>1. k + 1 \in 1 .. n /\ (k + 1) - 1 = k /\ f[k] = <<>>
      BY <1>1, <2>2
    <3> QED
      BY <1>2, <1>4, <3>1
  <2> HIDE DEF T
  <2>3. n \in T
    BY <1>1, <2>1, <2>2, SetInduction
  <2> QED
    BY <1>1, <2>3 DEF T
<1>5. ASSUME \A i \in 1 .. n : list[i] \notin there
      PROVE  Len(f[n]) = n /\ \A i \in 1 .. n : f[n][i] = list[n + 1 - i]
  <2> DEFINE T == {k \in Nat : k <= n => /\ Len(f[k]) = k
                                         /\ \A i \in 1 .. k : f[k][i] = list[k + 1 - i]}
  <2>1. 0 \in T
    BY <1>2
  <2>2. ASSUME NEW k \in Nat, k \in T
        PROVE  k + 1 \in T
    <3> SUFFICES ASSUME k + 1 <= n
                 PROVE  /\ Len(f[k + 1]) = k + 1
                        /\ \A i \in 1 .. k + 1 : f[k + 1][i] = list[(k + 1) + 1 - i]
      OBVIOUS
    <3>1. /\ k + 1 \in 1 .. n /\ (k + 1) - 1 = k /\ f[k] \in Seq(X) /\ Len(f[k]) = k
          /\ \A i \in 1 .. k : f[k][i] = list[k + 1 - i]
      BY <1>1, <2>2
    <3>2. f[k + 1] = <<list[k + 1]>> \o f[k]
      BY <1>2, <1>5, <3>1
    <3>3. <<list[k + 1]>> \in Seq(X) /\ Len(<<list[k + 1]>>) = 1
      BY <1>1, <3>1
    <3>4. /\ Len(f[k + 1]) = 1 + k
          /\ \A i \in 1 .. 1 + k : f[k + 1][i] =
               IF i <= 1 THEN <<list[k + 1]>>[i] ELSE f[k][i - 1]
      BY <3>1, <3>2, <3>3, ConcatProperties
    <3>5. ASSUME NEW i \in 1 .. k + 1
          PROVE  f[k + 1][i] = list[(k + 1) + 1 - i]
      <4>1. CASE i = 1
        BY <3>4, <4>1
      <4>2. CASE i # 1
        <5>1. i - 1 \in 1 .. k /\ k + 1 - (i - 1) = (k + 1) + 1 - i
          BY <4>2
        <5> QED
          BY <3>1, <3>4, <4>2, <5>1
      <4> QED
        BY <4>1, <4>2
    <3> QED
      BY <3>4, <3>5
  <2> HIDE DEF T
  <2>3. n \in T
    BY <1>1, <2>1, <2>2, SetInduction
  <2> QED
    BY <1>1, <2>3 DEF T
<1> QED
  BY <1>2, <1>3, <1>4, <1>5 DEF n

\* e counts the numbers up to n that are not in `places'.
Counts(e, m, n, places) ==
  /\ e \in [1 .. m -> 1 .. n]
  /\ \A k \in 1 .. m : e[k] \notin places
  /\ \A j, k \in 1 .. m : j < k => e[j] < e[k]
  /\ \A i \in (1 .. n) \ places : \E k \in 1 .. m : e[k] = i

\* w is what is left of the first n elements of l.
Leaves(w, l, n, places) ==
  /\ Len(w) <= n
  /\ Len(w) = n => \A i \in 1 .. n : w[i] = l[i]
  /\ \E e : Counts(e, Len(w), n, places) /\ \A k \in 1 .. Len(w) : w[k] = l[e[k]]

\* Without takes away what is at the places, and leaves the others in their order.
LEMMA WithoutLeaves ==
  ASSUME NEW X, NEW l \in Seq(X), NEW places
  PROVE  Without(l, places) \in Seq(X) /\ Leaves(Without(l, places), l, Len(l), places)
<1>1. Len(l) \in Nat
  BY LenProperties
<1>a. PICK f \in [0 .. Len(l) -> Seq(X)] : WithoutBy(f, l, places)
  BY WithoutRuns
<1>2. /\ f[0] = <<>>
      /\ \A k \in 1 .. Len(l) : f[k] = IF k \in places THEN f[k - 1] ELSE Append(f[k - 1], l[k])
      /\ Without(l, places) = f[Len(l)]
  BY <1>a DEF WithoutBy
<1> DEFINE T == {n \in Nat : n <= Len(l) => f[n] \in Seq(X) /\ Leaves(f[n], l, n, places)}
<1>5. 0 \in T
  <2> DEFINE w == <<>>
             e == [k \in 1 .. 0 |-> 1]
  <2>1. f[0] = w /\ w \in Seq(X) /\ Len(w) = 0
    BY <1>2
  <2>2. Counts(e, Len(w), 0, places)
    BY <2>1 DEF Counts
  <2> HIDE DEF w, e
  <2>3. \A k : k \notin 1 .. Len(w) /\ k \notin 1 .. 0
    BY <2>1
  <2>4. Leaves(w, l, 0, places)
    BY <2>1, <2>2, <2>3 DEF Leaves
  <2> QED
    BY <2>1, <2>4
<1>6. ASSUME NEW n \in Nat, n \in T
      PROVE  n + 1 \in T
  <2> SUFFICES ASSUME n + 1 <= Len(l)
               PROVE  f[n + 1] \in Seq(X) /\ Leaves(f[n + 1], l, n + 1, places)
    OBVIOUS
  <2> DEFINE w == f[n]
  <2>1. w \in Seq(X) /\ Leaves(w, l, n, places)
    BY <1>1, <1>6
  <2>2. f[n + 1] = IF n + 1 \in places THEN w ELSE Append(w, l[n + 1])
    <3>1. n + 1 \in 1 .. Len(l) /\ (n + 1) - 1 = n
      BY <1>1
    <3> QED
      BY <1>2, <3>1
  <2>3. l[n + 1] \in X /\ Len(w) \in Nat
    BY <1>1, <2>1, ElementOfSeq, LenProperties
  <2> HIDE DEF w
  <2>4. PICK e : Counts(e, Len(w), n, places) /\ \A k \in 1 .. Len(w) : w[k] = l[e[k]]
    BY <2>1 DEF Leaves
  <2>5. Len(w) <= n /\ (Len(w) = n => \A i \in 1 .. n : w[i] = l[i])
    BY <2>1 DEF Leaves
  <2>6. CASE n + 1 \in places
    <3>1. Counts(e, Len(w), n + 1, places)
      BY <2>3, <2>4, <2>6 DEF Counts
    <3>2. Len(w) <= n + 1 /\ Len(w) # n + 1
      BY <2>3, <2>5
    <3>3. Leaves(w, l, n + 1, places)
      BY <2>4, <3>1, <3>2 DEF Leaves
    <3> QED
      BY <2>1, <2>2, <2>6, <3>3
  <2>7. CASE n + 1 \notin places
    <3> DEFINE v == Append(w, l[n + 1])
               d == [k \in 1 .. Len(w) + 1 |-> IF k <= Len(w) THEN e[k] ELSE n + 1]
    <3>1. v \in Seq(X) /\ Len(v) = Len(w) + 1 /\ v[Len(w) + 1] = l[n + 1]
          /\ \A i \in 1 .. Len(w) : v[i] = w[i]
      BY <2>1, <2>3, AppendProperties
    <3> HIDE DEF v
    <3>2. e \in [1 .. Len(w) -> 1 .. n]
      BY <2>4 DEF Counts
    <3>3. d \in [1 .. Len(v) -> 1 .. n + 1] /\ d[Len(w) + 1] = n + 1
          /\ \A k \in 1 .. Len(w) : d[k] = e[k]
      BY <2>3, <3>1, <3>2
    <3> HIDE DEF d
    <3>4. ASSUME NEW k \in 1 .. Len(v)
          PROVE  d[k] \notin places /\ v[k] = l[d[k]]
      <4>1. k \in 1 .. Len(w) \/ k = Len(w) + 1
        BY <2>3, <3>1
      <4> QED
        BY <2>4, <2>7, <3>1, <3>3, <4>1 DEF Counts
    <3>5. ASSUME NEW j \in 1 .. Len(v), NEW k \in 1 .. Len(v), j < k
          PROVE  d[j] < d[k]
      <4>1. j \in 1 .. Len(w) /\ (k \in 1 .. Len(w) \/ k = Len(w) + 1)
        <5>1. Len(v) = Len(w) + 1
          BY <3>1
        <5> QED
          BY <2>3, <3>5, <5>1
      <4>2. e[j] \in 1 .. n
        BY <3>2, <4>1
      <4>3. k \in 1 .. Len(w) => e[j] < e[k]
        BY <2>4, <3>5, <4>1 DEF Counts
      <4> QED
        BY <3>3, <4>1, <4>2, <4>3
    <3>6. ASSUME NEW i \in (1 .. n + 1) \ places
          PROVE  \E k \in 1 .. Len(v) : d[k] = i
      <4>1. CASE i = n + 1
        BY <2>3, <3>1, <3>3, <4>1
      <4>2. CASE i # n + 1
        <5>1. PICK k \in 1 .. Len(w) : e[k] = i
          BY <2>4, <4>2, SMTT(40) DEF Counts
        <5>2. k \in 1 .. Len(v) /\ d[k] = i
          BY <2>3, <3>1, <3>3, <5>1
        <5> QED
          BY <5>2
      <4> QED
        BY <4>1, <4>2
    <3>7. Counts(d, Len(v), n + 1, places)
      BY <3>3, <3>4, <3>5, <3>6 DEF Counts
    <3>8. Len(v) <= n + 1 /\ (Len(v) = n + 1 => \A i \in 1 .. n + 1 : v[i] = l[i])
      <4>1. ASSUME Len(v) = n + 1, NEW i \in 1 .. n + 1
            PROVE  v[i] = l[i]
        <5>1. Len(w) = n /\ (i \in 1 .. n \/ i = n + 1)
          BY <2>3, <3>1, <4>1
        <5> QED
          BY <2>5, <3>1, <5>1
      <4> QED
        BY <2>3, <2>5, <3>1, <4>1
    <3>9. Leaves(v, l, n + 1, places)
      BY <3>4, <3>7, <3>8 DEF Leaves
    <3> QED
      BY <2>2, <2>7, <3>1, <3>9 DEF v
  <2> QED
    BY <2>6, <2>7
<1> HIDE DEF T
<1>7. Nat \subseteq T
  BY <1>5, <1>6, SetInduction
<1>8. f[Len(l)] \in Seq(X) /\ Leaves(f[Len(l)], l, Len(l), places)
  BY <1>1, <1>7 DEF T
<1> QED
  BY <1>2, <1>8

\* There is one way to count the same numbers.
LEMMA CountsOnce ==
  ASSUME NEW n \in Nat, NEW places, NEW a \in Nat, NEW b \in Nat,
         NEW d, Counts(d, a, n, places), NEW e, Counts(e, b, n, places)
  PROVE  a = b /\ \A k \in 1 .. a : d[k] = e[k]
<1>1. d \in [1 .. a -> 1 .. n] /\ e \in [1 .. b -> 1 .. n]
  BY DEF Counts
<1>2. ASSUME NEW k \in 1 .. a
      PROVE  \E j \in 1 .. b : e[j] = d[k]
  <2>1. d[k] \in (1 .. n) \ places
    BY <1>1 DEF Counts
  <2> QED
    BY <2>1 DEF Counts
<1>3. ASSUME NEW k \in 1 .. b
      PROVE  \E j \in 1 .. a : d[j] = e[k]
  <2>1. e[k] \in (1 .. n) \ places
    BY <1>1 DEF Counts
  <2> QED
    BY <2>1 DEF Counts
<1>4. /\ \A j, k \in 1 .. a : j < k => d[j] < d[k]
      /\ \A j, k \in 1 .. b : j < k => e[j] < e[k]
  BY DEF Counts
<1> DEFINE T == {k \in Nat : (k \in 1 .. a \/ k \in 1 .. b) /\
                             ~(k \in 1 .. a /\ k \in 1 .. b /\ d[k] = e[k])}
<1>5. T = {}
  <2> SUFFICES ASSUME T # {}
               PROVE  FALSE
    OBVIOUS
  <2>1. T \subseteq Nat
    OBVIOUS
  <2>2. PICK k \in T : \A m \in T : k <= m
    BY <2>1, LeastElement
  <2>3. k \in Nat
    BY <2>1
  <2>4. ASSUME NEW j \in 1 .. k - 1
        PROVE  j \in 1 .. a /\ j \in 1 .. b /\ d[j] = e[j]
    <3>1. j \in Nat /\ ~(k <= j)
      BY <2>3
    <3>2. j \notin T
      BY <2>2, <3>1
    <3>3. j \in 1 .. a \/ j \in 1 .. b
      BY <2>2, <2>3
    <3> QED
      BY <3>1, <3>2, <3>3
  <2>5. CASE k \in 1 .. a /\ k \in 1 .. b
    <3>1. PICK j \in 1 .. b : e[j] = d[k]
      BY <1>2, <2>5
    <3>2. PICK i \in 1 .. a : d[i] = e[k]
      BY <1>3, <2>5
    <3>3. j >= k
      <4> SUFFICES ASSUME j < k
                   PROVE  FALSE
        BY <2>3
      <4>1. j \in 1 .. k - 1
        BY <2>3
      <4>2. d[j] = d[k] /\ j \in 1 .. a
        BY <2>4, <3>1, <4>1
      <4>3. d[j] < d[k] /\ d[j] \in Int
        BY <1>1, <1>4, <2>5, <4>2
      <4> QED
        BY <4>2, <4>3
    <3>4. i >= k
      <4> SUFFICES ASSUME i < k
                   PROVE  FALSE
        BY <2>3
      <4>1. i \in 1 .. k - 1
        BY <2>3
      <4>2. e[i] = e[k] /\ i \in 1 .. b
        BY <2>4, <3>2, <4>1
      <4>3. e[i] < e[k] /\ e[i] \in Int
        BY <1>1, <1>4, <2>5, <4>2
      <4> QED
        BY <4>2, <4>3
    <3>5. e[k] \in Int /\ d[k] \in Int /\ e[j] \in Int /\ d[i] \in Int
      BY <1>1, <2>5
    <3>6. e[k] <= e[j]
      BY <1>4, <2>5, <3>3, <3>5
    <3>7. d[k] <= d[i]
      BY <1>4, <2>5, <3>4, <3>5
    <3>8. d[k] = e[k]
      BY <3>1, <3>2, <3>5, <3>6, <3>7
    <3> QED
      BY <2>2, <2>5, <3>8
  <2>6. CASE k \in 1 .. a /\ k \notin 1 .. b
    <3>1. PICK j \in 1 .. b : e[j] = d[k]
      BY <1>2, <2>6
    <3>2. j \in 1 .. k - 1
      BY <2>6
    <3>3. d[j] = d[k] /\ j \in 1 .. a
      BY <2>4, <3>1, <3>2
    <3>4. d[j] < d[k] /\ d[j] \in Int
      BY <1>1, <1>4, <2>6, <3>2, <3>3
    <3> QED
      BY <3>3, <3>4
  <2>7. CASE k \notin 1 .. a /\ k \in 1 .. b
    <3>1. PICK j \in 1 .. a : d[j] = e[k]
      BY <1>3, <2>7
    <3>2. j \in 1 .. k - 1
      BY <2>7
    <3>3. e[j] = e[k] /\ j \in 1 .. b
      BY <2>4, <3>1, <3>2
    <3>4. e[j] < e[k] /\ e[j] \in Int
      BY <1>1, <1>4, <2>7, <3>2, <3>3
    <3> QED
      BY <3>3, <3>4
  <2> QED
    BY <2>2, <2>5, <2>6, <2>7
<1>6. a = b
  <2>1. a \in 1 .. a => a \in 1 .. b
    BY <1>5
  <2>2. b \in 1 .. b => b \in 1 .. a
    BY <1>5
  <2> QED
    BY <2>1, <2>2
<1>7. ASSUME NEW k \in 1 .. a
      PROVE  d[k] = e[k]
  BY <1>5
<1> QED
  BY <1>6, <1>7

\* Rows of which only those of `names' are selected, and pages made up to a click.
RowsIn(names) == {r \in [name : Names, shown : Statuses \cup {""}, selected : BOOLEAN] :
                    r.selected => r.name \in names}
PagesBy(click) == [name : Names, made : 0 .. click]

Distinct(list) == \A i, j \in 1 .. Len(list) : list[i] = list[j] => i = j

\* What has a name: the list, the newest first.
Mirrors(s, list) ==
  Len(s) = Len(list) /\ \A k \in 1 .. Len(list) : s[k].name = list[Len(list) + 1 - k]

\* A mirror has every name of the list and no other.
LEMMA MirrorNames ==
  ASSUME NEW X, NEW list \in Seq(Names), NEW s \in Seq(X), Mirrors(s, list)
  PROVE  /\ NamesOf(s) = Range(list)
         /\ \A i \in 1 .. Len(list) : list[i] \in NamesOf(s)
<1>1. /\ Len(list) \in Nat /\ DOMAIN list = 1 .. Len(list) /\ DOMAIN s = 1 .. Len(list)
      /\ \A k \in 1 .. Len(list) : s[k].name = list[Len(list) + 1 - k]
  BY LenProperties DEF Mirrors
<1>2. ASSUME NEW i \in 1 .. Len(list)
      PROVE  list[i] \in NamesOf(s)
  <2> DEFINE k == Len(list) + 1 - i
  <2>1. k \in 1 .. Len(list) /\ Len(list) + 1 - k = i
    BY <1>1
  <2> HIDE DEF k
  <2>2. s[k].name = list[i] /\ k \in DOMAIN s
    BY <1>1, <2>1
  <2> QED
    BY <2>2 DEF NamesOf
<1>3. ASSUME NEW k \in DOMAIN s
      PROVE  s[k].name \in Range(list)
  <2>1. Len(list) + 1 - k \in DOMAIN list /\ s[k].name = list[Len(list) + 1 - k]
    BY <1>1
  <2> QED
    BY <2>1 DEF Range
<1>4. NamesOf(s) \subseteq Range(list)
  BY <1>3 DEF NamesOf
<1>5. Range(list) \subseteq NamesOf(s)
  BY <1>1, <1>2 DEF Range
<1> QED
  BY <1>2, <1>4, <1>5

\* The row of a name, when the list has no name twice.
LEMMA MirrorRow ==
  ASSUME NEW X, NEW list \in Seq(Names), Distinct(list), NEW s \in Seq(X), Mirrors(s, list),
         NEW k \in 1 .. Len(list)
  PROVE  LastRow(s, s[k].name) = k
<1>1. /\ Len(list) \in Nat /\ DOMAIN s = 1 .. Len(list)
      /\ \A j \in 1 .. Len(list) : s[j].name = list[Len(list) + 1 - j]
  BY LenProperties DEF Mirrors
<1>2. ASSUME NEW j \in DOMAIN s, s[j].name = s[k].name
      PROVE  j = k
  <2>1. /\ Len(list) + 1 - j \in 1 .. Len(list) /\ Len(list) + 1 - k \in 1 .. Len(list)
        /\ list[Len(list) + 1 - j] = list[Len(list) + 1 - k]
    BY <1>1, <1>2
  <2>2. Len(list) + 1 - j = Len(list) + 1 - k
    BY <2>1 DEF Distinct
  <2> QED
    BY <1>1, <2>2
<1>3. RowsOf(s, s[k].name) = {k}
  BY <1>1, <1>2 DEF RowsOf
<1>4. \E j \in {k} : \A i \in {k} : i <= j
  BY <1>1
<1> QED
  BY <1>3, <1>4 DEF LastRow

\* A refresh of rows makes rows, and selects none.
LEMMA RefreshedType ==
  ASSUME NEW names, NEW list \in Seq(Names), NEW rs \in Seq(RowsIn(names)),
         NEW st \in [Names -> Statuses]
  PROVE  Refreshed(rs, list, st) \in Seq(RowsIn(names))
<1> DEFINE base == IF Len(rs) = Len(list) THEN rs ELSE <<>>
           new == Missing(list, NamesOf(base))
           top == [i \in DOMAIN new |-> Row(new[i], st[new[i]])]
           filled(k) == IF base[k].name \in Range(list) /\ k = LastRow(base, base[k].name)
                        THEN [base[k] EXCEPT !.shown = st[base[k].name]] ELSE base[k]
           rest == [k \in DOMAIN base |-> filled(k)]
<1>1. base \in Seq(RowsIn(names)) /\ new \in Seq(Names)
  BY MissingIs
<1>2. Refreshed(rs, list, st) = top \o rest
  BY DEF Refreshed
<1> HIDE DEF base, new
<1>3. /\ Len(new) \in Nat /\ DOMAIN new = 1 .. Len(new) /\ Len(base) \in Nat
      /\ DOMAIN base = 1 .. Len(base)
  BY <1>1, LenProperties
<1>4. ASSUME NEW i \in DOMAIN new
      PROVE  Row(new[i], st[new[i]]) \in RowsIn(names)
  <2>1. new[i] \in Names /\ st[new[i]] \in Statuses
    BY <1>1
  <2> QED
    BY <2>1 DEF Row, RowsIn
<1>5. top \in Seq(RowsIn(names))
  BY <1>3, <1>4
<1>6. ASSUME NEW k \in DOMAIN base
      PROVE  filled(k) \in RowsIn(names)
  <2>1. base[k] \in RowsIn(names)
    BY <1>1, <1>3
  <2>2. base[k].name \in Names /\ st[base[k].name] \in Statuses
    BY <2>1 DEF RowsIn
  <2>3. [base[k] EXCEPT !.shown = st[base[k].name]] \in RowsIn(names)
    BY <2>1, <2>2 DEF RowsIn
  <2> QED
    BY <2>1, <2>3
<1> HIDE DEF filled
<1>7. rest \in Seq(RowsIn(names))
  BY <1>3, <1>6
<1> HIDE DEF top, rest
<1> QED
  BY <1>2, <1>5, <1>7, ConcatProperties

\* And when as many rows as downloads are those of the downloads, the refresh makes
\* the rows of the list, with their status, and keeps what was selected.
LEMMA RefreshedMirrors ==
  ASSUME NEW names, NEW list \in Seq(Names), Distinct(list), NEW rs \in Seq(RowsIn(names)),
         NEW st \in [Names -> Statuses], Len(rs) = Len(list) => Mirrors(rs, list)
  PROVE  LET r == Refreshed(rs, list, st)
         IN /\ Mirrors(r, list)
            /\ \A k \in 1 .. Len(list) : r[k].shown = st[r[k].name]
            /\ Len(rs) = Len(list) =>
                 \A k \in 1 .. Len(list) : r[k].name = rs[k].name /\ r[k].selected = rs[k].selected
<1> DEFINE n == Len(list)
           r == Refreshed(rs, list, st)
<1>1. n \in Nat /\ \A i \in 1 .. n : list[i] \in Names
  BY LenProperties, ElementOfSeq
<1>2. CASE Len(rs) = n
  <2> DEFINE new == Missing(list, NamesOf(rs))
             filled(k) == IF rs[k].name \in Range(list) /\ k = LastRow(rs, rs[k].name)
                          THEN [rs[k] EXCEPT !.shown = st[rs[k].name]] ELSE rs[k]
             rest == [k \in DOMAIN rs |-> filled(k)]
  <2>1. Mirrors(rs, list)
    BY <1>2
  <2>2. new = <<>>
    BY <2>1, MirrorNames, MissingIs
  <2>3. r = [i \in DOMAIN new |-> Row(new[i], st[new[i]])] \o rest
    BY <1>2 DEF Refreshed
  <2> HIDE DEF new
  <2>4. [i \in DOMAIN new |-> Row(new[i], st[new[i]])] = <<>>
    BY <2>2
  <2>5. DOMAIN rs = 1 .. n
    BY <1>2, LenProperties
  <2>6. rest \in Seq({filled(k) : k \in 1 .. n}) /\ Len(rest) = n
    <3> HIDE DEF filled
    <3> QED
      BY <1>1, <2>5
  <2>7. r = rest
    <3> HIDE DEF rest
    <3> QED
      BY <2>3, <2>4, <2>6, ConcatEmptySeq
  <2>8. ASSUME NEW k \in 1 .. n
        PROVE  r[k] = [rs[k] EXCEPT !.shown = st[rs[k].name]]
    <3>1. rs[k].name \in Range(list)
      <4>1. rs[k].name \in NamesOf(rs)
        BY <2>5 DEF NamesOf
      <4> QED
        BY <2>1, <4>1, MirrorNames
    <3>2. LastRow(rs, rs[k].name) = k
      BY <2>1, MirrorRow
    <3> QED
      BY <2>5, <2>7, <3>1, <3>2
  <2>9. ASSUME NEW k \in 1 .. n
        PROVE  /\ r[k].name = rs[k].name /\ r[k].selected = rs[k].selected
               /\ r[k].shown = st[r[k].name]
    <3>1. rs[k] \in RowsIn(names)
      BY <1>2, ElementOfSeq
    <3>2. r[k] = [rs[k] EXCEPT !.shown = st[rs[k].name]]
      BY <2>8
    <3> HIDE DEF r
    <3> QED
      BY <3>1, <3>2 DEF RowsIn
  <2>10. Len(r) = n
    BY <2>6, <2>7
  <2> HIDE DEF r, filled
  <2>11. Mirrors(r, list)
    BY <2>1, <2>9, <2>10 DEF Mirrors
  <2> QED
    BY <2>9, <2>11 DEF r
<1>3. CASE Len(rs) # n
  <2> DEFINE new == Missing(list, NamesOf(<<>>))
             top == [i \in DOMAIN new |-> Row(new[i], st[new[i]])]
             base == <<>>
             filled(k) == IF base[k].name \in Range(list) /\ k = LastRow(base, base[k].name)
                          THEN [base[k] EXCEPT !.shown = st[base[k].name]] ELSE base[k]
             rest == [k \in DOMAIN base |-> filled(k)]
  <2>1. NamesOf(base) = {}
    BY DEF NamesOf
  <2>2. /\ new \in Seq(Names) /\ Len(new) = n
        /\ \A i \in 1 .. n : new[i] = list[n + 1 - i]
    BY <2>1, MissingIs
  <2>3. r = top \o rest
    BY <1>3 DEF Refreshed
  <2> HIDE DEF new, filled
  <2>4. DOMAIN new = 1 .. n
    BY <2>2, LenProperties
  <2>5. top \in Seq({Row(new[i], st[new[i]]) : i \in 1 .. n}) /\ Len(top) = n
    BY <1>1, <2>4
  <2>6. r = top
    <3>1. rest = <<>>
      OBVIOUS
    <3> HIDE DEF top, rest
    <3> QED
      BY <2>3, <2>5, <3>1, ConcatEmptySeq
  <2>7. ASSUME NEW k \in 1 .. n
        PROVE  r[k].name = list[n + 1 - k] /\ r[k].shown = st[r[k].name]
    <3>1. r[k] = Row(list[n + 1 - k], st[list[n + 1 - k]])
      BY <2>2, <2>4, <2>6
    <3> QED
      BY <3>1 DEF Row
  <2>8. Mirrors(r, list)
    BY <2>5, <2>6, <2>7 DEF Mirrors
  <2> HIDE DEF r
  <2> QED
    BY <1>3, <2>7, <2>8 DEF r
<1> QED
  BY <1>2, <1>3

\* A refresh of pages makes pages, those of the list, and keeps them when they are.
LEMMA PagedIs ==
  ASSUME NEW click \in Nat, NEW list \in Seq(Names), NEW rs, NEW ps \in Seq(PagesBy(click))
  PROVE  LET p == Paged(ps, rs, list, click)
         IN /\ p \in Seq(PagesBy(click))
            /\ Mirrors(ps, list) => p = ps
            /\ (Len(rs) = Len(list) \/ Len(ps) = Len(list) => Mirrors(ps, list)) =>
                 Mirrors(p, list)
<1> DEFINE n == Len(list)
           p == Paged(ps, rs, list, click)
           base == IF Len(rs) = Len(list) \/ Len(ps) = Len(list) THEN ps ELSE <<>>
           new == Missing(list, NamesOf(base))
           top == [i \in DOMAIN new |-> Page(new[i], click)]
<1>1. n \in Nat /\ \A i \in 1 .. n : list[i] \in Names
  BY LenProperties, ElementOfSeq
<1>2. base \in Seq(PagesBy(click)) /\ new \in Seq(Names)
  BY MissingIs
<1>3. p = top \o base
  BY DEF Paged
<1>4. Len(new) \in Nat /\ DOMAIN new = 1 .. Len(new)
  BY <1>2, LenProperties
<1>5. ASSUME NEW i \in DOMAIN new
      PROVE  Page(new[i], click) \in PagesBy(click)
  <2> HIDE DEF new
  <2>1. new[i] \in Names
    BY <1>2, <1>4
  <2> QED
    BY <2>1 DEF Page, PagesBy
<1>6. top \in Seq(PagesBy(click)) /\ Len(top) = Len(new)
  <2> HIDE DEF new
  <2> QED
    BY <1>4, <1>5
<1>7. p \in Seq(PagesBy(click))
  <2> HIDE DEF top, base, p
  <2> QED
    BY <1>2, <1>3, <1>6, ConcatProperties
<1>8. ASSUME Mirrors(ps, list)
      PROVE  p = ps
  <2>1. base = ps
    BY <1>8 DEF Mirrors
  <2>2. \A i \in 1 .. Len(list) : list[i] \in NamesOf(base)
    BY <1>8, <2>1, MirrorNames
  <2> HIDE DEF base
  <2>3. new = <<>>
    BY <2>2, MissingIs
  <2>4. Len(top) = 0 /\ top \in Seq(PagesBy(click))
    <3> HIDE DEF top, new
    <3> QED
      BY <1>6, <2>3
  <2> HIDE DEF top, p
  <2>5. top = <<>>
    BY <2>4, EmptySeq
  <2> QED
    BY <1>2, <1>3, <2>1, <2>5, ConcatEmptySeq
<1>9. ASSUME Len(rs) # n, Len(ps) # n
      PROVE  Mirrors(p, list)
  <2>1. base = <<>>
    BY <1>9
  <2> HIDE DEF base
  <2>2. NamesOf(base) = {}
    BY <2>1 DEF NamesOf
  <2>3. Len(new) = n /\ \A i \in 1 .. n : new[i] = list[n + 1 - i]
    BY <2>2, MissingIs
  <2>4. ASSUME NEW i \in 1 .. n
        PROVE  top[i].name = list[n + 1 - i]
    <3>1. top[i] = Page(new[i], click)
      <4> HIDE DEF new
      <4> QED
        BY <1>4, <2>3
    <3> HIDE DEF new, top
    <3> QED
      BY <2>3, <3>1 DEF Page
  <2> HIDE DEF top, p, new
  <2>5. p = top
    BY <1>3, <1>6, <2>1, ConcatEmptySeq
  <2> QED
    BY <1>6, <2>3, <2>4, <2>5 DEF Mirrors
<1> HIDE DEF p
<1>10. (Len(rs) = n \/ Len(ps) = n => Mirrors(ps, list)) => Mirrors(p, list)
  BY <1>8, <1>9
<1> QED
  BY <1>7, <1>8, <1>10 DEF p

\* What a click makes: the window and what it shows.
Screens(click, names) ==
  [rows : Seq(RowsIn(names)), pages : Seq(PagesBy(click)), status : [Names -> Statuses],
   clicks : {click}]

\* The window shows the list.
InOrder(s, list) ==
  /\ Mirrors(s.rows, list)
  /\ Mirrors(s.pages, list)
  /\ \A k \in 1 .. Len(list) : s.rows[k].shown = s.status[s.rows[k].name]

\* A refresh will make it so: what it does not make anew is that of the list.
Ready(s, list) ==
  /\ Len(s.rows) = Len(list) => Mirrors(s.rows, list)
  /\ Len(s.rows) = Len(list) \/ Len(s.pages) = Len(list) => Mirrors(s.pages, list)

\* Two windows have the same downloads in their rows, and the same rows selected.
SameRows(s, t, list) ==
  \A k \in 1 .. Len(list) : s.rows[k].name = t.rows[k].name
                            /\ s.rows[k].selected = t.rows[k].selected

\* A refresh makes a window, in order when it was ready, and keeps what it must.
LEMMA UpdateIs ==
  ASSUME NEW click \in Nat, NEW names, NEW list \in Seq(Names),
         NEW s \in Screens(click, names)
  PROVE  LET u == UpdateScreen(s, list)
         IN /\ u \in Screens(click, names)
            /\ u.status = s.status
            /\ Mirrors(s.pages, list) => u.pages = s.pages
            /\ Distinct(list) /\ Ready(s, list) => InOrder(u, list)
            /\ Distinct(list) /\ Mirrors(s.rows, list) => SameRows(u, s, list)
<1> DEFINE u == UpdateScreen(s, list)
           r == Refreshed(s.rows, list, s.status)
           p == Paged(s.pages, s.rows, list, click)
<1>1. /\ s.rows \in Seq(RowsIn(names)) /\ s.pages \in Seq(PagesBy(click))
      /\ s.status \in [Names -> Statuses] /\ s.clicks = click
  BY DEF Screens
<1>2. u = [s EXCEPT !.rows = r, !.pages = p]
  BY <1>1 DEF UpdateScreen
<1>3. r \in Seq(RowsIn(names))
  BY <1>1, RefreshedType
<1>4. p \in Seq(PagesBy(click))
  BY <1>1, PagedIs
<1> HIDE DEF u, r, p
<1>5. u.rows = r /\ u.pages = p /\ u.status = s.status
  BY <1>2 DEF Screens
<1>6. u \in Screens(click, names)
  BY <1>2, <1>3, <1>4 DEF Screens
<1>7. Mirrors(s.pages, list) => u.pages = s.pages
  BY <1>1, <1>5, PagedIs DEF p
<1>8. ASSUME Distinct(list), Len(s.rows) = Len(list) => Mirrors(s.rows, list)
      PROVE  /\ Mirrors(r, list) /\ \A k \in 1 .. Len(list) : r[k].shown = s.status[r[k].name]
             /\ Len(s.rows) = Len(list) => \A k \in 1 .. Len(list) :
                  r[k].name = s.rows[k].name /\ r[k].selected = s.rows[k].selected
  BY <1>1, <1>8, RefreshedMirrors DEF r
<1>9. ASSUME Distinct(list), Ready(s, list)
      PROVE  InOrder(u, list)
  <2>1. Mirrors(p, list)
    BY <1>1, <1>9, PagedIs DEF p, Ready
  <2>2. Mirrors(r, list) /\ \A k \in 1 .. Len(list) : r[k].shown = s.status[r[k].name]
    BY <1>8, <1>9 DEF Ready
  <2> QED
    BY <1>5, <2>1, <2>2 DEF InOrder
<1>10. ASSUME Distinct(list), Mirrors(s.rows, list)
       PROVE  SameRows(u, s, list)
  <2>1. Len(s.rows) = Len(list)
    BY <1>10 DEF Mirrors
  <2> QED
    BY <1>5, <1>8, <1>10, <2>1 DEF SameRows
<1> QED
  BY <1>5, <1>6, <1>7, <1>9, <1>10 DEF u

\* The place of the last row of a name.
LEMMA LastRowType ==
  ASSUME NEW X, NEW rs \in Seq(X), NEW n
  PROVE  LastRow(rs, n) \in Nat
<1> DEFINE at == RowsOf(rs, n)
           T == {Len(rs) - i : i \in at}
<1>1. Len(rs) \in Nat /\ at \subseteq 1 .. Len(rs)
  BY LenProperties DEF RowsOf
<1>2. CASE at = {}
  BY <1>2 DEF LastRow
<1>3. CASE at # {}
  <2> HIDE DEF at
  <2>1. T \subseteq Nat /\ T # {}
    <3>1. ASSUME NEW i \in at
          PROVE  Len(rs) - i \in Nat
      <4>1. i \in 1 .. Len(rs) /\ Len(rs) \in Nat
        BY <1>1
      <4> QED
        BY <4>1
    <3> QED
      BY <1>3, <3>1
  <2>2. PICK m \in T : \A l \in T : m <= l
    BY <2>1, LeastElement
  <2>3. PICK i \in at : m = Len(rs) - i
    BY <2>2
  <2>4. \A j \in at : j <= i
    <3> TAKE j \in at
    <3>1. m <= Len(rs) - j
      BY <2>2
    <3>2. i \in Nat /\ j \in Nat
      BY <1>1
    <3> QED
      BY <1>1, <2>3, <3>1, <3>2
  <2>5. LastRow(rs, n) \in at
    BY <1>3, <2>4 DEF LastRow, at
  <2> DEFINE last == LastRow(rs, n)
  <2> HIDE DEF last
  <2>6. last \in 1 .. Len(rs)
    BY <1>1, <2>5 DEF last
  <2>7. last \in Nat
    BY <1>1, <2>6
  <2> QED
    BY <2>7 DEF last
<1> QED
  BY <1>2, <1>3

(***************************************************************************)
(* The inductive invariant.  A refresh by a worker that nothing disturbs   *)
(* finds the rows and pages of the list, goes through the objects, and has *)
(* yet to fill in the rows of those that are not behind it.                *)
(***************************************************************************)
Tasks ==
  [at : {"idle", "count", "clear", "pages", "drop"}] \cup [at : {"draw"}, i : Nat \ {0}] \cup
  [at : {"row", "insert", "text", "page", "insertpage"}, i : Nat \ {0}, name : Names, item : Nat]

Typed ==
  /\ List \in Seq(Names)
  /\ Distinct(List)
  /\ status \in [Names -> Statuses]
  /\ rows \in Seq(RowsIn({}))
  /\ pages \in Seq(PagesBy(clicks))
  /\ task \in [Workers -> Tasks]
  /\ ticked \subseteq Busy
  /\ clicks \in 0 .. MaxClicks
  /\ reports \in [Workers -> 0 .. MaxReports]
  /\ raced \in BOOLEAN

\* A refresh at t has yet to fill in the row of the object j.
Pending(t, j) ==
  \/ t.at = "count"
  \/ t.at \in {"draw", "row", "text"} /\ t.i <= j
  \/ t.at = "page" /\ t.i < j

\* A refresh at t goes through the list, and has found the row of its object.
Drawing(t) ==
  /\ t.at \in {"idle", "count", "draw", "row", "text", "page"}
  /\ t.at \in {"row", "text", "page"} => t.i \in DOMAIN List /\ t.name = List[t.i]
  /\ t.at = "text" => t.item = Len(List) + 1 - t.i

Tidy ==
  /\ Mirrors(rows, List)
  /\ Mirrors(pages, List)
  /\ \A v, w \in Busy : v = w
  /\ \A w \in Workers : Drawing(task[w])
  /\ \A k \in 1 .. Len(List) :
       \/ rows[k].shown = status[rows[k].name]
       \/ \E w \in Busy : Pending(task[w], Len(List) + 1 - k)

Inv == Typed /\ (~raced => Tidy)

\* The types that the window is said to have follow.
LEMMA TypedIsOK == Typed => TypeOK
<1> SUFFICES ASSUME Typed
             PROVE  TypeOK
  OBVIOUS
<1>1. ASSUME NEW k \in DOMAIN rows
      PROVE  /\ rows[k].name \in Names /\ rows[k].shown \in Statuses \cup {""}
             /\ ~rows[k].selected
  <2>1. rows[k] \in RowsIn({})
    BY ElementOfSeq, LenProperties DEF Typed
  <2> QED
    BY <2>1 DEF RowsIn
<1>2. ASSUME NEW k \in DOMAIN pages
      PROVE  pages[k].name \in Names /\ pages[k].made \in 0 .. clicks
  <2>1. pages[k] \in PagesBy(clicks)
    BY ElementOfSeq, LenProperties DEF Typed
  <2> QED
    BY <2>1 DEF PagesBy
<1>3. ASSUME NEW w \in Workers
      PROVE  task[w].at \in {"idle", "count", "clear", "pages", "drop", "draw",
                             "row", "insert", "text", "page", "insertpage"}
  <2>1. task[w] \in Tasks
    BY DEF Typed
  <2> QED
    BY <2>1 DEF Tasks
<1> QED
  BY <1>1, <1>2, <1>3 DEF Typed, TypeOK

\* When no worker draws, the window shows the list.
LEMMA TidyShows ==
  ASSUME Inv, ~raced, Busy = {}
  PROVE  InStep /\ Mirrors(rows, List) /\ Mirrors(pages, List)
         /\ \A k \in 1 .. Len(List) : rows[k].shown = status[rows[k].name]
<1> DEFINE n == Len(List)
           drawn == [i \in DOMAIN List |-> Row(List[i], status[List[i]])]
           named == [k \in DOMAIN pages |-> pages[k].name]
<1>1. /\ List \in Seq(Names) /\ n \in Nat /\ DOMAIN List = 1 .. n
      /\ Mirrors(rows, List) /\ Mirrors(pages, List)
      /\ rows \in Seq(RowsIn({})) /\ pages \in Seq(PagesBy(clicks))
      /\ \A k \in 1 .. n : rows[k].shown = status[rows[k].name]
  BY LenProperties DEF Inv, Typed, Tidy
<1>2. Len(rows) = n /\ Len(pages) = n /\ DOMAIN rows = 1 .. n /\ DOMAIN pages = 1 .. n
  BY <1>1, LenProperties DEF Mirrors
<1>3. Len(drawn) = n
  BY <1>1
<1>4. rows = Reverse(drawn)
  <2>1. Reverse(drawn) = [k \in 1 .. n |-> drawn[(n - k) + 1]]
    BY <1>3 DEF Reverse
  <2>2. ASSUME NEW k \in 1 .. n
        PROVE  rows[k] = drawn[(n - k) + 1]
    <3>1. (n - k) + 1 \in 1 .. n /\ (n - k) + 1 = n + 1 - k
      BY <1>1
    <3>2. drawn[(n - k) + 1] = Row(List[n + 1 - k], status[List[n + 1 - k]])
      BY <1>1, <3>1
    <3>3. rows[k].name = List[n + 1 - k] /\ rows[k].shown = status[rows[k].name]
      BY <1>1 DEF Mirrors
    <3>4. rows[k] \in RowsIn({})
      BY <1>1, <1>2, ElementOfSeq
    <3> QED
      BY <3>2, <3>3, <3>4 DEF RowsIn, Row
  <2>3. rows = [k \in 1 .. n |-> rows[k]]
    BY <1>1, <1>2
  <2> HIDE DEF drawn, n
  <2> QED
    BY <2>1, <2>2, <2>3
<1>5. named = Reverse(List)
  <2>1. Reverse(List) = [k \in 1 .. n |-> List[(n - k) + 1]]
    BY DEF Reverse
  <2>2. ASSUME NEW k \in 1 .. n
        PROVE  pages[k].name = List[(n - k) + 1]
    <3>1. (n - k) + 1 = n + 1 - k
      BY <1>1
    <3> QED
      BY <1>1, <3>1 DEF Mirrors
  <2> QED
    BY <1>2, <2>1, <2>2
<1> QED
  BY <1>1, <1>4, <1>5 DEF InStep

\* Init makes it true.
LEMMA DisplayInit == Init => Inv
<1> SUFFICES ASSUME Init
             PROVE  Inv
  OBVIOUS
<1> DEFINE n == Len(List)
           none == <<>>
<1>1. List \in Seq(Names) /\ Distinct(List)
  <2>1. PICK m \in 0 .. Cardinality(Names) : List \in [1 .. m -> Names]
    BY DEF Init
  <2>2. m \in Nat
    OBVIOUS
  <2>3. List \in Seq(Names) /\ DOMAIN List = 1 .. Len(List)
    BY <2>1, <2>2, LenProperties
  <2>4. \A i, j \in DOMAIN List : List[i] = List[j] => i = j
    BY DEF Init
  <2> QED
    BY <2>3, <2>4 DEF Distinct
<1>2. status \in [Names -> Statuses]
  BY DEF Init, Statuses
<1>3. /\ none \in Seq(RowsIn({})) /\ none \in Seq(PagesBy(0)) /\ Len(none) = 0
      /\ 0 = Len(List) => Mirrors(none, List)
  BY DEF Mirrors
<1>4. rows = Refreshed(none, List, status) /\ pages = Paged(none, none, List, 0)
  BY DEF Init
<1> HIDE DEF none
<1>5. /\ rows \in Seq(RowsIn({})) /\ Mirrors(rows, List)
      /\ \A k \in 1 .. Len(List) : rows[k].shown = status[rows[k].name]
  <2>1. /\ List \in Seq(Names) /\ Distinct(List) /\ none \in Seq(RowsIn({}))
        /\ status \in [Names -> Statuses]
        /\ Len(none) = Len(List) => Mirrors(none, List)
    BY <1>1, <1>2, <1>3
  <2>2. rows \in Seq(RowsIn({}))
    BY <1>4, <2>1, RefreshedType
  <2>3. /\ Mirrors(rows, List)
        /\ \A k \in 1 .. Len(List) : rows[k].shown = status[rows[k].name]
    BY <1>4, <2>1, RefreshedMirrors
  <2> QED
    BY <2>2, <2>3
<1>6. pages \in Seq(PagesBy(0)) /\ Mirrors(pages, List)
  <2>1. /\ 0 \in Nat /\ List \in Seq(Names) /\ none \in Seq(PagesBy(0))
        /\ Len(none) = Len(List) \/ Len(none) = Len(List) => Mirrors(none, List)
    BY <1>1, <1>3
  <2> QED
    BY <1>4, <2>1, PagedIs
<1>7. /\ task = [w \in Workers |-> Idle] /\ ticked = {} /\ clicks = 0 /\ ~raced
      /\ reports = [w \in Workers |-> 0] /\ raced \in BOOLEAN
      /\ MaxClicks \in Nat /\ MaxReports \in Nat
  BY ConstantsAssumption DEF Init
<1>8. task \in [Workers -> Tasks]
  BY <1>7 DEF Tasks, Idle
<1>9. Busy = {}
  BY <1>7 DEF Busy
<1>10. \A w \in Workers : Drawing(task[w])
  BY <1>7 DEF Drawing, Idle
<1>11. reports \in [Workers -> 0 .. MaxReports] /\ clicks \in 0 .. MaxClicks
  BY <1>7
<1>12. Typed
  BY <1>1, <1>2, <1>5, <1>6, <1>7, <1>8, <1>11 DEF Typed
<1>13. Tidy
  BY <1>5, <1>6, <1>9, <1>10 DEF Tidy
<1> QED
  BY <1>12, <1>13 DEF Inv

(***************************************************************************)
(* A step of a worker.                                                     *)
(***************************************************************************)
\* A worker goes to t and leaves the window as it should be.
Moves(w, t) ==
  /\ t \in Tasks
  /\ Goes(w, t)
  /\ rows' \in Seq(RowsIn({}))
  /\ pages' \in Seq(PagesBy(clicks))
  /\ status' \in [Names -> Statuses]
  /\ reports' \in [Workers -> 0 .. MaxReports]
  /\ ~raced /\ Busy \subseteq {w} =>
       /\ pages' = pages
       /\ Mirrors(rows', List)
       /\ Drawing(t)
       /\ \A k \in 1 .. Len(List) : \/ rows'[k].shown = status'[rows'[k].name]
                                    \/ t # Idle /\ Pending(t, Len(List) + 1 - k)

\* Such a step keeps the invariant.
LEMMA MovesKeep ==
  ASSUME Inv, NEW w \in Workers, NEW t, Moves(w, t)
  PROVE  Inv' /\ clicks' = clicks /\ (~raced' => pages' = pages)
<1>1. /\ task' = [task EXCEPT ![w] = t]
      /\ ticked' = IF t = Idle THEN ticked \ {w} ELSE ticked
      /\ raced' = (raced \/ Busy \ {w} # {})
      /\ List' = List /\ clicks' = clicks
  BY DEF Moves, Goes
<1>2. /\ task \in [Workers -> Tasks] /\ ticked \subseteq Busy /\ raced \in BOOLEAN
      /\ List \in Seq(Names) /\ Distinct(List) /\ clicks \in 0 .. MaxClicks
  BY DEF Inv, Typed
<1>3. task' \in [Workers -> Tasks] /\ task'[w] = t /\ \A v \in Workers \ {w} : task'[v] = task[v]
  BY <1>1, <1>2 DEF Moves
<1>4. Busy' = {v \in Workers : task'[v] # Idle}
  BY DEF Busy, Idle
<1>5. ticked' \subseteq Busy'
  <2>1. ASSUME NEW v \in ticked'
        PROVE  v \in Workers /\ task'[v] # Idle
    <3>1. v \in ticked /\ v \in Workers /\ task[v] # Idle /\ (t = Idle => v # w)
      BY <1>1, <1>2 DEF Busy
    <3> QED
      BY <1>3, <3>1
  <2> QED
    BY <1>4, <2>1
<1>6. raced' \in BOOLEAN /\ (~raced' => ~raced /\ Busy \subseteq {w})
  BY <1>1, <1>2
<1>7. /\ rows' \in Seq(RowsIn({})) /\ pages' \in Seq(PagesBy(clicks'))
      /\ status' \in [Names -> Statuses] /\ reports' \in [Workers -> 0 .. MaxReports]
  BY <1>1 DEF Moves
<1>8. Distinct(List')
  BY <1>1, <1>2
<1>9. Typed'
  BY <1>1, <1>2, <1>3, <1>5, <1>6, <1>7, <1>8 DEF Typed, Distinct
<1>10. ASSUME ~raced'
       PROVE  Tidy' /\ pages' = pages
  <2>1. /\ ~raced /\ Busy \subseteq {w} /\ pages' = pages /\ Mirrors(rows', List) /\ Drawing(t)
        /\ \A k \in 1 .. Len(List) : \/ rows'[k].shown = status'[rows'[k].name]
                                     \/ t # Idle /\ Pending(t, Len(List) + 1 - k)
    BY <1>6, <1>10 DEF Moves
  <2>2. Mirrors(pages, List)
    BY <2>1 DEF Inv, Tidy
  <2>3. Mirrors(rows', List') /\ Mirrors(pages', List')
    BY <1>1, <2>1, <2>2
  <2>4. Busy' \subseteq {w}
    BY <1>3, <1>4, <2>1 DEF Busy
  <2>5. ASSUME NEW v \in Workers
        PROVE  Drawing(task[v])'
    <3>1. Drawing(task'[v])
      <4>1. CASE v = w
        BY <1>3, <2>1, <4>1
      <4>2. CASE v # w
        <5>1. task'[v] = Idle
          BY <1>3, <2>1, <4>2 DEF Busy
        <5> QED
          BY <5>1 DEF Drawing, Idle
      <4> QED
        BY <4>1, <4>2
    <3> QED
      BY <1>1, <3>1 DEF Drawing
  <2>6. ASSUME NEW k \in 1 .. Len(List')
        PROVE  \/ rows'[k].shown = status'[rows'[k].name]
               \/ \E v \in Busy' : Pending(task'[v], Len(List') + 1 - k)
    <3>1. CASE rows'[k].shown = status'[rows'[k].name]
      BY <3>1
    <3>2. CASE t # Idle /\ Pending(t, Len(List) + 1 - k)
      BY <1>1, <1>3, <1>4, <3>2
    <3> QED
      BY <1>1, <2>1, <3>1, <3>2
  <2>7. \A k \in 1 .. Len(List') : (\E v \in Busy' : Pending(task'[v], Len(List') + 1 - k))
          => (\E v \in Busy : Pending(task[v], Len(List) + 1 - k))'
    BY DEF Pending
  <2> QED
    BY <2>1, <2>3, <2>4, <2>5, <2>6, <2>7 DEF Tidy, Mirrors
<1> QED
  BY <1>1, <1>9, <1>10 DEF Inv

\* What a worker sees that alone refreshes.
Alone(w) ==
  /\ Mirrors(rows, List)
  /\ Mirrors(pages, List)
  /\ Drawing(task[w])
  /\ \A k \in 1 .. Len(List) : \/ rows[k].shown = status[rows[k].name]
                               \/ task[w] # Idle /\ Pending(task[w], Len(List) + 1 - k)

\* The invariant says so.
LEMMA WorkerAlone ==
  ASSUME Inv, NEW w \in Workers
  PROVE  ~raced /\ Busy \subseteq {w} => Alone(w)
BY DEF Inv, Tidy, Alone, Busy

\* The parts of the invariant that a worker's step needs.
LEMMA WorkerFacts ==
  ASSUME Inv, NEW w \in Workers
  PROVE  /\ task[w] \in Tasks
         /\ List \in Seq(Names) /\ Distinct(List) /\ Len(List) \in Nat
         /\ DOMAIN List = 1 .. Len(List)
         /\ \A i \in 1 .. Len(List) : List[i] \in Names
         /\ status \in [Names -> Statuses]
         /\ rows \in Seq(RowsIn({})) /\ pages \in Seq(PagesBy(clicks))
         /\ clicks \in Nat
         /\ reports \in [Workers -> 0 .. MaxReports]
BY LenProperties, ElementOfSeq DEF Inv, Typed

\* A refresh begins: every row is pending.
LEMMA ReportMoves ==
  ASSUME Inv, NEW w \in Workers, NEW n \in Names, Report(w, n)
  PROVE  \E t : Moves(w, t)
<1> DEFINE t == To("count")
<1>1. /\ Goes(w, t) /\ rows' = rows /\ pages' = pages
      /\ status' = [status EXCEPT ![n] = IF @ = "STOP" THEN "START" ELSE "STOP"]
      /\ reports' = [reports EXCEPT ![w] = @ + 1] /\ reports[w] < MaxReports
  BY DEF Report
<1>2. t \in Tasks /\ t # Idle /\ t.at = "count"
  BY DEF Tasks, To, Idle
<1>3. Drawing(t) /\ \A j : Pending(t, j)
  BY <1>2 DEF Drawing, Pending
<1> HIDE DEF t
<1>4. status' \in [Names -> Statuses]
  BY <1>1, WorkerFacts DEF Statuses
<1>5. reports' \in [Workers -> 0 .. MaxReports]
  BY <1>1, WorkerFacts, ConstantsAssumption
<1> QED
  BY <1>1, <1>2, <1>3, <1>4, <1>5, WorkerFacts, WorkerAlone DEF Moves, Alone

\* As many rows as downloads: the refresh draws them.
LEMMA CountMoves ==
  ASSUME Inv, NEW w \in Workers, CountRows(w)
  PROVE  \E t : Moves(w, t)
<1> DEFINE t == IF Len(rows) = Len(List) THEN Draw(1) ELSE To("clear")
<1>1. /\ Goes(w, t) /\ rows' = rows /\ pages' = pages /\ status' = status /\ reports' = reports
  BY DEF CountRows
<1>2. t \in Tasks /\ t # Idle
  BY DEF Tasks, Draw, To, Idle
<1>3. Len(rows) = Len(List) => t.at = "draw" /\ t.i = 1
  BY DEF Draw
<1> HIDE DEF t
<1>4. Alone(w) => Len(rows) = Len(List)
  BY DEF Alone, Mirrors
<1>5. Alone(w) => Drawing(t)
  BY <1>3, <1>4 DEF Drawing
<1>6. Alone(w) => \A k \in 1 .. Len(List) : Pending(t, Len(List) + 1 - k)
  BY <1>3, <1>4, WorkerFacts DEF Pending
<1> QED
  BY <1>1, <1>2, <1>5, <1>6, WorkerFacts, WorkerAlone DEF Moves, Alone

\* Steps that no worker makes that finds the rows and the pages of the list.
LEMMA RemakeMoves ==
  ASSUME Inv, NEW w \in Workers,
         \/ DeleteAllItems(w) \/ CountPages(w) \/ DeletePage(w) \/ PagesDeleted(w)
         \/ InsertItem(w) \/ InsertPage(w)
  PROVE  \E t : Moves(w, t)
<1> USE WorkerFacts
<1>1. task[w].at \in {"clear", "pages", "drop", "insert", "insertpage"}
  BY DEF DeleteAllItems, CountPages, DeletePage, PagesDeleted, InsertItem, InsertPage
<1>2. ~(~raced /\ Busy \subseteq {w})
  BY <1>1, WorkerAlone DEF Alone, Drawing
<1>3. CASE DeleteAllItems(w)
  <2> DEFINE t == To("pages")
             none == <<>>
  <2>1. Goes(w, t) /\ rows' = none /\ none \in Seq(RowsIn({})) /\ pages' = pages
        /\ status' = status /\ reports' = reports
    BY <1>3 DEF DeleteAllItems
  <2>2. t \in Tasks
    BY DEF Tasks, To
  <2> HIDE DEF t, none
  <2> QED
    BY <1>2, <2>1, <2>2 DEF Moves
<1>4. CASE CountPages(w)
  <2> DEFINE t == IF Len(pages) = Len(List) THEN Draw(1) ELSE To("drop")
  <2>1. Goes(w, t) /\ rows' = rows /\ pages' = pages /\ status' = status /\ reports' = reports
    BY <1>4 DEF CountPages
  <2>2. t \in Tasks
    BY DEF Tasks, To, Draw
  <2> HIDE DEF t
  <2> QED
    BY <1>2, <2>1, <2>2 DEF Moves
<1>5. CASE DeletePage(w)
  <2> DEFINE t == To("drop")
  <2>1. Goes(w, t) /\ pages' = Tail(pages) /\ pages # <<>>
        /\ rows' = rows /\ status' = status /\ reports' = reports
    BY <1>5 DEF DeletePage
  <2>2. t \in Tasks
    BY DEF Tasks, To
  <2>3. pages' \in Seq(PagesBy(clicks))
    BY <2>1, HeadTailProperties
  <2> HIDE DEF t
  <2> QED
    BY <1>2, <2>1, <2>2, <2>3 DEF Moves
<1>6. CASE PagesDeleted(w)
  <2> DEFINE t == Draw(1)
  <2>1. Goes(w, t) /\ rows' = rows /\ pages' = pages /\ status' = status /\ reports' = reports
    BY <1>6 DEF PagesDeleted
  <2>2. t \in Tasks
    BY DEF Tasks, Draw
  <2> HIDE DEF t
  <2> QED
    BY <1>2, <2>1, <2>2 DEF Moves
<1>7. CASE InsertItem(w)
  <2> DEFINE t == [task[w] EXCEPT !.at = "text", !.item = 1]
             row == Row(task[w].name, "")
             top == <<row>>
  <2>1. Goes(w, t) /\ rows' = top \o rows
        /\ pages' = pages /\ status' = status /\ reports' = reports
    BY <1>7 DEF InsertItem
  <2>2. task[w].at = "insert"
    BY <1>7 DEF InsertItem
  <2>3. task[w] \in [at : {"insert"}, i : Nat \ {0}, name : Names, item : Nat]
    BY <2>2 DEF Tasks
  <2>4. t \in Tasks /\ task[w].name \in Names
    BY <2>3 DEF Tasks
  <2>5. row \in RowsIn({})
    BY <2>4 DEF Row, RowsIn
  <2> HIDE DEF t, row
  <2>6. top \in Seq(RowsIn({}))
    BY <2>5
  <2> HIDE DEF top
  <2>7. rows' \in Seq(RowsIn({}))
    BY <2>1, <2>6, ConcatProperties
  <2> QED
    BY <1>2, <2>1, <2>4, <2>7 DEF Moves
<1>8. CASE InsertPage(w)
  <2> DEFINE t == Draw(task[w].i + 1)
             first == <<Page(task[w].name, clicks)>>
  <2>1. Goes(w, t) /\ pages' = first \o pages
        /\ rows' = rows /\ status' = status /\ reports' = reports
    BY <1>8 DEF InsertPage
  <2>2. task[w].at = "insertpage"
    BY <1>8 DEF InsertPage
  <2>3. task[w] \in [at : {"insertpage"}, i : Nat \ {0}, name : Names, item : Nat]
    BY <2>2 DEF Tasks
  <2>4. t \in Tasks /\ task[w].name \in Names
    BY <2>3 DEF Tasks, Draw
  <2>5. Page(task[w].name, clicks) \in PagesBy(clicks)
    BY <2>4 DEF Page, PagesBy
  <2>6. first \in Seq(PagesBy(clicks))
    BY <2>5
  <2> HIDE DEF t, first
  <2>7. pages' \in Seq(PagesBy(clicks))
    BY <2>1, <2>6, ConcatProperties
  <2> QED
    BY <1>2, <2>1, <2>4, <2>7 DEF Moves
<1> QED
  BY <1>3, <1>4, <1>5, <1>6, <1>7, <1>8

\* The refresh goes to the next object, or ends with no row pending.
LEMMA NextMoves ==
  ASSUME Inv, NEW w \in Workers, NextObject(w)
  PROVE  \E t : Moves(w, t)
<1> DEFINE i == task[w].i
           t == IF i > Len(List) THEN Idle ELSE Doing("row", i, List[i], 0)
<1>1. /\ Goes(w, t) /\ rows' = rows /\ pages' = pages /\ status' = status /\ reports' = reports
      /\ task[w].at = "draw"
  BY DEF NextObject
<1>2. i \in Nat \ {0}
  BY <1>1, WorkerFacts DEF Tasks
<1>3. t \in Tasks
  <2>1. CASE i > Len(List)
    <3>1. t = Idle
      BY <2>1
    <3> HIDE DEF t
    <3> QED
      BY <3>1 DEF Tasks, Idle
  <2>2. CASE ~(i > Len(List))
    <3>1. i \in 1 .. Len(List)
      BY <1>2, <2>2, WorkerFacts
    <3>2. List[i] \in Names
      BY <3>1, WorkerFacts
    <3> QED
      BY <1>2, <2>2, <3>2 DEF Tasks, Doing
  <2> QED
    BY <2>1, <2>2
<1>4. i > Len(List) => t = Idle /\ t.at = "idle"
  BY DEF Idle
<1>5. ~(i > Len(List)) => t.at = "row" /\ t.i = i /\ t.name = List[i] /\ t # Idle
  BY DEF Doing, Idle
<1>6. task[w].at = "draw" /\ task[w].i = i
  BY <1>1
<1> HIDE DEF t, i
<1>7. Drawing(t)
  BY <1>2, <1>4, <1>5, WorkerFacts DEF Drawing
<1>8. ASSUME Alone(w), NEW k \in 1 .. Len(List)
      PROVE  \/ rows[k].shown = status[rows[k].name]
             \/ t # Idle /\ Pending(t, Len(List) + 1 - k)
  <2>1. CASE rows[k].shown = status[rows[k].name]
    BY <2>1
  <2>2. CASE Pending(task[w], Len(List) + 1 - k)
    <3>1. i <= Len(List) + 1 - k
      BY <1>6, <2>2 DEF Pending
    <3>2. ~(i > Len(List))
      BY <1>2, <3>1, WorkerFacts
    <3> QED
      BY <1>5, <3>1, <3>2 DEF Pending
  <2> QED
    BY <1>8, <2>1, <2>2 DEF Alone
<1> QED
  BY <1>1, <1>3, <1>7, <1>8, WorkerFacts, WorkerAlone DEF Moves, Alone

\* The row of the object is found.
LEMMA FindRowMoves ==
  ASSUME Inv, NEW w \in Workers, FindRow(w)
  PROVE  \E t : Moves(w, t)
<1> DEFINE item == LastRow(rows, task[w].name)
           t == [task[w] EXCEPT !.at = IF item = 0 THEN "insert" ELSE "text", !.item = item]
<1>1. /\ Goes(w, t) /\ rows' = rows /\ pages' = pages /\ status' = status /\ reports' = reports
      /\ task[w].at = "row"
  BY DEF FindRow
<1>2. task[w] \in [at : {"row"}, i : Nat \ {0}, name : Names, item : Nat]
  BY <1>1, WorkerFacts DEF Tasks
<1>3. item \in Nat
  BY WorkerFacts, LastRowType
<1>4. ASSUME Alone(w)
      PROVE  /\ item = Len(List) + 1 - task[w].i /\ item \in 1 .. Len(List)
             /\ task[w].i \in 1 .. Len(List) /\ task[w].name = List[task[w].i]
  <2>1. task[w].i \in 1 .. Len(List) /\ task[w].name = List[task[w].i]
    BY <1>1, <1>4, WorkerFacts DEF Alone, Drawing
  <2> DEFINE k == Len(List) + 1 - task[w].i
  <2>2. k \in 1 .. Len(List) /\ Len(List) + 1 - k = task[w].i
    <3>1. Len(List) \in Nat
      BY WorkerFacts
    <3> QED
      BY <2>1, <3>1
  <2> HIDE DEF k
  <2>3. Mirrors(rows, List) /\ rows[k].name = task[w].name
    BY <1>4, <2>1, <2>2 DEF Alone, Mirrors
  <2>4. LastRow(rows, rows[k].name) = k
    BY <2>2, <2>3, WorkerFacts, MirrorRow
  <2> QED
    BY <2>1, <2>2, <2>3, <2>4 DEF k
<1> HIDE DEF item
<1>5. t \in Tasks /\ t # Idle
  BY <1>2, <1>3 DEF Tasks, Idle
<1>6. /\ item # 0 => t.at = "text"
      /\ t.item = item /\ t.i = task[w].i /\ t.name = task[w].name
  BY <1>2
<1> HIDE DEF t
<1>7. Alone(w) => Drawing(t)
  BY <1>4, <1>6, WorkerFacts DEF Drawing
<1>8. ASSUME Alone(w), NEW k \in 1 .. Len(List), Pending(task[w], Len(List) + 1 - k)
      PROVE  Pending(t, Len(List) + 1 - k)
  BY <1>1, <1>4, <1>6, <1>8 DEF Pending
<1> QED
  BY <1>1, <1>5, <1>7, <1>8, WorkerFacts, WorkerAlone DEF Moves, Alone

\* The row of the object is filled in, and pending no more.
LEMMA SetItemMoves ==
  ASSUME Inv, NEW w \in Workers, SetItem(w)
  PROVE  \E t : Moves(w, t)
<1> DEFINE t == [task[w] EXCEPT !.at = "page", !.item = 0]
           n == Len(List)
           set(k) == IF k = task[w].item THEN [rows[k] EXCEPT !.shown = status[task[w].name]]
                     ELSE rows[k]
<1>1. /\ Goes(w, t) /\ pages' = pages /\ status' = status /\ reports' = reports
      /\ task[w].at = "text" /\ rows' = [k \in DOMAIN rows |-> set(k)]
  BY DEF SetItem
<1>2. task[w] \in [at : {"text"}, i : Nat \ {0}, name : Names, item : Nat]
  BY <1>1, WorkerFacts DEF Tasks
<1>3. t \in Tasks /\ t # Idle /\ t.at = "page" /\ t.i = task[w].i /\ t.name = task[w].name
  BY <1>2 DEF Tasks, Idle
<1> HIDE DEF t
<1>4. DOMAIN rows = 1 .. Len(rows) /\ Len(rows) \in Nat
  BY WorkerFacts, LenProperties
<1>5. ASSUME NEW k \in 1 .. Len(rows)
      PROVE  set(k) \in RowsIn({}) /\ set(k).name = rows[k].name
             /\ set(k).shown = IF k = task[w].item THEN status[task[w].name] ELSE rows[k].shown
  <2>1. rows[k] \in RowsIn({})
    BY <1>5, WorkerFacts, ElementOfSeq
  <2>2. status[task[w].name] \in Statuses
    BY <1>2, WorkerFacts
  <2> QED
    BY <2>1, <2>2 DEF RowsIn
<1> HIDE DEF set
<1>6. /\ rows' \in Seq(RowsIn({})) /\ Len(rows') = Len(rows)
      /\ \A k \in 1 .. Len(rows) : rows'[k] = set(k)
  BY <1>1, <1>4, <1>5
<1>7. ASSUME Alone(w)
      PROVE  /\ Mirrors(rows', List) /\ Drawing(t)
             /\ \A k \in 1 .. n : \/ rows'[k].shown = status[rows'[k].name]
                                  \/ Pending(t, n + 1 - k)
  <2>1. /\ task[w].i \in 1 .. n /\ task[w].name = List[task[w].i]
        /\ task[w].item = n + 1 - task[w].i /\ n \in Nat
    BY <1>1, <1>7, WorkerFacts DEF Alone, Drawing
  <2>2. Len(rows) = n /\ \A k \in 1 .. n : rows[k].name = List[n + 1 - k]
    BY <1>7 DEF Alone, Mirrors
  <2>3. Mirrors(rows', List)
    BY <1>5, <1>6, <2>2 DEF Mirrors
  <2>4. Drawing(t)
    BY <1>3, <2>1, WorkerFacts DEF Drawing
  <2>5. ASSUME NEW k \in 1 .. n
        PROVE  \/ rows'[k].shown = status[rows'[k].name]
               \/ Pending(t, n + 1 - k)
    <3>1. /\ rows'[k].name = rows[k].name
          /\ rows'[k].shown = IF k = task[w].item THEN status[task[w].name] ELSE rows[k].shown
      BY <1>5, <1>6, <2>2
    <3>2. CASE k = task[w].item
      <4>1. n + 1 - k = task[w].i
        BY <2>1, <3>2
      <4>2. rows[k].name = task[w].name
        BY <2>1, <2>2, <4>1
      <4> QED
        BY <3>1, <3>2, <4>2
    <3>3. CASE k # task[w].item /\ rows[k].shown # status[rows[k].name]
      <4>1. Pending(task[w], n + 1 - k)
        BY <1>7, <3>3 DEF Alone
      <4>2. task[w].i <= n + 1 - k
        BY <1>1, <4>1 DEF Pending
      <4>3. task[w].i < n + 1 - k
        BY <2>1, <3>3, <4>2
      <4> QED
        BY <1>3, <4>3 DEF Pending
    <3> QED
      BY <3>1, <3>2, <3>3
  <2> QED
    BY <2>3, <2>4, <2>5
<1> HIDE DEF n
<1>8. /\ status \in [Names -> Statuses] /\ pages \in Seq(PagesBy(clicks))
      /\ reports \in [Workers -> 0 .. MaxReports]
  BY WorkerFacts
<1> QED
  BY <1>1, <1>3, <1>6, <1>7, <1>8, WorkerAlone DEF Moves, n

\* The page of the object is found.
LEMMA FindPageMoves ==
  ASSUME Inv, NEW w \in Workers, FindPage(w)
  PROVE  \E t : Moves(w, t)
<1> DEFINE there == task[w].name \in NamesOf(pages)
           t == IF there THEN Draw(task[w].i + 1) ELSE [task[w] EXCEPT !.at = "insertpage"]
<1>1. /\ Goes(w, t) /\ rows' = rows /\ pages' = pages /\ status' = status /\ reports' = reports
      /\ task[w].at = "page"
  BY DEF FindPage
<1>2. task[w] \in [at : {"page"}, i : Nat \ {0}, name : Names, item : Nat]
  BY <1>1, WorkerFacts DEF Tasks
<1>3. ASSUME Alone(w)
      PROVE  there
  <2>1. task[w].i \in 1 .. Len(List) /\ task[w].name = List[task[w].i]
    BY <1>1, <1>3, WorkerFacts DEF Alone, Drawing
  <2>2. Mirrors(pages, List)
    BY <1>3 DEF Alone
  <2> QED
    BY <2>1, <2>2, WorkerFacts, MirrorNames
<1> HIDE DEF there
<1>4. t \in Tasks /\ t # Idle
  BY <1>2 DEF Tasks, Idle, Draw
<1>5. there => t.at = "draw" /\ t.i = task[w].i + 1
  BY DEF Draw
<1> HIDE DEF t
<1>6. Alone(w) => Drawing(t)
  BY <1>3, <1>5 DEF Drawing
<1>7. ASSUME Alone(w), NEW k \in 1 .. Len(List), Pending(task[w], Len(List) + 1 - k)
      PROVE  Pending(t, Len(List) + 1 - k)
  <2>1. task[w].i < Len(List) + 1 - k /\ task[w].i \in Nat /\ Len(List) \in Nat
    BY <1>1, <1>2, <1>7, WorkerFacts DEF Pending
  <2>2. task[w].i + 1 <= Len(List) + 1 - k
    BY <2>1
  <2> QED
    BY <1>3, <1>5, <1>7, <2>2 DEF Pending
<1> QED
  BY <1>1, <1>4, <1>6, <1>7, WorkerFacts, WorkerAlone DEF Moves, Alone

\* The steps of the workers.
LEMMA WorkerKeeps ==
  ASSUME Inv, NEW w \in Workers, Refresh(w) \/ \E n \in Names : Report(w, n)
  PROVE  Inv' /\ clicks' = clicks /\ (~raced' => pages' = pages)
<1>1. \E t : Moves(w, t)
  BY ReportMoves, CountMoves, RemakeMoves, NextMoves, FindRowMoves, SetItemMoves, FindPageMoves
     DEF Refresh
<1> QED
  BY <1>1, MovesKeep

(***************************************************************************)
(* A click, and the timer.                                                 *)
(***************************************************************************)
\* The pages of downloads that stay in the list are among those of the window s.
KeepsPages(s, list) ==
  \A k \in DOMAIN pages :
    pages[k].name \in Range(list) => \E j \in DOMAIN s.pages : s.pages[j] = pages[k]

\* What is shown in the end is the window s, in order unless a worker disturbed it.
Draws(s, names) ==
  /\ s \in Screens(clicks', names)
  /\ Shows(s)
  /\ ~raced /\ Busy = {} => InOrder(s, List') /\ KeepsPages(s, List')

\* Such an operation keeps the invariant, and the pages.
LEMMA DrawsKeep ==
  ASSUME Inv, NEW s, NEW names, Draws(s, names),
         List' \in Seq(Names), Distinct(List'), clicks' \in 0 .. MaxClicks,
         task' = task, reports' = reports, ticked' \subseteq Busy,
         raced' = (raced \/ Busy # {})
  PROVE  /\ Inv'
         /\ ~raced' => \A k \in DOMAIN pages : pages[k].name \in Range(List') =>
                         \E j \in DOMAIN pages' : pages'[j] = pages[k]
<1> DEFINE show(k) == [s.rows[k] EXCEPT !.selected = FALSE]
           n == Len(s.rows)
<1>1. /\ rows' = [k \in DOMAIN s.rows |-> show(k)]
      /\ pages' = s.pages /\ status' = s.status
  BY DEF Draws, Shows
<1>2. /\ s.rows \in Seq(RowsIn(names)) /\ s.pages \in Seq(PagesBy(clicks'))
      /\ s.status \in [Names -> Statuses]
  BY DEF Draws, Screens
<1>3. DOMAIN s.rows = 1 .. n /\ n \in Nat
  BY <1>2, LenProperties
<1>4. ASSUME NEW k \in 1 .. n
      PROVE  /\ show(k) \in RowsIn({}) /\ show(k).name = s.rows[k].name
             /\ show(k).shown = s.rows[k].shown
  <2>1. s.rows[k] \in RowsIn(names)
    BY <1>2, <1>3, ElementOfSeq
  <2> QED
    BY <2>1 DEF RowsIn
<1> HIDE DEF show, n
<1>5. /\ rows' \in Seq(RowsIn({})) /\ Len(rows') = n /\ \A k \in 1 .. n : rows'[k] = show(k)
  BY <1>1, <1>3, <1>4
<1>6. Busy' = Busy
  BY DEF Busy
<1>7. Typed'
  <2>1. /\ task \in [Workers -> Tasks] /\ reports \in [Workers -> 0 .. MaxReports]
        /\ raced \in BOOLEAN
    BY DEF Inv, Typed
  <2>2. status' \in [Names -> Statuses] /\ pages' \in Seq(PagesBy(clicks'))
    BY <1>1, <1>2
  <2> QED
    BY <1>5, <1>6, <2>1, <2>2 DEF Typed, Distinct
<1>8. ASSUME ~raced'
      PROVE  Tidy' /\ KeepsPages(s, List')
  <2>1. /\ ~raced /\ Busy = {} /\ InOrder(s, List') /\ KeepsPages(s, List')
    BY <1>8 DEF Draws
  <2>2. Len(List') = n /\ Mirrors(rows', List')
    BY <1>4, <1>5, <2>1 DEF InOrder, Mirrors, n
  <2>3. Mirrors(pages', List')
    BY <1>1, <2>1 DEF InOrder
  <2>4. ASSUME NEW k \in 1 .. n
        PROVE  rows'[k].shown = status'[rows'[k].name]
    BY <1>1, <1>4, <1>5, <2>1, <2>2 DEF InOrder
  <2>5. ASSUME NEW w \in Workers
        PROVE  Drawing(task[w])'
    <3>1. task'[w] = Idle
      BY <2>1 DEF Busy
    <3> QED
      BY <3>1 DEF Drawing, Idle
  <2> QED
    BY <1>6, <2>1, <2>2, <2>3, <2>4, <2>5 DEF Tidy, Mirrors
<1> QED
  BY <1>1, <1>7, <1>8 DEF Inv, KeepsPages

\* What a click begins with, and what it leaves to the workers.
LEMMA ClickFacts ==
  ASSUME Inv, NEW op, NEW names, Click(op, names)
  PROVE  /\ clicks \in Nat /\ clicks' \in Nat /\ clicks' \in 0 .. MaxClicks /\ clicks' # clicks
         /\ task' = task /\ reports' = reports /\ ticked' \subseteq Busy
         /\ raced' = (raced \/ Busy # {})
         /\ did'.op = op /\ did'.names = names
         /\ Screen \in Screens(clicks', {})
<1>1. clicks \in 0 .. MaxClicks /\ ticked \subseteq Busy
  BY DEF Inv, Typed
<1>2. /\ clicks' = clicks + 1 /\ clicks < MaxClicks /\ did' = [op |-> op, names |-> names]
      /\ raced' = (raced \/ Busy # {})
      /\ task' = task /\ ticked' = ticked /\ reports' = reports
  BY DEF Click
<1>3. clicks \in Nat /\ clicks' \in Nat /\ clicks' \in 0 .. MaxClicks /\ clicks' # clicks
  BY <1>1, <1>2, ConstantsAssumption
<1>4. PagesBy(clicks) \subseteq PagesBy(clicks')
  BY <1>1, <1>2, ConstantsAssumption DEF PagesBy
<1>5. pages \in Seq(PagesBy(clicks'))
  <2>1. pages \in Seq(PagesBy(clicks))
    BY DEF Inv, Typed
  <2> QED
    BY <1>4, <2>1
<1>6. rows \in Seq(RowsIn({})) /\ status \in [Names -> Statuses]
  BY DEF Inv, Typed
<1>7. Screen \in Screens(clicks', {})
  BY <1>5, <1>6 DEF Screen, Screens
<1> QED
  BY <1>1, <1>2, <1>3, <1>7

\* The list, and the window before a click that no worker disturbs.
LEMMA ClickBegins ==
  ASSUME Inv
  PROVE  /\ List \in Seq(Names) /\ Distinct(List) /\ Len(List) \in Nat
         /\ DOMAIN List = 1 .. Len(List)
         /\ Range(List) = {List[i] : i \in 1 .. Len(List)}
         /\ status \in [Names -> Statuses]
         /\ ~raced /\ Busy = {} => InOrder(Screen, List)
         /\ Screen.rows = rows /\ Screen.pages = pages /\ Screen.status = status
<1>1. /\ List \in Seq(Names) /\ Distinct(List) /\ Len(List) \in Nat
      /\ DOMAIN List = 1 .. Len(List) /\ status \in [Names -> Statuses]
  BY LenProperties DEF Inv, Typed
<1>2. Screen.rows = rows /\ Screen.pages = pages /\ Screen.status = status
  BY DEF Screen
<1>3. ~raced /\ Busy = {} => InOrder(Screen, List)
  BY <1>2, TidyShows DEF InOrder
<1> QED
  BY <1>1, <1>2, <1>3 DEF Range

\* The timer.
LEMMA TimerDraws ==
  ASSUME Inv, OnTimer
  PROVE  /\ Inv' /\ clicks' = clicks
         /\ ~raced' => \A k \in DOMAIN pages : pages[k].name \in Range(List') =>
                         \E j \in DOMAIN pages' : pages'[j] = pages[k]
<1> DEFINE s == UpdateScreen(Screen, List)
<1>1. /\ clicks' = clicks /\ Shows(s) /\ List' = List /\ task' = task /\ reports' = reports
      /\ ticked' = Busy /\ raced' = (raced \/ Busy # {})
  BY DEF OnTimer
<1>2. clicks' \in Nat /\ clicks' \in 0 .. MaxClicks
  BY <1>1, ConstantsAssumption DEF Inv, Typed
<1>3. Screen \in Screens(clicks', {})
  <2>1. /\ rows \in Seq(RowsIn({})) /\ pages \in Seq(PagesBy(clicks'))
        /\ status \in [Names -> Statuses]
    BY <1>1 DEF Inv, Typed
  <2> QED
    BY <2>1 DEF Screen, Screens
<1>4. /\ s \in Screens(clicks', {})
      /\ Mirrors(Screen.pages, List) => s.pages = Screen.pages
      /\ Ready(Screen, List) => InOrder(s, List)
  BY <1>2, <1>3, ClickBegins, UpdateIs
<1> HIDE DEF s
<1>5. ASSUME ~raced, Busy = {}
      PROVE  InOrder(s, List) /\ s.pages = pages
  <2>1. InOrder(Screen, List)
    BY <1>5, ClickBegins
  <2> QED
    BY <1>4, <2>1, ClickBegins DEF InOrder, Ready
<1>6. Draws(s, {})
  BY <1>1, <1>4, <1>5 DEF Draws, KeepsPages
<1>7. List' \in Seq(Names) /\ Distinct(List') /\ ticked' \subseteq Busy
  BY <1>1, ClickBegins
<1> QED
  BY <1>1, <1>2, <1>6, <1>7, DrawsKeep

\* The stop button.
LEMMA StopDraws ==
  ASSUME Inv, NEW S, StopButton(S)
  PROVE  /\ Inv'
         /\ ~raced' => \A k \in DOMAIN pages : pages[k].name \in Range(List') =>
                         \E j \in DOMAIN pages' : pages'[j] = pages[k]
         /\ did'.op = "stop" /\ \A n \in Range(List) :
              status'[n] = IF n \in did'.names THEN "STOP" ELSE status[n]
<1> DEFINE chosen == NamesAt(S)
           st == [n \in Names |-> IF n \in chosen \cap Range(List) THEN "STOP" ELSE status[n]]
           t == [Screen EXCEPT !.status = st]
           s == UpdateScreen(t, List)
<1>1. Click("stop", chosen) /\ Shows(s) /\ List' = List
  <2>1. [Screen EXCEPT !.status = [n \in Names |-> IF n \in chosen \cap Range(List)
                                                   THEN "STOP" ELSE @[n]]] = t
    BY DEF Screen
  <2> QED
    BY <2>1 DEF StopButton
<1> HIDE DEF chosen
<1>2. st \in [Names -> Statuses]
  BY ClickBegins DEF Statuses
<1>3. /\ t.rows = rows /\ t.pages = pages /\ t.status = st
      /\ t \in Screens(clicks', {})
  BY <1>1, <1>2, ClickFacts DEF Screen, Screens
<1> HIDE DEF t
<1>4. clicks' \in Nat /\ List \in Seq(Names) /\ Distinct(List)
  BY <1>1, ClickFacts, ClickBegins
<1>5. /\ s \in Screens(clicks', {}) /\ s.status = t.status
      /\ Mirrors(t.pages, List) => s.pages = t.pages
      /\ Ready(t, List) => InOrder(s, List)
  BY <1>3, <1>4, UpdateIs
<1> HIDE DEF s
<1>6. ASSUME ~raced, Busy = {}
      PROVE  InOrder(s, List) /\ s.pages = pages
  <2>1. Mirrors(rows, List) /\ Mirrors(pages, List)
    BY <1>6, TidyShows
  <2> QED
    BY <1>3, <1>5, <2>1 DEF Ready
<1>7. Draws(s, {})
  BY <1>1, <1>5, <1>6 DEF Draws, KeepsPages
<1>8. Inv' /\ (~raced' => \A k \in DOMAIN pages : pages[k].name \in Range(List') =>
                            \E j \in DOMAIN pages' : pages'[j] = pages[k])
  BY <1>1, <1>4, <1>7, ClickFacts, DrawsKeep
<1>9. did'.op = "stop" /\ did'.names = chosen
  BY <1>1, ClickFacts
<1>10. ASSUME NEW n \in Range(List)
       PROVE  status'[n] = IF n \in chosen THEN "STOP" ELSE status[n]
  <2>1. n \in Names
    BY ClickBegins, ElementOfSeq
  <2>2. status' = st
    BY <1>1, <1>3, <1>5 DEF Shows
  <2> QED
    BY <2>1, <2>2
<1> QED
  BY <1>8, <1>9, <1>10

\* A download is added.
LEMMA AddDraws ==
  ASSUME Inv, NEW n \in Names, AddDownload(n)
  PROVE  /\ Inv'
         /\ ~raced' => \A k \in DOMAIN pages : pages[k].name \in Range(List') =>
                         \E j \in DOMAIN pages' : pages'[j] = pages[k]
         /\ did'.op = "add"
<1> DEFINE page == Page(n, clicks')
           ps == <<page>> \o pages
           st == [status EXCEPT ![n] = "STOP"]
           t == [Screen EXCEPT !.pages = ps, !.status = st]
           s == UpdateScreen(t, List')
           m == Len(List)
<1>1. n \notin Range(List) /\ Click("add", {n}) /\ Shows(s) /\ List' = Append(List, n)
  <2>1. [Screen EXCEPT !.pages = <<Page(n, clicks')>> \o @, !.status[n] = "STOP"] = t
    BY DEF Screen
  <2> QED
    BY <2>1 DEF AddDownload
<1>2. /\ List \in Seq(Names) /\ Distinct(List) /\ m \in Nat /\ DOMAIN List = 1 .. m
      /\ Range(List) = {List[i] : i \in 1 .. m} /\ status \in [Names -> Statuses]
  BY ClickBegins
<1>3. /\ List' \in Seq(Names) /\ Len(List') = m + 1 /\ List'[m + 1] = n
      /\ \A i \in 1 .. m : List'[i] = List[i]
  BY <1>1, <1>2, AppendProperties
<1>4. Distinct(List')
  <2> SUFFICES ASSUME NEW i \in 1 .. m + 1, NEW j \in 1 .. m + 1, List'[i] = List'[j]
               PROVE  i = j
    BY <1>3 DEF Distinct
  <2>1. i \in 1 .. m \/ i = m + 1
    BY <1>2
  <2>2. j \in 1 .. m \/ j = m + 1
    BY <1>2
  <2> QED
    BY <1>1, <1>2, <1>3, <2>1, <2>2 DEF Distinct
<1>5. clicks' \in Nat /\ Screen \in Screens(clicks', {})
  BY <1>1, ClickFacts
<1>6. pages \in Seq(PagesBy(clicks')) /\ DOMAIN pages = 1 .. Len(pages) /\ Len(pages) \in Nat
  BY <1>5, ClickBegins, LenProperties DEF Screens
<1>7. page \in PagesBy(clicks') /\ page.name = n
  BY <1>5 DEF Page, PagesBy
<1> HIDE DEF page
<1>8. /\ ps \in Seq(PagesBy(clicks')) /\ Len(ps) = 1 + Len(pages) /\ ps[1] = page
      /\ \A k \in 1 .. Len(pages) : ps[1 + k] = pages[k]
  <2>1. <<page>> \in Seq(PagesBy(clicks')) /\ Len(<<page>>) = 1 /\ <<page>>[1] = page
    BY <1>7
  <2> QED
    BY <1>6, <2>1, ConcatProperties
<1>9. st \in [Names -> Statuses]
  BY <1>2 DEF Statuses
<1> HIDE DEF ps, st
<1>10. /\ t.rows = rows /\ t.pages = ps /\ t.status = st
       /\ t \in Screens(clicks', {})
  BY <1>5, <1>8, <1>9 DEF Screen, Screens
<1> HIDE DEF t
<1>11. /\ s \in Screens(clicks', {})
       /\ Mirrors(t.pages, List') => s.pages = t.pages
       /\ Distinct(List') /\ Ready(t, List') => InOrder(s, List')
  <2> DEFINE list == List'
  <2>1. list \in Seq(Names) /\ clicks' \in Nat /\ t \in Screens(clicks', {})
    BY <1>3, <1>5, <1>10
  <2> HIDE DEF list
  <2>2. LET u == UpdateScreen(t, list)
        IN /\ u \in Screens(clicks', {})
           /\ Mirrors(t.pages, list) => u.pages = t.pages
           /\ Distinct(list) /\ Ready(t, list) => InOrder(u, list)
    BY <2>1, UpdateIs
  <2> QED
    BY <2>2 DEF list
<1> HIDE DEF s, m
<1>12. ASSUME ~raced, Busy = {}
       PROVE  InOrder(s, List') /\ KeepsPages(s, List')
  <2>1. Len(rows) = m /\ Len(pages) = m /\ \A k \in 1 .. m : pages[k].name = List[m + 1 - k]
    BY <1>12, TidyShows DEF Mirrors, m
  <2>2. ASSUME NEW k \in 1 .. m + 1
        PROVE  ps[k].name = List'[(m + 1) + 1 - k]
    <3>1. CASE k = 1
      <4>1. (m + 1) + 1 - k = m + 1
        BY <1>2, <3>1
      <4> QED
        BY <1>3, <1>7, <1>8, <3>1, <4>1
    <3>2. CASE k # 1
      <4> DEFINE j == k - 1
      <4>1. j \in 1 .. m /\ 1 + j = k /\ (m + 1) + 1 - k = m + 1 - j /\ m + 1 - j \in 1 .. m
        BY <1>2, <3>2
      <4> HIDE DEF j
      <4> QED
        BY <1>3, <1>8, <2>1, <4>1
    <3> QED
      BY <3>1, <3>2
  <2>3. Mirrors(ps, List')
    BY <1>2, <1>3, <1>8, <2>1, <2>2 DEF Mirrors
  <2>4. Ready(t, List')
    BY <1>2, <1>3, <1>10, <2>1, <2>3 DEF Ready
  <2>5. s.pages = ps
    BY <1>10, <1>11, <2>3
  <2>6. ASSUME NEW k \in DOMAIN pages
        PROVE  \E j \in DOMAIN s.pages : s.pages[j] = pages[k]
    <3>1. 1 + k \in 1 .. Len(ps) /\ ps[1 + k] = pages[k]
      BY <1>6, <1>8
    <3>2. DOMAIN ps = 1 .. Len(ps)
      BY <1>8, LenProperties
    <3> QED
      BY <2>5, <3>1, <3>2
  <2> QED
    BY <1>4, <1>11, <2>4, <2>6 DEF KeepsPages
<1>13. Draws(s, {})
  BY <1>1, <1>11, <1>12 DEF Draws
<1> QED
  BY <1>1, <1>3, <1>4, <1>13, ClickFacts, DrawsKeep

\* What a deletion makes of the list.
LEMMA ListDeleted ==
  ASSUME Inv, NEW chosen
  PROVE  LET w == Without(List, PlacesOf(chosen))
         IN /\ w \in Seq(Names) /\ Distinct(w)
            /\ Range(w) = Range(List) \ chosen
            /\ Len(w) = Len(List) => w = List
            /\ \E e : /\ Counts(e, Len(w), Len(List), PlacesOf(chosen))
                      /\ \A k \in 1 .. Len(w) : w[k] = List[e[k]]
<1> DEFINE n == Len(List)
           places == PlacesOf(chosen)
           w == Without(List, places)
           m == Len(w)
<1>1. /\ List \in Seq(Names) /\ Distinct(List) /\ n \in Nat /\ DOMAIN List = 1 .. n
  BY ClickBegins
<1>2. w \in Seq(Names) /\ Leaves(w, List, n, places)
  BY <1>1, WithoutLeaves
<1>3. \A i \in 1 .. n : i \in places <=> List[i] \in chosen
  BY <1>1 DEF PlacesOf
<1> HIDE DEF w, places
<1>4. m \in Nat /\ DOMAIN w = 1 .. m
  BY <1>2, LenProperties
<1> HIDE DEF m
<1>5. PICK e : Counts(e, m, n, places) /\ \A k \in 1 .. m : w[k] = List[e[k]]
  BY <1>2 DEF Leaves, m
<1>6. e \in [1 .. m -> 1 .. n] /\ \A j, k \in 1 .. m : j < k => e[j] < e[k]
  BY <1>5 DEF Counts
<1>7. ASSUME NEW i \in 1 .. m, NEW j \in 1 .. m, w[i] = w[j]
      PROVE  i = j
  <2>1. e[i] \in 1 .. n /\ e[j] \in 1 .. n /\ List[e[i]] = List[e[j]]
    BY <1>5, <1>6, <1>7
  <2>2. e[i] = e[j]
    BY <1>1, <2>1 DEF Distinct
  <2>3. ~(i < j) /\ ~(j < i)
    BY <1>6, <2>1, <2>2
  <2> QED
    BY <1>4, <2>3
<1>8. Distinct(w)
  BY <1>7 DEF Distinct, m
<1>9. Range(w) \subseteq Range(List) \ chosen
  <2>1. ASSUME NEW k \in 1 .. m
        PROVE  w[k] \in Range(List) /\ w[k] \notin chosen
    <3>1. e[k] \in 1 .. n /\ e[k] \notin places /\ w[k] = List[e[k]]
      BY <1>5, <1>6 DEF Counts
    <3> QED
      BY <1>1, <1>3, <3>1 DEF Range
  <2> QED
    BY <1>4, <2>1 DEF Range
<1>10. Range(List) \ chosen \subseteq Range(w)
  <2>1. ASSUME NEW i \in 1 .. n, List[i] \notin chosen
        PROVE  List[i] \in Range(w)
    <3>1. i \in (1 .. n) \ places
      BY <1>3, <2>1
    <3>2. PICK k \in 1 .. m : e[k] = i
      BY <1>5, <3>1 DEF Counts
    <3>3. w[k] = List[i]
      BY <1>5, <3>2
    <3> QED
      BY <1>4, <3>3 DEF Range
  <2> QED
    BY <1>1, <2>1 DEF Range
<1>11. ASSUME m = n
       PROVE  w = List
  <2>1. \A i \in 1 .. n : w[i] = List[i]
    BY <1>2, <1>11 DEF Leaves, m
  <2>2. Len(w) = Len(List)
    BY <1>11 DEF m
  <2> QED
    BY <1>1, <1>2, <2>1, <2>2, SeqEqual
<1> QED
  BY <1>2, <1>5, <1>8, <1>9, <1>10, <1>11 DEF w, m, places

\* And of the pages, when they are those of the list.
Gone(names) ==
  {k \in DOMAIN pages : /\ pages[k].name \in names \cap Range(List)
                        /\ \A j \in 1 .. k - 1 : pages[j].name # pages[k].name}

\* What is left are the pages of what is left of the list.
LEMMA PagesDeletedIs ==
  ASSUME Inv, Mirrors(pages, List), NEW chosen
  PROVE  LET v == Without(pages, Gone(chosen))
             w == Without(List, PlacesOf(chosen))
         IN /\ Mirrors(v, w)
            /\ \A k \in DOMAIN pages :
                 pages[k].name \in Range(w) => \E j \in DOMAIN v : v[j] = pages[k]
<1> DEFINE n == Len(List)
           places == PlacesOf(chosen)
           gone == Gone(chosen)
           v == Without(pages, gone)
           w == Without(List, places)
           m == Len(v)
<1>1. /\ List \in Seq(Names) /\ Distinct(List) /\ n \in Nat /\ DOMAIN List = 1 .. n
      /\ pages \in Seq(PagesBy(clicks)) /\ Len(pages) = n /\ DOMAIN pages = 1 .. n
      /\ \A k \in 1 .. n : pages[k].name = List[n + 1 - k]
  BY ClickBegins, LenProperties DEF Inv, Typed, Mirrors
<1>2. \A i \in 1 .. n : i \in places <=> List[i] \in chosen
  BY <1>1 DEF PlacesOf
<1>3. ASSUME NEW k \in 1 .. n
      PROVE  k \in gone <=> n + 1 - k \in places
  <2>1. n + 1 - k \in 1 .. n
    BY <1>1
  <2>2. \A j \in 1 .. k - 1 : pages[j].name # pages[k].name
    <3> SUFFICES ASSUME NEW j \in 1 .. k - 1, pages[j].name = pages[k].name
                 PROVE  FALSE
      OBVIOUS
    <3>1. j \in 1 .. n /\ n + 1 - j \in 1 .. n /\ n + 1 - j # n + 1 - k
      BY <1>1
    <3>2. List[n + 1 - j] = List[n + 1 - k]
      BY <1>1, <3>1
    <3> QED
      BY <1>1, <2>1, <3>1, <3>2 DEF Distinct
  <2>3. pages[k].name = List[n + 1 - k] /\ pages[k].name \in Range(List)
    BY <1>1, <2>1 DEF Range
  <2> QED
    BY <1>1, <1>2, <2>1, <2>2, <2>3 DEF Gone
<1> HIDE DEF gone
<1>4. v \in Seq(PagesBy(clicks)) /\ Leaves(v, pages, n, gone)
  BY <1>1, WithoutLeaves
<1> HIDE DEF v
<1>5. m \in Nat /\ DOMAIN v = 1 .. m
  BY <1>4, LenProperties
<1>6. PICK d : Counts(d, m, n, gone) /\ \A k \in 1 .. m : v[k] = pages[d[k]]
  BY <1>4 DEF Leaves
<1>7. /\ Range(w) = Range(List) \ chosen
      /\ \E e : Counts(e, Len(w), n, places) /\ \A k \in 1 .. Len(w) : w[k] = List[e[k]]
      /\ w \in Seq(Names)
  BY ListDeleted
<1> HIDE DEF w, places, m
<1>8. PICK e : Counts(e, Len(w), n, places) /\ \A k \in 1 .. Len(w) : w[k] = List[e[k]]
  BY <1>7
<1>9. Len(w) \in Nat
  BY <1>7, LenProperties
<1> DEFINE r == [k \in 1 .. m |-> n + 1 - d[m + 1 - k]]
<1>10. d \in [1 .. m -> 1 .. n] /\ \A j, k \in 1 .. m : j < k => d[j] < d[k]
  BY <1>6 DEF Counts
<1>11. r \in [1 .. m -> 1 .. n] /\ \A k \in 1 .. m : r[k] = n + 1 - d[m + 1 - k]
  <2>1. ASSUME NEW k \in 1 .. m
        PROVE  n + 1 - d[m + 1 - k] \in 1 .. n
    <3>1. m + 1 - k \in 1 .. m
      BY <1>5
    <3>2. d[m + 1 - k] \in 1 .. n
      BY <1>10, <3>1
    <3> QED
      BY <1>1, <3>2
  <2> QED
    BY <2>1
<1> HIDE DEF r
<1>12. Counts(r, m, n, places)
  <2>1. ASSUME NEW k \in 1 .. m
        PROVE  r[k] \notin places
    <3>1. m + 1 - k \in 1 .. m
      BY <1>5
    <3>2. d[m + 1 - k] \in 1 .. n /\ d[m + 1 - k] \notin gone
      BY <1>6, <1>10, <3>1 DEF Counts
    <3> QED
      BY <1>3, <1>11, <3>2
  <2>2. ASSUME NEW j \in 1 .. m, NEW k \in 1 .. m, j < k
        PROVE  r[j] < r[k]
    <3>1. m + 1 - j \in 1 .. m /\ m + 1 - k \in 1 .. m /\ m + 1 - k < m + 1 - j
      BY <1>5, <2>2
    <3>2. d[m + 1 - k] < d[m + 1 - j] /\ d[m + 1 - k] \in 1 .. n /\ d[m + 1 - j] \in 1 .. n
      BY <1>10, <3>1
    <3> QED
      BY <1>1, <1>11, <3>2
  <2>3. ASSUME NEW i \in (1 .. n) \ places
        PROVE  \E k \in 1 .. m : r[k] = i
    <3> DEFINE q == n + 1 - i
    <3>1. q \in 1 .. n /\ n + 1 - q = i
      BY <1>1
    <3> HIDE DEF q
    <3>2. q \in (1 .. n) \ gone
      BY <1>3, <2>3, <3>1
    <3>3. PICK l \in 1 .. m : d[l] = q
      BY <1>6, <3>2 DEF Counts
    <3>4. m + 1 - l \in 1 .. m /\ m + 1 - (m + 1 - l) = l
      BY <1>5
    <3>5. r[m + 1 - l] = i
      BY <1>11, <3>1, <3>3, <3>4
    <3> QED
      BY <3>4, <3>5
  <2> QED
    BY <1>11, <2>1, <2>2, <2>3 DEF Counts
<1>13. m = Len(w) /\ \A k \in 1 .. m : r[k] = e[k]
  BY <1>1, <1>5, <1>8, <1>9, <1>12, CountsOnce
<1>14. ASSUME NEW k \in 1 .. m
       PROVE  v[k].name = w[m + 1 - k]
  <2>1. m + 1 - k \in 1 .. m /\ m + 1 - (m + 1 - k) = k
    BY <1>5
  <2>2. d[k] \in 1 .. n /\ v[k] = pages[d[k]]
    BY <1>6, <1>10
  <2>3. r[m + 1 - k] = n + 1 - d[k]
    BY <1>11, <2>1
  <2>4. w[m + 1 - k] = List[n + 1 - d[k]]
    BY <1>8, <1>13, <2>1, <2>3
  <2> QED
    BY <1>1, <2>2, <2>4
<1>15. Mirrors(v, w)
  BY <1>13, <1>14 DEF Mirrors, m
<1>16. ASSUME NEW k \in DOMAIN pages, pages[k].name \in Range(w)
       PROVE  \E j \in DOMAIN v : v[j] = pages[k]
  <2>1. k \in 1 .. n /\ n + 1 - k \in 1 .. n /\ pages[k].name = List[n + 1 - k]
        /\ pages[k].name \notin chosen
    BY <1>1, <1>7, <1>16
  <2>2. k \in (1 .. n) \ gone
    BY <1>2, <1>3, <2>1
  <2>3. PICK j \in 1 .. m : d[j] = k
    BY <1>6, <2>2 DEF Counts
  <2> QED
    BY <1>5, <1>6, <2>3
<1> QED
  BY <1>15, <1>16 DEF v, w, places, gone

\* The delete button.
LEMMA DeleteDraws ==
  ASSUME Inv, NEW S, DeleteButton(S)
  PROVE  /\ Inv'
         /\ ~raced' => \A k \in DOMAIN pages : pages[k].name \in Range(List') =>
                         \E j \in DOMAIN pages' : pages'[j] = pages[k]
         /\ did'.op = "delete" /\ Range(List') = Range(List) \ did'.names
<1> DEFINE chosen == NamesAt(S)
           gone == Gone(chosen)
           list == Without(List, PlacesOf(chosen))
           ps == Without(pages, gone)
           t == [Screen EXCEPT !.pages = ps]
           s == UpdateScreen(t, list)
<1>1. Click("delete", chosen) /\ List' = list /\ Shows(s)
  BY DEF DeleteButton, Gone
<1> HIDE DEF chosen
<1>2. /\ list \in Seq(Names) /\ Distinct(list)
      /\ Range(list) = Range(List) \ chosen
      /\ Len(list) = Len(List) => list = List
  BY ListDeleted
<1>3. clicks' \in Nat /\ Screen \in Screens(clicks', {})
  BY <1>1, ClickFacts
<1>4. ps \in Seq(PagesBy(clicks'))
  <2>1. pages \in Seq(PagesBy(clicks'))
    BY <1>3, ClickBegins DEF Screens
  <2> QED
    BY <2>1, WithoutLeaves
<1>5. ASSUME ~raced, Busy = {}
      PROVE  /\ Mirrors(ps, list)
             /\ \A k \in DOMAIN pages :
                  pages[k].name \in Range(list) => \E j \in DOMAIN ps : ps[j] = pages[k]
  <2>1. Mirrors(pages, List)
    BY <1>5, TidyShows
  <2> QED
    BY <2>1, PagesDeletedIs
<1> HIDE DEF ps, list
<1>6. t.rows = rows /\ t.pages = ps /\ t \in Screens(clicks', {})
  BY <1>3, <1>4 DEF Screen, Screens
<1> HIDE DEF t
<1>7. /\ s \in Screens(clicks', {})
      /\ Mirrors(t.pages, list) => s.pages = t.pages
      /\ Ready(t, list) => InOrder(s, list)
  BY <1>2, <1>3, <1>6, UpdateIs
<1> HIDE DEF s
<1>8. ASSUME ~raced, Busy = {}
      PROVE  InOrder(s, list) /\ KeepsPages(s, list)
  <2>1. Mirrors(rows, List)
    BY <1>8, TidyShows
  <2>2. Len(rows) = Len(list) => Mirrors(rows, list)
    BY <1>2, <2>1 DEF Mirrors
  <2>3. Ready(t, list) /\ s.pages = ps
    BY <1>5, <1>6, <1>7, <1>8, <2>2 DEF Ready
  <2> QED
    BY <1>5, <1>7, <1>8, <2>3 DEF KeepsPages
<1>9. Draws(s, {})
  BY <1>1, <1>7, <1>8 DEF Draws
<1>10. Inv' /\ (~raced' => \A k \in DOMAIN pages : pages[k].name \in Range(List') =>
                             \E j \in DOMAIN pages' : pages'[j] = pages[k])
  <2>1. List' \in Seq(Names) /\ Distinct(List')
    BY <1>1, <1>2
  <2> QED
    BY <1>1, <1>9, <2>1, ClickFacts, DrawsKeep
<1>11. did'.op = "delete" /\ did'.names = chosen
  BY <1>1, ClickFacts
<1> QED
  BY <1>1, <1>2, <1>10, <1>11

(***************************************************************************)
(* The start button, whose loop reads the rows while it changes them.      *)
(***************************************************************************)
\* One download is started, and the rows stay what they are when they are in order.
LEMMA StartIs ==
  ASSUME Inv, NEW click \in Nat, NEW names, NEW s \in Screens(click, names), NEW n \in Names
  PROVE  LET u == StartDownload(s, n)
         IN /\ u \in Screens(click, names)
            /\ \A x \in Names : x # n => u.status[x] = s.status[x]
            /\ \A x \in Names : s.status[x] = "START" => u.status[x] = "START"
            /\ InOrder(s, List) =>
                 /\ InOrder(u, List) /\ u.pages = s.pages /\ SameRows(u, s, List)
                 /\ n \in Range(List) => u.status[n] = "START"
<1> DEFINE u == StartDownload(s, n)
           st == [s.status EXCEPT ![n] = "START"]
           t == [s EXCEPT !.status = st]
           a == UpdateScreen(t, List)
           b == IF s.status[n] = "STOP" THEN a ELSE s
<1>1. List \in Seq(Names) /\ Distinct(List)
  BY ClickBegins
<1>2. /\ s.rows \in Seq(RowsIn(names)) /\ s.pages \in Seq(PagesBy(click))
      /\ s.status \in [Names -> Statuses] /\ s.clicks = click
  BY DEF Screens
<1>3. u = IF n \notin Range(List) THEN s ELSE UpdateScreen(b, List)
  <2>1. [s EXCEPT !.status[n] = "START"] = t
    BY <1>2
  <2> QED
    BY <2>1 DEF StartDownload
<1> HIDE DEF u
<1>4. /\ st \in [Names -> Statuses] /\ st[n] = "START"
      /\ \A x \in Names : x # n => st[x] = s.status[x]
  BY <1>2 DEF Statuses
<1> HIDE DEF st
<1>5. t.rows = s.rows /\ t.pages = s.pages /\ t.status = st /\ t \in Screens(click, names)
  BY <1>4 DEF Screens
<1> HIDE DEF t
<1>6. /\ a \in Screens(click, names) /\ a.status = st
      /\ Mirrors(t.pages, List) => a.pages = t.pages
      /\ Ready(t, List) => InOrder(a, List)
      /\ Mirrors(t.rows, List) => SameRows(a, t, List)
  BY <1>1, <1>5, UpdateIs
<1> HIDE DEF a
<1>7. /\ b \in Screens(click, names)
      /\ \A x \in Names : x # n => b.status[x] = s.status[x]
      /\ b.status[n] = "START"
  <2>1. s.status[n] = "STOP" \/ s.status[n] = "START"
    BY <1>2 DEF Statuses
  <2> QED
    BY <1>4, <1>6, <2>1
<1>8. ASSUME InOrder(s, List)
      PROVE  InOrder(b, List) /\ b.pages = s.pages /\ SameRows(b, s, List)
  <2>1. Mirrors(t.rows, List) /\ Mirrors(t.pages, List) /\ Ready(t, List)
    BY <1>5, <1>8 DEF InOrder, Ready
  <2>2. InOrder(a, List) /\ a.pages = s.pages /\ SameRows(a, s, List)
    BY <1>5, <1>6, <2>1 DEF SameRows
  <2>3. SameRows(s, s, List)
    BY DEF SameRows
  <2> QED
    BY <1>8, <2>2, <2>3
<1> HIDE DEF b
<1> DEFINE c == UpdateScreen(b, List)
<1>9. /\ c \in Screens(click, names) /\ c.status = b.status
      /\ Mirrors(b.pages, List) => c.pages = b.pages
      /\ Ready(b, List) => InOrder(c, List)
      /\ Mirrors(b.rows, List) => SameRows(c, b, List)
  BY <1>1, <1>7, UpdateIs
<1> HIDE DEF c
<1>10. ASSUME InOrder(s, List)
       PROVE  InOrder(c, List) /\ c.pages = s.pages /\ SameRows(c, s, List)
  <2>1. Mirrors(b.rows, List) /\ Mirrors(b.pages, List) /\ Ready(b, List)
    BY <1>8, <1>10 DEF InOrder, Ready
  <2> QED
    BY <1>8, <1>9, <1>10, <2>1 DEF SameRows
<1>11. u = IF n \notin Range(List) THEN s ELSE c
  BY <1>3 DEF c
<1>12. SameRows(s, s, List)
  BY DEF SameRows
<1>13. u \in Screens(click, names)
  BY <1>9, <1>11
<1>14. \A x \in Names : x # n => u.status[x] = s.status[x]
  BY <1>7, <1>9, <1>11
<1>15. \A x \in Names : s.status[x] = "START" => u.status[x] = "START"
  BY <1>7, <1>9, <1>11
<1>16. InOrder(s, List) =>
         /\ InOrder(u, List) /\ u.pages = s.pages /\ SameRows(u, s, List)
         /\ n \in Range(List) => u.status[n] = "START"
  BY <1>7, <1>9, <1>10, <1>11, <1>12
<1> QED
  BY <1>13, <1>14, <1>15, <1>16 DEF u

\* A turn of the loop.
Turn(k, s) ==
  IF k \in DOMAIN s.rows /\ s.rows[k].selected THEN StartDownload(s, s.rows[k].name) ELSE s

\* It starts the download of its row, if that is selected.
LEMMA TurnIs ==
  ASSUME Inv, NEW click \in Nat, NEW names, NEW s \in Screens(click, names), NEW k \in Nat
  PROVE  LET u == Turn(k, s)
         IN /\ u \in Screens(click, names)
            /\ \A x \in Names \ names : u.status[x] = s.status[x]
            /\ \A x \in Names : s.status[x] = "START" => u.status[x] = "START"
            /\ InOrder(s, List) =>
                 /\ InOrder(u, List) /\ u.pages = s.pages /\ SameRows(u, s, List)
                 /\ k \in 1 .. Len(List) /\ s.rows[k].selected =>
                      u.status[s.rows[k].name] = "START"
<1> DEFINE u == Turn(k, s)
<1>1. /\ s.rows \in Seq(RowsIn(names)) /\ DOMAIN s.rows = 1 .. Len(s.rows)
      /\ s.status \in [Names -> Statuses]
  BY LenProperties DEF Screens
<1>2. CASE k \in DOMAIN s.rows /\ s.rows[k].selected
  <2> DEFINE n == s.rows[k].name
  <2>1. n \in Names /\ n \in names
    <3>1. s.rows[k] \in RowsIn(names)
      BY <1>1, <1>2, ElementOfSeq
    <3> QED
      BY <1>2, <3>1 DEF RowsIn
  <2>2. u = StartDownload(s, n)
    BY <1>2 DEF Turn
  <2> HIDE DEF u, n
  <2>3. /\ u \in Screens(click, names)
        /\ \A x \in Names : x # n => u.status[x] = s.status[x]
        /\ \A x \in Names : s.status[x] = "START" => u.status[x] = "START"
        /\ InOrder(s, List) =>
             /\ InOrder(u, List) /\ u.pages = s.pages /\ SameRows(u, s, List)
             /\ n \in Range(List) => u.status[n] = "START"
    BY <2>1, <2>2, StartIs
  <2>4. ASSUME InOrder(s, List), k \in 1 .. Len(List)
        PROVE  n \in Range(List)
    <3>1. Mirrors(s.rows, List) /\ n \in NamesOf(s.rows)
      BY <1>2, <2>4 DEF InOrder, NamesOf, n
    <3> QED
      BY <1>1, <3>1, ClickBegins, MirrorNames
  <2>5. \A x \in Names \ names : u.status[x] = s.status[x]
    BY <2>1, <2>3
  <2> QED
    BY <2>3, <2>4, <2>5 DEF u, n
<1>3. CASE ~(k \in DOMAIN s.rows /\ s.rows[k].selected)
  <2>1. u = s
    BY <1>3 DEF Turn
  <2>2. SameRows(s, s, List)
    BY DEF SameRows
  <2>3. InOrder(s, List) => (k \in 1 .. Len(List) => k \in DOMAIN s.rows)
    BY <1>1 DEF InOrder, Mirrors
  <2> HIDE DEF u
  <2> QED
    BY <1>3, <2>1, <2>2, <2>3 DEF u
<1> QED
  BY <1>2, <1>3

\* The loop, from a window, with as many turns.
TurnsFrom(first, n) ==
  LET turn[k \in 0 .. n] ==
        IF k = 0 THEN first
        ELSE LET s == turn[k - 1]
             IN IF k \in DOMAIN s.rows /\ s.rows[k].selected
                THEN StartDownload(s, s.rows[k].name) ELSE s
  IN turn[n]

\* f is its function.
TurnsBy(f, first, n) ==
  /\ f[0] = first
  /\ \A k \in 1 .. n : f[k] = Turn(k, f[k - 1])
  /\ TurnsFrom(first, n) = f[n]

\* That function exists, and goes through windows.
LEMMA TurnsRun ==
  ASSUME Inv, NEW click \in Nat, NEW names, NEW first \in Screens(click, names), NEW n \in Nat
  PROVE  \E f \in [0 .. n -> Screens(click, names)] : TurnsBy(f, first, n)
<1> DEFINE V == Screens(click, names)
           step == [p \in (1 .. n) \X V |-> Turn(p[1], p[2])]
           D(h) == h = [k \in 0 .. n |->
                          IF k = 0 THEN first
                          ELSE IF k \in DOMAIN h[k - 1].rows /\ h[k - 1].rows[k].selected
                               THEN StartDownload(h[k - 1], h[k - 1].rows[k].name)
                               ELSE h[k - 1]]
           g == CHOOSE h : D(h)
<1>1. ASSUME NEW k \in 1 .. n, NEW s \in V
      PROVE  step[<<k, s>>] = Turn(k, s) /\ Turn(k, s) \in V
  <2>1. k \in Nat
    OBVIOUS
  <2>2. Turn(k, s) \in V
    BY <2>1, TurnIs
  <2> QED
    BY <2>2
<1>2. step \in [(1 .. n) \X V -> V]
  <2>1. ASSUME NEW p \in (1 .. n) \X V
        PROVE  Turn(p[1], p[2]) \in V
    <3>1. p[1] \in 1 .. n /\ p[2] \in V
      OBVIOUS
    <3> HIDE DEF V
    <3> QED
      BY <1>1, <3>1
  <2> HIDE DEF V
  <2> QED
    BY <2>1
<1> HIDE DEF step, V
<1>3. first \in V
  BY DEF V
<1>4. PICK f \in [0 .. n -> V] : Recurs(f, n, first, step)
  BY <1>2, <1>3, RecursionExists
<1>5. f[0] = first /\ \A k \in 1 .. n : f[k - 1] \in V /\ f[k] = Turn(k, f[k - 1])
  <2>1. ASSUME NEW k \in 1 .. n
        PROVE  f[k - 1] \in V
    <3>1. k - 1 \in 0 .. n
      OBVIOUS
    <3> QED
      BY <3>1
  <2> QED
    BY <1>1, <1>4, <2>1 DEF Recurs
<1>6. D(f)
  <2>1. ASSUME NEW k \in 0 .. n
        PROVE  f[k] = IF k = 0 THEN first
                      ELSE IF k \in DOMAIN f[k - 1].rows /\ f[k - 1].rows[k].selected
                           THEN StartDownload(f[k - 1], f[k - 1].rows[k].name) ELSE f[k - 1]
    <3>1. k = 0 \/ k \in 1 .. n
      OBVIOUS
    <3>2. CASE k = 0
      BY <1>5, <3>2
    <3>3. CASE k \in 1 .. n
      <4>1. f[k] = Turn(k, f[k - 1]) /\ k # 0
        BY <1>5, <3>3
      <4> QED
        BY <4>1 DEF Turn
    <3> QED
      BY <3>1, <3>2, <3>3
  <2> QED
    BY <2>1
<1>7. D(g)
  BY <1>6, Zenon
<1>8. TurnsFrom(first, n) = g[n]
  BY DEF TurnsFrom
<1> HIDE DEF g
<1>9. \A k \in 0 .. n : g[k] = IF k = 0 THEN first
          ELSE IF k \in DOMAIN g[k - 1].rows /\ g[k - 1].rows[k].selected
               THEN StartDownload(g[k - 1], g[k - 1].rows[k].name) ELSE g[k - 1]
  BY <1>7, Zenon
<1> HIDE DEF D
<1>10. g[0] = first /\ \A k \in 1 .. n : g[k] = Turn(k, g[k - 1])
  <2>1. 0 \in 0 .. n /\ \A k \in 1 .. n : k \in 0 .. n /\ k # 0
    OBVIOUS
  <2>2. g[0] = first
    BY <1>9, <2>1
  <2>3. ASSUME NEW k \in 1 .. n
        PROVE  g[k] = Turn(k, g[k - 1])
    BY <1>9, <2>1, Zenon DEF Turn
  <2> QED
    BY <2>2, <2>3
<1>11. Follows(g, V, n, first, step)
  BY <1>1, <1>10 DEF Follows
<1>12. Agree(g, f, n)
  BY <1>4, <1>11, RecursionUnique
<1>13. TurnsFrom(first, n) = f[n]
  BY <1>8, <1>12 DEF Agree
<1>14. TurnsBy(f, first, n)
  BY <1>5, <1>13 DEF TurnsBy
<1> QED
  BY <1>14 DEF V

\* The start button.
LEMMA StartDraws ==
  ASSUME Inv, NEW S \in SUBSET (DOMAIN rows), StartButton(S)
  PROVE  /\ Inv'
         /\ ~raced' => \A k \in DOMAIN pages : pages[k].name \in Range(List') =>
                         \E j \in DOMAIN pages' : pages'[j] = pages[k]
         /\ did'.op = "start"
         /\ \A n \in Range(List) :
              /\ n \in did'.names /\ ~raced' => status'[n] = "START"
              /\ n \notin did'.names => status'[n] = status[n]
<1> DEFINE chosen == NamesAt(S)
           sel(k) == [rows[k] EXCEPT !.selected = k \in S]
           first == [Screen EXCEPT !.rows = Selected(S)]
           c == clicks'
<1>1. Click("start", chosen) /\ Shows(TurnsFrom(first, Turns)) /\ List' = List
  BY DEF StartButton, TurnsFrom
<1>2. /\ List \in Seq(Names) /\ Distinct(List) /\ Len(List) \in Nat /\ DOMAIN List = 1 .. Len(List)
      /\ rows \in Seq(RowsIn({})) /\ Len(rows) \in Nat /\ DOMAIN rows = 1 .. Len(rows)
      /\ status \in [Names -> Statuses]
  BY ClickBegins, LenProperties DEF Inv, Typed
<1>3. Turns \in Nat /\ Len(rows) <= Turns
  BY <1>2 DEF Turns
<1>4. ASSUME NEW k \in 1 .. Len(rows)
      PROVE  /\ sel(k) \in RowsIn(chosen)
             /\ sel(k).name = rows[k].name /\ sel(k).shown = rows[k].shown
             /\ k \in S => sel(k).selected
  <2>1. rows[k] \in RowsIn({})
    BY <1>2, ElementOfSeq
  <2>2. k \in S => rows[k].name \in chosen
    BY DEF NamesAt
  <2> HIDE DEF chosen
  <2>3. CASE k \in S
    <3>1. sel(k) = [rows[k] EXCEPT !.selected = TRUE]
      BY <2>3
    <3> HIDE DEF sel
    <3> QED
      BY <2>1, <2>2, <2>3, <3>1 DEF RowsIn
  <2>4. CASE k \notin S
    <3>0. (k \in S) = FALSE
      BY <2>4
    <3>1. sel(k) = [rows[k] EXCEPT !.selected = FALSE]
      BY <3>0, Zenon
    <3> HIDE DEF sel
    <3> QED
      BY <2>1, <2>4, <3>1 DEF RowsIn
  <2> QED
    BY <2>3, <2>4
<1>5. Selected(S) = [k \in DOMAIN rows |-> sel(k)]
  BY DEF Selected
<1> HIDE DEF sel, chosen
<1>6. /\ Selected(S) \in Seq(RowsIn(chosen)) /\ Len(Selected(S)) = Len(rows)
      /\ \A k \in 1 .. Len(rows) : Selected(S)[k] = sel(k)
  BY <1>2, <1>4, <1>5
<1>7. c \in Nat /\ Screen \in Screens(c, {})
  BY <1>1, ClickFacts
<1>8. /\ first \in Screens(c, chosen)
      /\ first.rows = Selected(S) /\ first.pages = pages /\ first.status = status
  <2> DEFINE new == Selected(S)
  <2>1. new \in Seq(RowsIn(chosen))
    BY <1>6
  <2> HIDE DEF new
  <2>2. /\ [Screen EXCEPT !.rows = new] \in Screens(c, chosen)
        /\ [Screen EXCEPT !.rows = new].rows = new
        /\ [Screen EXCEPT !.rows = new].pages = Screen.pages
        /\ [Screen EXCEPT !.rows = new].status = Screen.status
    <3> HIDE DEF c
    <3> QED
      BY <1>7, <2>1 DEF Screens
  <2> QED
    BY <2>2, ClickBegins DEF new
<1> HIDE DEF first, c
<1>9. PICK f \in [0 .. Turns -> Screens(c, chosen)] : TurnsBy(f, first, Turns)
  BY <1>3, <1>7, <1>8, TurnsRun
<1>10. /\ f[0] = first /\ TurnsFrom(first, Turns) = f[Turns]
       /\ \A k \in 1 .. Turns : f[k] = Turn(k, f[k - 1])
  BY <1>9 DEF TurnsBy
<1>11. ASSUME NEW m \in Nat, m + 1 <= Turns
       PROVE  /\ f[m] \in Screens(c, chosen) /\ f[m + 1] = Turn(m + 1, f[m]) /\ m + 1 \in Nat
  <2>1. m \in 0 .. Turns /\ m + 1 \in 1 .. Turns /\ (m + 1) - 1 = m
    BY <1>3, <1>11
  <2> QED
    BY <1>9, <1>10, <2>1
<1> DEFINE s == f[Turns]
<1>12. s \in Screens(c, chosen)
  BY <1>3, <1>9
\* What was not selected keeps its status.
<1>13. \A x \in Names \ chosen : s.status[x] = status[x]
  <2> DEFINE T == {m \in Nat : m <= Turns =>
                     \A x \in Names \ chosen : f[m].status[x] = status[x]}
  <2>1. 0 \in T
    BY <1>8, <1>10
  <2>2. ASSUME NEW m \in Nat, m \in T
        PROVE  m + 1 \in T
    <3> SUFFICES ASSUME m + 1 <= Turns
                 PROVE  \A x \in Names \ chosen : f[m + 1].status[x] = status[x]
      OBVIOUS
    <3>1. \A x \in Names \ chosen : f[m].status[x] = status[x]
      BY <1>3, <2>2
    <3>2. \A x \in Names \ chosen : f[m + 1].status[x] = f[m].status[x]
      <4> DEFINE a == f[m]
                 k == m + 1
      <4>1. c \in Nat /\ a \in Screens(c, chosen) /\ k \in Nat
        BY <1>7, <1>11
      <4>2. f[k] = Turn(k, a)
        BY <1>11
      <4> HIDE DEF a, k
      <4>3. \A x \in Names \ chosen : Turn(k, a).status[x] = a.status[x]
        BY <4>1, TurnIs
      <4> QED
        BY <4>2, <4>3 DEF a, k
    <3> QED
      BY <3>1, <3>2
  <2> HIDE DEF T
  <2>3. Turns \in T
    BY <1>3, <2>1, <2>2, SetInduction
  <2> QED
    BY <1>3, <2>3 DEF T
\* And what was is started, when every turn finds the rows as they were.
<1> DEFINE Goal(m) ==
             /\ InOrder(f[m], List) /\ f[m].pages = pages /\ SameRows(f[m], first, List)
             /\ \A j \in 1 .. Len(List) :
                  j <= m /\ j \in S => f[m].status[rows[j].name] = "START"
<1>14. ASSUME ~raced, Busy = {}
       PROVE  Goal(Turns) /\ Len(rows) = Len(List)
  <2>1. /\ Mirrors(rows, List) /\ Mirrors(pages, List) /\ Len(rows) = Len(List)
        /\ \A k \in 1 .. Len(List) : rows[k].shown = status[rows[k].name]
    BY <1>14, TidyShows DEF Mirrors
  <2>2. ASSUME NEW k \in 1 .. Len(List)
        PROVE  /\ first.rows[k].name = rows[k].name /\ first.rows[k].shown = rows[k].shown
               /\ k \in S => first.rows[k].selected
               /\ rows[k].name \in Names
    <3>1. rows[k] \in RowsIn({})
      BY <1>2, <2>1, ElementOfSeq
    <3>2. first.rows[k] = sel(k) /\ k \in 1 .. Len(rows)
      BY <1>6, <1>8, <2>1
    <3>3. rows[k].name \in Names
      BY <3>1 DEF RowsIn
    <3> QED
      BY <1>4, <3>2, <3>3
  <2>3. InOrder(first, List)
    BY <1>6, <1>8, <2>1, <2>2 DEF InOrder, Mirrors
  <2> DEFINE T == {m \in Nat : m <= Turns => Goal(m)}
  <2>4. 0 \in T
    <3>1. SameRows(first, first, List)
      BY DEF SameRows
    <3>2. Goal(0)
      BY <1>8, <1>10, <2>3, <3>1
    <3> QED
      BY <3>2
  <2>5. ASSUME NEW m \in Nat, m \in T
        PROVE  m + 1 \in T
    <3> SUFFICES ASSUME m + 1 <= Turns
                 PROVE  Goal(m + 1)
      OBVIOUS
    <3>1. Goal(m)
      BY <1>3, <2>5
    <3> DEFINE a == f[m]
               b == f[m + 1]
               k == m + 1
    <3>2. /\ a \in Screens(c, chosen) /\ b = Turn(k, a) /\ k \in Nat
      BY <1>11
    <3>3. /\ InOrder(a, List) /\ a.pages = pages /\ SameRows(a, first, List)
          /\ \A j \in 1 .. Len(List) : j <= m /\ j \in S => a.status[rows[j].name] = "START"
      BY <3>1
    <3>4. \A j \in 1 .. Len(List) : j <= k => j <= m \/ j = k
      OBVIOUS
    <3> HIDE DEF a, b, k
    <3>5. /\ \A x \in Names : a.status[x] = "START" => b.status[x] = "START"
          /\ InOrder(b, List) /\ b.pages = a.pages /\ SameRows(b, a, List)
          /\ k \in 1 .. Len(List) /\ a.rows[k].selected => b.status[a.rows[k].name] = "START"
      <4>1. c \in Nat /\ a \in Screens(c, chosen) /\ k \in Nat
        BY <1>7, <3>2
      <4>2. LET u == Turn(k, a)
            IN /\ \A x \in Names : a.status[x] = "START" => u.status[x] = "START"
               /\ InOrder(a, List) =>
                    /\ InOrder(u, List) /\ u.pages = a.pages /\ SameRows(u, a, List)
                    /\ k \in 1 .. Len(List) /\ a.rows[k].selected =>
                         u.status[a.rows[k].name] = "START"
        BY <4>1, TurnIs
      <4> QED
        BY <3>2, <3>3, <4>2
    <3>6. SameRows(b, first, List)
      BY <3>3, <3>5 DEF SameRows
    <3>7. ASSUME NEW j \in 1 .. Len(List), j <= k, j \in S
          PROVE  b.status[rows[j].name] = "START"
      <4>1. CASE j <= m
        BY <2>2, <3>3, <3>5, <3>7, <4>1
      <4>2. CASE j = k
        <5>1. a.rows[j].selected /\ a.rows[j].name = rows[j].name
          BY <2>2, <3>3, <3>7 DEF SameRows
        <5> QED
          BY <3>5, <4>2, <5>1
      <4> QED
        BY <3>4, <3>7, <4>1, <4>2
    <3> QED
      BY <3>3, <3>5, <3>6, <3>7 DEF b, k
  <2> HIDE DEF T, Goal
  <2>6. Turns \in T
    BY <1>3, <2>4, <2>5, SetInduction
  <2>7. Goal(Turns)
    BY <1>3, <2>6 DEF T
  <2> QED
    BY <2>1, <2>7
<1> HIDE DEF s
<1>15. Shows(s) /\ status' = s.status
  BY <1>1, <1>10 DEF s, Shows
<1>16. Draws(s, chosen)
  <2>1. ~raced /\ Busy = {} => InOrder(s, List) /\ s.pages = pages
    BY <1>14 DEF s
  <2> HIDE DEF Goal
  <2> QED
    BY <1>1, <1>12, <1>15, <2>1 DEF Draws, KeepsPages, c
<1>17. Inv' /\ (~raced' => \A k \in DOMAIN pages : pages[k].name \in Range(List') =>
                             \E j \in DOMAIN pages' : pages'[j] = pages[k])
  BY <1>1, <1>2, <1>16, ClickFacts, DrawsKeep
<1>18. did'.op = "start" /\ did'.names = chosen /\ (~raced' => ~raced /\ Busy = {})
  BY <1>1, ClickFacts
<1>19. ASSUME NEW n \in Range(List)
       PROVE  /\ n \in chosen /\ ~raced' => status'[n] = "START"
              /\ n \notin chosen => status'[n] = status[n]
  <2>1. n \in Names
    BY <1>2, ClickBegins
  <2>2. ASSUME n \in chosen, ~raced'
        PROVE  s.status[n] = "START"
    <3>1. Goal(Turns) /\ Len(rows) = Len(List)
      BY <1>14, <1>18, <2>2
    <3>2. PICK j \in S : n = rows[j].name
      BY <2>2 DEF chosen, NamesAt
    <3>3. j \in 1 .. Len(List) /\ j <= Turns
      BY <1>2, <1>3, <3>1
    <3> QED
      BY <3>1, <3>2, <3>3 DEF s
  <2> QED
    BY <1>13, <1>15, <2>1, <2>2
<1> QED
  BY <1>17, <1>18, <1>19

\* The invariant of the next step, and what the step does.
LEMMA DisplayStep ==
  ASSUME Inv, Next
  PROVE  /\ Inv'
         /\ ~raced' => \A k \in DOMAIN pages : pages[k].name \in Range(List') =>
                         \E j \in DOMAIN pages' : pages'[j] = pages[k]
<1>1. CASE \E n \in Names : AddDownload(n)
  BY <1>1, AddDraws
<1>2. CASE \E S \in SUBSET (DOMAIN rows) \ {{}} : StartButton(S) \/ StopButton(S) \/ DeleteButton(S)
  BY <1>2, StartDraws, StopDraws, DeleteDraws
<1>3. CASE OnTimer
  BY <1>3, TimerDraws
<1>4. CASE \E w \in Workers : Refresh(w) \/ \E n \in Names : Report(w, n)
  <2>1. Inv' /\ (~raced' => pages' = pages)
    BY <1>4, WorkerKeeps
  <2> QED
    BY <2>1
<1> QED
  BY <1>1, <1>2, <1>3, <1>4 DEF Next, User

\* A step that changes nothing.
LEMMA DisplayStutter ==
  ASSUME Inv, UNCHANGED vars
  PROVE  Inv'
<1>1. /\ List' = List /\ status' = status /\ rows' = rows /\ pages' = pages /\ task' = task
      /\ ticked' = ticked /\ clicks' = clicks /\ reports' = reports /\ raced' = raced
  BY DEF vars
<1>2. Busy' = Busy
  BY <1>1 DEF Busy
<1>3. Typed' /\ (Tidy => Tidy')
  BY <1>1, <1>2 DEF Inv, Typed, Tidy, Mirrors, Distinct, Drawing, Pending
<1> QED
  BY <1>1, <1>3 DEF Inv

\* The invariant always holds.
LEMMA DisplayInv == Spec => []Inv
<1>1. Inv /\ [Next]_vars => Inv'
  BY DisplayStep, DisplayStutter
<1> QED
  BY DisplayInit, <1>1, PTL DEF Spec

(***************************************************************************)
(* The variables of the window hold what they should.                      *)
(***************************************************************************)
THEOREM DisplayTypeOK == Spec => []TypeOK
<1>1. Inv => TypeOK
  BY TypedIsOK DEF Inv
<1> QED
  BY DisplayInv, <1>1, PTL

(***************************************************************************)
(* As long as no refresh was disturbed, the rows and the pages are those of*)
(* the list, the newest first, and every row shows its status: whatever the*)
(* user does, however many downloads there are, between any two operations *)
(* of the GUI thread and after every refresh by a worker.                  *)
(***************************************************************************)
THEOREM WindowInStep == Spec => []InStep
<1>1. Inv => InStep
  BY TidyShows DEF InStep
<1> QED
  BY DisplayInv, <1>1, PTL

(***************************************************************************)
(* No refresh replaces the page of a download that stays in the list, as   *)
(* long as none was disturbed: add and delete change the pages before the  *)
(* refresh, which then finds as many as there are downloads.               *)
(***************************************************************************)
THEOREM EveryPageStays == Spec => PagesStay
<1> DEFINE Stays == ~raced' => \A k \in DOMAIN pages : pages[k].name \in Range(List') =>
                                 \E j \in DOMAIN pages' : pages'[j] = pages[k]
<1>1. Inv /\ [Next]_vars => [Stays]_vars
  BY DisplayStep
<1> QED
  BY DisplayInv, <1>1, PTL DEF Spec, PagesStay

(***************************************************************************)
(* A button acts on the downloads of the rows that were selected and on no *)
(* other, although the loop of the start button reads the rows again after *)
(* every refresh that it makes.                                            *)
(***************************************************************************)
THEOREM ButtonsAct == Spec => ActsOnSelection
<1> DEFINE Acts ==
      clicks' # clicks =>
        LET chosen == did'.names
        IN CASE did'.op = "delete" -> Range(List') = Range(List) \ chosen
             [] did'.op = "stop"   -> \A n \in Range(List) : status'[n] =
                                        IF n \in chosen THEN "STOP" ELSE status[n]
             [] did'.op = "start"  -> \A n \in Range(List) :
                                        /\ n \in chosen /\ ~raced' => status'[n] = "START"
                                        /\ n \notin chosen => status'[n] = status[n]
             [] OTHER -> TRUE
<1>1. ASSUME Inv, Next
      PROVE  Acts
  <2>1. CASE \E n \in Names : AddDownload(n)
    <3>1. did'.op = "add"
      BY <1>1, <2>1, AddDraws
    <3> QED
      BY <3>1
  <2>2. ASSUME NEW S \in SUBSET (DOMAIN rows), StartButton(S)
        PROVE  Acts
    <3>1. did'.op = "start" /\ \A n \in Range(List) :
             /\ n \in did'.names /\ ~raced' => status'[n] = "START"
             /\ n \notin did'.names => status'[n] = status[n]
      BY <1>1, <2>2, StartDraws
    <3> QED
      BY <3>1
  <2>3. ASSUME NEW S, StopButton(S)
        PROVE  Acts
    <3>1. did'.op = "stop" /\ \A n \in Range(List) :
             status'[n] = IF n \in did'.names THEN "STOP" ELSE status[n]
      BY <1>1, <2>3, StopDraws
    <3> QED
      BY <3>1
  <2>4. ASSUME NEW S, DeleteButton(S)
        PROVE  Acts
    <3>1. did'.op = "delete" /\ Range(List') = Range(List) \ did'.names
      BY <1>1, <2>4, DeleteDraws
    <3> QED
      BY <3>1
  <2>5. CASE OnTimer
    BY <2>5 DEF OnTimer
  <2>6. CASE \E w \in Workers : Refresh(w) \/ \E n \in Names : Report(w, n)
    <3>1. clicks' = clicks
      BY <1>1, <2>6, WorkerKeeps
    <3> QED
      BY <3>1
  <2> HIDE DEF Acts
  <2> QED
    BY <1>1, <2>1, <2>2, <2>3, <2>4, <2>5, <2>6 DEF Next, User
<1>2. Inv /\ [Next]_vars => [Acts]_vars
  <2> HIDE DEF Acts
  <2> QED
    BY <1>1
<1> QED
  BY DisplayInv, <1>2, PTL DEF Spec, ActsOnSelection
=============================================================================
