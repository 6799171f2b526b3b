--------------------------- MODULE InstancesProofs ---------------------------
(***************************************************************************)
(* Theorems about Instances for any processes, links and command lines.    *)
(***************************************************************************)
EXTENDS Instances, Induction, FiniteSetTheorems

\* Removing the first entry equal to the head of a list removes its head.
LEMMA RemoveHead ==
  ASSUME NEW X, NEW s \in Seq(X), s # <<>>
  PROVE  RemoveFirst(s, Head(s)) = Tail(s)
<1> DEFINE I == {i \in 1 .. Len(s) : s[i] = Head(s)}
<1>1. 1 \in I /\ \A i \in I : 1 <= i
  BY EmptySeq
<1>2. Min(I) = 1
  BY <1>1 DEF Min
<1>3. SelectInSeq(s, LAMBDA v : v = Head(s)) = 1
  BY <1>1, <1>2 DEF SelectInSeq
<1>4. RemoveFirst(s, Head(s)) = RemoveAt(s, 1)
  BY <1>1, <1>3 DEF RemoveFirst
<1>5. SubSeq(s, 1, 0) = <<>> /\ SubSeq(s, 2, Len(s)) = Tail(s) /\ Tail(s) \in Seq(X)
  BY SubSeqEmpty, TailIsSubSeq, HeadTailProperties
<1>6. RemoveAt(s, 1) = SubSeq(s, 1, 0) \o SubSeq(s, 2, Len(s))
  BY DEF RemoveAt
<1> QED
  BY <1>4, <1>5, <1>6, ConcatEmptySeq
-----------------------------------------------------------------------------
(***************************************************************************)
(* Types.                                                                  *)
(***************************************************************************)
\* A command line is a sequence of links.
LEMMA ArgListsAreSeqs == ArgLists \subseteq Seq(Links)
BY ConstantsAssumption DEF ArgLists

\* What the frame of a Parse holds.
LEMMA ParseFrame ==
  ASSUME NEW f \in Frames, f.at = "parse"
  PROVE  f.from \in Procs /\ f.arg \in ArgLists /\ f.rest \in Seq(Links)
BY DEF Frames, Dialog

\* The two kinds of frames.
LEMMA FrameType ==
  ASSUME NEW p \in Procs, NEW a \in ArgLists, NEW r \in Seq(Links)
  PROVE  /\ Parse(p, a, r) \in Frames
         /\ Parse(p, a, r).at = "parse" /\ Parse(p, a, r).from = p
         /\ Parse(p, a, r).arg = a /\ Parse(p, a, r).rest = r
BY DEF Frames, Parse

LEMMA DialogType == Dialog \in Frames /\ Dialog.at = "dialog"
BY DEF Frames, Dialog

\* A call is entered.
LEMMA Push ==
  ASSUME NEW S, NEW fs \in Seq(S), NEW f \in S
  PROVE  /\ <<f>> \o fs \in Seq(S) /\ <<f>> \o fs # <<>>
         /\ Len(<<f>> \o fs) = Len(fs) + 1 /\ Len(fs) \in Nat
         /\ (<<f>> \o fs)[1] = f
         /\ \A k \in 1 .. Len(fs) : (<<f>> \o fs)[k + 1] = fs[k]
<1>1. <<f>> \in Seq(S) /\ Len(<<f>>) = 1 /\ <<f>>[1] = f
  OBVIOUS
<1>2. Len(fs) \in Nat
  BY LenProperties
<1>3. /\ <<f>> \o fs \in Seq(S)
      /\ Len(<<f>> \o fs) = Len(fs) + 1
      /\ \A k \in 1 .. Len(fs) + 1 :
           (<<f>> \o fs)[k] = IF k <= 1 THEN <<f>>[k] ELSE fs[k - 1]
  BY <1>1, <1>2, ConcatProperties
<1>4. \A k \in 1 .. Len(fs) : (<<f>> \o fs)[k + 1] = fs[k]
  BY <1>2, <1>3
<1> QED
  BY <1>1, <1>2, <1>3, <1>4, EmptySeq

\* Concatenation of links is associative.
LEMMA LinksJoin ==
  ASSUME NEW a \in Seq(Links), NEW b \in Seq(Links), NEW c \in Seq(Links)
  PROVE  (a \o b) \o c = a \o (b \o c)
BY ConcatAssociative

(***************************************************************************)
(* Who may be past the check, and what a running Parse has left.           *)
(***************************************************************************)
Loaders == {"Load", "Window", "Run"}

AtMostOne == \A p, q \in Procs : pc[p] \in Loaders /\ pc[q] \in Loaders => p = q

ParsesOf(fs) == {k \in DOMAIN fs : fs[k].at = "parse"}

\* rec is off, then what Parse has left of its entry and the entries behind it.
Owed(rec, off, rest, st) == rec = off \o rest \o FlattenSeq(Tail(st))

\* Frames, stack, flag and histories of one process agree.  Beyond Handed: the frame
\* of Parse works on the first entry, and the stack is empty when Parse is over.
Hands(fs, st, busy, rec, off) ==
  /\ \A j, k \in ParsesOf(fs) : j = k
  /\ ParsesOf(fs) = {} => rec = off /\ ~busy /\ st = <<>>
  /\ \A k \in ParsesOf(fs) :
       /\ busy /\ st # <<>> /\ fs[k].arg = Head(st)
       /\ Owed(rec, off, fs[k].rest, st)

HandsAll == \A q \in Procs : Hands(frames[q], Stack[q], AlreadyRun[q], received[q], offered[q])

\* Entering a call moves the others down by one.
LEMMA ParsesOfPush ==
  ASSUME NEW fs \in Seq(Frames), NEW f \in Frames
  PROVE  /\ f.at # "parse" => ParsesOf(<<f>> \o fs) = {k + 1 : k \in ParsesOf(fs)}
         /\ f.at = "parse" => ParsesOf(<<f>> \o fs) = {1} \cup {k + 1 : k \in ParsesOf(fs)}
         /\ ParsesOf(fs) \subseteq 1 .. Len(fs)
<1> DEFINE gs == <<f>> \o fs
<1>1. /\ gs \in Seq(Frames) /\ Len(gs) = Len(fs) + 1 /\ Len(fs) \in Nat
      /\ gs[1] = f /\ \A k \in 1 .. Len(fs) : gs[k + 1] = fs[k]
  BY Push
<1> HIDE DEF gs
<1>2. DOMAIN fs = 1 .. Len(fs) /\ DOMAIN gs = 1 .. Len(fs) + 1
  BY <1>1, LenProperties
<1>3. ASSUME NEW k \in 2 .. Len(fs) + 1
      PROVE  k \in ParsesOf(gs) <=> k - 1 \in ParsesOf(fs)
  <2>1. k - 1 \in 1 .. Len(fs) /\ gs[k] = fs[k - 1]
    <3>1. k - 1 \in 1 .. Len(fs) /\ (k - 1) + 1 = k
      BY <1>1
    <3> QED
      BY <1>1, <3>1
  <2> QED
    BY <1>1, <1>2, <2>1 DEF ParsesOf
<1>4. 1 \in ParsesOf(gs) <=> f.at = "parse"
  BY <1>1, <1>2 DEF ParsesOf
<1>5. ParsesOf(gs) \subseteq 1 .. Len(fs) + 1 /\ ParsesOf(fs) \subseteq 1 .. Len(fs)
  BY <1>2 DEF ParsesOf
<1>6. \A k \in ParsesOf(gs) : k = 1 \/ k \in {j + 1 : j \in ParsesOf(fs)}
  BY <1>1, <1>3, <1>5
<1>7. \A j \in ParsesOf(fs) : j + 1 \in ParsesOf(gs)
  <2> TAKE j \in ParsesOf(fs)
  <2>1. j + 1 \in 2 .. Len(fs) + 1 /\ (j + 1) - 1 = j
    BY <1>1, <1>5
  <2> QED
    BY <1>3, <2>1
<1>8. \A j \in ParsesOf(fs) : j + 1 # 1
  BY <1>5
<1> QED
  BY <1>4, <1>5, <1>6, <1>7, <1>8 DEF gs

\* A modal dialog on top changes nothing for Parse, and neither does its end.
LEMMA HandsPush ==
  ASSUME NEW fs \in Seq(Frames), NEW f \in Frames, f.at # "parse",
         NEW st, NEW busy \in BOOLEAN, NEW rec, NEW off
  PROVE  Hands(<<f>> \o fs, st, busy, rec, off) <=> Hands(fs, st, busy, rec, off)
<1> DEFINE gs == <<f>> \o fs
<1>1. /\ ParsesOf(gs) = {k + 1 : k \in ParsesOf(fs)}
      /\ ParsesOf(fs) \subseteq 1 .. Len(fs)
      /\ Len(fs) \in Nat /\ \A k \in 1 .. Len(fs) : gs[k + 1] = fs[k]
  BY ParsesOfPush, Push
<1> HIDE DEF gs
<1>2. \A k \in ParsesOf(fs) : k + 1 \in ParsesOf(gs) /\ gs[k + 1] = fs[k]
  BY <1>1
<1>3. ASSUME NEW k \in ParsesOf(gs)
      PROVE  k \in Nat /\ k - 1 \in ParsesOf(fs) /\ gs[k] = fs[k - 1]
  <2>1. PICK j \in ParsesOf(fs) : k = j + 1
    BY <1>1
  <2>2. j \in 1 .. Len(fs) /\ k - 1 = j
    BY <1>1, <2>1
  <2> QED
    BY <1>1, <2>1, <2>2
<1>4. ParsesOf(gs) = {} <=> ParsesOf(fs) = {}
  BY <1>2, <1>3
<1>5. (\A j, k \in ParsesOf(gs) : j = k) <=> \A j, k \in ParsesOf(fs) : j = k
  <2>1. ASSUME \A j, k \in ParsesOf(gs) : j = k, NEW j \in ParsesOf(fs), NEW k \in ParsesOf(fs)
        PROVE  j = k
    <3>1. j + 1 = k + 1
      BY <1>2, <2>1
    <3> QED
      BY <1>1, <3>1
  <2>2. ASSUME \A j, k \in ParsesOf(fs) : j = k, NEW j \in ParsesOf(gs), NEW k \in ParsesOf(gs)
        PROVE  j = k
    <3>1. j - 1 = k - 1
      BY <1>3, <2>2
    <3>2. j \in Nat /\ k \in Nat
      BY <1>3
    <3> QED
      BY <3>1, <3>2
  <2> QED
    BY <2>1, <2>2
<1> DEFINE Good(g) == /\ busy /\ st # <<>> /\ g.arg = Head(st)
                      /\ Owed(rec, off, g.rest, st)
<1>6. \A hs : Hands(hs, st, busy, rec, off)
        <=> /\ \A j, k \in ParsesOf(hs) : j = k
            /\ ParsesOf(hs) = {} => rec = off /\ ~busy /\ st = <<>>
            /\ \A k \in ParsesOf(hs) : Good(hs[k])
  BY Zenon DEF Hands
<1> HIDE DEF Good
<1>7. (\A k \in ParsesOf(gs) : Good(gs[k])) <=> \A k \in ParsesOf(fs) : Good(fs[k])
  <2>1. ASSUME \A k \in ParsesOf(gs) : Good(gs[k]), NEW k \in ParsesOf(fs)
        PROVE  Good(fs[k])
    BY <1>2, <2>1
  <2>2. ASSUME \A k \in ParsesOf(fs) : Good(fs[k]), NEW k \in ParsesOf(gs)
        PROVE  Good(gs[k])
    BY <1>3, <2>2
  <2> QED
    BY <2>1, <2>2
<1>8. Hands(gs, st, busy, rec, off) <=> Hands(fs, st, busy, rec, off)
  BY <1>4, <1>5, <1>6, <1>7
<1> QED
  BY <1>8 DEF gs

\* A stack of frames is its first frame and the others.
LEMMA Split ==
  ASSUME NEW fs \in Seq(Frames), fs # <<>>
  PROVE  fs[1] \in Frames /\ Tail(fs) \in Seq(Frames) /\ fs = <<fs[1]>> \o Tail(fs)
<1>1. fs[1] \in Frames /\ Tail(fs) \in Seq(Frames)
  BY HeadTailProperties, EmptySeq
<1>2. Len(fs) \in Nat \ {0} /\ Len(Tail(fs)) = Len(fs) - 1
      /\ \A i \in 1 .. Len(fs) - 1 : Tail(fs)[i] = fs[i + 1]
  BY HeadTailProperties, EmptySeq
<1> DEFINE gs == <<fs[1]>> \o Tail(fs)
<1>3. /\ gs \in Seq(Frames) /\ Len(gs) = Len(Tail(fs)) + 1 /\ gs[1] = fs[1]
      /\ \A k \in 1 .. Len(Tail(fs)) : gs[k + 1] = Tail(fs)[k]
  BY <1>1, Push
<1> HIDE DEF gs
<1>4. ASSUME NEW i \in 1 .. Len(fs)
      PROVE  gs[i] = fs[i]
  <2>1. CASE i = 1
    BY <2>1, <1>3
  <2>2. CASE i # 1
    <3>1. i - 1 \in 1 .. Len(fs) - 1 /\ (i - 1) + 1 = i
      BY <1>2, <2>2
    <3> QED
      BY <1>2, <1>3, <3>1
  <2> QED
    BY <2>1, <2>2
<1>5. gs = fs
  <2>1. Len(gs) = Len(fs)
    BY <1>2, <1>3
  <2> QED
    BY <1>3, <1>4, <2>1, SeqEqual
<1> QED
  BY <1>1, <1>5 DEF gs

\* A Parse on top is the only one, and Hands speaks of its frame.
LEMMA HandsTop ==
  ASSUME NEW fs \in Seq(Frames), NEW f \in Frames, f.at = "parse",
         NEW st, NEW busy \in BOOLEAN, NEW rec, NEW off
  PROVE  Hands(<<f>> \o fs, st, busy, rec, off)
           <=> /\ ParsesOf(fs) = {}
               /\ busy /\ st # <<>> /\ f.arg = Head(st)
               /\ Owed(rec, off, f.rest, st)
<1> DEFINE gs == <<f>> \o fs
<1>1. /\ ParsesOf(gs) = {1} \cup {k + 1 : k \in ParsesOf(fs)}
      /\ ParsesOf(fs) \subseteq 1 .. Len(fs)
      /\ gs[1] = f
  BY ParsesOfPush, Push
<1> HIDE DEF gs
<1>2. (\A j, k \in ParsesOf(gs) : j = k) <=> ParsesOf(fs) = {}
  <2>1. ASSUME \A j, k \in ParsesOf(gs) : j = k, NEW k \in ParsesOf(fs)
        PROVE  FALSE
    <3>1. 1 \in ParsesOf(gs) /\ k + 1 \in ParsesOf(gs) /\ k \in 1 .. Len(fs)
      BY <1>1
    <3>2. 1 = k + 1
      BY <2>1, <3>1
    <3> QED
      BY <3>1, <3>2
  <2>2. ParsesOf(fs) = {} => ParsesOf(gs) = {1}
    BY <1>1
  <2> QED
    BY <2>1, <2>2
<1>3. ParsesOf(fs) = {} => ParsesOf(gs) = {1}
  BY <1>1
<1>4. ParsesOf(gs) # {}
  BY <1>1
<1> DEFINE Good(g) == /\ busy /\ st # <<>> /\ g.arg = Head(st)
                      /\ Owed(rec, off, g.rest, st)
<1>5. Hands(gs, st, busy, rec, off)
        <=> /\ \A j, k \in ParsesOf(gs) : j = k
            /\ ParsesOf(gs) = {} => rec = off /\ ~busy /\ st = <<>>
            /\ \A k \in ParsesOf(gs) : Good(gs[k])
  BY Zenon DEF Hands
<1> HIDE DEF Good
<1>6. Hands(gs, st, busy, rec, off) <=> ParsesOf(fs) = {} /\ Good(f)
  BY <1>1, <1>2, <1>3, <1>4, <1>5
<1> QED
  BY <1>6 DEF gs, Good

\* Without a Parse nothing is left to offer.
LEMMA HandsNone ==
  ASSUME NEW fs, ParsesOf(fs) = {}, NEW st, NEW busy \in BOOLEAN, NEW rec, NEW off
  PROVE  Hands(fs, st, busy, rec, off) <=> rec = off /\ ~busy /\ st = <<>>
BY DEF Hands

\* Parse begins on the first command line that arrives.
LEMMA HandsBegin ==
  ASSUME NEW fs \in Seq(Frames), NEW rec \in Seq(Links), NEW off \in Seq(Links),
         NEW st, NEW busy \in BOOLEAN, ~busy, Hands(fs, st, busy, rec, off),
         NEW f \in Frames, f.at = "parse", f.arg = f.rest,
         NEW now \in BOOLEAN, now
  PROVE  Hands(<<f>> \o fs, <<f.arg>>, now, rec \o f.arg, off)
<1>1. f.arg \in Seq(Links)
  BY ArgListsAreSeqs, ParseFrame
<1>2. ParsesOf(fs) = {} /\ rec = off
  BY DEF Hands
<1>3. <<f.arg>> # <<>> /\ Head(<<f.arg>>) = f.arg /\ Tail(<<f.arg>>) = <<>>
  OBVIOUS
<1>4. Owed(rec \o f.arg, off, f.rest, <<f.arg>>)
  <2>1. FlattenSeq(Tail(<<f.arg>>)) = <<>>
    BY <1>3, FlattenEmpty
  <2>2. off \o f.arg \in Seq(Links)
    BY <1>1, ConcatProperties
  <2>3. (off \o f.arg) \o <<>> = off \o f.arg
    BY <2>2, ConcatEmptySeq
  <2> QED
    BY <1>2, <2>1, <2>3 DEF Owed
<1> QED
  BY <1>2, <1>3, <1>4, HandsTop

\* A command line that arrives while Parse is at work goes behind the others.
LEMMA HandsLater ==
  ASSUME NEW fs \in Seq(Frames), NEW st \in Seq(ArgLists),
         NEW rec \in Seq(Links), NEW off \in Seq(Links),
         NEW busy \in BOOLEAN, busy, Hands(fs, st, busy, rec, off), NEW a \in ArgLists
  PROVE  Hands(fs, Append(st, a), busy, rec \o a, off)
<1>1. ParsesOf(fs) # {} /\ st # <<>> /\ \A j, k \in ParsesOf(fs) : j = k
  BY DEF Hands
<1>2. ASSUME NEW k \in ParsesOf(fs)
      PROVE  /\ Append(st, a) # <<>> /\ fs[k].arg = Head(Append(st, a))
             /\ Owed(rec \o a, off, fs[k].rest, Append(st, a))
  <2>1. fs[k].arg = Head(st) /\ rec = off \o fs[k].rest \o FlattenSeq(Tail(st))
    BY DEF Hands, Owed
  <2>2. Append(st, a) # <<>> /\ Head(Append(st, a)) = Head(st)
        /\ Tail(Append(st, a)) = Append(Tail(st), a)
    BY <1>1, AppendProperties, HeadTailAppend
  <2>3. fs[k].rest \in Seq(Links)
    <3>1. fs[k] \in Frames /\ fs[k].at = "parse"
      BY LenProperties DEF ParsesOf
    <3> QED
      BY <3>1, ParseFrame
  <2>4. Tail(st) \in Seq(Seq(Links)) /\ a \in Seq(Links)
    <3>1. Tail(st) \in Seq(ArgLists)
      BY <1>1, HeadTailProperties
    <3> QED
      BY <3>1, ArgListsAreSeqs, SeqMonotonic
  <2>5. FlattenSeq(Append(Tail(st), a)) = FlattenSeq(Tail(st)) \o a
        /\ FlattenSeq(Tail(st)) \in Seq(Links)
    BY <2>4, FlattenAppend, FlattenType
  <2>6. ASSUME NEW r, r \in Seq(Links), NEW t, t \in Seq(Links)
        PROVE  (off \o r \o t) \o a = off \o r \o (t \o a)
    <3>1. off \o r \in Seq(Links)
      BY <2>6, ConcatProperties
    <3>2. ASSUME NEW u \in Seq(Links)
          PROVE  (u \o t) \o a = u \o (t \o a)
      BY <2>4, <2>6, LinksJoin
    <3> QED
      BY <3>1, <3>2
  <2>7. rec \o a = off \o fs[k].rest \o (FlattenSeq(Tail(st)) \o a)
    BY <2>1, <2>3, <2>5, <2>6
  <2> QED
    BY <2>1, <2>2, <2>5, <2>7 DEF Owed
<1> QED
  BY <1>1, <1>2 DEF Hands

\* The head of what is left goes to the end of what was offered.
LEMMA MoveHead ==
  ASSUME NEW X, NEW off \in Seq(X), NEW r \in Seq(X), r # <<>>
  PROVE  Append(off, Head(r)) \o Tail(r) = off \o r
<1>1. Tail(r) \in Seq(X) /\ Head(r) \in X
  BY HeadTailProperties
<1>2. r = <<Head(r)>> \o Tail(r)
  <2>1. /\ <<Head(r)>> \in Seq(X) /\ Len(<<Head(r)>>) = 1 /\ <<Head(r)>>[1] = r[1]
        /\ Len(r) \in Nat \ {0} /\ Len(Tail(r)) = Len(r) - 1
    BY <1>1, HeadTailProperties, EmptySeq
  <2>2. /\ <<Head(r)>> \o Tail(r) \in Seq(X)
        /\ Len(<<Head(r)>> \o Tail(r)) = Len(r)
        /\ \A i \in 1 .. Len(r) : (<<Head(r)>> \o Tail(r))[i] =
             IF i <= 1 THEN <<Head(r)>>[i] ELSE Tail(r)[i - 1]
    BY <1>1, <2>1, ConcatProperties
  <2>3. ASSUME NEW i \in 1 .. Len(r)
        PROVE  (<<Head(r)>> \o Tail(r))[i] = r[i]
    <3>1. CASE i = 1
      BY <2>1, <2>2, <3>1
    <3>2. CASE i # 1
      <4>1. i - 1 \in 1 .. Len(Tail(r)) /\ (i - 1) + 1 = i /\ ~(i <= 1)
        BY <2>1, <3>2
      <4>2. Tail(r)[i - 1] = r[i]
        BY <4>1, HeadTailProperties
      <4> QED
        BY <2>2, <4>1, <4>2
    <3> QED
      BY <3>1, <3>2
  <2> QED
    BY <2>2, <2>3, SeqEqual
<1>3. Append(off, Head(r)) = off \o <<Head(r)>> /\ <<Head(r)>> \in Seq(X)
  BY <1>1, AppendIsConcat
<1>4. off \o (<<Head(r)>> \o Tail(r)) = (off \o <<Head(r)>>) \o Tail(r)
  BY <1>1, <1>3, LinksJoin
<1> QED
  BY <1>2, <1>3, <1>4

\* Parse shows its next link.
LEMMA HandsOffer ==
  ASSUME NEW fs \in Seq(Frames), NEW st, NEW rec, NEW off \in Seq(Links),
         NEW f \in Frames, f.at = "parse", f.rest # <<>>,
         NEW g \in Frames, g.at = "parse", g.arg = f.arg, g.rest = Tail(f.rest),
         NEW busy \in BOOLEAN, Hands(<<f>> \o fs, st, busy, rec, off)
  PROVE  Hands(<<g>> \o fs, st, busy, rec, Append(off, Head(f.rest)))
<1>1. /\ ParsesOf(fs) = {} /\ busy /\ st # <<>> /\ f.arg = Head(st)
      /\ Owed(rec, off, f.rest, st)
  <2>1. ParsesOf(fs) = {} /\ st # <<>>
    BY HandsTop
  <2>2. busy /\ f.arg = Head(st)
    BY HandsTop
  <2>3. Owed(rec, off, f.rest, st)
    BY HandsTop
  <2> QED
    BY <2>1, <2>2, <2>3
<1>2. Append(off, Head(f.rest)) \o Tail(f.rest) = off \o f.rest
  BY ParseFrame, MoveHead
<1>3. Owed(rec, Append(off, Head(f.rest)), g.rest, st)
  BY <1>1, <1>2 DEF Owed
<1>4. g.arg = Head(st)
  BY <1>1
<1> QED
  BY <1>1, <1>3, <1>4, HandsTop, ZenonT(40)

\* Parse is done with an entry and goes on with the next one, or returns.
LEMMA HandsNext ==
  ASSUME NEW fs \in Seq(Frames), NEW st \in Seq(ArgLists),
         NEW rec \in Seq(Links), NEW off \in Seq(Links),
         NEW f \in Frames, f.at = "parse", f.rest = <<>>,
         NEW busy \in BOOLEAN, Hands(<<f>> \o fs, st, busy, rec, off),
         NEW left, left = RemoveFirst(st, f.arg)
  PROVE  /\ busy /\ left \in Seq(ArgLists)
         /\ \A g \in Frames :
              g.at = "parse" /\ left # <<>> /\ g.arg = Head(left) /\ g.rest = g.arg
                => Hands(<<g>> \o fs, left, busy, rec, off)
         /\ left = <<>> => \A no \in BOOLEAN : ~no => Hands(fs, left, no, rec, off)
<1>1. ParsesOf(fs) = {} /\ st # <<>>
  BY HandsTop
<1>2. busy /\ f.arg = Head(st)
  BY HandsTop
<1>3. Owed(rec, off, f.rest, st)
  BY HandsTop
<1>4. left = Tail(st)
  BY <1>1, <1>2, RemoveHead
<1>5. left \in Seq(ArgLists) /\ left \in Seq(Seq(Links))
  <2>1. left \in Seq(ArgLists)
    BY <1>1, <1>4, HeadTailProperties
  <2> QED
    BY <2>1, ArgListsAreSeqs, SeqMonotonic
<1>6. rec = off \o FlattenSeq(left)
  <2>1. off \o <<>> = off
    BY ConcatEmptySeq
  <2> QED
    BY <1>3, <1>4, <2>1 DEF Owed
<1>7. ASSUME NEW g \in Frames, g.at = "parse", left # <<>>,
             g.arg = Head(left), g.rest = g.arg
      PROVE  Hands(<<g>> \o fs, left, busy, rec, off)
  <2>1. Owed(rec, off, g.rest, left)
    <3>1. ASSUME NEW t, t \in Seq(Seq(Links)), t # <<>>
          PROVE  off \o FlattenSeq(t) = off \o Head(t) \o FlattenSeq(Tail(t))
      <4>1. FlattenSeq(t) = Head(t) \o FlattenSeq(Tail(t))
        BY <3>1, FlattenHead
      <4>2. Head(t) \in Seq(Links) /\ Tail(t) \in Seq(Seq(Links))
        BY <3>1, HeadTailProperties
      <4>3. FlattenSeq(Tail(t)) \in Seq(Links)
        BY <4>2, FlattenType
      <4>4. ASSUME NEW a \in Seq(Links), NEW b \in Seq(Links)
            PROVE  off \o (a \o b) = (off \o a) \o b
        BY LinksJoin
      <4> QED
        BY <4>1, <4>2, <4>3, <4>4, ZenonT(40)
    <3> QED
      BY <1>5, <1>6, <1>7, <3>1 DEF Owed
  <2> QED
    BY <1>1, <1>2, <1>7, <2>1, HandsTop
<1>8. ASSUME left = <<>>, NEW no \in BOOLEAN, ~no
      PROVE  Hands(fs, left, no, rec, off)
  <2>1. rec = off
    <3>1. FlattenSeq(left) = <<>>
      BY <1>8, FlattenEmpty
    <3> QED
      BY <1>6, <3>1, ConcatEmptySeq
  <2> QED
    BY <1>1, <1>8, <2>1 DEF Hands
<1> QED
  BY <1>2, <1>4, <1>5, <1>7, <1>8
-----------------------------------------------------------------------------
(***************************************************************************)
(* Types, step by step.                                                    *)
(***************************************************************************)
\* Processes that exit leave well-typed variables behind.
LEMMA LeaveTypes ==
  ASSUME TypeOK, NEW P, Leave(P)
  PROVE  /\ pc' \in [Procs -> {"off", "Check", "Find", "Send", "Wait", "Load", "Window", "Run"}]
         /\ args' \in [Procs -> ArgLists]
<1>1. <<>> \in ArgLists
  <2>1. <<>> \in [1 .. 0 -> Links] /\ 0 \in 0 .. MaxArgs
    BY ConstantsAssumption
  <2> QED
    BY <2>1 DEF ArgLists
<1> QED
  BY <1>1 DEF TypeOK, Leave

\* The entry that Parse finds first is a command line.
LEMMA AddTypes ==
  ASSUME TypeOK, NEW q \in Procs, NEW from \in Procs, AddAndParse(q, from)
  PROVE  /\ Stack' \in [Procs -> Seq(ArgLists)]
         /\ AlreadyRun' \in [Procs -> BOOLEAN]
         /\ frames' \in [Procs -> Seq(Frames)]
         /\ received' \in [Procs -> Seq(Links)]
<1>1. /\ args[from] \in ArgLists /\ Stack[q] \in Seq(ArgLists)
      /\ frames[q] \in Seq(Frames) /\ received[q] \in Seq(Links)
  BY DEF TypeOK
<1>2. Append(Stack[q], args[from]) \in Seq(ArgLists) /\ Append(Stack[q], args[from]) # <<>>
  BY <1>1, AppendProperties
<1>3. received[q] \o args[from] \in Seq(Links)
  <2>1. args[from] \in Seq(Links)
    BY <1>1, ArgListsAreSeqs
  <2> QED
    BY <1>1, <2>1, ConcatProperties
<1>4. Stack' = [Stack EXCEPT ![q] = Append(Stack[q], args[from])]
      /\ received' = [received EXCEPT ![q] = received[q] \o args[from]]
      /\ AlreadyRun' = [AlreadyRun EXCEPT ![q] = TRUE]
  BY DEF AddAndParse
<1>5. Stack' \in [Procs -> Seq(ArgLists)] /\ Stack'[q] = Append(Stack[q], args[from])
  BY <1>2, <1>4 DEF TypeOK
<1>6. received' \in [Procs -> Seq(Links)]
  BY <1>3, <1>4 DEF TypeOK
<1>7. AlreadyRun' \in [Procs -> BOOLEAN]
  BY <1>4 DEF TypeOK
<1>8. frames' \in [Procs -> Seq(Frames)]
  <2> DEFINE a == Head(Stack'[q])
  <2>1. a \in ArgLists
    BY <1>2, <1>5, HeadTailProperties
  <2>2. Parse(from, a, a) \in Frames
    BY <2>1, ArgListsAreSeqs, FrameType
  <2>3. <<Parse(from, a, a)>> \o frames[q] \in Seq(Frames)
    BY <1>1, <2>2, Push
  <2>4. \/ frames' = frames
        \/ frames' = [frames EXCEPT ![q] = <<Parse(from, a, a)>> \o frames[q]]
    BY Zenon DEF AddAndParse
  <2> HIDE DEF a
  <2> QED
    BY <2>3, <2>4 DEF TypeOK
<1> QED
  BY <1>5, <1>6, <1>7, <1>8

\* The top frame is a frame.
LEMMA TopFrame ==
  ASSUME TypeOK, NEW q \in Procs, NEW label, AtTop(q, label)
  PROVE  /\ frames[q] \in Seq(Frames) /\ frames[q] # <<>>
         /\ frames[q][1] \in Frames /\ frames[q][1].at = label
         /\ Tail(frames[q]) \in Seq(Frames)
         /\ frames[q] = <<frames[q][1]>> \o Tail(frames[q])
<1>1. frames[q] \in Seq(Frames)
  BY DEF TypeOK
<1>2. frames[q] # <<>> /\ frames[q][1].at = label
  BY DEF AtTop
<1> QED
  BY <1>1, <1>2, Split

\* After Parse has taken its entry from the stack what it works on is well-typed,
\* and agrees with the histories.
LEMMA ParseNextStep ==
  ASSUME TypeOK, HandsAll, NEW q \in Procs, ParseNext(q)
  PROVE  /\ Stack' \in [Procs -> Seq(ArgLists)]
         /\ AlreadyRun' \in [Procs -> BOOLEAN]
         /\ frames' \in [Procs -> Seq(Frames)]
         /\ \A r \in Procs \ {q} : /\ Stack'[r] = Stack[r] /\ frames'[r] = frames[r]
                                   /\ AlreadyRun'[r] = AlreadyRun[r]
         /\ Hands(frames'[q], Stack'[q], AlreadyRun'[q], received[q], offered[q])
<1> DEFINE f == frames[q][1]
           fs == Tail(frames[q])
           left == RemoveFirst(Stack[q], f.arg)
           g == Parse(f.from, Head(left), Head(left))
<1>1. /\ AtTop(q, "parse") /\ f.rest = <<>>
      /\ Stack' = [Stack EXCEPT ![q] = left]
      /\ \/ left # <<>> /\ frames' = [frames EXCEPT ![q] = <<g>> \o fs] /\ AlreadyRun' = AlreadyRun
         \/ /\ left = <<>> /\ frames' = [frames EXCEPT ![q] = fs]
            /\ AlreadyRun' = [AlreadyRun EXCEPT ![q] = FALSE]
  BY Zenon DEF ParseNext
<1>2. f \in Frames /\ f.at = "parse" /\ fs \in Seq(Frames) /\ frames[q] = <<f>> \o fs
  BY <1>1, TopFrame
<1>3. /\ Stack[q] \in Seq(ArgLists) /\ AlreadyRun[q] \in BOOLEAN
      /\ received[q] \in Seq(Links) /\ offered[q] \in Seq(Links)
  BY DEF TypeOK
<1>4. Hands(<<f>> \o fs, Stack[q], AlreadyRun[q], received[q], offered[q])
  <2>1. Hands(frames[q], Stack[q], AlreadyRun[q], received[q], offered[q])
    BY Zenon DEF HandsAll
  <2> HIDE DEF f, fs
  <2> QED
    BY <1>2, <2>1
<1>5. f.from \in Procs
  BY <1>2, ParseFrame
<1> HIDE DEF f, fs, left
<1>6. /\ left \in Seq(ArgLists)
      /\ \A h \in Frames :
           h.at = "parse" /\ left # <<>> /\ h.arg = Head(left) /\ h.rest = h.arg
             => Hands(<<h>> \o fs, left, AlreadyRun[q], received[q], offered[q])
      /\ left = <<>> => \A no \in BOOLEAN : ~no => Hands(fs, left, no, received[q], offered[q])
  <2>1. left = RemoveFirst(Stack[q], f.arg)
    BY DEF left
  <2> QED
    BY <1>1, <1>2, <1>3, <1>4, <2>1, HandsNext
<1>7. Stack' \in [Procs -> Seq(ArgLists)] /\ Stack'[q] = left
  BY <1>1, <1>6 DEF TypeOK
<1>8. CASE left # <<>> /\ frames' = [frames EXCEPT ![q] = <<g>> \o fs] /\ AlreadyRun' = AlreadyRun
  <2>1. Head(left) \in ArgLists /\ Head(left) \in Seq(Links)
    BY <1>6, <1>8, HeadTailProperties, ArgListsAreSeqs
  <2>2. g \in Frames /\ g.at = "parse" /\ g.arg = Head(left) /\ g.rest = g.arg
    BY <1>5, <2>1, FrameType
  <2> HIDE DEF g
  <2>3. <<g>> \o fs \in Seq(Frames)
    BY <1>2, <2>2, Push
  <2>4. Hands(<<g>> \o fs, left, AlreadyRun[q], received[q], offered[q])
    BY <1>6, <1>8, <2>2
  <2>5. frames' \in [Procs -> Seq(Frames)] /\ frames'[q] = <<g>> \o fs
    BY <1>8, <2>3 DEF TypeOK
  <2>6. AlreadyRun' \in [Procs -> BOOLEAN]
    BY <1>8 DEF TypeOK
  <2>7. \A r \in Procs \ {q} : /\ Stack'[r] = Stack[r] /\ frames'[r] = frames[r]
                               /\ AlreadyRun'[r] = AlreadyRun[r]
    BY <1>1, <1>8, Zenon DEF TypeOK
  <2> QED
    BY <1>7, <1>8, <2>4, <2>5, <2>6, <2>7
<1>9. CASE /\ left = <<>> /\ frames' = [frames EXCEPT ![q] = fs]
           /\ AlreadyRun' = [AlreadyRun EXCEPT ![q] = FALSE]
  <2>1. frames' \in [Procs -> Seq(Frames)] /\ frames'[q] = fs
    BY <1>2, <1>9 DEF TypeOK
  <2>2. AlreadyRun' \in [Procs -> BOOLEAN] /\ ~AlreadyRun'[q]
    BY <1>9 DEF TypeOK
  <2>3. \A r \in Procs \ {q} : /\ Stack'[r] = Stack[r] /\ frames'[r] = frames[r]
                               /\ AlreadyRun'[r] = AlreadyRun[r]
    BY <1>1, <1>9, Zenon DEF TypeOK
  <2>4. Hands(fs, left, AlreadyRun'[q], received[q], offered[q])
    BY <1>6, <1>9, <2>2
  <2> QED
    BY <1>7, <2>1, <2>2, <2>3, <2>4
<1> QED
  BY <1>1, <1>8, <1>9

\* Every step keeps the types.
LEMMA TypeStep ==
  ASSUME TypeOK, HandsAll, [Next]_vars
  PROVE  TypeOK'
<1>1. ASSUME NEW p \in Procs, NEW a \in ArgLists, Launch(p, a)
      PROVE  TypeOK'
  BY <1>1, Zenon DEF Launch, TypeOK
<1>2. ASSUME NEW p \in Procs, Check(p)
      PROVE  TypeOK'
  <2>1. pc' \in [Procs -> {"off", "Check", "Find", "Send", "Wait", "Load", "Window", "Run"}]
    BY <1>2 DEF Check, Goto, TypeOK
  <2> QED
    BY <1>2, <2>1, Zenon DEF Check, Goto, TypeOK
<1>3. ASSUME NEW p \in Procs, Find(p)
      PROVE  TypeOK'
  <2>1. CASE \E q \in Procs : target' = [target EXCEPT ![p] = q] /\ Goto(p, "Send")
    <3>1. /\ pc' \in [Procs -> {"off", "Check", "Find", "Send", "Wait", "Load", "Window", "Run"}]
          /\ target' \in [Procs -> Procs] /\ args' = args
      BY <2>1 DEF Goto, TypeOK
    <3> QED
      BY <1>3, <3>1, Zenon DEF Find, TypeOK
  <2>2. CASE Leave({p}) /\ UNCHANGED target
    BY <1>3, <2>2, LeaveTypes, Zenon DEF Find, TypeOK
  <2> QED
    BY <1>3, <2>1, <2>2, Zenon DEF Find
<1>4. ASSUME NEW p \in Procs, OpenWindow(p)
      PROVE  TypeOK'
  <2>1. pc' \in [Procs -> {"off", "Check", "Find", "Send", "Wait", "Load", "Window", "Run"}]
    BY <1>4 DEF OpenWindow, Goto, TypeOK
  <2> QED
    BY <1>4, <2>1, Zenon DEF OpenWindow, Goto, TypeOK
<1>5. ASSUME NEW p \in Procs, AttachManager(p)
      PROVE  TypeOK'
  <2>1. pc' \in [Procs -> {"off", "Check", "Find", "Send", "Wait", "Load", "Window", "Run"}]
    BY <1>5 DEF AttachManager, Goto, TypeOK
  <2> QED
    BY <1>5, <2>1, AddTypes, Zenon DEF AttachManager, Goto, TypeOK
<1>6. ASSUME NEW q \in Procs, NEW p \in Procs, Receive(q, p)
      PROVE  TypeOK'
  <2>1. /\ pc' \in [Procs -> {"off", "Check", "Find", "Send", "Wait", "Load", "Window", "Run"}]
        /\ args' \in [Procs -> ArgLists]
    <3>1. CASE Leave({p})
      BY <3>1, LeaveTypes
    <3>2. CASE Goto(p, "Wait")
      BY <3>2 DEF Goto, TypeOK
    <3> QED
      BY <1>6, <3>1, <3>2, Zenon DEF Receive
  <2> QED
    BY <1>6, <2>1, AddTypes, Zenon DEF Receive, TypeOK
<1>7. ASSUME NEW q \in Procs, Offer(q)
      PROVE  TypeOK'
  <2> DEFINE f == frames[q][1]
             fs == <<Dialog, Parse(f.from, f.arg, Tail(f.rest))>> \o Tail(frames[q])
  <2>1. /\ frames' = [frames EXCEPT ![q] = fs]
        /\ offered' = [offered EXCEPT ![q] = Append(offered[q], Head(f.rest))]
        /\ f.rest # <<>> /\ AtTop(q, "parse")
    BY <1>7, Zenon DEF Offer
  <2>2. /\ f.from \in Procs /\ f.arg \in ArgLists /\ f.rest \in Seq(Links)
        /\ Tail(frames[q]) \in Seq(Frames)
    BY <2>1, TopFrame, ParseFrame
  <2>3. Tail(f.rest) \in Seq(Links) /\ Head(f.rest) \in Links
    BY <2>1, <2>2, HeadTailProperties
  <2>4. fs \in Seq(Frames)
    <3>1. Parse(f.from, f.arg, Tail(f.rest)) \in Frames
      BY <2>2, <2>3, FrameType
    <3> HIDE DEF f
    <3>2. <<Dialog, Parse(f.from, f.arg, Tail(f.rest))>> \in Seq(Frames)
      BY <3>1, DialogType
    <3> QED
      BY <2>2, <3>2, ConcatProperties
  <2>5. Append(offered[q], Head(f.rest)) \in Seq(Links)
    BY <2>3, AppendProperties DEF TypeOK
  <2> HIDE DEF f, fs
  <2>6. frames' \in [Procs -> Seq(Frames)]
    BY <2>1, <2>4 DEF TypeOK
  <2>7. offered' \in [Procs -> Seq(Links)]
    BY <2>1, <2>5 DEF TypeOK
  <2> QED
    BY <1>7, <2>6, <2>7, Zenon DEF Offer, TypeOK
<1>8. ASSUME NEW q \in Procs, ParseNext(q)
      PROVE  TypeOK'
  <2>1. /\ pc' \in [Procs -> {"off", "Check", "Find", "Send", "Wait", "Load", "Window", "Run"}]
        /\ args' \in [Procs -> ArgLists]
    <3>1. CASE UNCHANGED <<pc, args>>
      BY <3>1 DEF TypeOK
    <3>2. CASE \E P : Leave(P)
      BY <3>2, LeaveTypes
    <3> QED
      BY <1>8, <3>1, <3>2, Zenon DEF ParseNext
  <2> QED
    BY <1>8, <2>1, ParseNextStep, Zenon DEF ParseNext, TypeOK
<1>9. ASSUME NEW q \in Procs, AddButton(q)
      PROVE  TypeOK'
  <2>1. <<Dialog>> \in Seq(Frames)
    BY DialogType
  <2>2. frames' \in [Procs -> Seq(Frames)]
    BY <1>9, <2>1 DEF AddButton, TypeOK
  <2> QED
    BY <1>9, <2>2, Zenon DEF AddButton, TypeOK
<1>10. ASSUME NEW q \in Procs, CloseDialog(q)
       PROVE  frames' \in [Procs -> Seq(Frames)]
  <2>1. Tail(frames[q]) \in Seq(Frames)
    BY <1>10, TopFrame, Zenon DEF CloseDialog
  <2>2. frames' = [frames EXCEPT ![q] = Tail(frames[q])]
    BY <1>10, Zenon DEF CloseDialog
  <2> QED
    BY <2>1, <2>2 DEF TypeOK
<1>11. ASSUME NEW q \in Procs, Ok(q)
       PROVE  TypeOK'
  <2>1. PICK link \in Links, file \in Files : AddDownload(link, file)
    BY <1>11, Zenon DEF Ok
  <2>2. List' \in SUBSET [link : Links, file : Files]
    BY <2>1 DEF AddDownload, TypeOK
  <2>3. CloseDialog(q)
    BY <1>11, Zenon DEF Ok
  <2> QED
    BY <1>10, <2>2, <2>3, Zenon DEF CloseDialog, TypeOK
<1>12. ASSUME NEW q \in Procs, Cancel(q)
       PROVE  TypeOK'
  <2>1. CloseDialog(q) /\ List' = List
    BY <1>12, Zenon DEF Cancel
  <2> QED
    BY <1>10, <2>1, Zenon DEF CloseDialog, TypeOK
<1>13. ASSUME NEW q \in Procs, Close(q)
       PROVE  TypeOK'
  <2>1. /\ pc' \in [Procs -> {"off", "Check", "Find", "Send", "Wait", "Load", "Window", "Run"}]
        /\ args' \in [Procs -> ArgLists]
    BY <1>13, LeaveTypes, Zenon DEF Close
  <2>2. received' \in [Procs -> Seq(Links)] /\ offered' \in [Procs -> Seq(Links)]
    <3>1. <<>> \in Seq(Links)
      OBVIOUS
    <3> QED
      BY <1>13, <3>1 DEF Close, TypeOK
  <2> QED
    BY <1>13, <2>1, <2>2, Zenon DEF Close, TypeOK
<1>14. CASE UNCHANGED vars
  BY <1>14, Zenon DEF vars, TypeOK
<1> QED
  BY <1>1, <1>2, <1>3, <1>4, <1>5, <1>6, <1>7, <1>8, <1>9, <1>11, <1>12, <1>13, <1>14, Zenon
  DEF Next
-----------------------------------------------------------------------------
(***************************************************************************)
(* Frames, stack and histories, step by step.                              *)
(***************************************************************************)
\* A step on the thread of q concerns only its own calls.
LEMMA HandsOthers ==
  ASSUME HandsAll, NEW q \in Procs,
         \A r \in Procs \ {q} : /\ frames'[r] = frames[r] /\ Stack'[r] = Stack[r]
                                /\ AlreadyRun'[r] = AlreadyRun[r]
                                /\ received'[r] = received[r] /\ offered'[r] = offered[r],
         Hands(frames'[q], Stack'[q], AlreadyRun'[q], received'[q], offered'[q])
  PROVE  HandsAll'
<1> SUFFICES ASSUME NEW r \in Procs
             PROVE  Hands(frames'[r], Stack'[r], AlreadyRun'[r], received'[r], offered'[r])
  BY Zenon DEF HandsAll
<1>1. CASE r = q
  BY <1>1
<1>2. CASE r # q
  <2>1. r \in Procs \ {q}
    BY <1>2
  <2>2. /\ frames'[r] = frames[r] /\ Stack'[r] = Stack[r] /\ AlreadyRun'[r] = AlreadyRun[r]
        /\ received'[r] = received[r] /\ offered'[r] = offered[r]
    BY <2>1
  <2>3. Hands(frames[r], Stack[r], AlreadyRun[r], received[r], offered[r])
    BY Zenon DEF HandsAll
  <2> QED
    BY <2>2, <2>3
<1> QED
  BY <1>1, <1>2

\* A command line arrives: Parse begins, or finds one more entry later.
LEMMA AddHands ==
  ASSUME TypeOK, HandsAll, NEW q \in Procs, NEW from \in Procs, AddAndParse(q, from),
         UNCHANGED offered
  PROVE  HandsAll'
<1> DEFINE fs == frames[q]
           st == Stack[q]
           a == args[from]
           f == Parse(from, Head(Append(st, a)), Head(Append(st, a)))
<1>1. /\ a \in ArgLists /\ st \in Seq(ArgLists) /\ fs \in Seq(Frames)
      /\ received[q] \in Seq(Links) /\ offered[q] \in Seq(Links) /\ AlreadyRun[q] \in BOOLEAN
  BY DEF TypeOK
<1>2. /\ Stack' = [Stack EXCEPT ![q] = Append(st, a)]
      /\ received' = [received EXCEPT ![q] = received[q] \o a]
      /\ AlreadyRun' = [AlreadyRun EXCEPT ![q] = TRUE]
  BY DEF AddAndParse
<1>3. Stack'[q] = Append(st, a)
  BY <1>2 DEF TypeOK
<1>4. received'[q] = received[q] \o a
  BY <1>2 DEF TypeOK
<1>5. AlreadyRun'[q] /\ AlreadyRun'[q] \in BOOLEAN
  BY <1>2 DEF TypeOK
<1>6. \A r \in Procs \ {q} : /\ Stack'[r] = Stack[r] /\ AlreadyRun'[r] = AlreadyRun[r]
                             /\ received'[r] = received[r] /\ offered'[r] = offered[r]
  BY <1>2, Zenon DEF TypeOK
<1>7. Hands(fs, st, AlreadyRun[q], received[q], offered[q])
  BY Zenon DEF HandsAll
<1> HIDE DEF fs, st, a
<1>8. CASE AlreadyRun[q]
  <2>1. frames' = frames
    BY <1>8, Zenon DEF AddAndParse
  <2>2. Hands(fs, Append(st, a), AlreadyRun[q], received[q] \o a, offered[q])
    BY <1>1, <1>7, <1>8, HandsLater
  <2>3. AlreadyRun'[q] = AlreadyRun[q]
    BY <1>1, <1>5, <1>8
  <2>4. Hands(frames'[q], Stack'[q], AlreadyRun'[q], received'[q], offered'[q])
    BY <1>3, <1>4, <2>1, <2>2, <2>3 DEF fs
  <2> QED
    BY <1>6, <2>1, <2>4, HandsOthers
<1>9. CASE ~AlreadyRun[q]
  <2>1. st = <<>>
    <3>1. ParsesOf(fs) # {} => AlreadyRun[q]
      BY <1>7, Zenon DEF Hands
    <3>2. ParsesOf(fs) = {}
      BY <1>9, <3>1
    <3>3. ParsesOf(fs) = {} => st = <<>>
      BY <1>7, Zenon DEF Hands
    <3> QED
      BY <3>2, <3>3
  <2>2. Append(st, a) = <<a>> /\ Head(Append(st, a)) = a
    BY <2>1
  <2>3. frames' = [frames EXCEPT ![q] = <<f>> \o fs]
    <3>1. frames' = [frames EXCEPT ![q] =
                       <<Parse(from, Head(Stack'[q]), Head(Stack'[q]))>> \o fs]
      BY <1>9, Zenon DEF AddAndParse, fs
    <3> QED
      BY <1>3, <3>1
  <2>4. f \in Frames /\ f.at = "parse" /\ f.arg = a /\ f.rest = a
    <3>1. f = Parse(from, a, a)
      BY <2>2
    <3> QED
      BY <1>1, <3>1, ArgListsAreSeqs, FrameType
  <2> HIDE DEF f
  <2>5. Hands(<<f>> \o fs, <<f.arg>>, AlreadyRun'[q], received[q] \o f.arg, offered[q])
    BY <1>1, <1>5, <1>7, <1>9, <2>4, HandsBegin
  <2>6. /\ frames'[q] = <<f>> \o fs
        /\ \A r \in Procs \ {q} : frames'[r] = frames[r]
    BY <2>3, Zenon DEF TypeOK
  <2>7. Hands(frames'[q], Stack'[q], AlreadyRun'[q], received'[q], offered'[q])
    <3>1. Stack'[q] = <<f.arg>> /\ received'[q] = received[q] \o f.arg /\ offered' = offered
      BY <1>3, <1>4, <2>2, <2>4
    <3> QED
      BY <2>5, <2>6, <3>1
  <2> QED
    BY <1>6, <2>6, <2>7, HandsOthers
<1> QED
  BY <1>8, <1>9

\* Every step keeps frames, stack, flag and histories together.
LEMMA HandsStep ==
  ASSUME TypeOK, HandsAll, [Next]_vars
  PROVE  HandsAll'
<1>1. ASSUME UNCHANGED <<frames, Stack, AlreadyRun, received, offered>>
      PROVE  HandsAll'
  BY <1>1, Zenon DEF HandsAll
<1>2. ASSUME NEW p \in Procs,
             (\E a \in ArgLists : Launch(p, a)) \/ Check(p) \/ Find(p) \/ OpenWindow(p)
      PROVE  HandsAll'
  BY <1>1, <1>2, Zenon DEF Launch, Check, Find, OpenWindow
<1>3. ASSUME NEW p \in Procs, AttachManager(p)
      PROVE  HandsAll'
  BY <1>3, AddHands, Zenon DEF AttachManager
<1>4. ASSUME NEW q \in Procs, NEW p \in Procs, Receive(q, p)
      PROVE  HandsAll'
  BY <1>4, AddHands, Zenon DEF Receive
<1>5. ASSUME NEW q \in Procs, Offer(q)
      PROVE  HandsAll'
  <2> DEFINE f == frames[q][1]
             fs == Tail(frames[q])
             g == Parse(f.from, f.arg, Tail(f.rest))
  <2>1. /\ AtTop(q, "parse") /\ f.rest # <<>>
        /\ frames' = [frames EXCEPT ![q] = <<Dialog, g>> \o fs]
        /\ offered' = [offered EXCEPT ![q] = Append(offered[q], Head(f.rest))]
    BY <1>5, Zenon DEF Offer
  <2>2. f \in Frames /\ f.at = "parse" /\ fs \in Seq(Frames) /\ frames[q] = <<f>> \o fs
    BY <2>1, TopFrame
  <2>3. f.from \in Procs /\ f.arg \in ArgLists /\ f.rest \in Seq(Links)
    BY <2>2, ParseFrame
  <2>4. g \in Frames /\ g.at = "parse" /\ g.arg = f.arg /\ g.rest = Tail(f.rest)
    <3>1. Tail(f.rest) \in Seq(Links)
      BY <2>1, <2>3, HeadTailProperties
    <3> HIDE DEF f
    <3>2. g \in Frames
      BY <2>3, <3>1, FrameType
    <3>3. g.at = "parse" /\ g.arg = f.arg /\ g.rest = Tail(f.rest)
      BY DEF Parse
    <3> QED
      BY <3>2, <3>3
  <2>5. Hands(<<f>> \o fs, Stack[q], AlreadyRun[q], received[q], offered[q])
    <3>1. Hands(frames[q], Stack[q], AlreadyRun[q], received[q], offered[q])
      BY Zenon DEF HandsAll
    <3> HIDE DEF f, fs
    <3> QED
      BY <2>2, <3>1
  <2>6. offered[q] \in Seq(Links) /\ AlreadyRun[q] \in BOOLEAN
    BY DEF TypeOK
  <2> HIDE DEF f, fs, g
  <2>7. Hands(<<g>> \o fs, Stack[q], AlreadyRun[q], received[q], Append(offered[q], Head(f.rest)))
    BY <2>1, <2>2, <2>4, <2>5, <2>6, HandsOffer
  <2>8. <<Dialog, g>> \o fs = <<Dialog>> \o (<<g>> \o fs) /\ <<g>> \o fs \in Seq(Frames)
    <3>1. <<Dialog>> \in Seq(Frames) /\ <<g>> \in Seq(Frames) /\ <<Dialog, g>> = <<Dialog>> \o <<g>>
      BY <2>4, DialogType
    <3>2. (<<Dialog>> \o <<g>>) \o fs = <<Dialog>> \o (<<g>> \o fs)
      BY <2>2, <3>1, ConcatAssociative
    <3> QED
      BY <2>2, <2>4, <3>1, <3>2, Push
  <2>9. Hands(<<Dialog>> \o (<<g>> \o fs), Stack[q], AlreadyRun[q], received[q],
              Append(offered[q], Head(f.rest)))
    <3>1. Dialog \in Frames /\ Dialog.at # "parse"
      BY DialogType
    <3> DEFINE gs == <<g>> \o fs
               off == Append(offered[q], Head(f.rest))
    <3>2. gs \in Seq(Frames) /\ Hands(gs, Stack[q], AlreadyRun[q], received[q], off)
      BY <2>7, <2>8
    <3> HIDE DEF gs, off
    <3>3. Hands(<<Dialog>> \o gs, Stack[q], AlreadyRun[q], received[q], off)
      BY <2>6, <3>1, <3>2, HandsPush
    <3> QED
      BY <3>3 DEF gs, off
  <2>10. /\ frames'[q] = <<Dialog, g>> \o fs /\ offered'[q] = Append(offered[q], Head(f.rest))
         /\ \A r \in Procs \ {q} : frames'[r] = frames[r] /\ offered'[r] = offered[r]
    BY <2>1, Zenon DEF TypeOK
  <2>11. UNCHANGED <<Stack, AlreadyRun, received>>
    BY <1>5, Zenon DEF Offer
  <2>12. Hands(frames'[q], Stack'[q], AlreadyRun'[q], received'[q], offered'[q])
    BY <2>8, <2>9, <2>10, <2>11
  <2> QED
    BY <2>10, <2>11, <2>12, HandsOthers
<1>6. ASSUME NEW q \in Procs, ParseNext(q)
      PROVE  HandsAll'
  <2>1. UNCHANGED <<received, offered>>
    BY <1>6, Zenon DEF ParseNext
  <2>2. Hands(frames'[q], Stack'[q], AlreadyRun'[q], received'[q], offered'[q])
    BY <1>6, <2>1, ParseNextStep
  <2>3. \A r \in Procs \ {q} : /\ Stack'[r] = Stack[r] /\ frames'[r] = frames[r]
                               /\ AlreadyRun'[r] = AlreadyRun[r]
    BY <1>6, ParseNextStep, Zenon
  <2> QED
    BY <2>1, <2>2, <2>3, HandsOthers, Zenon
<1>7. ASSUME NEW q \in Procs, AddButton(q)
      PROVE  HandsAll'
  <2>1. frames[q] = <<>> /\ UNCHANGED <<Stack, AlreadyRun, received, offered>>
    BY <1>7, Zenon DEF AddButton
  <2>2. /\ frames'[q] = <<Dialog>>
        /\ \A r \in Procs \ {q} : frames'[r] = frames[r]
    BY <1>7, Zenon DEF AddButton, TypeOK
  <2>3. ParsesOf(<<>>) = {} /\ ParsesOf(<<Dialog>>) = {}
    BY DialogType DEF ParsesOf
  <2>4. /\ Hands(<<>>, Stack[q], AlreadyRun[q], received[q], offered[q])
        /\ AlreadyRun[q] \in BOOLEAN
    BY <2>1, Zenon DEF HandsAll, TypeOK
  <2>5. Hands(<<Dialog>>, Stack[q], AlreadyRun[q], received[q], offered[q])
    BY <2>3, <2>4, HandsNone
  <2> QED
    BY <2>1, <2>2, <2>5, HandsOthers, Zenon
<1>8. ASSUME NEW q \in Procs, CloseDialog(q)
      PROVE  HandsAll'
  <2> DEFINE f == frames[q][1]
             fs == Tail(frames[q])
  <2>1. /\ AtTop(q, "dialog") /\ frames' = [frames EXCEPT ![q] = fs]
        /\ UNCHANGED <<Stack, AlreadyRun, received, offered>>
    BY <1>8, Zenon DEF CloseDialog
  <2>2. f \in Frames /\ f.at # "parse" /\ fs \in Seq(Frames) /\ frames[q] = <<f>> \o fs
    BY <2>1, TopFrame
  <2>3. /\ Hands(frames[q], Stack[q], AlreadyRun[q], received[q], offered[q])
        /\ AlreadyRun[q] \in BOOLEAN
    BY Zenon DEF HandsAll, TypeOK
  <2> HIDE DEF f, fs
  <2>4. Hands(fs, Stack[q], AlreadyRun[q], received[q], offered[q])
    BY <2>2, <2>3, HandsPush
  <2>5. frames'[q] = fs /\ \A r \in Procs \ {q} : frames'[r] = frames[r]
    BY <2>1, Zenon DEF TypeOK
  <2> QED
    BY <2>1, <2>4, <2>5, HandsOthers, Zenon
<1>9. ASSUME NEW q \in Procs, Close(q)
      PROVE  HandsAll'
  <2>1. frames[q] = <<>> /\ UNCHANGED <<frames, Stack, AlreadyRun>>
    BY <1>9, Zenon DEF Close
  <2>2. /\ received'[q] = <<>> /\ offered'[q] = <<>>
        /\ \A r \in Procs \ {q} : received'[r] = received[r] /\ offered'[r] = offered[r]
    BY <1>9, Zenon DEF Close, TypeOK
  <2>3. ParsesOf(<<>>) = {}
    BY DEF ParsesOf
  <2>4. /\ Hands(<<>>, Stack[q], AlreadyRun[q], received[q], offered[q])
        /\ AlreadyRun[q] \in BOOLEAN
    BY <2>1, Zenon DEF HandsAll, TypeOK
  <2>5. ~AlreadyRun[q] /\ Stack[q] = <<>>
    BY <2>3, <2>4, HandsNone
  <2>6. Hands(<<>>, Stack[q], AlreadyRun[q], <<>>, <<>>)
    BY <2>3, <2>4, <2>5, HandsNone
  <2>7. Hands(frames'[q], Stack'[q], AlreadyRun'[q], received'[q], offered'[q])
    BY <2>1, <2>2, <2>6
  <2> QED
    BY <2>1, <2>2, <2>7, HandsOthers, Zenon
<1>10. CASE UNCHANGED vars
  BY <1>1, <1>10, Zenon DEF vars
<1>11. ASSUME NEW q \in Procs, Ok(q) \/ Cancel(q)
       PROVE  HandsAll'
  BY <1>8, <1>11, Zenon DEF Ok, Cancel
<1> QED
  BY <1>2, <1>3, <1>4, <1>5, <1>6, <1>7, <1>9, <1>10, <1>11, Zenon DEF Next

\* At the start no process runs and nothing has been received.
LEMMA Start ==
  ASSUME Init
  PROVE  TypeOK /\ HandsAll /\ AtMostOne /\ Distinct
<1>1. <<>> \in ArgLists
  <2>1. <<>> \in [1 .. 0 -> Links] /\ 0 \in 0 .. MaxArgs
    BY ConstantsAssumption
  <2> QED
    BY <2>1 DEF ArgLists
<1>2. TypeOK
  BY <1>1 DEF Init, TypeOK
<1>3. HandsAll
  <2>1. ParsesOf(<<>>) = {}
    BY DEF ParsesOf
  <2>2. ASSUME NEW no \in BOOLEAN, ~no
        PROVE  Hands(<<>>, <<>>, no, <<>>, <<>>)
    BY <2>1, <2>2, HandsNone
  <2>3. ASSUME NEW q \in Procs
        PROVE  /\ frames[q] = <<>> /\ Stack[q] = <<>> /\ received[q] = <<>> /\ offered[q] = <<>>
               /\ AlreadyRun[q] \in BOOLEAN /\ ~AlreadyRun[q]
    BY DEF Init
  <2> QED
    BY <2>2, <2>3 DEF HandsAll
<1>4. AtMostOne /\ Distinct
  BY DEF Init, AtMostOne, Loaders, Distinct
<1> QED
  BY <1>2, <1>3, <1>4
-----------------------------------------------------------------------------
(***************************************************************************)
(* One instance, and its list, step by step.                               *)
(***************************************************************************)
\* Only the check lets a process load, and only when no other one is past it.
LEMMA OneStep ==
  ASSUME TypeOK, AtMostOne, [Next]_vars
  PROVE  AtMostOne'
<1>1. ASSUME \A r \in Procs : pc'[r] \in Loaders => pc[r] \in Loaders
      PROVE  AtMostOne'
  BY <1>1 DEF AtMostOne
<1>2. ASSUME NEW P, Leave(P)
      PROVE  AtMostOne'
  <2>1. \A r \in Procs : pc'[r] \in Loaders => pc[r] \in Loaders
    BY <1>2 DEF Leave, Loaders
  <2> QED
    BY <1>1, <2>1
<1>3. ASSUME NEW p \in Procs, NEW label, Goto(p, label), label \in Loaders => pc[p] \in Loaders
      PROVE  AtMostOne'
  <2>1. \A r \in Procs : pc'[r] \in Loaders => pc[r] \in Loaders
    BY <1>3 DEF Goto, TypeOK
  <2> QED
    BY <1>1, <2>1
<1>4. ASSUME UNCHANGED pc
      PROVE  AtMostOne'
  BY <1>4, Zenon DEF AtMostOne
<1>5. ASSUME NEW p \in Procs, NEW a \in ArgLists, Launch(p, a)
      PROVE  AtMostOne'
  <2>1. \A r \in Procs : pc'[r] \in Loaders => pc[r] \in Loaders
    BY <1>5 DEF Launch, Loaders, TypeOK
  <2> QED
    BY <1>1, <2>1
<1>6. ASSUME NEW p \in Procs, Check(p)
      PROVE  AtMostOne'
  <2>1. CASE IsAnotherRunning(p)
    BY <1>3, <1>6, <2>1 DEF Check, Loaders
  <2>2. CASE ~IsAnotherRunning(p)
    <3>1. \A r \in Procs \ {p} : pc[r] \notin Loaders
      BY <2>2 DEF IsAnotherRunning, Loaders
    <3>2. \A r \in Procs \ {p} : pc'[r] = pc[r]
      BY <1>6, Zenon DEF Check, Goto, TypeOK
    <3> QED
      BY <3>1, <3>2 DEF AtMostOne
  <2> QED
    BY <2>1, <2>2
<1>7. ASSUME NEW p \in Procs, Find(p)
      PROVE  AtMostOne'
  <2>1. Goto(p, "Send") \/ Leave({p})
    BY <1>7, Zenon DEF Find
  <2>2. "Send" \notin Loaders
    BY DEF Loaders
  <2> QED
    BY <1>2, <1>3, <2>1, <2>2
<1>8. ASSUME NEW p \in Procs, OpenWindow(p)
      PROVE  AtMostOne'
  BY <1>3, <1>8 DEF OpenWindow, Loaders
<1>9. ASSUME NEW p \in Procs, AttachManager(p)
      PROVE  AtMostOne'
  BY <1>3, <1>9 DEF AttachManager, Loaders
<1>10. ASSUME NEW q \in Procs, NEW p \in Procs, Receive(q, p)
       PROVE  AtMostOne'
  <2>1. Leave({p}) \/ Goto(p, "Wait")
    BY <1>10, Zenon DEF Receive
  <2>2. "Wait" \notin Loaders
    BY DEF Loaders
  <2> QED
    BY <1>2, <1>3, <2>1, <2>2
<1>11. ASSUME NEW q \in Procs, ParseNext(q)
       PROVE  AtMostOne'
  BY <1>2, <1>4, <1>11, Zenon DEF ParseNext
<1>12. ASSUME NEW q \in Procs, Close(q)
       PROVE  AtMostOne'
  BY <1>2, <1>12, Zenon DEF Close
<1>13. ASSUME NEW q \in Procs, Offer(q) \/ AddButton(q) \/ Ok(q) \/ Cancel(q)
       PROVE  AtMostOne'
  BY <1>4, <1>13, Zenon DEF Offer, AddButton, Ok, Cancel, CloseDialog
<1>14. CASE UNCHANGED vars
  BY <1>4, <1>14, Zenon DEF vars
<1> QED
  BY <1>5, <1>6, <1>7, <1>8, <1>9, <1>10, <1>11, <1>12, <1>13, <1>14, Zenon DEF Next

\* Only OK adds to the list, and an entry that shares nothing with the others.
LEMMA DistinctStep ==
  ASSUME Distinct, [Next]_vars
  PROVE  Distinct'
<1>1. ASSUME UNCHANGED List
      PROVE  Distinct'
  BY <1>1, Zenon DEF Distinct
<1>2. ASSUME NEW link \in Links, NEW file \in Files, AddDownload(link, file)
      PROVE  Distinct'
  BY <1>2 DEF AddDownload, Distinct
<1>3. ASSUME NEW q \in Procs, Ok(q)
      PROVE  Distinct'
  BY <1>2, <1>3, Zenon DEF Ok
<1>4. CASE UNCHANGED vars
  BY <1>1, <1>4, Zenon DEF vars
<1> QED
  BY <1>1, <1>3, <1>4, Zenon
  DEF Next, Launch, Check, Find, OpenWindow, AttachManager, Receive, Offer, ParseNext,
      AddButton, Cancel, CloseDialog, Close
-----------------------------------------------------------------------------
(***************************************************************************)
(* The theorems.                                                           *)
(***************************************************************************)
\* The variables keep their types, and the stack, the flag and the frames of Parse
\* keep to each other.
THEOREM TypesAndCalls == Spec => [](TypeOK /\ HandsAll)
<1>1. Init => TypeOK /\ HandsAll
  BY Start
<1>2. TypeOK /\ HandsAll /\ [Next]_vars => (TypeOK /\ HandsAll)'
  BY TypeStep, HandsStep
<1> QED
  BY <1>1, <1>2, PTL DEF Spec

\* Every variable has its type in every state.
THEOREM TypeCorrect == Spec => []TypeOK
BY TypesAndCalls, PTL

\* The frame of Parse, the stack, AlreadyRun and the histories agree; so what was
\* received is offered once and in order, and nothing is left when Parse returns.
THEOREM AllHanded == Spec => []Handed
<1>1. HandsAll => Handed
  <2> SUFFICES ASSUME HandsAll, NEW q \in Procs
               PROVE  /\ \A j, k \in ParseAt(q) : j = k
                      /\ ParseAt(q) = {} => received[q] = offered[q] /\ ~AlreadyRun[q]
                      /\ \A k \in ParseAt(q) : received[q] =
                           offered[q] \o frames[q][k].rest \o FlattenSeq(Tail(Stack[q]))
    BY Zenon DEF Handed
  <2>1. ParseAt(q) = ParsesOf(frames[q])
    BY Zenon DEF ParseAt, ParsesOf
  <2>2. Hands(frames[q], Stack[q], AlreadyRun[q], received[q], offered[q])
    BY Zenon DEF HandsAll
  <2> QED
    BY <2>1, <2>2, Zenon DEF Hands, Owed
<1> QED
  BY <1>1, TypesAndCalls, PTL

\* Whatever number of processes are started together, the mutex lets at most one of
\* them load the list.
THEOREM OnlyOne == Spec => []OneInstance
<1>1. Init => AtMostOne
  BY Start
<1>2. TypeOK /\ AtMostOne /\ [Next]_vars => AtMostOne'
  BY OneStep
<1>3. AtMostOne => OneInstance
  <2> DEFINE S == {p \in Procs : pc[p] \in {"Load", "Window", "Run"}}
  <2> SUFFICES ASSUME AtMostOne
               PROVE  Cardinality(S) <= 1
    BY DEF OneInstance
  <2>1. CASE S = {}
    BY <2>1, FS_EmptySet
  <2>2. CASE \E p \in S : TRUE
    <3>1. PICK p \in S : TRUE
      BY <2>2
    <3>2. S = {p}
      BY <3>1 DEF AtMostOne, Loaders
    <3> QED
      BY <3>2, FS_Singleton
  <2> QED
    BY <2>1, <2>2
<1> QED
  BY <1>1, <1>2, <1>3, TypeCorrect, PTL DEF Spec

\* No two downloads of the list share a link or a file, however many dialogs were
\* open one on another.
THEOREM NoTwoAlike == Spec => []Distinct
<1>1. Init => Distinct
  BY Start
<1>2. Distinct /\ [Next]_vars => Distinct'
  BY DistinctStep
<1> QED
  BY <1>1, <1>2, PTL DEF Spec
=============================================================================
