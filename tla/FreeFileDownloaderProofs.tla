---------------------- MODULE FreeFileDownloaderProofs ----------------------
(***************************************************************************)
(* Theorems about FreeFileDownloader for every number of objects, length   *)
(* of the resource, retry limit and width of a long.  The manager's side   *)
(* and the transfer are steps of FileDownloader: what is proved of them    *)
(* there, for any set of labels of the worker, is used here.               *)
(***************************************************************************)
EXTENDS FreeFileDownloader, FileDownloaderProofs

\* The steps of Entry that FreeFileDownloader replaces.
Own(o) ==
  \/ Begin(o) \/ GetPage(o) \/ PageFails(o) \/ Follow(o) \/ FollowFails(o)
  \/ FindLink(o) \/ NoLink(o) \/ NoFile(o) \/ OpenFile(o) \/ OpenFileFails(o)
  \/ FreeTail(o)

\* The labels between which no stream has been written to.
Early == {"Entry", "Page", "Moved", "Link", "File"}

\* The labels of FileDownloader are labels here.
LEMMA MoreLabels == Labels \subseteq FreeLabels
BY DEF FreeLabels

\* Every step is one of FileDownloader or one of the replaced Entry.
LEMMA FreeStep ==
  ASSUME [FreeNext]_freeVars
  PROVE  [Next]_vars \/ \E o \in Objs : Own(o)
<1>1. CASE Around
  BY <1>1, Zenon DEF Around, Next
<1>2. ASSUME NEW o \in Objs, FreeLaunch(o)
      PROVE  Next
  BY <1>2, Zenon DEF FreeLaunch, Next
<1>3. ASSUME NEW o \in Objs, Transfer(o)
      PROVE  Next
  BY <1>3, Zenon DEF Transfer, Worker, Next
<1>4. CASE UNCHANGED freeVars
  BY <1>4, Zenon DEF freeVars
<1> QED
  BY <1>1, <1>2, <1>3, <1>4, Zenon DEF FreeNext, FreeWorker, Own

\* What every replaced step leaves alone: the file, the streams and what surrounds the
\* worker; the position but for the two that open the file.
LEMMA OwnFrame ==
  ASSUME NEW o \in Objs, Own(o)
  PROVE  /\ app # "down" /\ pc[o] \in Early \cup {"Tail"}
         /\ UNCHANGED <<cur, iFileSize, bStartDL, RetryCount, bAlreadyRun, buf, disk, app, saved,
                        orderly, kept>>
<1> USE DEF object, history, At
<1>1. CASE Begin(o)
  BY <1>1, Zenon DEF Begin, Early
<1>2. CASE GetPage(o) \/ Follow(o)
  BY <1>2, Zenon DEF GetPage, Follow, Step, Early
<1>3. CASE PageFails(o) \/ FollowFails(o) \/ NoLink(o) \/ NoFile(o) \/ FreeTail(o)
  BY <1>3, Zenon DEF PageFails, FollowFails, NoLink, NoFile, FreeTail, Fail, Early
<1>4. CASE FindLink(o)
  BY <1>4, Zenon DEF FindLink, Early
<1>5. CASE OpenFile(o)
  BY <1>5, Zenon DEF OpenFile, Early
<1>6. CASE OpenFileFails(o)
  BY <1>6, Zenon DEF OpenFileFails, Early
<1> QED
  BY <1>1, <1>2, <1>3, <1>4, <1>5, <1>6 DEF Own

\* What the replaced steps other than the two that open the file do: they move on, perhaps
\* with another status, and never to FINISH.
LEMMA OwnMoves ==
  ASSUME NEW o \in Objs, Own(o), ~OpenFile(o), ~OpenFileFails(o)
  PROVE  /\ UNCHANGED <<iDataPos, next, alone>>
         /\ \E l \in FreeLabels \ {"idle", "Entry", "Perform", "Count"} :
              pc' = [pc EXCEPT ![o] = l] /\ (l \in Early => pc[o] \in Early)
         /\ Status' = Status \/ \E s \in States \ {"FINISH"} : Status' = [Status EXCEPT ![o] = s]
         /\ pHeader' = pHeader \/ pHeader' = [pHeader EXCEPT ![o] = Unknown]
<1> USE DEF object, At, Goto
<1>l. /\ {"Page", "Tail", "Link", "Moved", "File", "OnExit"}
           \subseteq FreeLabels \ {"idle", "Entry", "Perform", "Count"}
      /\ {"Entry", "Page", "Moved", "Link", "File"} = Early /\ "OnExit" \notin Early
  BY DEF FreeLabels, Labels, Early
<1>s. RetryOrError(o) \in States \ {"FINISH"} /\ "START" \in States \ {"FINISH"}
  BY DEF RetryOrError, States
<1>1. CASE Begin(o)
  BY <1>1, <1>l, <1>s DEF Begin
<1>2. CASE GetPage(o) \/ Follow(o)
  BY <1>2, <1>l DEF GetPage, Follow, Step
<1>3. ASSUME NEW from, Fail(o, from)
      PROVE  /\ UNCHANGED <<iDataPos, next, alone, pHeader>>
             /\ \E l \in FreeLabels \ {"idle", "Entry", "Perform", "Count"} :
                  pc' = [pc EXCEPT ![o] = l] /\ (l \in Early => pc[o] \in Early)
             /\ \E s \in States \ {"FINISH"} : Status' = [Status EXCEPT ![o] = s]
  BY <1>3, <1>l, <1>s DEF Fail
<1>4. CASE PageFails(o) \/ FollowFails(o) \/ NoLink(o) \/ NoFile(o) \/ FreeTail(o)
  BY <1>3, <1>4, Zenon DEF PageFails, FollowFails, NoLink, NoFile, FreeTail
<1>5. CASE FindLink(o)
  BY <1>5, <1>l DEF FindLink
<1> QED
  BY <1>1, <1>2, <1>4, <1>5, Zenon DEF Own

\* The end of the file is a position, or -1.
LEMMA EndType ==
  ASSUME NEW L, Typed(L)
  PROVE  /\ Len(disk) \in Nat /\ EndOfFile \in Int
         /\ Len(disk) <= LongMax => EndOfFile = Len(disk)
<1>1. disk \in Seq(0 .. Total)
  BY Zenon DEF Typed
<1>2. Len(disk) \in Nat
  BY <1>1, LenProperties
<1> QED
  BY <1>2 DEF EndOfFile

\* The replaced steps keep the types.
LEMMA OwnType ==
  ASSUME Typed(FreeLabels), NEW o \in Objs, Own(o)
  PROVE  Typed(FreeLabels)'
<1>1. UNCHANGED <<cur, iFileSize, bStartDL, RetryCount, bAlreadyRun, buf, disk, app, saved,
                  orderly, kept>>
  BY OwnFrame
<1> SUFFICES /\ Status' \in [Objs -> States] /\ iDataPos' \in [Objs -> Int]
             /\ pHeader' \in [Objs -> {Unknown, Total}] /\ pc' \in [Objs -> FreeLabels]
             /\ next' \in [Objs -> Nat]
  BY <1>1 DEF Typed
<1>2. CASE ~OpenFile(o) /\ ~OpenFileFails(o)
  <2>1. /\ UNCHANGED <<iDataPos, next>>
        /\ \E l \in FreeLabels : pc' = [pc EXCEPT ![o] = l]
        /\ Status' = Status \/ \E s \in States : Status' = [Status EXCEPT ![o] = s]
        /\ pHeader' = pHeader \/ pHeader' = [pHeader EXCEPT ![o] = Unknown]
    BY <1>2, OwnMoves
  <2>2. pc' \in [Objs -> FreeLabels]
    BY <2>1 DEF Typed
  <2>3. Status' \in [Objs -> States]
    BY <2>1 DEF Typed
  <2>4. pHeader' \in [Objs -> {Unknown, Total}]
    BY <2>1 DEF Typed
  <2> QED
    BY <2>1, <2>2, <2>3, <2>4 DEF Typed
<1>3. CASE OpenFile(o)
  <2>1. PICK r \in Replies(EndOfFile) :
          next' = [next EXCEPT ![o] = r.first] /\ pHeader' = [pHeader EXCEPT ![o] = r.total]
    BY <1>3, Zenon DEF OpenFile
  <2>2. EndOfFile \in Int
    BY EndType
  <2>3. r.total \in {Unknown, Total} /\ r.first \in Nat
    BY <2>1, <2>2, RepliesType
  <2>4. iDataPos' = [iDataPos EXCEPT ![o] = EndOfFile] /\ pc' = [pc EXCEPT ![o] = "Perform"]
        /\ Status' = Status
    BY <1>3, Zenon DEF OpenFile, Goto
  <2> QED
    BY <2>1, <2>2, <2>3, <2>4 DEF Typed, FreeLabels, Labels
<1>4. CASE OpenFileFails(o)
  <2>1. /\ iDataPos' = [iDataPos EXCEPT ![o] = EndOfFile] /\ pc' = [pc EXCEPT ![o] = "Failed"]
        /\ UNCHANGED <<Status, pHeader, next>>
    BY <1>4, Zenon DEF OpenFileFails, Goto, object
  <2> QED
    BY <2>1, EndType DEF Typed, FreeLabels, Labels
<1> QED
  BY <1>2, <1>3, <1>4

\* The replaced steps keep the shape: the worker was busy and its stream is its own.
LEMMA OwnShape ==
  ASSUME Typed(FreeLabels), Shape, NEW o \in Objs, Own(o)
  PROVE  Shape'
<1>1. /\ app # "down" /\ pc[o] \in Early \cup {"Tail"}
      /\ UNCHANGED <<iFileSize, buf, app, saved>>
  BY OwnFrame
<1>2. \E l \in FreeLabels \ {"idle"} : pc' = [pc EXCEPT ![o] = l]
  <2>1. CASE OpenFile(o) \/ OpenFileFails(o)
    BY <2>1 DEF OpenFile, OpenFileFails, Goto, FreeLabels, Labels
  <2> QED
    BY <2>1, OwnMoves
<1>3. pc \in [Objs -> FreeLabels]
  BY Zenon DEF Typed
<1>4. \A p \in Objs : pc'[p] = "idle" => pc[p] = "idle"
  BY <1>2, <1>3
<1> QED
  BY <1>1, <1>4 DEF Shape

(***************************************************************************)
(* What every step of a free download keeps, whatever overlaps.            *)
(***************************************************************************)
Sane == Typed(FreeLabels) /\ alone \in BOOLEAN /\ (Total <= LongMax => Shape)

\* Sane holds in every reachable state.
LEMMA SaneAlways == FreeSpec => []Sane
<1>1. FreeInit => Sane
  <2> SUFFICES ASSUME FreeInit
               PROVE  Sane
    OBVIOUS
  <2>1. TypeOK
    BY ConstantsAssumption DEF FreeInit, Init, TypeOK, States, Labels, NoSize, Unknown
  <2>2. Typed(FreeLabels)
    BY <2>1 DEF TypeOK, Typed, FreeLabels
  <2>3. Shape
    BY DEF FreeInit, Init, Shape, Sizes
  <2> QED
    BY <2>2, <2>3 DEF FreeInit, Sane
<1>2. Sane /\ [FreeNext]_freeVars => Sane'
  <2> SUFFICES ASSUME Sane, [FreeNext]_freeVars
               PROVE  Sane'
    OBVIOUS
  <2>1. Typed(FreeLabels) /\ alone \in BOOLEAN
    BY DEF Sane
  <2>2. Typed(FreeLabels)'
    BY <2>1, FreeStep, StepType, OwnType, MoreLabels
  <2>3. ASSUME Total <= LongMax
        PROVE  Shape'
    BY <2>1, <2>3, FreeStep, ShapeStep, OwnShape, MoreLabels DEF Sane
  <2>4. alone' \in BOOLEAN
    <3>1. ASSUME NEW o \in Objs, OpenFile(o)
          PROVE  alone' \in BOOLEAN
      BY <3>1, Zenon DEF OpenFile
    <3>2. ASSUME NEW o \in Objs, OpenFileFails(o)
          PROVE  alone' = alone
      BY <3>2, Zenon DEF OpenFileFails
    <3>3. ASSUME NEW o \in Objs, Own(o)
          PROVE  alone' \in BOOLEAN
      BY <2>1, <3>1, <3>2, <3>3, OwnMoves
    <3>4. CASE Around
      BY <2>1, <3>4, Zenon DEF Around
    <3>5. ASSUME NEW o \in Objs, FreeLaunch(o)
          PROVE  alone' \in BOOLEAN
      BY <2>1, <3>5, Zenon DEF FreeLaunch
    <3>6. ASSUME NEW o \in Objs, Transfer(o)
          PROVE  alone' \in BOOLEAN
      BY <2>1, <3>6, Zenon DEF Transfer
    <3>7. CASE UNCHANGED freeVars
      BY <2>1, <3>7, Zenon DEF freeVars
    <3> QED
      BY <3>3, <3>4, <3>5, <3>6, <3>7, Zenon DEF FreeNext, FreeWorker, Own
  <2> QED
    BY <2>2, <2>3, <2>4 DEF Sane
<1> QED
  BY <1>1, <1>2, PTL DEF FreeSpec
-----------------------------------------------------------------------------
(***************************************************************************)
(* The inductive invariant behind Prefix.  At most one worker is busy; the *)
(* file holds the first bytes of the resource and the stream of a busy     *)
(* worker those that follow; the next byte from the server is the one that *)
(* follows both, so nothing is lost when the stream is (Crash), because    *)
(* the next attempt starts at the end of the file.                         *)
(***************************************************************************)
\* The stream or file s holds the bytes that follow the first n.
Continues(n, s) == \A i \in 1 .. Len(s) : s[i] = n + i

Sound(o) ==
  /\ iDataPos[o] \in 0 .. Total
  /\ Len(disk) + Len(buf[o]) <= Total
  /\ Continues(Len(disk), buf[o])
  /\ pc[o] \in Early => buf[o] = <<>>
  /\ pc[o] \in {"Perform", "Count"} =>
       /\ next[o] = iDataPos[o] + 1
       /\ next[o] = Len(disk) + Len(buf[o]) + (IF pc[o] = "Perform" THEN 1 ELSE 0)

Lone ==
  /\ \A o, p \in Objs : o # p => pc[o] = "idle" \/ pc[p] = "idle"
  /\ saved.pos \in 0 .. Total
  /\ Continues(0, disk)
  /\ \A o \in Objs : Sound(o)

\* One more byte is handed to fwrite.
LEMMA ContinuesAppend ==
  ASSUME NEW S, NEW s \in Seq(S), NEW n \in Nat, NEW e \in S, e = n + Len(s) + 1, Continues(n, s)
  PROVE  Continues(n, Append(s, e)) /\ Len(Append(s, e)) = Len(s) + 1
<1>1. Len(s) \in Nat
  BY LenProperties
<1>2. /\ Len(Append(s, e)) = Len(s) + 1
      /\ \A i \in 1 .. Len(s) : Append(s, e)[i] = s[i]
      /\ Append(s, e)[Len(s) + 1] = e
  BY AppendProperties
<1> QED
  BY <1>1, <1>2 DEF Continues

\* A stream that continues the file is written out.
LEMMA ContinuesFlush ==
  ASSUME NEW S, NEW d \in Seq(S), NEW s \in Seq(S), Continues(0, d), Continues(Len(d), s)
  PROVE  Continues(0, d \o s) /\ Len(d \o s) = Len(d) + Len(s)
<1>1. Len(d) \in Nat /\ Len(s) \in Nat
  BY LenProperties
<1>2. /\ Len(d \o s) = Len(d) + Len(s)
      /\ \A i \in 1 .. Len(d) + Len(s) :
           (d \o s)[i] = IF i <= Len(d) THEN d[i] ELSE s[i - Len(d)]
  BY ConcatProperties
<1>3. ASSUME NEW i \in 1 .. Len(d) + Len(s)
      PROVE  (d \o s)[i] = i
  <2>1. CASE i <= Len(d)
    <3>1. d[i] = 0 + i
      BY <1>1, <2>1 DEF Continues
    <3> QED
      BY <1>1, <1>2, <2>1, <3>1
  <2>2. CASE ~(i <= Len(d))
    <3>1. i - Len(d) \in 1 .. Len(s)
      BY <1>1, <2>2
    <3>2. s[i - Len(d)] = Len(d) + (i - Len(d))
      BY <3>1 DEF Continues
    <3> QED
      BY <1>1, <1>2, <2>2, <3>2
  <2> QED
    BY <2>1, <2>2
<1>4. \A i \in 1 .. Len(d) + Len(s) : (d \o s)[i] = 0 + i
  BY <1>1, <1>3
<1> QED
  BY <1>2, <1>4 DEF Continues

\* What a step must leave to a worker.
LEMMA SoundFrame ==
  ASSUME NEW p \in Objs, Sound(p), disk' = disk, buf'[p] = buf[p], iDataPos'[p] = iDataPos[p],
         pc'[p] \in Early => pc[p] \in Early,
         pc'[p] \in {"Perform", "Count"} => pc'[p] = pc[p] /\ next'[p] = next[p]
  PROVE  Sound(p)'
BY DEF Sound

\* The bytes of the file and of the streams are numbers of sequences.
LEMMA Lengths ==
  ASSUME NEW L, Typed(L)
  PROVE  /\ disk \in Seq(0 .. Total) /\ Len(disk) \in Nat
         /\ \A o \in Objs : buf[o] \in Seq(0 .. Total) /\ Len(buf[o]) \in Nat
         /\ Len(<<>>) = 0
<1>1. disk \in Seq(0 .. Total) /\ \A o \in Objs : buf[o] \in Seq(0 .. Total)
  BY Zenon DEF Typed
<1> QED
  BY <1>1, LenProperties

\* The buffer of a busy worker goes to the file (Flush, OnExit).
LEMMA WriteOutLone ==
  ASSUME Typed(FreeLabels), Shape, Lone, NEW o \in Objs, pc[o] # "idle", WriteOut(o),
         UNCHANGED <<iDataPos, saved>>, \A p \in Objs \ {o} : pc'[p] = pc[p],
         pc'[o] = "idle" \/ (pc'[o] = pc[o] /\ next' = next)
  PROVE  Lone'
<1>0. disk \in Seq(0 .. Total) /\ Len(disk) \in Nat /\ Len(<<>>) = 0
      /\ \A p \in Objs : buf[p] \in Seq(0 .. Total) /\ Len(buf[p]) \in Nat
  BY Lengths
<1>1. \A p \in Objs \ {o} : pc[p] = "idle" /\ buf[p] = <<>>
  BY DEF Lone, Shape
<1>2. disk' = disk \o buf[o] /\ \A p \in Objs : buf'[p] = <<>>
  BY <1>1 DEF WriteOut, Typed
<1>3. Sound(o) /\ Continues(0, disk)
  BY DEF Lone
<1>4. Continues(0, disk') /\ Len(disk') = Len(disk) + Len(buf[o])
  BY <1>0, <1>2, <1>3, ContinuesFlush DEF Sound
<1>5. ASSUME NEW p \in Objs
      PROVE  Sound(p)'
  <2>1. iDataPos'[p] \in 0 .. Total
    BY DEF Lone, Sound
  <2>a. /\ Len(disk) + Len(buf[o]) <= Total
        /\ pc[o] \in {"Perform", "Count"} =>
             /\ next[o] = iDataPos[o] + 1
             /\ next[o] = Len(disk) + Len(buf[o]) + (IF pc[o] = "Perform" THEN 1 ELSE 0)
    BY <1>3 DEF Sound
  <2>b. Len(buf'[p]) = 0 /\ Len(buf[o]) \in Nat
    BY <1>0, <1>2
  <2>2. Len(disk') + Len(buf'[p]) <= Total
    BY <1>0, <1>4, <2>a, <2>b, ConstantsAssumption
  <2>3. Continues(Len(disk'), buf'[p])
    BY <1>0, <1>2 DEF Continues
  <2>4. pc'[p] \in {"Perform", "Count"} =>
          /\ next'[p] = iDataPos'[p] + 1
          /\ next'[p] = Len(disk') + Len(buf'[p]) + (IF pc'[p] = "Perform" THEN 1 ELSE 0)
    <3>1. pc'[p] \in {"Perform", "Count"} => p = o /\ pc'[p] = pc[o] /\ next'[p] = next[o]
      BY <1>1
    <3>2. Len(disk') + Len(buf'[p]) = Len(disk) + Len(buf[o])
      BY <1>0, <1>4, <2>b
    <3> QED
      BY <2>a, <3>1, <3>2
  <2> QED
    BY <1>2, <2>1, <2>2, <2>3, <2>4 DEF Sound
<1>6. \A q, p \in Objs : q # p => pc'[q] = "idle" \/ pc'[p] = "idle"
  BY <1>1
<1> QED
  BY <1>4, <1>5, <1>6 DEF Lone

\* A busy worker goes on to a label outside the transfer.
LEMMA MoveLone ==
  ASSUME Typed(FreeLabels), Lone, NEW o \in Objs, pc[o] # "idle",
         NEW l, l \notin {"Perform", "Count"}, l \in Early => pc[o] \in Early,
         pc' = [pc EXCEPT ![o] = l], UNCHANGED <<disk, buf, iDataPos, next, saved>>
  PROVE  Lone'
<1>1. pc \in [Objs -> FreeLabels]
  BY Zenon DEF Typed
<1>2. pc'[o] = l /\ \A p \in Objs \ {o} : pc'[p] = pc[p]
  BY <1>1
<1>3. \A p \in Objs : Sound(p)'
  BY <1>2, SoundFrame DEF Lone
<1>4. \A q, p \in Objs : q # p => pc'[q] = "idle" \/ pc'[p] = "idle"
  BY <1>2 DEF Lone
<1> QED
  BY <1>3, <1>4 DEF Lone

\* The transfer: the callback appends the byte that follows the file and the stream.
LEMMA TransferLone ==
  ASSUME Typed(FreeLabels), Shape, Lone, NEW o \in Objs, Transfer(o)
  PROVE  Lone'
<1> USE ConstantsAssumption DEF At, Goto, object
<1>0. disk \in Seq(0 .. Total) /\ Len(disk) \in Nat /\ Len(<<>>) = 0
      /\ \A p \in Objs : buf[p] \in Seq(0 .. Total) /\ Len(buf[p]) \in Nat
  BY Lengths
<1>s. Sound(o) /\ \A p \in Objs : Sound(p)
  BY DEF Lone
<1>1. CASE Refuse(o) \/ WrongSize(o) \/ PerformOk(o) \/ PerformFails(o) \/ Failed(o)
  <2>1. /\ UNCHANGED <<disk, buf, iDataPos, next, saved>> /\ pc[o] # "idle"
        /\ \E l \in {"Failed", "Tail", "OnExit"} : pc' = [pc EXCEPT ![o] = l]
    BY <1>1 DEF Refuse, WrongSize, PerformOk, PerformFails, Failed
  <2> QED
    BY <2>1, MoveLone DEF Early
<1>2. CASE WriteData(o)
  <2>1. /\ UNCHANGED <<disk, iDataPos, next, saved>> /\ pc[o] = "Perform" /\ next[o] <= Total
        /\ \/ /\ buf' = [buf EXCEPT ![o] = Append(@, next[o])]
              /\ pc' = [pc EXCEPT ![o] = "Count"]
           \/ pc' = [pc EXCEPT ![o] = "Failed"] /\ UNCHANGED buf
    BY <1>2, Zenon DEF WriteData
  <2>2. CASE pc' = [pc EXCEPT ![o] = "Failed"] /\ UNCHANGED buf
    BY <2>1, <2>2, MoveLone DEF Early
  <2>3. CASE buf' = [buf EXCEPT ![o] = Append(@, next[o])] /\ pc' = [pc EXCEPT ![o] = "Count"]
    <3>1. /\ next[o] = iDataPos[o] + 1 /\ next[o] = Len(disk) + Len(buf[o]) + 1
          /\ Continues(Len(disk), buf[o]) /\ iDataPos[o] \in 0 .. Total
      BY <1>s, <2>1 DEF Sound
    <3>2. next[o] \in 0 .. Total
      BY <1>0, <2>1, <3>1
    <3> DEFINE b == Append(buf[o], next[o])
    <3>3. Continues(Len(disk), b) /\ Len(b) = Len(buf[o]) + 1
      <4>1. buf[o] \in Seq(0 .. Total) /\ Len(disk) \in Nat
        BY <1>0
      <4> QED
        BY <3>1, <3>2, <4>1, ContinuesAppend
    <3>4. buf'[o] = b /\ pc'[o] = "Count"
      BY <2>3 DEF Typed
    <3> HIDE DEF b
    <3>5. ASSUME NEW p \in Objs \ {o}
          PROVE  pc'[p] = pc[p] /\ buf'[p] = buf[p]
      BY <2>3 DEF Typed
    <3>6. Len(disk') + Len(buf'[o]) <= Total
      BY <1>0, <2>1, <3>1, <3>3, <3>4
    <3>7. next'[o] = Len(disk') + Len(buf'[o]) /\ next'[o] = iDataPos'[o] + 1
      BY <1>0, <2>1, <3>1, <3>3, <3>4
    <3>8. Sound(o)'
      BY <2>1, <3>1, <3>3, <3>4, <3>6, <3>7 DEF Sound, Early
    <3>9. \A p \in Objs : Sound(p)'
      BY <1>s, <2>1, <3>5, <3>8, SoundFrame
    <3> QED
      BY <2>1, <3>4, <3>5, <3>9 DEF Lone
  <2> QED
    BY <2>1, <2>2, <2>3
<1>3. CASE Count(o)
  <2>1. /\ UNCHANGED <<disk, buf, saved>> /\ pc[o] = "Count" /\ pc' = [pc EXCEPT ![o] = "Perform"]
        /\ iDataPos' = [iDataPos EXCEPT ![o] = @ + 1]
        /\ next' = [next EXCEPT ![o] = IF @ = 0 THEN Total + 1 ELSE @ + 1]
    BY <1>3, Zenon DEF Count
  <2>2. /\ next[o] = iDataPos[o] + 1 /\ next[o] = Len(disk) + Len(buf[o])
        /\ Len(disk) + Len(buf[o]) <= Total /\ iDataPos[o] \in 0 .. Total
        /\ Continues(Len(disk), buf[o])
    BY <1>s, <2>1 DEF Sound
  <2>3. pc'[o] = "Perform" /\ iDataPos'[o] = iDataPos[o] + 1 /\ next'[o] = next[o] + 1
    <3>1. pc \in [Objs -> FreeLabels] /\ next \in [Objs -> Nat] /\ iDataPos \in [Objs -> Int]
      BY Zenon DEF Typed
    <3>2. next'[o] = IF next[o] = 0 THEN Total + 1 ELSE next[o] + 1
      BY <2>1, <3>1, Zenon
    <3> QED
      BY <2>1, <2>2, <3>1, <3>2
  <2>4. iDataPos'[o] \in 0 .. Total
    BY <2>2, <2>3
  <2>5. Sound(o)'
    BY <1>0, <2>1, <2>2, <2>3, <2>4 DEF Sound, Early
  <2>6. ASSUME NEW p \in Objs \ {o}
        PROVE  pc'[p] = pc[p] /\ iDataPos'[p] = iDataPos[p] /\ next'[p] = next[p]
    BY <2>1 DEF Typed
  <2>7. \A p \in Objs : Sound(p)'
    BY <1>s, <2>1, <2>5, <2>6, SoundFrame
  <2> QED
    BY <2>1, <2>3, <2>6, <2>7 DEF Lone
<1>4. CASE OnExit(o)
  <2>1. /\ pc[o] # "idle" /\ WriteOut(o) /\ pc' = [pc EXCEPT ![o] = "idle"]
        /\ UNCHANGED <<iDataPos, saved>>
    BY <1>4, Zenon DEF OnExit
  <2>2. pc'[o] = "idle" /\ \A p \in Objs \ {o} : pc'[p] = pc[p]
    BY <2>1 DEF Typed
  <2> QED
    BY <2>1, <2>2, WriteOutLone
<1> QED
  BY <1>1, <1>2, <1>3, <1>4 DEF Transfer

\* The replaced Entry: the position it opens the file at is the end of the file.
LEMMA OwnLone ==
  ASSUME Typed(FreeLabels), Lone, alone', RangeServer, Total <= LongMax, NEW o \in Objs, Own(o)
  PROVE  Lone'
<1> USE ConstantsAssumption
<1>0. disk \in Seq(0 .. Total) /\ Len(disk) \in Nat /\ Len(<<>>) = 0
      /\ \A p \in Objs : buf[p] \in Seq(0 .. Total) /\ Len(buf[p]) \in Nat
  BY Lengths
<1>1. /\ pc[o] \in Early \cup {"Tail"} /\ pc[o] # "idle"
      /\ UNCHANGED <<cur, buf, disk, app, saved>>
  BY OwnFrame DEF Early
<1>2. CASE ~OpenFile(o) /\ ~OpenFileFails(o)
  BY <1>1, <1>2, OwnMoves, MoveLone
<1>3. CASE OpenFile(o) \/ OpenFileFails(o)
  <2>1. /\ pc[o] = "File" /\ iDataPos' = [iDataPos EXCEPT ![o] = EndOfFile]
        /\ \/ pc' = [pc EXCEPT ![o] = "Failed"] /\ next' = next
           \/ /\ pc' = [pc EXCEPT ![o] = "Perform"]
              /\ \E r \in Replies(EndOfFile) : next' = [next EXCEPT ![o] = r.first] /\ r.first # 0
    BY <1>3, Zenon DEF OpenFile, OpenFileFails, At, Goto
  <2>2. Sound(o) /\ buf[o] = <<>> /\ Len(disk) <= Total
    <3>1. Sound(o)
      BY DEF Lone
    <3>2. buf[o] = <<>> /\ Len(disk) + Len(buf[o]) <= Total
      BY <2>1, <3>1 DEF Sound, Early
    <3>3. Len(buf[o]) = 0
      BY <1>0, <3>2
    <3> QED
      BY <1>0, <3>1, <3>2, <3>3
  <2>3. EndOfFile = Len(disk)
    BY <1>0, <2>2, EndType
  <2>4. iDataPos'[o] = Len(disk) /\ pc'[o] \in {"Failed", "Perform"}
        /\ \A p \in Objs \ {o} : pc'[p] = pc[p] /\ next'[p] = next[p] /\ iDataPos'[p] = iDataPos[p]
    BY <2>1, <2>3 DEF Typed
  <2>5. pc'[o] = "Perform" => next'[o] = Len(disk) + 1
    <3>1. ASSUME NEW r \in Replies(Len(disk)), r.first # 0
          PROVE  r.first = Len(disk) + 1
      BY <1>0, <2>2, <3>1 DEF Replies
    <3>2. pc'[o] = "Perform" =>
            \E r \in Replies(Len(disk)) : next' = [next EXCEPT ![o] = r.first] /\ r.first # 0
      BY <2>1, <2>3 DEF Typed
    <3> QED
      BY <3>1, <3>2 DEF Typed
  <2>6. Sound(o)'
    BY <1>0, <1>1, <2>2, <2>4, <2>5 DEF Sound, Early
  <2>7. \A p \in Objs : Sound(p)'
    BY <1>1, <2>4, <2>6, SoundFrame DEF Lone
  <2> QED
    BY <1>1, <2>1, <2>4, <2>7 DEF Lone
<1> QED
  BY <1>2, <1>3

\* The manager runs a worker while no other is busy.
LEMMA LaunchLone ==
  ASSUME Typed(FreeLabels), Shape, Lone, alone', NEW n \in Objs, FreeLaunch(n)
  PROVE  Lone'
<1>1. PICK count : Launch(n, count)
  BY Zenon DEF FreeLaunch, Start, Retry
<1>2. \A p \in Objs : pc[p] = "idle"
  BY Zenon DEF FreeLaunch
<1>3. /\ iDataPos' = [iDataPos EXCEPT ![n] = iDataPos[cur]] /\ pc' = [pc EXCEPT ![n] = "Entry"]
      /\ UNCHANGED <<buf, disk, saved>>
  BY <1>1, Zenon DEF Launch, Construct
<1>4. pc'[n] = "Entry" /\ iDataPos'[n] = iDataPos[cur]
      /\ \A p \in Objs \ {n} : pc'[p] = pc[p] /\ iDataPos'[p] = iDataPos[p]
  BY <1>3 DEF Typed
<1>5. Sound(n) /\ Sound(cur) /\ buf[n] = <<>>
  BY <1>2 DEF Lone, Shape, Typed
<1>6. Sound(n)'
  BY <1>3, <1>4, <1>5 DEF Sound
<1>7. ASSUME NEW p \in Objs \ {n}
      PROVE  Sound(p)'
  BY <1>2, <1>3, <1>4, <1>7, SoundFrame DEF Lone, Early
<1>8. \A p \in Objs : Sound(p)'
  BY <1>6, <1>7
<1> QED
  BY <1>2, <1>3, <1>4, <1>8 DEF Lone

\* The manager's other steps, the end of the process and its next start.
LEMMA AroundLone ==
  ASSUME Typed(FreeLabels), Shape, Lone, Total <= LongMax, Around
  PROVE  Lone'
<1> USE ConstantsAssumption
<1>0. disk \in Seq(0 .. Total) /\ Len(disk) \in Nat /\ Len(<<>>) = 0
      /\ \A p \in Objs : buf[p] \in Seq(0 .. Total) /\ Len(buf[p]) \in Nat
  BY Lengths
<1>s. \A p \in Objs : Sound(p)
  BY DEF Lone
<1>1. ASSUME NEW n \in Objs, Readd(n)
      PROVE  Lone'
  <2>1. /\ pc[n] = "idle" /\ pc' = [pc EXCEPT ![n] = "idle"] /\ iDataPos' = [iDataPos EXCEPT ![n] = 0]
        /\ next' = [next EXCEPT ![n] = 0] /\ UNCHANGED <<buf, disk, saved>>
    BY <1>1, Zenon DEF Readd, Construct
  <2>2. pc'[n] = "idle" /\ iDataPos'[n] = 0
        /\ \A p \in Objs \ {n} : pc'[p] = pc[p] /\ iDataPos'[p] = iDataPos[p] /\ next'[p] = next[p]
    BY <2>1 DEF Typed
  <2>3. Sound(n)'
    <3>1. Sound(n)
      BY <1>s
    <3>2. disk' = disk /\ buf' = buf /\ pc'[n] \notin Early \cup {"Perform", "Count"}
      BY <2>1, <2>2 DEF Early
    <3>3. iDataPos'[n] \in 0 .. Total
      BY <2>2
    <3>4. Len(disk) + Len(buf[n]) <= Total /\ Continues(Len(disk), buf[n])
      BY <3>1 DEF Sound
    <3> QED
      BY <3>2, <3>3, <3>4 DEF Sound
  <2>4. \A p \in Objs : Sound(p)'
    BY <1>s, <2>1, <2>2, <2>3, SoundFrame
  <2> QED
    BY <2>1, <2>2, <2>4 DEF Lone
<1>2. CASE Stop
  <2>1. UNCHANGED <<pc, iDataPos, next, buf, disk, saved>>
    BY <1>2, Zenon DEF Stop
  <2>2. \A p \in Objs : Sound(p)'
    BY <1>s, <2>1, SoundFrame
  <2> QED
    BY <2>1, <2>2 DEF Lone
<1>3. CASE Close
  <2>1. /\ UNCHANGED <<pc, iDataPos, next, buf, disk>>
        /\ saved' = [size |-> iFileSize[cur], pos |-> iDataPos[cur]]
    BY <1>3, Zenon DEF Close
  <2>2. \A p \in Objs : Sound(p)'
    BY <1>s, <2>1, SoundFrame
  <2>3. saved'.pos \in 0 .. Total
    BY <1>s, <2>1 DEF Sound, Typed
  <2> QED
    BY <2>1, <2>2, <2>3 DEF Lone
<1>4. CASE Exit \/ Crash
  <2>1. /\ pc' = [p \in Objs |-> "idle"] /\ iDataPos' = [p \in Objs |-> 0]
        /\ buf' = [p \in Objs |-> <<>>] /\ UNCHANGED <<disk, saved>>
    BY <1>4, Zenon DEF Exit, Crash, Gone
  <2>2. \A p \in Objs : pc'[p] = "idle" /\ iDataPos'[p] = 0 /\ buf'[p] = <<>>
    BY <2>1
  <2>3. Len(disk) <= Total
    <3>1. cur \in Objs
      BY DEF Typed
    <3>2. Len(disk) + Len(buf[cur]) <= Total /\ Len(buf[cur]) \in Nat
      BY <1>0, <1>s, <3>1 DEF Sound
    <3> QED
      BY <1>0, <3>2
  <2>4. \A p \in Objs : Sound(p)'
    BY <1>0, <2>1, <2>2, <2>3 DEF Sound, Early, Continues
  <2> QED
    BY <2>1, <2>2, <2>4 DEF Lone
<1>5. CASE Relaunch
  <2>1. /\ app = "down" /\ iDataPos' = [iDataPos EXCEPT ![cur] = AsLong(saved.pos)]
        /\ UNCHANGED <<cur, pc, next, buf, disk, saved>>
    BY <1>5, Zenon DEF Relaunch
  <2>2. saved.pos \in 0 .. Total /\ AsLong(saved.pos) = saved.pos
    <3>1. saved.pos \in 0 .. Total
      BY DEF Lone
    <3> QED
      BY <3>1, AsLongFits
  <2>3. iDataPos'[cur] = saved.pos /\ \A p \in Objs \ {cur} : iDataPos'[p] = iDataPos[p]
    BY <2>1, <2>2 DEF Typed
  <2>4. cur \in Objs /\ pc[cur] = "idle" /\ Sound(cur)
    BY <1>s, <2>1 DEF Typed, Shape
  <2>5. Sound(cur)'
    BY <2>1, <2>2, <2>3, <2>4 DEF Sound, Early
  <2>6. \A p \in Objs : Sound(p)'
    BY <1>s, <2>1, <2>3, <2>5, SoundFrame
  <2> QED
    BY <2>1, <2>6 DEF Lone
<1>6. ASSUME NEW o \in Objs, Flush(o)
      PROVE  Lone'
  <2>1. buf[o] # <<>> /\ WriteOut(o) /\ UNCHANGED <<iDataPos, pc, next, saved>>
    BY <1>6, Zenon DEF Flush
  <2> QED
    BY <2>1, WriteOutLone DEF Shape
<1> QED
  BY <1>1, <1>2, <1>3, <1>4, <1>5, <1>6, Zenon DEF Around

\* Every step that neither starts a second worker nor appends an error page.
LEMMA LoneStep ==
  ASSUME Sane, Lone, alone', RangeServer, Total <= LongMax, [FreeNext]_freeVars
  PROVE  Lone'
<1>1. Typed(FreeLabels) /\ Shape
  BY DEF Sane
<1>2. CASE UNCHANGED freeVars
  <2>1. UNCHANGED <<pc, iDataPos, next, buf, disk, saved>>
    BY <1>2, Zenon DEF freeVars, vars
  <2> QED
    BY <2>1, SoundFrame DEF Lone
<1>3. ASSUME NEW o \in Objs, FreeWorker(o)
      PROVE  Lone'
  BY <1>1, <1>3, OwnLone, TransferLone, Zenon DEF FreeWorker, Own
<1> QED
  BY <1>1, <1>2, <1>3, AroundLone, LaunchLone, Zenon DEF FreeNext

\* Once two workers overlapped, or an error page was appended, it stays so.
LEMMA AloneBefore ==
  ASSUME alone', alone \in BOOLEAN, [FreeNext]_freeVars
  PROVE  alone
<1>1. CASE Around
  BY <1>1, Zenon DEF Around
<1>2. ASSUME NEW o \in Objs, FreeLaunch(o)
      PROVE  alone
  BY <1>2, Zenon DEF FreeLaunch
<1>3. ASSUME NEW o \in Objs, Transfer(o)
      PROVE  alone
  BY <1>3, Zenon DEF Transfer
<1>4. ASSUME NEW o \in Objs, Own(o)
      PROVE  alone
  <2>1. CASE OpenFile(o)
    BY <2>1, Zenon DEF OpenFile
  <2>2. CASE OpenFileFails(o)
    BY <2>2, Zenon DEF OpenFileFails
  <2> QED
    BY <1>4, <2>1, <2>2, OwnMoves
<1>5. CASE UNCHANGED freeVars
  BY <1>5, Zenon DEF freeVars
<1> QED
  BY <1>1, <1>2, <1>3, <1>4, <1>5, Zenon DEF FreeNext, FreeWorker, Own

(***************************************************************************)
(* The inductive invariant of the file: while workers do not overlap and   *)
(* no error page comes, Lone holds.                                        *)
(***************************************************************************)
THEOREM OneStream ==
  ASSUME RangeServer, Total <= LongMax
  PROVE  FreeSpec => [](Sane /\ (alone => Lone))
<1>1. FreeInit => Lone
  <2> SUFFICES ASSUME FreeInit
               PROVE  Lone
    OBVIOUS
  <2>1. /\ pc = [o \in Objs |-> "idle"] /\ disk = <<>> /\ saved = [size |-> NoSize, pos |-> 0]
        /\ buf = [o \in Objs |-> <<>>] /\ iDataPos = [o \in Objs |-> 0]
    BY DEF FreeInit, Init
  <2> QED
    BY <2>1, ConstantsAssumption DEF Lone, Sound, Continues, Early
<1>2. Sane /\ (alone => Lone) /\ [FreeNext]_freeVars => (alone => Lone)'
  BY LoneStep, AloneBefore DEF Sane
<1> QED
  BY <1>1, <1>2, SaneAlways, PTL DEF FreeSpec
-----------------------------------------------------------------------------
\* The replaced steps claim nothing that is not written: the end of the file is a
\* position whose bytes the file holds.
LEMMA OwnClaims ==
  ASSUME Typed(FreeLabels), Lone, Claims, alone', RangeServer, Total <= LongMax,
         NEW o \in Objs, Own(o)
  PROVE  Claims'
<1> USE ConstantsAssumption
<1>0. disk \in Seq(0 .. Total) /\ Len(disk) \in Nat
  BY Lengths
<1>1. pc[o] # "idle" /\ UNCHANGED <<cur, buf, disk, app, saved>>
  BY OwnFrame DEF Early
<1>2. Written' = Written /\ OnDisk' = OnDisk
  BY <1>1, SameFiles
<1>h. \A p \in Objs : Holds(Written, p)
  BY DEF Claims
<1>3. CASE ~OpenFile(o) /\ ~OpenFileFails(o)
  <2>1. /\ iDataPos' = iDataPos /\ next' = next
        /\ \E l \in FreeLabels \ {"Perform", "Count"} : pc' = [pc EXCEPT ![o] = l]
        /\ Status' = Status \/ \E s \in States \ {"FINISH"} : Status' = [Status EXCEPT ![o] = s]
    BY <1>3, OwnMoves
  <2>2. pc'[o] \notin {"Perform", "Count"} /\ (Status'[o] = "FINISH" => Status[o] = "FINISH")
        /\ \A p \in Objs \ {o} : pc'[p] = pc[p] /\ Status'[p] = Status[p]
    BY <2>1 DEF Typed
  <2>3. \A p \in Objs : Holds(Written, p)'
    BY <1>2, <1>h, <2>1, <2>2, Frame
  <2> QED
    BY <1>1, <1>2, <2>3, ClaimsFrame
<1>4. CASE OpenFile(o) \/ OpenFileFails(o)
  <2>1. /\ pc[o] = "File" /\ iDataPos' = [iDataPos EXCEPT ![o] = EndOfFile] /\ Status' = Status
        /\ \/ pc' = [pc EXCEPT ![o] = "Failed"] /\ next' = next
           \/ pc' = [pc EXCEPT ![o] = "Perform"] /\ \E b : next' = [next EXCEPT ![o] = b]
    BY <1>4, Zenon DEF OpenFile, OpenFileFails, At, Goto
  <2>2. \A p \in Objs \ {o} : pc'[p] = pc[p] /\ next'[p] = next[p] /\ iDataPos'[p] = iDataPos[p]
    BY <2>1 DEF Typed
  <2>3. Sound(o) /\ Lone'
    BY <1>4, OwnLone DEF Lone, Own
  <2>4. buf[o] = <<>> /\ Len(disk) <= Total
    <3>1. buf[o] = <<>> /\ Len(disk) + Len(buf[o]) <= Total
      BY <2>1, <2>3 DEF Sound, Early
    <3>2. Len(buf[o]) = 0
      BY <3>1, Lengths
    <3> QED
      BY <1>0, <3>1, <3>2
  <2>5. iDataPos'[o] = Len(disk) /\ pc'[o] \in {"Failed", "Perform"}
    <3>1. EndOfFile = Len(disk)
      BY <1>0, <2>4, EndType
    <3> QED
      BY <2>1, <3>1 DEF Typed
  <2>6. UpTo(Len(disk)) \subseteq Written
    <3>1. Continues(0, disk)
      BY DEF Lone
    <3>2. ASSUME NEW b \in 1 .. Len(disk)
          PROVE  b \in Range(disk)
      <4>1. disk[b] = b /\ b \in DOMAIN disk
        BY <1>0, <3>1 DEF Continues
      <4> QED
        BY <4>1 DEF Range
    <3> QED
      BY <1>0, <3>2 DEF UpTo, Written, OnDisk
  <2>7. pc'[o] = "Perform" => next'[o] = Len(disk) + 1
    <3>1. Sound(o)'
      BY <2>3 DEF Lone
    <3> QED
      BY <2>5, <3>1 DEF Sound
  <2>8. Status'[o] = "FINISH" => Resource \subseteq Written
    BY <1>h, <2>1 DEF Holds
  <2>9. Holds(Written, o)'
    <3>1. UpTo(iDataPos'[o]) \subseteq Written /\ ~(iDataPos'[o] < 0)
      BY <1>0, <2>5, <2>6
    <3>2. pc'[o] = "Perform" => UpTo(next'[o] - 1) \subseteq Written /\ iDataPos'[o] < next'[o]
      BY <1>0, <2>5, <2>6, <2>7
    <3> QED
      BY <1>2, <2>5, <2>8, <3>1, <3>2 DEF Holds
  <2>10. \A p \in Objs : Holds(Written, p)'
    BY <1>2, <1>h, <2>1, <2>2, <2>9, Frame
  <2> QED
    BY <1>1, <1>2, <2>10, ClaimsFrame
<1> QED
  BY <1>3, <1>4

\* Every step keeps the claims true, as in FileDownloader.
LEMMA FreeClaimsStep ==
  ASSUME Sane, Lone, kept => Claims, kept', alone', RangeServer, Total <= LongMax,
         [FreeNext]_freeVars
  PROVE  Claims'
<1>1. Typed(FreeLabels) /\ Shape
  BY DEF Sane
<1>2. CASE [Next]_vars
  BY <1>1, <1>2, ClaimsStep, MoreLabels
<1>3. ASSUME NEW o \in Objs, Own(o)
      PROVE  Claims'
  <2>1. kept
    BY <1>3, OwnFrame
  <2> QED
    BY <1>1, <1>3, <2>1, OwnClaims
<1> QED
  BY <1>2, <1>3, FreeStep

(***************************************************************************)
(* While workers do not overlap and no error page comes, a free download   *)
(* claims no byte that is not written, a crash between the save and the    *)
(* exit aside.                                                             *)
(***************************************************************************)
THEOREM FreeInductive ==
  ASSUME RangeServer, Total <= LongMax
  PROVE  FreeSpec => [](Sane /\ (alone => Lone) /\ (kept /\ alone => Claims))
<1>1. FreeInit => Claims
  BY DEF FreeInit, Init, Claims, Holds, SavedHolds, UpTo
<1>2. Sane /\ (alone => Lone) /\ (kept /\ alone => Claims) /\ [FreeNext]_freeVars
        => (kept /\ alone => Claims)'
  BY FreeClaimsStep, AloneBefore DEF Sane
<1> QED
  BY <1>1, <1>2, OneStream, PTL DEF FreeSpec

(***************************************************************************)
(* As long as one worker at a time writes and no error page was appended,  *)
(* the file and the open stream hold the first bytes of the resource, in   *)
(* order and once, through stops, retries, short writes, crashes, stale    *)
(* saved positions and links added again.                                  *)
(***************************************************************************)
THEOREM PrefixHolds ==
  ASSUME RangeServer, Total <= LongMax
  PROVE  FreeSpec => []Prefix
<1>1. ASSUME Sane, Lone, NEW o \in Objs
      PROVE  disk \o buf[o] = [i \in DOMAIN (disk \o buf[o]) |-> i]
  <2> DEFINE f == disk \o buf[o]
  <2>1. disk \in Seq(0 .. Total) /\ buf[o] \in Seq(0 .. Total)
    BY <1>1, Lengths DEF Sane
  <2>2. Continues(0, f)
    BY <1>1, <2>1, ContinuesFlush DEF Lone, Sound
  <2>3. f \in Seq(0 .. Total)
    BY <2>1, ConcatProperties
  <2> HIDE DEF f
  <2>4. f = [i \in DOMAIN f |-> f[i]] /\ DOMAIN f = 1 .. Len(f)
    BY <2>3
  <2>5. \A i \in 1 .. Len(f) : f[i] = i
    BY <2>2, <2>3, LenProperties DEF Continues
  <2>6. f = [i \in DOMAIN f |-> i]
    BY <2>4, <2>5
  <2> QED
    BY <2>6 DEF f
<1>2. Sane /\ (alone => Lone) => Prefix
  BY <1>1 DEF Prefix
<1> QED
  BY <1>2, OneStream, PTL

(***************************************************************************)
(* Under the same conditions a free download shown as finished has every   *)
(* byte of the resource.                                                   *)
(***************************************************************************)
THEOREM FreeFinishedIsComplete ==
  ASSUME RangeServer, Total <= LongMax
  PROVE  FreeSpec => []FreeFinished
<1>1. Sane /\ (kept /\ alone => Claims) => FreeFinished
  BY DEF Sane, Typed, Claims, Holds, Resource, FreeFinished
<1> QED
  BY <1>1, FreeInductive, PTL

(***************************************************************************)
(* As long as one worker at a time writes, sizes and positions are those   *)
(* of the resource, whatever its length: FreeTypeOK holds.                 *)
(***************************************************************************)
THEOREM FreeTypeCorrect ==
  ASSUME RangeServer, Total <= LongMax
  PROVE  FreeSpec => [](alone => FreeTypeOK)
<1>1. ASSUME Sane, Lone
      PROVE  FreeTypeOK
  <2>1. Typed(FreeLabels) /\ Shape /\ alone \in BOOLEAN
    BY <1>1 DEF Sane
  <2>2. 0 .. Total \subseteq -1 .. MaxFile + Total
    BY ConstantsAssumption
  <2>3. iDataPos \in [Objs -> -1 .. MaxFile + Total] /\ saved.pos \in -1 .. MaxFile + Total
    BY <1>1, <2>1, <2>2 DEF Typed, Lone, Sound
  <2>4. iFileSize \in [Objs -> {NoSize, Unknown, Total}]
    BY <2>1 DEF Typed, Shape, Sizes
  <2>5. \A o \in Objs : buf[o] \in Seq(0 .. Total)
    BY <2>1, Zenon DEF Typed
  <2> QED
    BY <2>1, <2>3, <2>4, <2>5 DEF Typed, FreeTypeOK
<1>2. Sane /\ (alone => Lone) => (alone => FreeTypeOK)
  BY <1>1
<1> QED
  BY <1>2, OneStream, PTL
=============================================================================
