------------------------ MODULE FileDownloaderProofs ------------------------
(***************************************************************************)
(* Theorems about FileDownloader for every number of objects, length of    *)
(* the resource, retry limit and width of a long.                          *)
(***************************************************************************)
EXTENDS FileDownloader, SequenceTheorems, TLAPS

(***************************************************************************)
(* The conversion to a long keeps what fits in a long and always yields    *)
(* something that fits.                                                    *)
(***************************************************************************)
LEMMA AsLongRange ==
  ASSUME NEW n \in Int
  PROVE  AsLong(n) \in -(LongMax + 1) .. LongMax
<1> DEFINE w == 2 * (LongMax + 1)
           m == n + LongMax + 1
<1>1. LongMax \in Nat
  BY ConstantsAssumption
<1>2. w \in Nat \ {0} /\ m \in Int
  BY <1>1
<1> HIDE DEF w, m
<1>3. m % w \in 0 .. (w - 1)
  BY <1>2
<1> QED
  BY <1>1, <1>3 DEF AsLong, w, m

\* A size or position that fits in a long survives SetFileSize, SetDownloadedSize
\* and the Range header unchanged.
LEMMA AsLongFits ==
  ASSUME NEW n \in -(LongMax + 1) .. LongMax
  PROVE  AsLong(n) = n
<1> DEFINE w == 2 * (LongMax + 1)
           m == n + LongMax + 1
<1>1. LongMax \in Nat
  BY ConstantsAssumption
<1>2. w \in Nat \ {0} /\ m \in Nat /\ m < w
  BY <1>1
<1> HIDE DEF w, m
<1>3. m % w = m
  BY <1>2
<1> QED
  BY <1>1, <1>3 DEF AsLong, w, m
-----------------------------------------------------------------------------
(***************************************************************************)
(* TypeOK, for workers that have the labels L.                             *)
(***************************************************************************)
Typed(L) ==
  /\ cur \in Objs
  /\ Status \in [Objs -> States]
  /\ RetryCount \in [Objs -> 0 .. MaxRetry]
  /\ iFileSize \in [Objs -> Int]
  /\ iDataPos \in [Objs -> Int]
  /\ bStartDL \in [Objs -> BOOLEAN]
  /\ bAlreadyRun \in [Objs -> BOOLEAN]
  /\ pHeader \in [Objs -> {Unknown, Total}]
  /\ pc \in [Objs -> L]
  /\ next \in [Objs -> Nat]
  /\ buf \in [Objs -> Seq(0 .. Total)]
  /\ disk \in Seq(0 .. Total)
  /\ app \in {"up", "closing", "down"}
  /\ saved \in [size : Int, pos : Int]
  /\ orderly \in BOOLEAN
  /\ kept \in BOOLEAN

\* What the server answers is a reply the worker can store.
LEMMA RepliesType ==
  ASSUME NEW from \in Int, NEW r \in Replies(from)
  PROVE  /\ r.total \in {Unknown, Total}
         /\ r.first \in Nat
BY ConstantsAssumption DEF Replies

\* The constructors of FileDownloader leave well-typed fields.
LEMMA ConstructType ==
  ASSUME NEW L, Labels \subseteq L, Typed(L), NEW n \in Objs, NEW size \in Int, NEW pos \in Int,
         NEW started \in BOOLEAN, NEW count \in 0 .. MaxRetry,
         NEW ran \in BOOLEAN, NEW label \in Labels,
         Construct(n, size, pos, started, count, ran, label)
  PROVE  /\ RetryCount' \in [Objs -> 0 .. MaxRetry]
         /\ iFileSize' \in [Objs -> Int]
         /\ iDataPos' \in [Objs -> Int]
         /\ bStartDL' \in [Objs -> BOOLEAN]
         /\ bAlreadyRun' \in [Objs -> BOOLEAN]
         /\ pHeader' \in [Objs -> {Unknown, Total}]
         /\ pc' \in [Objs -> L]
         /\ next' \in [Objs -> Nat]
BY DEF Construct, Typed

\* Replacing an object by its copy and running it keeps every type.
LEMMA LaunchType ==
  ASSUME NEW L, Labels \subseteq L, Typed(L), NEW n \in Objs, NEW count \in 0 .. MaxRetry, Launch(n, count)
  PROVE  Typed(L)'
<1>1. Construct(n, iFileSize[cur], iDataPos[cur], bStartDL[cur], count, TRUE, "Entry")
  BY Zenon DEF Launch
<1>2. /\ iFileSize[cur] \in Int /\ iDataPos[cur] \in Int
      /\ bStartDL[cur] \in BOOLEAN /\ "Entry" \in Labels /\ TRUE \in BOOLEAN
  BY DEF Typed, Labels
<1>3. Status' \in [Objs -> States]
  BY DEF Launch, Typed, States
<1>4. orderly' \in BOOLEAN
  BY DEF Launch, Typed
<1>5. /\ RetryCount' \in [Objs -> 0 .. MaxRetry]
      /\ iFileSize' \in [Objs -> Int] /\ iDataPos' \in [Objs -> Int]
      /\ bStartDL' \in [Objs -> BOOLEAN] /\ bAlreadyRun' \in [Objs -> BOOLEAN]
      /\ pHeader' \in [Objs -> {Unknown, Total}]
      /\ pc' \in [Objs -> L] /\ next' \in [Objs -> Nat]
  BY <1>1, <1>2 DEF Construct, Typed
<1> QED
  BY <1>3, <1>4, <1>5 DEF Launch, Typed

\* Flushing a stream keeps the types of the file and of the streams.
LEMMA WriteOutType ==
  ASSUME NEW L, Labels \subseteq L, Typed(L), NEW o \in Objs, WriteOut(o)
  PROVE  disk' \in Seq(0 .. Total) /\ buf' \in [Objs -> Seq(0 .. Total)]
<1>1. disk \in Seq(0 .. Total) /\ buf[o] \in Seq(0 .. Total)
  BY DEF Typed
<1>2. disk \o buf[o] \in Seq(0 .. Total)
  BY <1>1, ConcatProperties
<1> QED
  BY <1>2 DEF WriteOut, Typed

\* Every step of Entry, WriteData and OnExit keeps the types.
LEMMA WorkerType ==
  ASSUME NEW L, Labels \subseteq L, Typed(L), NEW o \in Objs, Worker(o)
  PROVE  Typed(L)'
<1> USE ConstantsAssumption DEF At, Goto, object, history
<1>1. RetryOrError(o) \in States
  BY DEF RetryOrError, States
<1>2. CASE OpenFails(o)
  <2>1. \E l \in Labels : pc' = [pc EXCEPT ![o] = l]
    BY <1>2 DEF OpenFails, Labels
  <2>2. pc' \in [Objs -> L]
    BY <2>1 DEF Typed
  <2> QED
    BY <1>2, <2>2 DEF OpenFails, Typed
<1>3. CASE Open(o)
  <2>1. AsLong(iDataPos[o]) \in Int
    BY AsLongRange DEF Typed
  <2>2. next' \in [Objs -> Nat] /\ pHeader' \in [Objs -> {Unknown, Total}]
    <3>1. PICK r \in Replies(AsLong(iDataPos[o])) :
            /\ next' = [next EXCEPT ![o] = r.first]
            /\ pHeader' = [pHeader EXCEPT ![o] = r.total]
      BY <1>3, Zenon DEF Open
    <3>2. r.first \in Nat /\ r.total \in {Unknown, Total}
      BY <2>1, <3>1, RepliesType
    <3>3. next \in [Objs -> Nat] /\ pHeader \in [Objs -> {Unknown, Total}]
      BY Zenon DEF Typed
    <3> QED
      BY <3>1, <3>2, <3>3
  <2>3. orderly' \in BOOLEAN
    BY <1>3 DEF Open, Typed
  <2> QED
    BY <1>3, <2>2, <2>3 DEF Open, Typed, Labels
<1>4. CASE Refuse(o)
  BY <1>4 DEF Refuse, Typed, Labels
<1>5. CASE WrongSize(o)
  BY <1>1, <1>5 DEF WrongSize, Typed, Labels
<1>6. CASE WriteData(o)
  <2>1. iFileSize' \in [Objs -> Int]
    <3>1. iFileSize' = [iFileSize EXCEPT ![o] = IF bStartDL[o] THEN @ ELSE pHeader[o]]
      BY <1>6, Zenon DEF WriteData
    <3>2. iFileSize \in [Objs -> Int] /\ pHeader \in [Objs -> {Unknown, Total}]
      BY Zenon DEF Typed
    <3> QED
      BY <3>1, <3>2 DEF Unknown
  <2>2. Append(buf[o], next[o]) \in Seq(0 .. Total)
    <3>1. buf[o] \in Seq(0 .. Total) /\ next[o] \in 0 .. Total
      BY <1>6 DEF WriteData, Typed
    <3> QED
      BY <3>1, AppendProperties
  <2>3. buf' \in [Objs -> Seq(0 .. Total)]
    <3>1. buf' = buf \/ buf' = [buf EXCEPT ![o] = Append(@, next[o])]
      BY <1>6, Zenon DEF WriteData
    <3>2. buf \in [Objs -> Seq(0 .. Total)]
      BY Zenon DEF Typed
    <3> QED
      BY <2>2, <3>1, <3>2
  <2>5. Status' \in [Objs -> States]
    <3>1. Status' = Status \/ Status' = [Status EXCEPT ![o] = RetryOrError(o)]
      BY <1>6, Zenon DEF WriteData
    <3>2. Status \in [Objs -> States]
      BY Zenon DEF Typed
    <3> QED
      BY <1>1, <3>1, <3>2
  <2>6. bStartDL' \in [Objs -> BOOLEAN]
    BY <1>6 DEF WriteData, Typed
  <2>4. pc' \in [Objs -> L]
    BY <1>6, ZenonT(40) DEF WriteData, Typed, Labels
  <2> QED
    BY <1>6, <2>1, <2>3, <2>4, <2>5, <2>6 DEF WriteData, Typed
<1>7. CASE Count(o)
  <2>1. next' \in [Objs -> Nat]
    <3>1. next \in [Objs -> Nat]
      BY Zenon DEF Typed
    <3>2. next' = [next EXCEPT ![o] = IF @ = 0 THEN Total + 1 ELSE @ + 1]
      BY <1>7, Zenon DEF Count
    <3> QED
      BY <3>1, <3>2
  <2>3. iDataPos' \in [Objs -> Int]
    <3>1. iDataPos \in [Objs -> Int]
      BY Zenon DEF Typed
    <3>2. iDataPos' = [iDataPos EXCEPT ![o] = @ + 1]
      BY <1>7, Zenon DEF Count
    <3> QED
      BY <3>1, <3>2
  <2>2. Status' \in [Objs -> States] /\ pc' \in [Objs -> L]
    BY <1>7 DEF Count, Typed, States, Labels
  <2> QED
    BY <1>7, <2>1, <2>2, <2>3 DEF Count, Typed
<1>8. CASE PerformOk(o)
  BY <1>8 DEF PerformOk, Typed, States, Labels
<1>9. CASE PerformFails(o)
  BY <1>9 DEF PerformFails, Typed, Labels
<1>10. CASE Failed(o)
  <2>1. Status' \in [Objs -> States]
    <3>1. Status' = Status \/ Status' = [Status EXCEPT ![o] = RetryOrError(o)]
      BY <1>10, Zenon DEF Failed
    <3>2. Status \in [Objs -> States]
      BY Zenon DEF Typed
    <3> QED
      BY <1>1, <3>1, <3>2
  <2>2. pc' \in [Objs -> L]
    <3>1. \E l \in {"OnExit", "Tail"} : pc' = [pc EXCEPT ![o] = l]
      BY <1>10 DEF Failed
    <3>2. pc \in [Objs -> L] /\ {"OnExit", "Tail"} \subseteq L
      BY DEF Typed, Labels
    <3> QED
      BY <3>1, <3>2
  <2> QED
    BY <1>10, <2>1, <2>2 DEF Failed, Typed
<1>11. CASE EntryTail(o)
  BY <1>11 DEF EntryTail, Typed, States, Labels
<1>12. CASE OnExit(o)
  BY <1>12, WriteOutType DEF OnExit, Typed, Labels
<1> QED
  BY <1>2, <1>3, <1>4, <1>5, <1>6, <1>7, <1>8, <1>9, <1>10, <1>11, <1>12 DEF Worker

\* The end of the process keeps the types.
LEMMA GoneType ==
  ASSUME NEW L, Labels \subseteq L, Typed(L), Gone,
         UNCHANGED <<cur, disk, saved>>, orderly' \in BOOLEAN, kept' \in BOOLEAN
  PROVE  Typed(L)'
BY ConstantsAssumption DEF Gone, Typed, States, Labels, NoSize, Unknown

\* Every step of the program keeps the types.
LEMMA StepType ==
  ASSUME NEW L, Labels \subseteq L, Typed(L), [Next]_vars
  PROVE  Typed(L)'
<1> USE ConstantsAssumption DEF object, history
<1>1. ASSUME NEW n \in Objs, Start(n)
      PROVE  Typed(L)'
  BY <1>1, LaunchType DEF Start
<1>2. ASSUME NEW n \in Objs, Retry(n)
      PROVE  Typed(L)'
  <2>1. (IF RetryCount[cur] < MaxRetry THEN RetryCount[cur] + 1 ELSE MaxRetry)
          \in 0 .. MaxRetry
    <3>1. RetryCount[cur] \in 0 .. MaxRetry
      BY Zenon DEF Typed
    <3> QED
      BY <3>1, ConstantsAssumption
  <2> QED
    BY <1>2, <2>1, LaunchType DEF Retry
<1>3. ASSUME NEW n \in Objs, Readd(n)
      PROVE  Typed(L)'
  <2>1. Construct(n, NoSize, 0, FALSE, 0, FALSE, "idle")
    BY <1>3, Zenon DEF Readd
  <2>a. /\ NoSize \in Int /\ "idle" \in Labels /\ FALSE \in BOOLEAN
        /\ 0 \in Int /\ 0 \in 0 .. MaxRetry
    BY DEF NoSize, Labels
  <2>3. /\ RetryCount' \in [Objs -> 0 .. MaxRetry]
        /\ iFileSize' \in [Objs -> Int] /\ iDataPos' \in [Objs -> Int]
        /\ bStartDL' \in [Objs -> BOOLEAN] /\ bAlreadyRun' \in [Objs -> BOOLEAN]
        /\ pHeader' \in [Objs -> {Unknown, Total}]
        /\ pc' \in [Objs -> L] /\ next' \in [Objs -> Nat]
    BY <2>1, <2>a, ConstructType, Zenon
  <2>2. Status' \in [Objs -> States]
    BY <1>3 DEF Readd, Typed, States
  <2> QED
    BY <1>3, <2>2, <2>3 DEF Readd, Typed
<1>4. CASE Stop
  BY <1>4 DEF Stop, Typed, States
<1>5. CASE Close
  <2>1. saved' \in [size : Int, pos : Int]
    BY <1>5 DEF Close, Typed
  <2>2. Status' \in [Objs -> States] /\ orderly' \in BOOLEAN
    BY <1>5 DEF Close, Typed, States
  <2> QED
    BY <1>5, <2>1, <2>2 DEF Close, Typed
<1>6. CASE Exit
  BY <1>6, GoneType DEF Exit, Typed
<1>7. CASE Crash
  <2>1. orderly' \in BOOLEAN /\ kept' \in BOOLEAN
    BY <1>7 DEF Crash, Typed
  <2> QED
    BY <1>7, <2>1, GoneType DEF Crash
<1>8. CASE Relaunch
  <2>1. AsLong(saved.size) \in Int /\ AsLong(saved.pos) \in Int
    BY AsLongRange DEF Typed
  <2>2. Status' \in [Objs -> States]
    BY <1>8 DEF Relaunch, Typed, States
  <2> QED
    BY <1>8, <2>1, <2>2 DEF Relaunch, Typed
<1>9. ASSUME NEW o \in Objs, Worker(o)
      PROVE  Typed(L)'
  BY <1>9, WorkerType
<1>10. ASSUME NEW o \in Objs, Flush(o)
       PROVE  Typed(L)'
  BY <1>10, WriteOutType DEF Flush, Typed
<1>11. CASE UNCHANGED vars
  BY <1>11 DEF vars, Typed
<1> QED
  BY <1>1, <1>2, <1>3, <1>4, <1>5, <1>6, <1>7, <1>8, <1>9, <1>10, <1>11
     DEF Next

(***************************************************************************)
(* Every field of every object keeps its type: in particular RetryCount    *)
(* never passes MaxRetry and only known states are ever stored.            *)
(***************************************************************************)
THEOREM TypeCorrect == Spec => []TypeOK
<1>1. Init => TypeOK
  BY ConstantsAssumption DEF Init, TypeOK, States, Labels, NoSize, Unknown
<1>2. TypeOK /\ [Next]_vars => TypeOK'
  BY StepType DEF TypeOK, Typed
<1> QED
  BY <1>1, <1>2, PTL DEF Spec
-----------------------------------------------------------------------------
(***************************************************************************)
(* The inductive invariant behind Covered and FinishedComplete.  What is   *)
(* claimed is covered in every object, listed or replaced; a transfer      *)
(* delivers the byte after the position (or everything is there already);  *)
(* and what downloads.cfg claims is already in the file, so that it        *)
(* survives a crash.                                                       *)
(***************************************************************************)
Resource == 1 .. Total
Sizes == {NoSize, Unknown, Total}
Bytes(o) == Range(buf[o])

\* What the object o claims is in S.
Holds(S, o) ==
  /\ UpTo(iDataPos[o]) \subseteq S
  /\ iDataPos[o] < 0 => Resource \subseteq S
  /\ Status[o] = "FINISH" => Resource \subseteq S
  /\ pc[o] \in {"Perform", "Count"} =>
       /\ UpTo(next[o] - 1) \subseteq S
       /\ iDataPos[o] < next[o] \/ Resource \subseteq S
  /\ pc[o] = "Count" => UpTo(next[o]) \subseteq S

\* What downloads.cfg claims is in S.
SavedHolds(S) ==
  /\ UpTo(saved.pos) \subseteq S
  /\ saved.pos < 0 => Resource \subseteq S

\* Streams are closed and sizes are what constructors and headers give.
Shape ==
  /\ \A o \in Objs : iFileSize[o] \in Sizes
  /\ saved.size \in Sizes
  /\ \A o \in Objs : pc[o] = "idle" => buf[o] = <<>>
  /\ app = "down" =>
       \A o \in Objs : pc[o] = "idle" /\ iDataPos[o] = 0 /\ Status[o] = "STOP"

Claims ==
  /\ \A o \in Objs : Holds(Written, o)
  /\ SavedHolds(Written)
  /\ app # "closing" => SavedHolds(OnDisk)

IInv == TypeOK /\ Shape /\ (kept => Claims)

\* Flushing moves bytes from a stream to the file and loses none.
LEMMA WriteOutKeeps ==
  ASSUME NEW L, Labels \subseteq L, Typed(L), NEW o \in Objs, WriteOut(o)
  PROVE  Written' = Written /\ OnDisk \subseteq OnDisk'
<1>1. disk \in Seq(0 .. Total) /\ buf[o] \in Seq(0 .. Total)
  BY DEF Typed
<1>2. OnDisk' = OnDisk \cup Bytes(o)
  BY <1>1, RangeConcatenation DEF WriteOut, OnDisk, Bytes
<1>3. Bytes(o)' = {}
  BY DEF WriteOut, Bytes, Range, Typed
<1>4. \A p \in Objs \ {o} : Bytes(p)' = Bytes(p)
  BY DEF WriteOut, Bytes, Typed
<1>5. Written = OnDisk \cup UNION {Bytes(p) : p \in Objs}
  BY DEF Written, Bytes
<1>6. Written' = OnDisk' \cup UNION {Bytes(p)' : p \in Objs}
  BY DEF Written, Bytes
<1> QED
  BY <1>2, <1>3, <1>4, <1>5, <1>6

\* A byte handed to fwrite is written, and nothing else is lost.
LEMMA AppendAdds ==
  ASSUME NEW L, Labels \subseteq L, Typed(L), NEW o \in Objs, NEW b \in 0 .. Total,
         buf' = [buf EXCEPT ![o] = Append(@, b)], UNCHANGED disk
  PROVE  Written \subseteq Written' /\ b \in Written' /\ OnDisk' = OnDisk
<1>1. buf[o] \in Seq(0 .. Total)
  BY DEF Typed
<1>2. Bytes(o) \subseteq Bytes(o)' /\ b \in Bytes(o)'
  <2>1. buf'[o] = Append(buf[o], b)
    BY DEF Typed
  <2>2. /\ DOMAIN buf[o] = 1 .. Len(buf[o]) /\ Len(buf[o]) \in Nat
        /\ DOMAIN Append(buf[o], b) = 1 .. Len(buf[o]) + 1
    BY <1>1, AppendProperties, LenProperties
  <2>3. /\ \A i \in 1 .. Len(buf[o]) : Append(buf[o], b)[i] = buf[o][i]
        /\ Append(buf[o], b)[Len(buf[o]) + 1] = b
    BY <1>1, AppendProperties
  <2> QED
    BY <2>1, <2>2, <2>3 DEF Bytes, Range
<1>3. \A p \in Objs \ {o} : Bytes(p)' = Bytes(p)
  BY DEF Bytes, Typed
<1>4. OnDisk' = OnDisk
  BY DEF OnDisk
<1>5. Written = OnDisk \cup UNION {Bytes(p) : p \in Objs}
  BY DEF Written, Bytes
<1>6. Written' = OnDisk' \cup UNION {Bytes(p)' : p \in Objs}
  BY DEF Written, Bytes
<1> QED
  BY <1>2, <1>3, <1>4, <1>5, <1>6

\* What a step must not touch in p for its claims to stay covered.
LEMMA Frame ==
  ASSUME NEW p \in Objs, Holds(Written, p), Written \subseteq Written',
         iDataPos'[p] = iDataPos[p],
         Status'[p] = "FINISH" => Status[p] = "FINISH",
         pc'[p] \in {"Perform", "Count"} => pc'[p] = pc[p] /\ next'[p] = next[p]
  PROVE  Holds(Written, p)'
BY DEF Holds

\* A step that writes more, and saves nothing, keeps what downloads.cfg claims.
LEMMA SavedFrame ==
  ASSUME saved' = saved, Written \subseteq Written', OnDisk \subseteq OnDisk'
  PROVE  /\ SavedHolds(Written) => SavedHolds(Written)'
         /\ SavedHolds(OnDisk) => SavedHolds(OnDisk)'
BY DEF SavedHolds

\* Neither file nor stream changes: neither do the sets of written bytes.
LEMMA SameFiles ==
  ASSUME UNCHANGED <<disk, buf>>
  PROVE  Written' = Written /\ OnDisk' = OnDisk
BY DEF Written, OnDisk

\* The steps that neither save the list nor start or end the process.
LEMMA ClaimsFrame ==
  ASSUME Claims, UNCHANGED <<saved, app>>, Written \subseteq Written',
         OnDisk \subseteq OnDisk', \A p \in Objs : Holds(Written, p)'
  PROVE  Claims'
BY SavedFrame DEF Claims

(***************************************************************************)
(* The steps of a worker, one by one: the answer to the request starts     *)
(* right after a covered position, the byte counted is the byte written,   *)
(* and FINISH is only stored when the last byte is covered.                *)
(***************************************************************************)
LEMMA WorkerClaims ==
  ASSUME NEW L, Labels \subseteq L, Typed(L), Shape, Claims, RangeServer, Total <= LongMax,
         NEW o \in Objs, Worker(o)
  PROVE  Claims'
<1> USE ConstantsAssumption DEF At, Goto, object, history
<1>0. \A p \in Objs : Holds(Written, p)
  BY DEF Claims
<1>r. RetryOrError(o) # "FINISH"
  BY DEF RetryOrError
<1>q. ASSUME UNCHANGED <<saved, app, disk, buf, iDataPos, next>>,
             \A p \in Objs \ {o} : pc'[p] = pc[p] /\ Status'[p] = Status[p],
             pc'[o] \notin {"Perform", "Count"},
             Status'[o] = "FINISH" => Status[o] = "FINISH"
      PROVE  Claims'
  <2>1. Written' = Written /\ OnDisk' = OnDisk
    BY <1>q, SameFiles
  <2>2. \A p \in Objs : Holds(Written, p)'
    BY <1>0, <1>q, <2>1, Frame
  <2> QED
    BY <1>q, <2>1, <2>2, ClaimsFrame
<1>2. CASE OpenFails(o)
  BY <1>2, <1>q DEF OpenFails, Typed
<1>3. CASE Open(o)
  <2>1. Written' = Written /\ OnDisk' = OnDisk
    BY <1>3, SameFiles DEF Open
  <2>2. ASSUME NEW p \in Objs \ {o}
        PROVE  Holds(Written, p)'
    BY <1>0, <1>3, <2>1, Frame DEF Open, Typed
  <2>3. Holds(Written, o)'
    <3>1. PICK r \in Replies(AsLong(iDataPos[o])) : next' = [next EXCEPT ![o] = r.first]
      BY <1>3 DEF Open
    <3>2. /\ next'[o] = r.first /\ pc'[o] = "Perform"
          /\ iDataPos'[o] = iDataPos[o] /\ Status'[o] = Status[o]
      BY <1>3, <3>1 DEF Open, Typed
    <3>3. iDataPos[o] \in Int /\ AsLong(iDataPos[o]) \in -(LongMax + 1) .. LongMax
      BY AsLongRange DEF Typed
    <3>4. Holds(Written, o)
      BY <1>0
    <3>5. iDataPos[o] \in 0 .. LongMax => AsLong(iDataPos[o]) = iDataPos[o]
      BY AsLongFits
    <3>6. iDataPos[o] \notin 0 .. LongMax => Resource \subseteq Written
      BY <3>3, <3>4 DEF Holds, UpTo, Resource
    <3>7. iDataPos[o] >= Total => Resource \subseteq Written
      BY <3>3, <3>4 DEF Holds, UpTo, Resource
    <3>8. Resource \subseteq Written \/ r.first = iDataPos[o] + 1
      BY <3>1, <3>3, <3>5, <3>6, <3>7 DEF Replies
    <3>9. r.first \in Nat
      BY <3>1, <3>3, RepliesType
    <3>10. /\ UpTo(r.first - 1) \subseteq Written
           /\ iDataPos[o] < r.first \/ Resource \subseteq Written
      BY <3>3, <3>4, <3>8, <3>9 DEF Holds, UpTo, Resource
    <3> QED
      BY <2>1, <3>2, <3>4, <3>10 DEF Holds
  <2> QED
    BY <1>3, <2>1, <2>2, <2>3, ClaimsFrame DEF Open
<1>4. CASE Refuse(o)
  BY <1>4, <1>q DEF Refuse, Typed
<1>5. CASE WrongSize(o)
  BY <1>5, <1>q, <1>r DEF WrongSize, Typed
<1>6. CASE WriteData(o)
  <2>1. CASE pc'[o] = "Failed"
    <3>1. buf' = buf /\ Status'[o] # "FINISH"
      BY <1>6, <1>r, <2>1 DEF WriteData, Typed
    <3> QED
      BY <1>6, <1>q, <2>1, <3>1 DEF WriteData, Typed
  <2>2. CASE pc'[o] = "Count"
    <3>1. /\ buf' = [buf EXCEPT ![o] = Append(@, next[o])]
          /\ Status' = Status /\ next' = next /\ iDataPos' = iDataPos
          /\ next[o] \in 0 .. Total /\ pc[o] = "Perform"
      <4>1. pc' # [pc EXCEPT ![o] = "Failed"]
        <5>1. pc \in [Objs -> L]
          BY Zenon DEF Typed
        <5> QED
          BY <2>2, <5>1
      <4>2. /\ buf' = [buf EXCEPT ![o] = Append(@, next[o])]
            /\ Status' = Status /\ next' = next /\ iDataPos' = iDataPos
            /\ next[o] <= Total /\ pc[o] = "Perform"
        BY <1>6, <4>1, Zenon DEF WriteData, At, Goto
      <4>3. next[o] \in Nat
        BY Zenon DEF Typed
      <4> QED
        BY <4>2, <4>3, ConstantsAssumption
    <3>2. Written \subseteq Written' /\ next[o] \in Written' /\ OnDisk' = OnDisk
      BY <1>6, <3>1, AppendAdds DEF WriteData
    <3>3. ASSUME NEW p \in Objs \ {o}
          PROVE  Holds(Written, p)'
      BY <1>0, <1>6, <3>1, <3>2, Frame DEF WriteData, Typed
    <3>4. Holds(Written, o)'
      <4>1. Holds(Written, o) /\ iDataPos[o] \in Int
        BY <1>0 DEF Typed
      <4>2. UpTo(next[o]) \subseteq UpTo(next[o] - 1) \cup {next[o]}
        BY <3>1 DEF UpTo
      <4> QED
        BY <2>2, <3>1, <3>2, <4>1, <4>2 DEF Holds
    <3> QED
      BY <1>6, <3>2, <3>3, <3>4, ClaimsFrame DEF WriteData
  <2> QED
    BY <1>6, <2>1, <2>2 DEF WriteData, Typed
<1>7. CASE Count(o)
  <2>1. Written' = Written /\ OnDisk' = OnDisk
    BY <1>7, SameFiles DEF Count
  <2>2. ASSUME NEW p \in Objs \ {o}
        PROVE  Holds(Written, p)'
    BY <1>0, <1>7, <2>1, Frame DEF Count, Typed
  <2>3. Holds(Written, o)'
    <3>1. /\ iDataPos'[o] = iDataPos[o] + 1 /\ pc'[o] = "Perform"
          /\ next'[o] = IF next[o] = 0 THEN Total + 1 ELSE next[o] + 1
          /\ Status'[o] = IF iDataPos[o] + 1 = iFileSize[o] THEN "FINISH" ELSE Status[o]
      BY <1>7 DEF Count, Typed
    <3>2. iDataPos[o] \in Int /\ next[o] \in Nat /\ Total \in Nat \ {0}
      BY DEF Typed
    <3>3. pc[o] = "Count" /\ Holds(Written, o) /\ iFileSize[o] \in Sizes
      BY <1>0, <1>7 DEF Count, Shape
    <3>4. /\ UpTo(next[o]) \subseteq Written
          /\ iDataPos[o] < next[o] \/ Resource \subseteq Written
          /\ iDataPos[o] < 0 => Resource \subseteq Written
      BY <3>3 DEF Holds
    <3>5. next[o] = 0 => Resource \subseteq Written
      BY <3>2, <3>4
    <3>6. Resource \subseteq Written => \A k \in Int : UpTo(k) \subseteq Written
      BY DEF UpTo, Resource
    <3>7. iDataPos[o] < next[o] => UpTo(iDataPos[o] + 1) \subseteq UpTo(next[o])
      BY <3>2 DEF UpTo
    <3>8. UpTo(iDataPos'[o]) \subseteq Written
      BY <3>1, <3>2, <3>4, <3>6, <3>7
    <3>9. iDataPos[o] + 1 = iFileSize[o] => Resource \subseteq Written
      <4>1. UpTo(Total) = Resource
        BY DEF UpTo, Resource
      <4> QED
        BY <3>1, <3>2, <3>3, <3>4, <3>8, <4>1 DEF Sizes, NoSize, Unknown
    <3>10. Status'[o] = "FINISH" => Resource \subseteq Written
      BY <3>1, <3>3, <3>9 DEF Holds
    <3>11. UpTo(next'[o] - 1) \subseteq Written
      BY <3>1, <3>2, <3>4, <3>5, <3>6
    <3>12. iDataPos'[o] < next'[o] \/ Resource \subseteq Written
      BY <3>1, <3>2, <3>4, <3>5
    <3>13. iDataPos'[o] < 0 => Resource \subseteq Written
      BY <3>1, <3>2, <3>4
    <3> QED
      BY <2>1, <3>1, <3>8, <3>10, <3>11, <3>12, <3>13 DEF Holds
  <2> QED
    BY <1>7, <2>1, <2>2, <2>3, ClaimsFrame DEF Count
<1>8. CASE PerformOk(o)
  <2>1. Written' = Written /\ OnDisk' = OnDisk
    BY <1>8, SameFiles DEF PerformOk
  <2>2. ASSUME NEW p \in Objs \ {o}
        PROVE  Holds(Written, p)'
    BY <1>0, <1>8, <2>1, Frame DEF PerformOk, Typed
  <2>3. Holds(Written, o)'
    <3>1. Holds(Written, o) /\ pc[o] = "Perform" /\ next[o] = Total + 1
      BY <1>0, <1>8 DEF PerformOk
    <3>2. Resource \subseteq Written
      BY <3>1 DEF Holds, UpTo, Resource
    <3>3. pc'[o] = "Tail" /\ iDataPos'[o] = iDataPos[o]
      BY <1>8 DEF PerformOk, Typed
    <3> QED
      BY <2>1, <3>1, <3>2, <3>3 DEF Holds
  <2> QED
    BY <1>8, <2>1, <2>2, <2>3, ClaimsFrame DEF PerformOk
<1>9. CASE PerformFails(o)
  BY <1>9, <1>q DEF PerformFails, Typed
<1>10. CASE Failed(o)
  BY <1>10, <1>q, <1>r DEF Failed, Typed
<1>11. CASE EntryTail(o)
  BY <1>11, <1>q DEF EntryTail, Typed
<1>12. CASE OnExit(o)
  <2>1. Written' = Written /\ OnDisk \subseteq OnDisk'
    BY <1>12, WriteOutKeeps DEF OnExit
  <2>2. \A p \in Objs : Holds(Written, p)'
    BY <1>0, <1>12, <2>1, Frame DEF OnExit, Typed
  <2> QED
    BY <1>12, <2>1, <2>2, ClaimsFrame DEF OnExit
<1> QED
  BY <1>2, <1>3, <1>4, <1>5, <1>6, <1>7, <1>8, <1>9, <1>10, <1>11, <1>12 DEF Worker

(***************************************************************************)
(* The manager's steps: a copy claims what the copied object claimed, a    *)
(* new object claims nothing, a save claims what the streams hold, and a   *)
(* process that starts again claims what the file holds.                   *)
(***************************************************************************)
\* A copy claims what the object it replaces did, and runs from there.
LEMMA LaunchClaims ==
  ASSUME NEW L, Labels \subseteq L, Typed(L), Claims, NEW n \in Objs, NEW count \in 0 .. MaxRetry, Launch(n, count)
  PROVE  Claims'
<1>1. Written' = Written /\ OnDisk' = OnDisk
  BY SameFiles DEF Launch
<1>2. Holds(Written, n)'
  <2>1. /\ iDataPos'[n] = iDataPos[cur] /\ Status'[n] = "START" /\ pc'[n] = "Entry"
    BY DEF Launch, Construct, Typed
  <2>2. Holds(Written, cur)
    BY DEF Claims, Typed
  <2> QED
    BY <1>1, <2>1, <2>2 DEF Holds
<1>3. ASSUME NEW p \in Objs \ {n}
      PROVE  Holds(Written, p)'
  BY <1>1, Frame DEF Claims, Launch, Construct, Typed
<1> QED
  BY <1>1, <1>2, <1>3, ClaimsFrame DEF Launch

\* A download that is added again claims nothing.
LEMMA ReaddClaims ==
  ASSUME NEW L, Labels \subseteq L, Typed(L), Claims, NEW n \in Objs, Readd(n)
  PROVE  Claims'
<1>1. Written' = Written /\ OnDisk' = OnDisk
  BY SameFiles DEF Readd
<1>2. Holds(Written, n)'
  <2>1. iDataPos'[n] = 0 /\ Status'[n] = "STOP" /\ pc'[n] = "idle"
    BY DEF Readd, Construct, Typed
  <2> QED
    BY <2>1 DEF Holds, UpTo
<1>3. ASSUME NEW p \in Objs \ {n}
      PROVE  Holds(Written, p)'
  BY <1>1, Frame DEF Claims, Readd, Construct, Typed
<1> QED
  BY <1>1, <1>2, <1>3, ClaimsFrame DEF Readd

\* OnClose saves a claim that the listed object already had.
LEMMA CloseClaims ==
  ASSUME NEW L, Labels \subseteq L, Typed(L), Claims, Close
  PROVE  Claims'
<1>1. Written' = Written
  BY SameFiles DEF Close
<1>2. \A p \in Objs : Holds(Written, p)'
  BY <1>1, Frame DEF Claims, Close, Typed
<1>3. SavedHolds(Written)'
  BY <1>1 DEF Claims, Holds, SavedHolds, Close, Typed
<1> QED
  BY <1>2, <1>3 DEF Claims, Close

\* Once the process is gone only downloads.cfg claims anything.
LEMMA GoneClaims ==
  ASSUME NEW L, Labels \subseteq L, Typed(L), Gone, UNCHANGED disk, SavedHolds(OnDisk)'
  PROVE  Claims'
<1>1. \A p \in Objs : Holds(Written, p)'
  BY DEF Gone, Holds, UpTo
<1>2. OnDisk' \subseteq Written'
  BY DEF Written
<1>3. SavedHolds(Written)'
  BY <1>2 DEF SavedHolds
<1> QED
  BY <1>1, <1>3 DEF Claims

\* At a regular exit every stream was flushed: the saved claim is on disk.
LEMMA ExitClaims ==
  ASSUME NEW L, Labels \subseteq L, Typed(L), Claims, Exit
  PROVE  Claims'
<1>1. Written = OnDisk
  BY DEF Exit, Written, Range
<1>2. SavedHolds(OnDisk)'
  BY <1>1 DEF Claims, SavedHolds, Exit, OnDisk
<1> QED
  BY <1>2, GoneClaims DEF Exit

\* A crash before the list is saved leaves the claim saved at the last exit.
LEMMA CrashClaims ==
  ASSUME NEW L, Labels \subseteq L, Typed(L), Claims, Crash, kept'
  PROVE  Claims'
<1>1. app # "closing"
  BY DEF Crash
<1>2. SavedHolds(OnDisk)'
  BY <1>1 DEF Claims, SavedHolds, Crash, OnDisk
<1> QED
  BY <1>2, GoneClaims DEF Crash

\* LoadDownloads takes over the saved claim, and FINISH only when it is complete.
LEMMA RelaunchClaims ==
  ASSUME NEW L, Labels \subseteq L, Typed(L), Shape, Claims, Relaunch, Total <= LongMax
  PROVE  Claims'
<1> USE ConstantsAssumption
<1>1. Written' = Written /\ OnDisk' = OnDisk
  BY SameFiles DEF Relaunch
<1>2. SavedHolds(OnDisk)' /\ SavedHolds(Written)'
  BY <1>1, SavedFrame DEF Claims, Relaunch
<1>3. ASSUME NEW p \in Objs \ {cur}
      PROVE  Holds(Written, p)'
  BY <1>1, Frame DEF Claims, Relaunch, Typed
<1>4. Holds(Written, cur)'
  <2> DEFINE pos == AsLong(saved.pos)
             size == AsLong(saved.size)
  <2>1. /\ cur \in Objs
        /\ saved.pos \in Int /\ saved.size \in Int
        /\ pos \in -(LongMax + 1) .. LongMax
    BY AsLongRange DEF Typed
  <2>2. size = saved.size
    <3>1. saved.size \in -(LongMax + 1) .. LongMax
      BY DEF Shape, Sizes, NoSize, Unknown
    <3> QED
      BY <3>1, AsLongFits
  <2>3. saved.pos \in 0 .. LongMax => pos = saved.pos
    BY AsLongFits
  <2> HIDE DEF pos, size
  <2>4. UpTo(saved.pos) \subseteq Written /\ (saved.pos < 0 => Resource \subseteq Written)
    BY DEF Claims, SavedHolds
  <2>5. saved.pos \notin 0 .. LongMax => Resource \subseteq Written
    BY <2>1, <2>4 DEF UpTo, Resource
  <2>6. Resource \subseteq Written => UpTo(pos) \subseteq Written
    BY DEF UpTo, Resource
  <2>7. UpTo(pos) \subseteq Written /\ (pos < 0 => Resource \subseteq Written)
    BY <2>1, <2>3, <2>4, <2>5, <2>6
  <2>8. size = pos => Resource \subseteq Written
    <3>1. UpTo(Total) = Resource
      BY DEF UpTo, Resource
    <3>2. saved.size \in Sizes
      BY DEF Shape
    <3> QED
      BY <2>2, <2>7, <3>1, <3>2 DEF Sizes, NoSize, Unknown
  <2>9. iDataPos'[cur] = pos /\ pc'[cur] = "idle"
    BY <2>1 DEF Relaunch, Shape, Typed, pos
  <2>10. Status'[cur] = "FINISH" => size = pos
    BY <2>1 DEF Relaunch, Typed, pos, size
  <2> QED
    BY <1>1, <2>7, <2>8, <2>9, <2>10 DEF Holds, Relaunch
<1>5. \A p \in Objs : Holds(Written, p)'
  <2>1. cur' = cur
    BY DEF Relaunch
  <2> QED
    BY <1>3, <1>4, <2>1
<1> QED
  BY <1>2, <1>5 DEF Claims

\* The sizes and the labels the claims rest on keep their shape.
LEMMA ShapeStep ==
  ASSUME NEW L, Labels \subseteq L, Typed(L), Shape, [Next]_vars, Total <= LongMax
  PROVE  Shape'
<1> USE ConstantsAssumption DEF At, Goto, object, history
<1>c. \A o \in Objs : iFileSize[o] \in Sizes
  BY DEF Shape
<1>1. ASSUME NEW n \in Objs, NEW count, Launch(n, count), app # "down"
      PROVE  Shape'
  BY <1>1 DEF Launch, Construct, Shape, Typed
<1>2. ASSUME NEW n \in Objs, Start(n) \/ Retry(n)
      PROVE  Shape'
  BY <1>1, <1>2 DEF Start, Retry
<1>3. ASSUME NEW n \in Objs, Readd(n)
      PROVE  Shape'
  BY <1>3 DEF Readd, Construct, Shape, Sizes, Typed
<1>4. CASE Stop
  BY <1>4 DEF Stop, Shape, Typed
<1>5. CASE Close
  BY <1>5 DEF Close, Shape, Typed
<1>6. ASSUME Exit \/ Crash
      PROVE  Shape'
  BY <1>6 DEF Exit, Crash, Gone, Shape, Sizes
<1>7. CASE Relaunch
  <2>1. saved.size \in -(LongMax + 1) .. LongMax /\ saved.size \in Sizes
    BY DEF Shape, Sizes, NoSize, Unknown
  <2>2. AsLong(saved.size) \in Sizes
    BY <2>1, AsLongFits
  <2> QED
    BY <1>7, <2>2 DEF Relaunch, Shape, Typed
<1>8. ASSUME NEW o \in Objs, Worker(o)
      PROVE  Shape'
  <2>1. app # "down" /\ app' = app /\ saved' = saved
    BY <1>8 DEF Worker, OpenFails, Open, Refuse, WrongSize, WriteData, Count,
                PerformOk, PerformFails, Failed, EntryTail, OnExit
  <2>2. \A p \in Objs : iFileSize'[p] \in Sizes
    <3>1. CASE WriteData(o)
      BY <1>c, <3>1 DEF WriteData, Typed, Sizes
    <3>2. CASE ~WriteData(o)
      BY <1>8, <1>c, <3>2 DEF Worker, OpenFails, Open, Refuse, WrongSize, Count,
                PerformOk, PerformFails, Failed, EntryTail, OnExit
    <3> QED
      BY <3>1, <3>2
  <2>3. \A p \in Objs : pc'[p] = "idle" => buf'[p] = <<>>
    <3>1. \A p \in Objs : pc[p] = "idle" => buf[p] = <<>>
      BY DEF Shape
    <3>2. CASE OnExit(o)
      BY <3>1, <3>2 DEF OnExit, WriteOut, Typed
    <3>3. CASE WriteData(o)
      <4>1. /\ \E l \in {"Count", "Failed"} : pc' = [pc EXCEPT ![o] = l]
            /\ buf' = buf \/ pc' = [pc EXCEPT ![o] = "Count"]
            /\ \A p \in Objs \ {o} : buf'[p] = buf[p]
        BY <3>3 DEF WriteData, Typed, At, Goto
      <4>2. pc \in [Objs -> L]
        BY Zenon DEF Typed
      <4> QED
        BY <3>1, <4>1, <4>2
    <3>4. CASE OpenFails(o) \/ Open(o) \/ Refuse(o) \/ WrongSize(o) \/ Count(o)
      BY <3>1, <3>4 DEF OpenFails, Open, Refuse, WrongSize, Count, Typed
    <3>5. CASE PerformOk(o) \/ PerformFails(o) \/ Failed(o) \/ EntryTail(o)
      BY <3>1, <3>5 DEF PerformOk, PerformFails, Failed, EntryTail, Typed
    <3> QED
      BY <1>8, <3>2, <3>3, <3>4, <3>5 DEF Worker
  <2> QED
    BY <2>1, <2>2, <2>3 DEF Shape
<1>9. ASSUME NEW o \in Objs, Flush(o)
      PROVE  Shape'
  BY <1>9 DEF Flush, WriteOut, Shape, Typed
<1>10. CASE UNCHANGED vars
  BY <1>10 DEF vars, Shape
<1> QED
  BY <1>2, <1>3, <1>4, <1>5, <1>6, <1>7, <1>8, <1>9, <1>10 DEF Next

\* Every step of the program keeps the claims true, a crash between the save and the
\* exit aside.
LEMMA ClaimsStep ==
  ASSUME NEW L, Labels \subseteq L, Typed(L), Shape, kept => Claims, kept', [Next]_vars,
         RangeServer, Total <= LongMax
  PROVE  Claims'
<1> USE DEF object, history
<1>1. Typed(L) /\ Shape
  OBVIOUS
<1>a. kept
  BY DEF Next, vars, Start, Retry, Launch, Readd, Stop, Close, Exit, Crash,
         Relaunch, Worker, OpenFails, Open, Refuse, WrongSize, WriteData, Count,
         PerformOk, PerformFails, Failed, EntryTail, OnExit, Flush
<1>b. Claims
  BY <1>a
<1>2. ASSUME NEW n \in Objs, Start(n) \/ Retry(n)
      PROVE  Claims'
  <2>1. PICK count \in 0 .. MaxRetry : Launch(n, count)
    <3>1. 0 \in 0 .. MaxRetry
      BY ConstantsAssumption
    <3>2. (IF RetryCount[cur] < MaxRetry THEN RetryCount[cur] + 1 ELSE MaxRetry)
            \in 0 .. MaxRetry
      <4>1. RetryCount[cur] \in 0 .. MaxRetry
        BY <1>1 DEF Typed
      <4> QED
        BY <4>1, ConstantsAssumption
    <3> QED
      BY <1>2, <3>1, <3>2 DEF Start, Retry
  <2> QED
    BY <1>1, <1>b, <2>1, LaunchClaims
<1>3. ASSUME NEW n \in Objs, Readd(n)
      PROVE  Claims'
  BY <1>1, <1>b, <1>3, ReaddClaims
<1>4. CASE Stop
  <2>1. Written' = Written /\ OnDisk' = OnDisk
    BY <1>4, SameFiles DEF Stop
  <2>2. \A p \in Objs : Holds(Written, p)'
    BY <1>1, <1>b, <1>4, <2>1, Frame DEF Claims, Stop, Typed
  <2> QED
    BY <1>b, <1>4, <2>1, <2>2, ClaimsFrame DEF Stop
<1>5. CASE Close
  BY <1>1, <1>b, <1>5, CloseClaims
<1>6. CASE Exit
  BY <1>1, <1>b, <1>6, ExitClaims
<1>7. CASE Crash
  BY <1>1, <1>b, <1>7, CrashClaims
<1>8. CASE Relaunch
  BY <1>1, <1>b, <1>8, RelaunchClaims
<1>9. ASSUME NEW o \in Objs, Worker(o)
      PROVE  Claims'
  BY <1>1, <1>b, <1>9, WorkerClaims
<1>10. ASSUME NEW o \in Objs, Flush(o)
       PROVE  Claims'
  <2>1. Written' = Written /\ OnDisk \subseteq OnDisk'
    BY <1>1, <1>10, WriteOutKeeps DEF Flush
  <2>2. \A p \in Objs : Holds(Written, p)'
    BY <1>b, <1>10, <2>1, Frame DEF Claims, Flush
  <2> QED
    BY <1>b, <1>10, <2>1, <2>2, ClaimsFrame DEF Flush
<1>11. CASE UNCHANGED vars
  <2>1. Written' = Written /\ OnDisk' = OnDisk
    BY <1>11, SameFiles DEF vars
  <2>2. \A p \in Objs : Holds(Written, p)'
    BY <1>b, <1>11, <2>1, Frame DEF Claims, vars
  <2> QED
    BY <1>b, <1>11, <2>1, <2>2, ClaimsFrame DEF vars
<1> QED
  BY <1>2, <1>3, <1>4, <1>5, <1>6, <1>7, <1>8, <1>9, <1>10, <1>11 DEF Next

(***************************************************************************)
(* The inductive invariant: as long as no crash hits between the save and  *)
(* the exit, every object's position, every worker about to count a byte,  *)
(* every FINISH and downloads.cfg only claim bytes that are written.       *)
(***************************************************************************)
THEOREM Inductive ==
  ASSUME RangeServer, Total <= LongMax
  PROVE  Spec => []IInv
<1>1. Init => IInv
  <2> SUFFICES ASSUME Init
               PROVE  IInv
    OBVIOUS
  <2>1. TypeOK
    BY ConstantsAssumption DEF Init, TypeOK, States, Labels, NoSize, Unknown
  <2>2. Shape
    BY DEF Init, Shape, Sizes
  <2>3. Claims
    BY DEF Init, Claims, Holds, SavedHolds, UpTo
  <2> QED
    BY <2>1, <2>2, <2>3 DEF IInv
<1>2. IInv /\ TypeOK' /\ [Next]_vars => IInv'
  <2> SUFFICES ASSUME IInv, TypeOK', [Next]_vars
               PROVE  IInv'
    OBVIOUS
  <2>1. Typed(Labels) /\ Labels \subseteq Labels
    BY DEF IInv, TypeOK, Typed
  <2>2. Shape'
    BY <2>1, ShapeStep DEF IInv
  <2>3. kept' => Claims'
    BY <2>1, ClaimsStep DEF IInv
  <2> QED
    BY <2>2, <2>3 DEF IInv
<1> QED
  BY <1>1, <1>2, TypeCorrect, PTL DEF Spec

(***************************************************************************)
(* If the server honours ranges and the length fits in a long, the bytes   *)
(* before iDataPos, or before the position saved in downloads.cfg, are     *)
(* always in the file or about to be flushed to it: no resume, retry,      *)
(* overlap of workers, restart or crash (but one between the save and the  *)
(* exit) makes the program skip a byte.                                    *)
(***************************************************************************)
THEOREM NothingSkipped ==
  ASSUME RangeServer, Total <= LongMax
  PROVE  Spec => []Covered
<1>1. IInv => Covered
  BY DEF IInv, Claims, Holds, SavedHolds, Covered, Claimed, TypeOK
<1> QED
  BY <1>1, Inductive, PTL

(***************************************************************************)
(* Under the same conditions a download shown as finished is complete.     *)
(***************************************************************************)
THEOREM FinishedIsComplete ==
  ASSUME RangeServer, Total <= LongMax
  PROVE  Spec => []FinishedComplete
<1>1. IInv => FinishedComplete
  BY DEF IInv, Claims, Holds, Resource, FinishedComplete, TypeOK
<1> QED
  BY <1>1, Inductive, PTL

-----------------------------------------------------------------------------
(***************************************************************************)
(* A file that nothing mixed up.                                           *)
(***************************************************************************)
\* The first p bytes of the resource, and a file and a stream that hold them.
First(p) == [i \in 1 .. p |-> i]
IsFirst(d, b, p) == d \o b = First(p)

\* One more byte is handed to fwrite.
LEMMA FirstAppend ==
  ASSUME NEW S, NEW d \in Seq(S), NEW b \in Seq(S), NEW p \in Nat, p + 1 \in S, IsFirst(d, b, p)
  PROVE  IsFirst(d, Append(b, p + 1), p + 1)
<1> DEFINE e == p + 1
           s == d \o b
           x == d \o Append(b, e)
<1>1. s \in Seq(S) /\ s = First(p)
  BY ConcatProperties DEF IsFirst
<1>2. x = Append(s, e)
  <2>1. Append(b, e) = b \o <<e>> /\ Append(s, e) = s \o <<e>>
    BY <1>1, AppendIsConcat
  <2>2. <<e>> \in Seq(S)
    OBVIOUS
  <2>3. s \o <<e>> = d \o (b \o <<e>>)
    BY <2>2, ConcatAssociative
  <2> QED
    BY <2>1, <2>3
<1>3. Len(s) = p /\ \A i \in 1 .. p : s[i] = i
  BY <1>1 DEF First
<1> HIDE DEF e, s
<1>4. /\ Append(s, e) \in Seq(S) /\ Len(Append(s, e)) = p + 1
      /\ Append(s, e)[p + 1] = e /\ \A i \in 1 .. p : Append(s, e)[i] = s[i]
  BY <1>1, <1>3, AppendProperties DEF e
<1>5. Append(s, e) = First(p + 1)
  <2> DEFINE a == Append(s, e)
  <2>1. a \in Seq(S) /\ Len(a) = p + 1 /\ \A i \in 1 .. p + 1 : a[i] = i
    BY <1>3, <1>4 DEF e
  <2> HIDE DEF a
  <2>2. a = First(p + 1)
    BY <2>1 DEF First
  <2> QED
    BY <2>2 DEF a
<1> QED
  BY <1>2, <1>5 DEF IsFirst, e

\* The stream is written out.
LEMMA FirstFlush ==
  ASSUME NEW S, NEW d \in Seq(S), NEW b \in Seq(S), NEW p, IsFirst(d, b, p)
  PROVE  IsFirst(d \o b, <<>>, p)
<1> DEFINE s == d \o b
<1>1. s \in Seq(S) /\ s = First(p)
  BY ConcatProperties DEF IsFirst
<1> HIDE DEF s
<1>2. s \o <<>> = s
  BY <1>1, ConcatEmptySeq
<1> QED
  BY <1>1, <1>2 DEF IsFirst, s

\* The position that the program, or while it is down downloads.cfg, has.
Position == IF app = "down" THEN saved.pos ELSE iDataPos[cur]

\* One worker, on the listed object; what was written is what precedes the position, and
\* a byte about to be counted; the next byte is the one after it.
Steady ==
  /\ \A o \in Objs \ {cur} : pc[o] = "idle"
  /\ Position \in 0 .. Total
  /\ IsFirst(disk, buf[cur], IF pc[cur] = "Count" THEN Position + 1 ELSE Position)
  /\ pc[cur] \in {"Perform", "Count"} => next[cur] = iDataPos[cur] + 1
  /\ pc[cur] = "Count" => next[cur] <= Total
  /\ app = "closing" => saved.pos = iDataPos[cur] /\ Status[cur] # "START" /\ pc[cur] # "Count"

\* The steps of the worker.
LEMMA WorkerSteady ==
  ASSUME TypeOK, TypeOK', Steady, orderly', RangeServer, Total <= LongMax, NEW o \in Objs, Worker(o)
  PROVE  Steady'
<1> USE ConstantsAssumption DEF At, Goto, object, history
<1>1. o = cur /\ app # "down" /\ app' = app /\ saved' = saved /\ cur' = cur
      /\ pc[cur] # "idle" /\ \A p \in Objs \ {o} : pc'[p] = pc[p]
  <2>1. pc[o] # "idle" /\ app # "down" /\ app' = app /\ saved' = saved /\ cur' = cur
        /\ \E l : pc' = [pc EXCEPT ![o] = l]
    BY Zenon DEF Worker, OpenFails, Open, Refuse, WrongSize, WriteData, Count,
           PerformOk, PerformFails, Failed, EntryTail, OnExit, At, Goto
  <2>2. o = cur
    BY <2>1 DEF Steady
  <2>3. pc \in [Objs -> Labels]
    BY Zenon DEF TypeOK
  <2> QED
    BY <2>1, <2>2, <2>3
<1>2. iDataPos[o] \in 0 .. Total /\ Position = iDataPos[o]
  BY <1>1 DEF Steady, Position
<1>3. \A p \in Objs \ {cur'} : pc'[p] = "idle"
  BY <1>1 DEF Steady
<1>q. ASSUME UNCHANGED <<disk, buf, iDataPos>>, pc[o] # "Count",
             pc'[o] \notin {"Perform", "Count"}, Status'[o] = "START" => Status[o] = "START"
      PROVE  Steady'
  <2>1. Position' = Position
    BY <1>1, <1>q DEF Position
  <2>2. IsFirst(disk', buf'[cur'], Position')
    BY <1>1, <1>q, <2>1 DEF Steady
  <2> QED
    BY <1>1, <1>2, <1>3, <1>q, <2>1, <2>2 DEF Steady
<1>4. CASE OpenFails(o) \/ Refuse(o) \/ WrongSize(o) \/ PerformOk(o) \/ PerformFails(o)
  BY <1>4, <1>q DEF OpenFails, Refuse, WrongSize, PerformOk, PerformFails, RetryOrError, TypeOK
<1>5. CASE Failed(o) \/ EntryTail(o)
  BY <1>5, <1>q DEF Failed, EntryTail, RetryOrError, TypeOK
<1>6. CASE Open(o)
  <2>1. /\ UNCHANGED <<disk, buf, iDataPos, Status>> /\ pc[o] = "Entry"
        /\ pc' = [pc EXCEPT ![o] = "Perform"] /\ Status[o] = "START"
    BY <1>6, Zenon DEF Open, At, Goto
  <2>2. PICK r \in Replies(AsLong(iDataPos[o])) :
          next' = [next EXCEPT ![o] = r.first] /\ orderly' = (orderly /\ r.first # 0)
    BY <1>6, Zenon DEF Open
  <2>3. AsLong(iDataPos[o]) = iDataPos[o]
    BY <1>2, AsLongFits
  <2>4. r.first = iDataPos[o] + 1
    <3>1. r.first # 0
      BY <2>2, Zenon
    <3> QED
      BY <1>2, <2>2, <2>3, <3>1 DEF Replies
  <2>5. pc'[o] = "Perform" /\ next'[o] = iDataPos[o] + 1
    BY <2>1, <2>2, <2>4 DEF TypeOK
  <2>6. Position' = Position
    BY <1>1, <2>1 DEF Position
  <2>7. IsFirst(disk', buf'[cur'], Position')
    BY <1>1, <2>1, <2>6 DEF Steady
  <2> QED
    BY <1>1, <1>2, <1>3, <2>1, <2>5, <2>6, <2>7 DEF Steady
<1>7. CASE WriteData(o)
  <2>1. /\ UNCHANGED <<disk, iDataPos, next>> /\ pc[o] = "Perform" /\ next[o] <= Total
        /\ Status[o] = "START"
        /\ \/ /\ buf' = [buf EXCEPT ![o] = Append(@, next[o])]
              /\ pc' = [pc EXCEPT ![o] = "Count"] /\ UNCHANGED Status
           \/ /\ Status' = [Status EXCEPT ![o] = RetryOrError(o)]
              /\ pc' = [pc EXCEPT ![o] = "Failed"] /\ UNCHANGED buf
    BY <1>7, Zenon DEF WriteData, At, Goto
  <2>2. CASE /\ Status' = [Status EXCEPT ![o] = RetryOrError(o)]
             /\ pc' = [pc EXCEPT ![o] = "Failed"] /\ UNCHANGED buf
    BY <2>1, <2>2, <1>q DEF RetryOrError, TypeOK
  <2>3. CASE /\ buf' = [buf EXCEPT ![o] = Append(@, next[o])]
             /\ pc' = [pc EXCEPT ![o] = "Count"] /\ UNCHANGED Status
    <3>1. next[o] = iDataPos[o] + 1 /\ IsFirst(disk, buf[o], iDataPos[o])
      BY <1>1, <1>2, <2>1 DEF Steady
    <3>2. disk \in Seq(0 .. Total) /\ buf[o] \in Seq(0 .. Total)
      BY DEF TypeOK
    <3>3. iDataPos[o] + 1 \in 0 .. Total
      BY <1>2, <2>1, <3>1
    <3>4. IsFirst(disk, Append(buf[o], iDataPos[o] + 1), iDataPos[o] + 1)
      BY <1>2, <3>1, <3>2, <3>3, FirstAppend
    <3>5. buf'[o] = Append(buf[o], iDataPos[o] + 1) /\ pc'[o] = "Count"
      BY <2>3, <3>1 DEF TypeOK
    <3>6. Position' = iDataPos[o]
      BY <1>1, <2>1 DEF Position
    <3>7. IsFirst(disk', buf'[cur'], Position' + 1)
      BY <1>1, <2>1, <3>4, <3>5, <3>6
    <3>8. app # "closing"
      BY <1>1, <2>1 DEF Steady
    <3> QED
      BY <1>1, <1>2, <1>3, <2>1, <2>3, <3>1, <3>5, <3>6, <3>7, <3>8 DEF Steady
  <2> QED
    BY <2>1, <2>2, <2>3
<1>8. CASE Count(o)
  <2>1. /\ UNCHANGED <<disk, buf>> /\ pc[o] = "Count" /\ pc' = [pc EXCEPT ![o] = "Perform"]
        /\ iDataPos' = [iDataPos EXCEPT ![o] = @ + 1]
        /\ next' = [next EXCEPT ![o] = IF @ = 0 THEN Total + 1 ELSE @ + 1]
    BY <1>8, Zenon DEF Count, At, Goto
  <2>2. next[o] = iDataPos[o] + 1 /\ next[o] <= Total /\ IsFirst(disk, buf[o], iDataPos[o] + 1)
        /\ app # "closing"
    BY <1>1, <1>2, <2>1 DEF Steady
  <2>3. pc'[o] = "Perform" /\ iDataPos'[o] = iDataPos[o] + 1 /\ next'[o] = next[o] + 1
    <3>1. pc'[o] = "Perform" /\ iDataPos'[o] = iDataPos[o] + 1
      BY <2>1 DEF TypeOK
    <3>2. next[o] # 0
      BY <1>2, <2>2
    <3>3. next \in [Objs -> Nat]
      BY DEF TypeOK
    <3>4. next'[o] = IF next[o] = 0 THEN Total + 1 ELSE next[o] + 1
      BY <2>1, <3>3, Zenon
    <3> QED
      BY <3>1, <3>2, <3>4
  <2>4. Position' = iDataPos[o] + 1
    BY <1>1, <2>3 DEF Position
  <2>5. IsFirst(disk', buf'[cur'], Position')
    BY <1>1, <2>1, <2>2, <2>4
  <2> QED
    BY <1>1, <1>2, <1>3, <2>2, <2>3, <2>4, <2>5 DEF Steady
<1>9. CASE OnExit(o)
  <2>1. /\ UNCHANGED <<iDataPos, Status>> /\ pc[o] = "OnExit" /\ pc' = [pc EXCEPT ![o] = "idle"]
        /\ disk' = disk \o buf[o] /\ buf' = [buf EXCEPT ![o] = <<>>]
    BY <1>9, Zenon DEF OnExit, At, Goto, WriteOut
  <2>2. IsFirst(disk, buf[o], iDataPos[o])
    BY <1>1, <1>2, <2>1 DEF Steady
  <2>3. disk \in Seq(0 .. Total) /\ buf[o] \in Seq(0 .. Total)
    BY DEF TypeOK
  <2>4. IsFirst(disk', <<>>, iDataPos[o])
    BY <2>1, <2>2, <2>3, FirstFlush
  <2>5. pc'[o] = "idle" /\ buf'[o] = <<>>
    BY <2>1 DEF TypeOK
  <2>6. Position' = iDataPos[o]
    BY <1>1, <2>1 DEF Position
  <2>7. IsFirst(disk', buf'[cur'], Position')
    BY <1>1, <2>4, <2>5, <2>6
  <2> QED
    BY <1>1, <1>2, <1>3, <2>1, <2>5, <2>6, <2>7 DEF Steady
<1> QED
  BY <1>4, <1>5, <1>6, <1>7, <1>8, <1>9 DEF Worker

\* Every step that mixes up nothing.
LEMMA StepSteady ==
  ASSUME TypeOK, TypeOK', Shape, Steady, orderly, orderly', RangeServer, Total <= LongMax, [Next]_vars
  PROVE  Steady'
<1> USE ConstantsAssumption DEF object, history
<1>1. ASSUME NEW n \in Objs, Start(n) \/ Retry(n)
      PROVE  Steady'
  <2>1. PICK count : Launch(n, count)
    BY <1>1, Zenon DEF Start, Retry
  <2>2. /\ IF bAlreadyRun[cur] THEN n # cur /\ pc[n] = "idle" ELSE n = cur
        /\ iDataPos' = [iDataPos EXCEPT ![n] = iDataPos[cur]] /\ pc' = [pc EXCEPT ![n] = "Entry"]
        /\ cur' = n /\ app = "up" /\ pc[cur] = "idle" /\ UNCHANGED <<buf, disk, app, saved>>
    BY <2>1, Zenon DEF Launch, Construct
  <2>3. \A p \in Objs : pc[p] = "idle" /\ buf[p] = <<>>
    BY <2>2 DEF Steady, Shape
  <2>4. Position = iDataPos[cur] /\ Position' = iDataPos[cur]
    BY <2>2 DEF Position, TypeOK
  <2>5. IsFirst(disk, <<>>, iDataPos[cur]) /\ iDataPos[cur] \in 0 .. Total
    <3>1. cur \in Objs
      BY DEF TypeOK
    <3> QED
      BY <2>3, <2>4, <3>1 DEF Steady
  <2>6. pc'[n] = "Entry" /\ \A p \in Objs \ {n} : pc'[p] = "idle"
    BY <2>2, <2>3 DEF TypeOK
  <2>7. IsFirst(disk', buf'[cur'], Position')
    BY <2>2, <2>3, <2>4, <2>5
  <2> QED
    BY <2>2, <2>4, <2>5, <2>6, <2>7 DEF Steady
<1>2. ASSUME NEW n \in Objs
      PROVE  ~Readd(n)
  BY Zenon DEF Readd
<1>3. CASE Stop
  <2>1. /\ Status' = [Status EXCEPT ![cur] = "STOP"] /\ app = "up"
        /\ UNCHANGED <<cur, iDataPos, pc, next, buf, disk, app, saved>>
    BY <1>3, Zenon DEF Stop
  <2> QED
    BY <2>1 DEF Steady, Position
<1>4. CASE Close
  <2>1. /\ Status' = [Status EXCEPT ![cur] = "STOP"] /\ app = "up" /\ app' = "closing"
        /\ saved' = [size |-> iFileSize[cur], pos |-> iDataPos[cur]] /\ pc[cur] # "Count"
        /\ UNCHANGED <<cur, iDataPos, pc, next, buf, disk>>
    BY <1>4, Zenon DEF Close
  <2>2. saved'.pos = iDataPos'[cur'] /\ Status'[cur'] # "START"
    BY <2>1 DEF TypeOK
  <2> QED
    BY <2>1, <2>2 DEF Steady, Position
<1>5. CASE Exit
  <2>1. /\ app = "closing" /\ app' = "down" /\ \A o \in Objs : buf[o] = <<>>
        /\ pc' = [o \in Objs |-> "idle"] /\ buf' = [o \in Objs |-> <<>>]
        /\ UNCHANGED <<cur, disk, saved>>
    BY <1>5, Zenon DEF Exit, Gone
  <2>2. cur \in Objs
    BY DEF TypeOK
  <2>3. Position' = saved.pos /\ Position = saved.pos /\ pc[cur] # "Count"
    BY <2>1 DEF Position, Steady
  <2>4. IsFirst(disk, <<>>, saved.pos) /\ saved.pos \in 0 .. Total
    BY <2>1, <2>2, <2>3 DEF Steady
  <2>5. \A p \in Objs : pc'[p] = "idle" /\ buf'[p] = <<>>
    BY <2>1
  <2>6. IsFirst(disk', buf'[cur'], Position')
    BY <2>1, <2>2, <2>3, <2>4, <2>5
  <2> QED
    BY <2>1, <2>2, <2>3, <2>4, <2>5, <2>6 DEF Steady
<1>6. ~Crash
  BY Zenon DEF Crash
<1>7. CASE Relaunch
  <2>1. /\ app = "down" /\ app' = "up" /\ iDataPos' = [iDataPos EXCEPT ![cur] = AsLong(saved.pos)]
        /\ UNCHANGED <<cur, pc, buf, disk, saved>>
    BY <1>7, Zenon DEF Relaunch
  <2>2. cur \in Objs /\ pc[cur] = "idle"
    BY <2>1 DEF TypeOK, Shape
  <2>3. Position = saved.pos /\ saved.pos \in 0 .. Total
    BY <2>1 DEF Position, Steady
  <2>4. AsLong(saved.pos) = saved.pos
    BY <2>3, AsLongFits
  <2>5. iDataPos'[cur] = saved.pos
    BY <2>1, <2>2, <2>4 DEF TypeOK
  <2>6. Position' = saved.pos
    BY <2>1, <2>5 DEF Position
  <2> QED
    BY <2>1, <2>2, <2>3, <2>5, <2>6 DEF Steady
<1>8. ASSUME NEW o \in Objs, Worker(o)
      PROVE  Steady'
  BY <1>8, WorkerSteady
<1>9. ASSUME NEW o \in Objs, Flush(o)
      PROVE  Steady'
  <2>1. /\ buf[o] # <<>> /\ disk' = disk \o buf[o] /\ buf' = [buf EXCEPT ![o] = <<>>]
        /\ UNCHANGED <<cur, Status, iDataPos, pc, next, app, saved>>
    BY <1>9, Zenon DEF Flush, WriteOut
  <2>2. o = cur
    BY <2>1 DEF Steady, Shape
  <2> DEFINE p == IF pc[cur] = "Count" THEN Position + 1 ELSE Position
  <2>3. IsFirst(disk, buf[o], p)
    BY <2>2 DEF Steady
  <2>4. disk \in Seq(0 .. Total) /\ buf[o] \in Seq(0 .. Total)
    BY DEF TypeOK
  <2>5. IsFirst(disk', <<>>, p)
    BY <2>1, <2>3, <2>4, FirstFlush
  <2>6. Position' = Position /\ buf'[cur'] = <<>>
    BY <2>1, <2>2 DEF Position, TypeOK
  <2>7. IsFirst(disk', buf'[cur'], IF pc'[cur'] = "Count" THEN Position' + 1 ELSE Position')
    BY <2>1, <2>5, <2>6
  <2> QED
    BY <2>1, <2>6, <2>7 DEF Steady
<1>10. CASE UNCHANGED vars
  BY <1>10 DEF vars, Steady, Position
<1> QED
  BY <1>1, <1>2, <1>3, <1>4, <1>5, <1>6, <1>7, <1>8, <1>9, <1>10, Zenon DEF Next

\* TypeOK and Shape, whatever the server does.
LEMMA Shaped ==
  ASSUME Total <= LongMax
  PROVE  Spec => [](TypeOK /\ Shape)
<1>1. Init => Shape
  BY DEF Init, Shape, Sizes
<1>2. TypeOK /\ Shape /\ [Next]_vars => Shape'
  BY ShapeStep DEF TypeOK, Typed
<1> QED
  BY <1>1, <1>2, TypeCorrect, PTL DEF Spec

(***************************************************************************)
(* While nothing mixed up the file, the file and the stream hold exactly   *)
(* the bytes up to the position.                                           *)
(***************************************************************************)
THEOREM ExactBytes ==
  ASSUME RangeServer, Total <= LongMax
  PROVE  Spec => []Exact
<1>1. Init => Steady
  <2> SUFFICES ASSUME Init
               PROVE  Steady
    OBVIOUS
  <2>1. /\ pc = [o \in Objs |-> "idle"] /\ cur \in Objs /\ disk = <<>> /\ app = "up"
        /\ buf = [o \in Objs |-> <<>>] /\ iDataPos = [o \in Objs |-> 0]
    BY DEF Init
  <2>2. Position = 0 /\ pc[cur] = "idle" /\ buf[cur] = <<>>
    BY <2>1 DEF Position
  <2>3. IsFirst(<<>>, <<>>, 0)
    BY DEF IsFirst, First
  <2> QED
    BY <2>1, <2>2, <2>3, ConstantsAssumption DEF Steady
<1>2. ASSUME TypeOK, TypeOK', Shape, orderly => Steady, [Next]_vars
      PROVE  (orderly => Steady)'
  <2>1. SUFFICES ASSUME orderly'
                 PROVE  Steady'
    OBVIOUS
  <2>2. orderly
    BY <1>2, <2>1 DEF Next, vars, object, history, Start, Retry, Launch, Readd, Stop, Close, Exit, Crash,
           Relaunch, Worker, OpenFails, Open, Refuse, WrongSize, WriteData, Count,
           PerformOk, PerformFails, Failed, EntryTail, OnExit, Flush
  <2> QED
    BY <1>2, <2>1, <2>2, StepSteady
<1>3. ASSUME TypeOK, Shape, orderly => Steady
      PROVE  Exact
  <2> DEFINE p == IF app = "down" THEN saved.pos
                  ELSE iDataPos[cur] + (IF pc[cur] = "Count" THEN 1 ELSE 0)
  <2>1. SUFFICES ASSUME orderly
                 PROVE  disk \o buf[cur] = [i \in 1 .. p |-> i]
    BY DEF Exact
  <2>2. IsFirst(disk, buf[cur], IF pc[cur] = "Count" THEN Position + 1 ELSE Position)
        /\ Position \in 0 .. Total
    BY <1>3, <2>1 DEF Steady
  <2>3. app = "down" => pc[cur] # "Count"
    BY <1>3 DEF Shape, TypeOK
  <2>4. (IF pc[cur] = "Count" THEN Position + 1 ELSE Position) = p
    BY <2>2, <2>3 DEF Position
  <2> HIDE DEF p
  <2> QED
    BY <2>2, <2>4 DEF IsFirst, First
<1>4. Init => (orderly => Steady)
  BY <1>1
<1>5. TypeOK /\ TypeOK' /\ Shape /\ (orderly => Steady) /\ [Next]_vars => (orderly => Steady)'
  BY <1>2
<1>6. Spec => [](TypeOK /\ Shape)
  BY Shaped
<1>7. TypeOK /\ Shape /\ (orderly => Steady) => Exact
  BY <1>3
<1> QED
  BY <1>7, <1>4, <1>5, <1>6, PTL DEF Spec
=============================================================================
