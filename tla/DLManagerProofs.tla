--------------------------- MODULE DLManagerProofs ---------------------------
(***************************************************************************)
(* Theorems about DLManager for any objects, names and limits.             *)
(***************************************************************************)
EXTENDS DLManager, Induction, FiniteSetTheorems

(***************************************************************************)
(* Without, a recursive function, by induction on the length of the list.  *)
(***************************************************************************)
\* f is the function that Without(l, S) computes.
Keeps(f, l, S) ==
  f = [n \in 0 .. Len(l) |->
         IF n = 0 THEN <<>>
         ELSE IF l[n] \in S THEN f[n - 1] ELSE Append(f[n - 1], l[n])]

\* Such a function exists for every list.
LEMMA KeptExists ==
  ASSUME NEW X, NEW S
  PROVE  \A l \in Seq(X) : \E f : Keeps(f, l, S)
<1> DEFINE T == {n \in Nat : \A l \in Seq(X) : Len(l) = n => \E f : Keeps(f, l, S)}
<1>1. 0 \in T
  <2>1. ASSUME NEW l \in Seq(X), Len(l) = 0
        PROVE  \E f : Keeps(f, l, S)
    <3> DEFINE f == [n \in 0 .. 0 |-> <<>>]
    <3>1. Keeps(f, l, S)
      BY <2>1 DEF Keeps
    <3> QED
      BY <3>1
  <2> QED
    BY <2>1
<1>2. ASSUME NEW n \in Nat, n \in T
      PROVE  n + 1 \in T
  <2> SUFFICES ASSUME NEW l \in Seq(X), Len(l) = n + 1
               PROVE  \E f : Keeps(f, l, S)
    BY <1>2
  <2>1. PICK t \in Seq(X), e \in X : l = Append(t, e)
    <3>1. l # <<>>
      BY EmptySeq
    <3> QED
      BY <3>1, SequenceEmptyOrAppend
  <2>2. Len(t) = n /\ l[n + 1] = e /\ \A i \in 1 .. n : l[i] = t[i]
    BY <2>1, AppendProperties, LenProperties
  <2>3. PICK g : Keeps(g, t, S)
    BY <1>2, <2>2
  <2>4. \A i \in 0 .. n : g[i] = IF i = 0 THEN <<>>
                                 ELSE IF t[i] \in S THEN g[i - 1] ELSE Append(g[i - 1], t[i])
    <3>1. g = [i \in 0 .. n |-> IF i = 0 THEN <<>>
                                ELSE IF t[i] \in S THEN g[i - 1] ELSE Append(g[i - 1], t[i])]
      BY <2>2, <2>3, Zenon DEF Keeps
    <3> QED
      BY <3>1, Zenon
  <2> DEFINE f == [i \in 0 .. n + 1 |->
                     IF i <= n THEN g[i] ELSE IF e \in S THEN g[n] ELSE Append(g[n], e)]
  <2>5. ASSUME NEW i \in 0 .. n + 1
        PROVE  f[i] = IF i = 0 THEN <<>>
                      ELSE IF l[i] \in S THEN f[i - 1] ELSE Append(f[i - 1], l[i])
    <3>1. CASE i <= n
      <4>1. i \in 0 .. n /\ f[i] = g[i] /\ (i # 0 => f[i - 1] = g[i - 1] /\ l[i] = t[i])
        BY <2>2, <3>1
      <4> QED
        BY <2>4, <4>1
    <3>2. CASE i = n + 1
      <4>1. f[i] = IF e \in S THEN g[n] ELSE Append(g[n], e)
        BY <3>2
      <4>2. i # 0 /\ f[i - 1] = g[n] /\ l[i] = e
        BY <2>2, <3>2
      <4> QED
        BY <4>1, <4>2
    <3> QED
      BY <3>1, <3>2
  <2>6. Keeps(f, l, S)
    BY <2>5 DEF Keeps
  <2> QED
    BY <2>6
<1> HIDE DEF T
<1>3. Nat \subseteq T
  BY <1>1, <1>2, SetInduction
<1>4. ASSUME NEW l \in Seq(X)
      PROVE  \E f : Keeps(f, l, S)
  <2>1. Len(l) \in T
    BY <1>3, LenProperties
  <2> QED
    BY <2>1 DEF T
<1> QED
  BY <1>4

\* w is what is left of the first n elements of l: those not in S, in their order.
Selects(w, l, n, S) ==
  /\ Len(w) <= n
  /\ Len(w) = n => \A i \in 1 .. n : w[i] = l[i]
  /\ \A i \in 1 .. n : l[i] \notin S => \E k \in 1 .. Len(w) : w[k] = l[i]
  /\ \E e \in [1 .. Len(w) -> 1 .. n] :
       /\ \A k \in 1 .. Len(w) : w[k] = l[e[k]] /\ w[k] \notin S
       /\ \A j, k \in 1 .. Len(w) : j < k => e[j] < e[k]

\* The objects of a set are removed, the others stay in their order, and a list that
\* is as long as before is the list from before.
LEMMA WithoutSelects ==
  ASSUME NEW X, NEW l \in Seq(X), NEW S
  PROVE  Without(l, S) \in Seq(X) /\ Selects(Without(l, S), l, Len(l), S)
<1> DEFINE f == CHOOSE g : Keeps(g, l, S)
<1>1. Keeps(f, l, S)
  BY KeptExists
<1>2. Without(l, S) = f[Len(l)]
  BY DEF Without, Keeps
<1> HIDE DEF f
<1>3. Len(l) \in Nat
  BY LenProperties
<1>4. \A n \in 0 .. Len(l) : f[n] = IF n = 0 THEN <<>>
        ELSE IF l[n] \in S THEN f[n - 1] ELSE Append(f[n - 1], l[n])
  <2> DEFINE v(n) == IF n = 0 THEN <<>>
                     ELSE IF l[n] \in S THEN f[n - 1] ELSE Append(f[n - 1], l[n])
  <2>1. f = [n \in 0 .. Len(l) |-> v(n)]
    BY <1>1, Zenon DEF Keeps
  <2> HIDE DEF v
  <2>2. \A n \in 0 .. Len(l) : f[n] = v(n)
    BY <2>1, Zenon
  <2> QED
    BY <2>2, Zenon DEF v
<1> DEFINE T == {n \in Nat : n <= Len(l) => f[n] \in Seq(X) /\ Selects(f[n], l, n, S)}
<1>5. 0 \in T
  <2>1. f[0] = <<>>
    BY <1>3, <1>4
  <2>2. <<>> \in Seq(X) /\ Selects(<<>>, l, 0, S)
    <3> DEFINE w == <<>>
               e == [k \in 1 .. 0 |-> 1]
    <3>1. w \in Seq(X) /\ Len(w) = 0
      OBVIOUS
    <3>2. e \in [1 .. Len(w) -> 1 .. 0]
      BY <3>1
    <3> HIDE DEF w, e
    <3>3. \A k : k \notin 1 .. Len(w) /\ k \notin 1 .. 0
      BY <3>1
    <3>4. Len(w) <= 0
      BY <3>1
    <3>5. Selects(w, l, 0, S)
      BY <3>2, <3>3, <3>4, Zenon DEF Selects
    <3> QED
      BY <3>1, <3>5 DEF w
  <2> QED
    BY <2>1, <2>2
<1>6. ASSUME NEW n \in Nat, n \in T
      PROVE  n + 1 \in T
  <2> SUFFICES ASSUME n + 1 <= Len(l)
               PROVE  f[n + 1] \in Seq(X) /\ Selects(f[n + 1], l, n + 1, S)
    OBVIOUS
  <2> DEFINE w == f[n]
  <2>1. w \in Seq(X) /\ Selects(w, l, n, S)
    BY <1>3, <1>6
  <2>2. f[n + 1] = IF l[n + 1] \in S THEN w ELSE Append(w, l[n + 1])
    <3>1. n + 1 \in 0 .. Len(l) /\ n + 1 # 0 /\ (n + 1) - 1 = n
      BY <1>3
    <3> QED
      BY <1>4, <3>1
  <2>3. l[n + 1] \in X /\ Len(w) \in Nat
    BY <1>3, <2>1, ElementOfSeq, LenProperties
  <2> HIDE DEF w
  <2>4. PICK e \in [1 .. Len(w) -> 1 .. n] :
          /\ \A k \in 1 .. Len(w) : w[k] = l[e[k]] /\ w[k] \notin S
          /\ \A j, k \in 1 .. Len(w) : j < k => e[j] < e[k]
    BY <2>1 DEF Selects
  <2>5. CASE l[n + 1] \in S
    <3>1. e \in [1 .. Len(w) -> 1 .. n + 1]
      OBVIOUS
    <3>2. Len(w) <= n /\ \A i \in 1 .. n : l[i] \notin S => \E k \in 1 .. Len(w) : w[k] = l[i]
      BY <2>1 DEF Selects
    <3>3. Len(w) <= n + 1 /\ Len(w) # n + 1
      BY <2>3, <3>2
    <3>4. \A i \in 1 .. n + 1 : l[i] \notin S => \E k \in 1 .. Len(w) : w[k] = l[i]
      BY <2>5, <3>2
    <3>5. Selects(w, l, n + 1, S)
      BY <2>4, <3>1, <3>3, <3>4 DEF Selects
    <3> QED
      BY <2>1, <2>2, <2>5, <3>5
  <2>6. CASE l[n + 1] \notin S
    <3> DEFINE v == Append(w, l[n + 1])
               d == [k \in 1 .. Len(w) + 1 |-> IF k <= Len(w) THEN e[k] ELSE n + 1]
    <3>1. v \in Seq(X) /\ Len(v) = Len(w) + 1 /\ v[Len(w) + 1] = l[n + 1]
          /\ \A i \in 1 .. Len(w) : v[i] = w[i]
      BY <2>1, <2>3, AppendProperties
    <3> HIDE DEF v
    <3>2. d \in [1 .. Len(v) -> 1 .. n + 1]
      BY <2>3, <3>1
    <3>3. \A k \in 1 .. Len(v) : v[k] = l[d[k]] /\ v[k] \notin S
      <4> TAKE k \in 1 .. Len(v)
      <4>1. CASE k <= Len(w)
        <5>1. k \in 1 .. Len(w) /\ d[k] = e[k]
          BY <2>3, <3>1, <4>1
        <5> QED
          BY <2>4, <3>1, <5>1
      <4>2. CASE k = Len(w) + 1
        <5>1. d[k] = n + 1
          BY <2>3, <4>2
        <5> QED
          BY <2>6, <3>1, <4>2, <5>1
      <4> QED
        BY <2>3, <3>1, <4>1, <4>2
    <3>4. \A j, k \in 1 .. Len(v) : j < k => d[j] < d[k]
      <4> SUFFICES ASSUME NEW j \in 1 .. Len(v), NEW k \in 1 .. Len(v), j < k
                   PROVE  d[j] < d[k]
        OBVIOUS
      <4>1. j \in 1 .. Len(w) /\ d[j] = e[j]
        BY <2>3, <3>1
      <4>2. CASE k <= Len(w)
        <5>1. k \in 1 .. Len(w) /\ d[k] = e[k]
          BY <2>3, <3>1, <4>2
        <5> QED
          BY <2>4, <4>1, <5>1
      <4>3. CASE k = Len(w) + 1
        <5>1. d[k] = n + 1 /\ e[j] \in 1 .. n
          BY <2>3, <4>1, <4>3
        <5> QED
          BY <4>1, <5>1
      <4> QED
        BY <2>3, <3>1, <4>2, <4>3
    <3>5. Len(w) <= n /\ (Len(w) = n => \A i \in 1 .. n : w[i] = l[i])
      BY <2>1 DEF Selects
    <3>6. Len(v) <= n + 1 /\ (Len(v) = n + 1 => \A i \in 1 .. n + 1 : v[i] = l[i])
      BY <2>3, <3>1, <3>5
    <3>7. \A i \in 1 .. n + 1 : l[i] \notin S => \E k \in 1 .. Len(v) : v[k] = l[i]
      <4> SUFFICES ASSUME NEW i \in 1 .. n + 1, l[i] \notin S
                   PROVE  \E k \in 1 .. Len(v) : v[k] = l[i]
        OBVIOUS
      <4>1. CASE i \in 1 .. n
        <5>1. PICK k \in 1 .. Len(w) : w[k] = l[i]
          BY <2>1, <4>1 DEF Selects
        <5>2. k \in 1 .. Len(v) /\ v[k] = l[i]
          BY <2>3, <3>1, <5>1
        <5> QED
          BY <5>2
      <4>2. CASE i = n + 1
        <5>1. Len(w) + 1 \in 1 .. Len(v)
          BY <2>3, <3>1
        <5> QED
          BY <3>1, <4>2, <5>1
      <4> QED
        BY <4>1, <4>2
    <3> HIDE DEF d
    <3>8. Selects(v, l, n + 1, S)
      BY <3>2, <3>3, <3>4, <3>6, <3>7 DEF Selects
    <3> QED
      BY <2>2, <2>6, <3>1, <3>8 DEF v
  <2> QED
    BY <2>5, <2>6
<1> HIDE DEF T
<1>7. Nat \subseteq T
  BY <1>5, <1>6, SetInduction
<1>8. f[Len(l)] \in Seq(X) /\ Selects(f[Len(l)], l, Len(l), S)
  BY <1>3, <1>7 DEF T
<1> QED
  BY <1>2, <1>8

(***************************************************************************)
(* The inductive invariant.                                                *)
(***************************************************************************)
\* Calls in progress inside the manager.
Inner == {"boot", "retry", "wait", "start", "swap", "run", "ran"}

\* A stack of calls: those inside the manager are above the others, the constructor's
\* loop below them; one of StartDownload is on top until its refresh; no two are to
\* run the same thread.
Shape(s) ==
  /\ \A k \in DOMAIN s : s[k].at \in Inner => \A j \in 1 .. k : s[j].at \in Inner
  /\ \A k \in DOMAIN s : s[k].at \in {"start", "swap", "ran"} => k = 1
  /\ \A j, k \in DOMAIN s : s[j].at = "run" /\ s[k].at = "run" /\ s[j].dl = s[k].dl => j = k
  /\ \A j, k \in DOMAIN s : s[j].at = "boot" /\ s[k].at \in Inner => k <= j

\* An object that nothing has touched since the list was loaded.
Untouched(o, st, th, ran) == st[o] \in {"STOP", "FINISH"} /\ th[o] = "new" /\ ~ran[o]

\* What a call found before, or did, is still true of list, status and threads.
Agrees(f, l, st, th, ran) ==
  /\ f.at = "retry" => f.i # 0
  /\ f.at \in {"start", "swap"} => f.dl \in Range(l) /\ st[f.dl] \in {"STOP", "ERROR", "RETRY"}
  /\ f.at = "swap" => f.i \in DOMAIN l /\ l[f.i] = f.dl
  /\ f.at = "run" => /\ f.dl \in Range(l) /\ st[f.dl] = "START"
                     /\ th[f.dl] = "new" /\ ~ran[f.dl]
  /\ f.at = "ran" => th[f.dl] # "new" /\ ~f.failed
  /\ f.at = "boot" => f.i <= Len(l) /\ \A j \in 1 .. f.i : Untouched(l[j], st, th, ran)

\* The constructor's loop has yet to come to what lies below its index.
Ahead(s, l) ==
  \A j, k \in DOMAIN s : s[j].at = "boot" /\ s[k].at \in {"start", "swap"}
    => \A i \in 1 .. s[j].i : l[i] # s[k].dl

Stacks ==
  \A t \in Threads :
    /\ Shape(stack[t]) /\ Ahead(stack[t], List)
    /\ \A k \in DOMAIN stack[t] : Agrees(stack[t][k], List, Status, thread, bAlreadyRun)

\* One call into the manager at a time.
Alone == \A t, u \in Threads : Inside(t) /\ Inside(u) => t = u

\* A worker belongs to a thread that was run.
Threaded == \A o \in Objs : stack[o] # <<>> => thread[o] # "new"

\* bAlreadyRun is set at once.
Marked == \A o \in Listed : thread[o] # "new" /\ ~bAlreadyRun[o] =>
            \E t \in Threads : AtTop(t, "ran") /\ Top(t).dl = o

Inv == TypeOK /\ Stacks /\ Alone /\ Threaded /\ Marked /\ WaitsUnrun /\ NoDuplicate

\* A worker has lines left in which the status changes.
Working(o) == \E k \in DOMAIN stack[o] : stack[o][k].at \in {"entry", "data", "failed", "tail"}

\* Or a call is about to run its thread.
InHand(o) == Working(o) \/ \E t \in Threads : \E k \in DOMAIN stack[t] : stack[t][k] = Run(o)

AtWork == \A o \in Listed : Status[o] = "START" => InHand(o)
-----------------------------------------------------------------------------
(***************************************************************************)
(* Frames.                                                                 *)
(***************************************************************************)
Outer == WorkLabels \cup {"enter"}

\* What a frame holds.
LEMMA FrameFields ==
  ASSUME NEW f \in Frames
  PROVE  /\ f.at \in Inner \cup Outer
         /\ f.at \in {"start", "swap", "run", "ran"} => f.dl \in Objs
         /\ f.at \in {"retry", "wait", "boot", "swap"} => f.i \in Nat
         /\ f.at \in {"wait", "boot"} => f.n \in Nat
         /\ f.at = "start" => f.reset \in BOOLEAN /\ f.force \in BOOLEAN
         /\ f.at = "swap" => f.wait \in BOOLEAN
         /\ f.at = "ran" => f.failed \in BOOLEAN
BY DEF Frames, Enter, Work, WorkLabels, Inner, Outer

\* A call is either inside the manager or not.
LEMMA InnerOuter == \A l : l \in Inner => l \notin Outer
BY DEF Inner, Outer, WorkLabels

\* The frames that the actions push.
LEMMA FrameTypes ==
  ASSUME NEW o \in Objs, NEW i \in Nat, NEW n \in Nat, NEW b \in BOOLEAN, NEW c \in BOOLEAN
  PROVE  /\ Enter \in Frames /\ Retry(i) \in Frames /\ Wait(i, n) \in Frames
         /\ Boot(i, n) \in Frames /\ Start(o, b, c) \in Frames /\ Swap(o, i, b) \in Frames
         /\ Run(o) \in Frames /\ Ran(o, b) \in Frames
BY DEF Frames, Enter, Retry, Wait, Boot, Start, Swap, Run, Ran

\* The frames of a worker.
LEMMA WorkTypes ==
  \A l \in WorkLabels : Work(l) \in Frames /\ Work(l).at = l
BY DEF Frames, Work

\* A frame is replaced by others.
LEMMA Pushed ==
  ASSUME NEW S, NEW s \in Seq(S), s # <<>>, NEW fs \in Seq(S)
  PROVE  /\ fs \o Tail(s) \in Seq(S)
         /\ Len(fs) \in Nat /\ Len(s) \in Nat \ {0}
         /\ Len(fs \o Tail(s)) = Len(fs) + Len(s) - 1
         /\ \A k \in 1 .. Len(fs) : (fs \o Tail(s))[k] = fs[k]
         /\ \A k \in 2 .. Len(s) : (fs \o Tail(s))[k + Len(fs) - 1] = s[k]
<1>1. /\ Len(fs) \in Nat /\ Len(s) \in Nat \ {0} /\ Tail(s) \in Seq(S)
      /\ Len(Tail(s)) = Len(s) - 1 /\ \A i \in 1 .. Len(s) - 1 : Tail(s)[i] = s[i + 1]
  BY HeadTailProperties, LenProperties, EmptySeq
<1>2. /\ fs \o Tail(s) \in Seq(S)
      /\ Len(fs \o Tail(s)) = Len(fs) + Len(Tail(s))
      /\ \A k \in 1 .. Len(fs) + Len(Tail(s)) :
           (fs \o Tail(s))[k] = IF k <= Len(fs) THEN fs[k] ELSE Tail(s)[k - Len(fs)]
  BY <1>1, ConcatProperties
<1> DEFINE r == fs \o Tail(s)
<1> HIDE DEF r
<1>3. \A k \in 1 .. Len(fs) : r[k] = fs[k]
  BY <1>1, <1>2 DEF r
<1>4. ASSUME NEW k \in 2 .. Len(s)
      PROVE  r[k + Len(fs) - 1] = s[k]
  <2>1. /\ k + Len(fs) - 1 \in 1 .. Len(fs) + Len(Tail(s)) /\ ~(k + Len(fs) - 1 <= Len(fs))
        /\ (k + Len(fs) - 1) - Len(fs) = k - 1 /\ k - 1 \in 1 .. Len(s) - 1 /\ (k - 1) + 1 = k
    BY <1>1
  <2>2. r[k + Len(fs) - 1] = Tail(s)[k - 1]
    BY <1>2, <2>1 DEF r
  <2> QED
    BY <1>1, <2>1, <2>2
<1> QED
  BY <1>1, <1>2, <1>3, <1>4 DEF r

\* Where a frame of the new stack comes from.
LEMMA Places ==
  ASSUME NEW S, NEW s \in Seq(S), s # <<>>, NEW fs \in Seq(S)
  PROVE  \A k \in DOMAIN (fs \o Tail(s)) :
           \/ k \in DOMAIN fs /\ k \in 1 .. Len(fs) /\ (fs \o Tail(s))[k] = fs[k]
           \/ \E m \in 2 .. Len(s) : /\ k = m + Len(fs) - 1 /\ m \in DOMAIN s
                                     /\ (fs \o Tail(s))[k] = s[m]
<1> DEFINE r == fs \o Tail(s)
<1>1. /\ r \in Seq(S) /\ Len(fs) \in Nat /\ Len(s) \in Nat \ {0} /\ Len(r) = Len(fs) + Len(s) - 1
      /\ \A i \in 1 .. Len(fs) : r[i] = fs[i]
      /\ \A i \in 2 .. Len(s) : r[i + Len(fs) - 1] = s[i]
  BY Pushed
<1> SUFFICES ASSUME NEW k \in DOMAIN r
             PROVE  \/ k \in DOMAIN fs /\ k \in 1 .. Len(fs) /\ r[k] = fs[k]
                    \/ \E m \in 2 .. Len(s) : k = m + Len(fs) - 1 /\ m \in DOMAIN s /\ r[k] = s[m]
  OBVIOUS
<1> HIDE DEF r
<1>2. k \in 1 .. Len(r) /\ DOMAIN fs = 1 .. Len(fs) /\ DOMAIN s = 1 .. Len(s)
  BY <1>1, LenProperties
<1>3. CASE k <= Len(fs)
  BY <1>1, <1>2, <1>3
<1>4. CASE k > Len(fs)
  <2>1. k - Len(fs) + 1 \in 2 .. Len(s) /\ k = (k - Len(fs) + 1) + Len(fs) - 1
    BY <1>1, <1>2, <1>4
  <2>2. r[k] = s[k - Len(fs) + 1] /\ k - Len(fs) + 1 \in DOMAIN s
    BY <1>1, <1>2, <2>1, SMTT(30)
  <2> QED
    BY <2>1, <2>2
<1> QED
  BY <1>1, <1>2, <1>3, <1>4

\* The frames fs may take the place of the top of s, where l is the list.
Fits(fs, s, l) ==
  /\ \A k \in DOMAIN fs : fs[k].at \in Inner
  /\ \A k \in DOMAIN fs : fs[k].at \in {"start", "swap", "ran"} => k = 1
  /\ \A j, k \in DOMAIN fs : fs[j].at = "run" /\ fs[k].at = "run" => j = k
  /\ \A j \in DOMAIN fs, m \in 2 .. Len(s) :
       fs[j].at = "run" /\ s[m].at = "run" => fs[j].dl # s[m].dl
  /\ \A j \in DOMAIN fs : fs[j].at = "boot" =>
       /\ \A k \in DOMAIN fs : k <= j /\ fs[k].at \notin {"start", "swap"}
       /\ \A m \in 2 .. Len(s) : s[m].at \notin Inner
  /\ \A j \in DOMAIN fs, m \in 2 .. Len(s) :
       fs[j].at \in {"start", "swap"} /\ s[m].at = "boot" => \A i \in 1 .. s[m].i : l[i] # fs[j].dl

\* A stack keeps its shape when frames that fit replace its top.
LEMMA ShapePush ==
  ASSUME NEW s \in Seq(Frames), s # <<>>, Shape(s), NEW fs \in Seq(Frames), NEW l, Fits(fs, s, l)
  PROVE  Shape(fs \o Tail(s))
<1> DEFINE r == fs \o Tail(s)
           n == Len(fs)
<1>1. n \in Nat /\ Len(s) \in Nat \ {0} /\ DOMAIN fs = 1 .. n /\ DOMAIN s = 1 .. Len(s)
  BY Pushed, LenProperties
<1>2. \A k \in DOMAIN r : \/ k \in 1 .. n /\ r[k] = fs[k]
                          \/ \E m \in 2 .. Len(s) : k = m + n - 1 /\ r[k] = s[m]
  BY Places
<1>3. /\ \A k \in 1 .. n : r[k] = fs[k]
      /\ \A k \in 2 .. Len(s) : r[k + n - 1] = s[k]
  BY Pushed
<1> HIDE DEF r, n
<1>4. ASSUME NEW k \in DOMAIN r, r[k].at \in Inner, NEW j \in 1 .. k
      PROVE  r[j].at \in Inner
  <2>1. CASE j \in 1 .. n
    BY <1>1, <1>3, <2>1 DEF Fits
  <2>2. CASE j \notin 1 .. n
    <3>0. k \in Nat /\ k >= j
      BY <1>1, <1>2
    <3>1. PICK m \in 2 .. Len(s) : k = m + n - 1 /\ r[k] = s[m]
      BY <1>1, <1>2, <2>2, <3>0
    <3>2. j - n + 1 \in 2 .. Len(s) /\ j - n + 1 \in 1 .. m /\ j = (j - n + 1) + n - 1
      BY <1>1, <2>2, <3>0, <3>1
    <3>3. r[j] = s[j - n + 1]
      BY <1>3, <3>2
    <3>4. m \in DOMAIN s /\ s[m].at \in Inner
      BY <1>1, <1>4, <3>1
    <3>5. s[j - n + 1].at \in Inner
      BY <3>2, <3>4 DEF Shape
    <3> QED
      BY <3>3, <3>5
  <2> QED
    BY <2>1, <2>2
<1>5. ASSUME NEW k \in DOMAIN r, r[k].at \in {"start", "swap", "ran"}
      PROVE  k = 1
  <2>1. CASE k \in 1 .. n /\ r[k] = fs[k]
    BY <1>1, <1>5, <2>1 DEF Fits
  <2>2. ASSUME NEW m \in 2 .. Len(s), r[k] = s[m]
        PROVE  FALSE
    <3>1. m \in DOMAIN s /\ m # 1 /\ s[m].at \in {"start", "swap", "ran"}
      BY <1>1, <1>5, <2>2
    <3> QED
      BY <3>1 DEF Shape
  <2> QED
    BY <1>2, <2>1, <2>2
<1>6. ASSUME NEW j \in DOMAIN r, NEW k \in DOMAIN r,
             r[j].at = "run", r[k].at = "run", r[j].dl = r[k].dl
      PROVE  j = k
  <2>1. CASE j \in 1 .. n /\ r[j] = fs[j] /\ k \in 1 .. n /\ r[k] = fs[k]
    BY <1>1, <1>6, <2>1 DEF Fits
  <2>2. ASSUME NEW a \in DOMAIN r, NEW b \in DOMAIN r, a \in 1 .. n, r[a] = fs[a],
               NEW m \in 2 .. Len(s), r[b] = s[m],
               r[a].at = "run", r[b].at = "run", r[a].dl = r[b].dl
        PROVE  FALSE
    BY <1>1, <2>2 DEF Fits
  <2>3. ASSUME NEW m \in 2 .. Len(s), j = m + n - 1, r[j] = s[m],
               NEW q \in 2 .. Len(s), k = q + n - 1, r[k] = s[q]
        PROVE  j = k
    <3>1. m \in DOMAIN s /\ q \in DOMAIN s
      BY <1>1
    <3>2. m = q
      BY <1>6, <2>3, <3>1 DEF Shape
    <3> QED
      BY <2>3, <3>2
  <2> QED
    BY <1>2, <1>6, <2>1, <2>2, <2>3
<1>7. ASSUME NEW j \in DOMAIN r, NEW k \in DOMAIN r, r[j].at = "boot", r[k].at \in Inner
      PROVE  k <= j
  <2>1. CASE j \in 1 .. n /\ r[j] = fs[j]
    <3>1. /\ \A i \in DOMAIN fs : i <= j
          /\ \A m \in 2 .. Len(s) : s[m].at \notin Inner
      BY <1>1, <1>7, <2>1 DEF Fits
    <3>2. k \in DOMAIN fs
      BY <1>1, <1>2, <1>7, <3>1
    <3> QED
      BY <3>1, <3>2
  <2>2. ASSUME NEW m \in 2 .. Len(s), j = m + n - 1, r[j] = s[m]
        PROVE  k <= j
    <3>1. CASE k \in 1 .. n
      BY <1>1, <2>2, <3>1
    <3>2. ASSUME NEW q \in 2 .. Len(s), k = q + n - 1, r[k] = s[q]
          PROVE  k <= j
      <4>1. m \in DOMAIN s /\ q \in DOMAIN s
        BY <1>1
      <4>2. q <= m
        BY <1>7, <2>2, <3>2, <4>1 DEF Shape
      <4> QED
        BY <1>1, <2>2, <3>2, <4>2
    <3> QED
      BY <1>2, <3>1, <3>2
  <2> QED
    BY <1>2, <2>1, <2>2
<1>8. Shape(r)
  BY <1>4, <1>5, <1>6, <1>7 DEF Shape
<1> QED
  BY <1>8 DEF r

\* And the constructor's loop stays ahead of the starts.
LEMMA AheadPush ==
  ASSUME NEW s \in Seq(Frames), s # <<>>, Shape(s), NEW fs \in Seq(Frames), NEW l, Fits(fs, s, l)
  PROVE  Ahead(fs \o Tail(s), l)
<1> DEFINE r == fs \o Tail(s)
           n == Len(fs)
<1>1. n \in Nat /\ Len(s) \in Nat \ {0} /\ DOMAIN fs = 1 .. n /\ DOMAIN s = 1 .. Len(s)
  BY Pushed, LenProperties
<1>2. \A k \in DOMAIN r : \/ k \in 1 .. n /\ r[k] = fs[k]
                          \/ \E m \in 2 .. Len(s) : k = m + n - 1 /\ r[k] = s[m]
  BY Places
<1> HIDE DEF r, n
<1>3. ASSUME NEW j \in DOMAIN r, NEW k \in DOMAIN r, r[j].at = "boot",
             r[k].at \in {"start", "swap"}
      PROVE  \A i \in 1 .. r[j].i : l[i] # r[k].dl
  <2>1. k \in 1 .. n /\ r[k] = fs[k]
    <3>1. ASSUME NEW m \in 2 .. Len(s), r[k] = s[m]
          PROVE  FALSE
      <4>1. m \in DOMAIN s /\ m # 1
        BY <1>1
      <4>2. s[m].at \in {"start", "swap"}
        BY <1>3, <3>1
      <4> QED
        BY <4>1, <4>2 DEF Shape
    <3> QED
      BY <1>2, <3>1
  <2>2. ~(j \in 1 .. n /\ r[j] = fs[j])
    BY <1>1, <1>3, <2>1 DEF Fits
  <2>3. PICK m \in 2 .. Len(s) : r[j] = s[m]
    BY <1>2, <2>2
  <2>4. k \in DOMAIN fs /\ fs[k].at \in {"start", "swap"} /\ s[m].at = "boot"
    BY <1>1, <1>3, <2>1, <2>3
  <2>5. \A i \in 1 .. s[m].i : l[i] # fs[k].dl
    BY <2>4 DEF Fits
  <2> QED
    BY <2>1, <2>3, <2>5
<1>4. Ahead(r, l)
  BY <1>3 DEF Ahead
<1> QED
  BY <1>4 DEF r
-----------------------------------------------------------------------------
(***************************************************************************)
(* Stacks.                                                                 *)
(***************************************************************************)
\* A stack without a call inside the manager.
Out(s) == \A k \in DOMAIN s : s[k].at \notin Inner

\* Such a stack asks nothing.
LEMMA OutGood ==
  ASSUME NEW s, Out(s), NEW l, NEW st, NEW th, NEW ran
  PROVE  Shape(s) /\ Ahead(s, l) /\ \A k \in DOMAIN s : Agrees(s[k], l, st, th, ran)
BY DEF Out, Shape, Ahead, Agrees, Inner

\* A thread is inside the manager when the call on top is.
LEMMA InsideTop ==
  ASSUME TypeOK, NEW t \in Threads
  PROVE  /\ stack[t] \in Seq(Frames)
         /\ stack[t] # <<>> => /\ 1 \in DOMAIN stack[t] /\ stack[t][1] \in Frames
                               /\ Inside(t) <=> stack[t][1].at \in Inner
<1>1. stack[t] \in Seq(Frames)
  BY DEF TypeOK
<1>2. ASSUME stack[t] # <<>>
      PROVE  1 \in DOMAIN stack[t] /\ stack[t][1] \in Frames
  BY <1>1, <1>2, LenProperties, EmptySeq
<1>3. ASSUME stack[t] # <<>>
      PROVE  Inside(t) <=> stack[t][1].at \in Inner
  <2>1. stack[t][1].at \in Inner \cup Outer
    BY <1>2, <1>3, FrameFields
  <2> QED
    BY <1>3, <2>1, InnerOuter DEF Inside, Top, Outer
<1> QED
  BY <1>1, <1>2, <1>3

\* A thread that is not inside has no call inside further down.
LEMMA OutsideOut ==
  ASSUME TypeOK, Stacks, NEW t \in Threads, ~Inside(t)
  PROVE  Out(stack[t])
<1> SUFFICES ASSUME NEW k \in DOMAIN stack[t], stack[t][k].at \in Inner
             PROVE  FALSE
  BY DEF Out
<1>1. stack[t] \in Seq(Frames) /\ stack[t] # <<>> /\ k \in 1 .. Len(stack[t])
  BY InsideTop, LenProperties
<1>2. stack[t][1].at \in Inner
  <2>1. 1 \in 1 .. k
    BY <1>1
  <2>2. Shape(stack[t])
    BY DEF Stacks
  <2> QED
    BY <2>1, <2>2 DEF Shape
<1> QED
  BY <1>1, <1>2, InsideTop

\* While a thread is inside the manager no other one has calls there.
LEMMA OthersOut ==
  ASSUME TypeOK, Stacks, Alone, NEW t \in Threads, Inside(t), NEW u \in Threads \ {t}
  PROVE  Out(stack[u])
<1>1. ~Inside(u)
  BY DEF Alone
<1> QED
  BY <1>1, OutsideOut

\* After a step one thread is inside, and its stack is good.
LEMMA OneGood ==
  ASSUME NEW t \in Threads, \A u \in Threads \ {t} : Out(stack'[u]),
         Shape(stack'[t]), Ahead(stack'[t], List'),
         \A k \in DOMAIN stack'[t] : Agrees(stack'[t][k], List', Status', thread', bAlreadyRun'),
         stack' \in [Threads -> Seq(Frames)]
  PROVE  Stacks' /\ Alone'
<1>1. Stacks'
  <2>1. ASSUME NEW u \in Threads \ {t}
        PROVE  /\ Shape(stack'[u]) /\ Ahead(stack'[u], List')
               /\ \A k \in DOMAIN stack'[u] :
                    Agrees(stack'[u][k], List', Status', thread', bAlreadyRun')
    <3>1. Out(stack'[u])
      OBVIOUS
    <3> QED
      BY <3>1, OutGood, Zenon
  <2> QED
    BY <2>1, Zenon DEF Stacks
<1>2. ASSUME NEW u \in Threads \ {t}
      PROVE  ~Inside(u)'
  <2>1. ASSUME stack'[u] # <<>>
        PROVE  stack'[u][1].at \in Outer
    <3>1. 1 \in DOMAIN stack'[u] /\ stack'[u][1] \in Frames
      BY <2>1, LenProperties, EmptySeq
    <3>2. stack'[u][1].at \notin Inner
      BY <3>1 DEF Out
    <3> QED
      BY <3>1, <3>2, FrameFields
  <2> QED
    BY <2>1 DEF Inside, Top, Outer
<1>3. Alone'
  BY <1>2 DEF Alone
<1> QED
  BY <1>1, <1>3

\* A step inside the manager: frames that fit replace the top, and agree with the new
\* state, as do the frames below.
LEMMA ManagerKeeps ==
  ASSUME TypeOK, Stacks, Alone, NEW t \in Threads, Inside(t),
         NEW fs \in Seq(Frames), Fits(fs, stack[t], List'),
         stack' \in [Threads -> Seq(Frames)],
         stack'[t] = fs \o Tail(stack[t]),
         \A u \in Threads \ {t} : Out(stack'[u]),
         \A k \in DOMAIN fs : Agrees(fs[k], List', Status', thread', bAlreadyRun'),
         \A m \in 2 .. Len(stack[t]) :
           Agrees(stack[t][m], List', Status', thread', bAlreadyRun')
  PROVE  Stacks' /\ Alone'
<1> DEFINE s == stack[t]
<1>1. s \in Seq(Frames) /\ s # <<>> /\ Shape(s)
  BY InsideTop DEF Inside, Stacks
<1>2. Shape(stack'[t])
  BY <1>1, ShapePush
<1>3. Ahead(stack'[t], List')
  BY <1>1, AheadPush
<1>4. ASSUME NEW k \in DOMAIN stack'[t]
      PROVE  Agrees(stack'[t][k], List', Status', thread', bAlreadyRun')
  <2>1. \/ k \in DOMAIN fs /\ stack'[t][k] = fs[k]
        \/ \E m \in 2 .. Len(s) : stack'[t][k] = s[m]
    BY <1>1, <1>4, Places, SMTT(30)
  <2> QED
    BY <2>1
<1> QED
  BY <1>2, <1>3, <1>4, OneGood

\* A call ends: nothing takes the place of its frame.
LEMMA FitsNone == \A s, l : Fits(<<>>, s, l)
BY DEF Fits

\* One frame, which is not about to run a thread.
LEMMA FitsOne ==
  ASSUME NEW f, f.at \in Inner \ {"run", "boot"}, NEW s, NEW l,
         f.at \in {"start", "swap"} => \A m \in 2 .. Len(s) :
           s[m].at = "boot" => \A i \in 1 .. s[m].i : l[i] # f.dl
  PROVE  Fits(<<f>>, s, l)
<1> DEFINE fs == <<f>>
<1>1. DOMAIN fs = {1} /\ fs[1] = f
  OBVIOUS
<1> HIDE DEF fs
<1>2. \A k \in DOMAIN fs : k = 1 /\ fs[k] = f
  BY <1>1
<1>3. Fits(fs, s, l)
  BY <1>2 DEF Fits
<1> QED
  BY <1>3 DEF fs

\* A step of the constructor's loop.
LEMMA FitsBoot ==
  ASSUME NEW f, f.at = "boot", NEW s, NEW l, \A m \in 2 .. Len(s) : s[m].at \notin Inner
  PROVE  Fits(<<f>>, s, l)
<1> DEFINE fs == <<f>>
<1>1. DOMAIN fs = {1} /\ fs[1] = f
  OBVIOUS
<1> HIDE DEF fs
<1>2. \A k \in DOMAIN fs : k = 1 /\ fs[k] = f
  BY <1>1
<1>3. Fits(fs, s, l)
  BY <1>2 DEF Fits, Inner
<1> QED
  BY <1>3 DEF fs

\* The first loop calls StartDownload.
LEMMA FitsStart ==
  ASSUME NEW f, f.at = "start", NEW g, g.at = "retry", NEW s, NEW l,
         \A m \in 2 .. Len(s) : s[m].at = "boot" => \A i \in 1 .. s[m].i : l[i] # f.dl
  PROVE  Fits(<<f, g>>, s, l)
<1> DEFINE fs == <<f, g>>
<1>1. DOMAIN fs = {1, 2} /\ fs[1] = f /\ fs[2] = g
  OBVIOUS
<1> HIDE DEF fs
<1>2. \A k \in DOMAIN fs : (k = 1 /\ fs[k] = f) \/ (k = 2 /\ fs[k] = g)
  BY <1>1
<1>3. Fits(fs, s, l)
  BY <1>2 DEF Fits, Inner
<1> QED
  BY <1>3 DEF fs

\* FileDownloader::StartDownload refreshes the screen before it runs the thread.
LEMMA FitsRun ==
  ASSUME NEW f, f.at = "retry", NEW g, g.at = "run", NEW s, NEW l,
         \A m \in 2 .. Len(s) : s[m].at = "run" => g.dl # s[m].dl
  PROVE  Fits(<<f, g>>, s, l)
<1> DEFINE fs == <<f, g>>
<1>1. DOMAIN fs = {1, 2} /\ fs[1] = f /\ fs[2] = g
  OBVIOUS
<1> HIDE DEF fs
<1>2. \A k \in DOMAIN fs : (k = 1 /\ fs[k] = f) \/ (k = 2 /\ fs[k] = g)
  BY <1>1
<1>3. Fits(fs, s, l)
  BY <1>2 DEF Fits, Inner
<1> QED
  BY <1>3 DEF fs

\* The same, from a loop that goes on afterwards.
LEMMA FitsRunLoop ==
  ASSUME NEW f, f.at = "retry", NEW g, g.at = "run", NEW h, h.at \in {"wait", "boot"},
         NEW s, NEW l,
         \A m \in 2 .. Len(s) : s[m].at = "run" => g.dl # s[m].dl,
         h.at = "boot" => \A m \in 2 .. Len(s) : s[m].at \notin Inner
  PROVE  Fits(<<f, g, h>>, s, l)
<1> DEFINE fs == <<f, g, h>>
<1>1. DOMAIN fs = {1, 2, 3} /\ fs[1] = f /\ fs[2] = g /\ fs[3] = h
  OBVIOUS
<1> HIDE DEF fs
<1>2. \A k \in DOMAIN fs : \/ k = 1 /\ fs[k] = f
                           \/ k = 2 /\ fs[k] = g
                           \/ k = 3 /\ fs[k] = h
  BY <1>1
<1>3. Fits(fs, s, l)
  BY <1>2 DEF Fits, Inner
<1> QED
  BY <1>3 DEF fs

\* The frame on top.
LEMMA TopFrame ==
  ASSUME TypeOK, Stacks, NEW t \in Threads, NEW label, AtTop(t, label)
  PROVE  /\ stack[t] \in Seq(Frames) /\ stack[t] # <<>> /\ Shape(stack[t])
         /\ Top(t) \in Frames /\ Top(t).at = label /\ Top(t) = stack[t][1] /\ 1 \in DOMAIN stack[t]
         /\ Agrees(Top(t), List, Status, thread, bAlreadyRun)
         /\ label \in Inner => Inside(t)
<1>1. stack[t] # <<>> /\ Top(t).at = label /\ Top(t) = stack[t][1]
  BY Zenon DEF AtTop, Top
<1>2. stack[t] \in Seq(Frames) /\ 1 \in DOMAIN stack[t] /\ stack[t][1] \in Frames
      /\ (Inside(t) <=> stack[t][1].at \in Inner)
  BY <1>1, InsideTop
<1>3. Shape(stack[t]) /\ Agrees(stack[t][1], List, Status, thread, bAlreadyRun)
  BY <1>2, Zenon DEF Stacks
<1> QED
  BY <1>1, <1>2, <1>3

\* The frames below it.
LEMMA Below ==
  ASSUME TypeOK, Stacks, NEW t \in Threads, stack[t] # <<>>, NEW m \in 2 .. Len(stack[t])
  PROVE  /\ m \in DOMAIN stack[t] /\ m # 1 /\ 1 \in DOMAIN stack[t] /\ stack[t][m] \in Frames
         /\ stack[t][m].at \notin {"start", "swap", "ran"}
         /\ Agrees(stack[t][m], List, Status, thread, bAlreadyRun)
<1>1. stack[t] \in Seq(Frames) /\ 1 \in DOMAIN stack[t]
  BY InsideTop
<1>2. m \in DOMAIN stack[t] /\ m # 1
  BY <1>1, LenProperties
<1>3. stack[t][m] \in Frames
  BY <1>1, <1>2, ElementOfSeq, LenProperties
<1>4. Shape(stack[t]) /\ Agrees(stack[t][m], List, Status, thread, bAlreadyRun)
  BY <1>2, Zenon DEF Stacks
<1> QED
  BY <1>1, <1>2, <1>3, <1>4 DEF Shape

\* Replacing the top of a stack leaves the others alone.
LEMMA ReplaceTop ==
  ASSUME TypeOK, NEW t \in Threads, NEW fs \in Seq(Frames), stack[t] # <<>>, Replace(t, fs)
  PROVE  /\ stack' \in [Threads -> Seq(Frames)]
         /\ stack'[t] = fs \o Tail(stack[t])
         /\ \A u \in Threads \ {t} : stack'[u] = stack[u]
<1>1. stack \in [Threads -> Seq(Frames)]
  BY Zenon DEF TypeOK
<1>2. fs \o Tail(stack[t]) \in Seq(Frames)
  <2>1. stack[t] \in Seq(Frames)
    BY <1>1
  <2> QED
    BY <2>1, Pushed
<1> DEFINE new == fs \o Tail(stack[t])
<1>3. stack' = [stack EXCEPT ![t] = new]
  BY Zenon DEF Replace
<1> HIDE DEF new
<1>4. stack' \in [Threads -> Seq(Frames)] /\ stack'[t] = new
      /\ \A u \in Threads \ {t} : stack'[u] = stack[u]
  <2>1. new \in Seq(Frames)
    BY <1>2 DEF new
  <2> QED
    BY <1>1, <1>3, <2>1
<1> QED
  BY <1>4 DEF new

\* A step inside the manager that only replaces the top frame of its stack.
LEMMA StepInside ==
  ASSUME TypeOK, Stacks, Alone, NEW t \in Threads, NEW label \in Inner, AtTop(t, label),
         NEW fs \in Seq(Frames), Replace(t, fs), Fits(fs, stack[t], List'),
         \A k \in DOMAIN fs : Agrees(fs[k], List', Status', thread', bAlreadyRun'),
         \A m \in 2 .. Len(stack[t]) :
           Agrees(stack[t][m], List', Status', thread', bAlreadyRun')
  PROVE  stack' \in [Threads -> Seq(Frames)] /\ Stacks' /\ Alone'
<1>1. stack[t] # <<>> /\ Inside(t)
  BY TopFrame
<1>2. /\ stack' \in [Threads -> Seq(Frames)]
      /\ stack'[t] = fs \o Tail(stack[t])
      /\ \A u \in Threads \ {t} : stack'[u] = stack[u]
  BY <1>1, ReplaceTop
<1>3. \A u \in Threads \ {t} : Out(stack'[u])
  <2>1. \A u \in Threads \ {t} : Out(stack[u])
    BY <1>1, OthersOut
  <2> QED
    BY <1>2, <2>1
<1> QED
  BY <1>1, <1>2, <1>3, ManagerKeeps

\* Nothing else changes: what the frames below found is still true.
LEMMA StepOnly ==
  ASSUME TypeOK, Stacks, Alone, NEW t \in Threads, NEW label \in Inner, AtTop(t, label),
         NEW fs \in Seq(Frames), Replace(t, fs), Fits(fs, stack[t], List),
         \A k \in DOMAIN fs : Agrees(fs[k], List, Status, thread, bAlreadyRun),
         UNCHANGED <<List, Status, thread, bAlreadyRun>>
  PROVE  stack' \in [Threads -> Seq(Frames)] /\ Stacks' /\ Alone'
<1>1. stack[t] # <<>>
  BY TopFrame
<1>2. \A m \in 2 .. Len(stack[t]) : Agrees(stack[t][m], List, Status, thread, bAlreadyRun)
  BY <1>1, Below
<1> QED
  BY <1>2, StepInside

\* The history of the threads is kept when only the stack of t changes, and its top
\* was no "ran".
LEMMA ThreadsKeep ==
  ASSUME TypeOK, Threaded, Marked, NEW t \in Threads, NEW label, AtTop(t, label),
         label # "ran", \A u \in Threads \ {t} : stack'[u] = stack[u],
         UNCHANGED <<List, thread, bAlreadyRun>>
  PROVE  Threaded' /\ Marked'
<1>1. Threaded'
  <2>1. \A o \in Objs : stack'[o] # <<>> => stack[o] # <<>>
    BY DEF AtTop, Threads
  <2> QED
    BY <2>1 DEF Threaded
<1>2. Marked'
  <2>1. ASSUME NEW u \in Threads, AtTop(u, "ran")
        PROVE  AtTop(u, "ran")' /\ Top(u)' = Top(u)
    <3>1. u # t
      BY <2>1, Zenon DEF AtTop
    <3> QED
      BY <2>1, <3>1, Zenon DEF AtTop, Top
  <2>2. Listed' = Listed
    BY DEF Listed
  <2> QED
    BY <2>1, <2>2, ZenonT(40) DEF Marked
<1> QED
  BY <1>1, <1>2

\* An index of a list is one of a listed object.
LEMMA ListIndex ==
  ASSUME TypeOK
  PROVE  /\ Len(List) \in Nat /\ DOMAIN List = 1 .. Len(List)
         /\ \A i \in DOMAIN List : List[i] \in Objs /\ List[i] \in Listed /\ List[i] \in Range(List)
         /\ \A o \in Range(List) : o \in Objs /\ \E i \in DOMAIN List : List[i] = o
BY LenProperties DEF TypeOK, Listed, Range
-----------------------------------------------------------------------------
(***************************************************************************)
(* The steps of a call inside the manager.                                 *)
(***************************************************************************)
\* A call into the manager begins while no other one is in progress.
LEMMA EnterKeeps ==
  ASSUME ~Overlap, Inv, NEW t \in Threads, EnterScreen(t)
  PROVE  Inv'
<1> USE DEF Inv
<1> DEFINE f == Retry(1)
<1>1. /\ AtTop(t, "enter") /\ MayEnter /\ Replace(t, <<f>>)
      /\ UNCHANGED <<List, name, Status, RetryCount, bAlreadyRun, due, thread>>
  BY Zenon DEF EnterScreen
<1>2. stack[t] # <<>> /\ stack[t] \in Seq(Frames) /\ Shape(stack[t])
  BY <1>1, TopFrame
<1>3. \A u \in Threads : Out(stack[u])
  <2>1. \A u \in Threads : ~Inside(u)
    BY <1>1 DEF MayEnter
  <2> QED
    BY <2>1, OutsideOut
<1>4. f \in Frames /\ f.at = "retry" /\ f.i = 1
  BY DEF Frames, Retry
<1> HIDE DEF f
<1>5. <<f>> \in Seq(Frames) /\ DOMAIN <<f>> = {1} /\ <<f>>[1] = f
  BY <1>4
<1>6. /\ stack' \in [Threads -> Seq(Frames)] /\ stack'[t] = <<f>> \o Tail(stack[t])
      /\ \A u \in Threads \ {t} : stack'[u] = stack[u]
  BY <1>1, <1>2, <1>5, ReplaceTop
<1>7. Fits(<<f>>, stack[t], List)
  BY <1>4, FitsOne DEF Inner
<1>8. Shape(stack'[t]) /\ Ahead(stack'[t], List)
  BY <1>2, <1>5, <1>6, <1>7, ShapePush, AheadPush
<1>9. ASSUME NEW k \in DOMAIN stack'[t]
      PROVE  Agrees(stack'[t][k], List, Status, thread, bAlreadyRun)
  <2>1. \/ stack'[t][k] = f
        \/ \E m \in DOMAIN stack[t] : stack'[t][k] = stack[t][m]
    <3>1. \/ k \in DOMAIN <<f>> /\ (<<f>> \o Tail(stack[t]))[k] = <<f>>[k]
          \/ \E m \in 2 .. Len(stack[t]) :
               m \in DOMAIN stack[t] /\ (<<f>> \o Tail(stack[t]))[k] = stack[t][m]
      BY <1>2, <1>5, <1>6, <1>9, Places
    <3> QED
      BY <1>5, <1>6, <3>1
  <2>2. Agrees(f, List, Status, thread, bAlreadyRun)
    BY <1>4 DEF Agrees
  <2>3. \A m \in DOMAIN stack[t] : Agrees(stack[t][m], List, Status, thread, bAlreadyRun)
    BY Zenon DEF Stacks
  <2> QED
    BY <2>1, <2>2, <2>3
<1>10. Stacks' /\ Alone'
  <2>1. \A u \in Threads \ {t} : Out(stack'[u])
    BY <1>3, <1>6
  <2> QED
    BY <1>1, <1>6, <1>8, <1>9, <2>1, OneGood
<1>11. TypeOK'
  BY <1>1, <1>6, Zenon DEF TypeOK
<1>12. Threaded' /\ Marked'
  BY <1>1, <1>6, ThreadsKeep
<1>13. WaitsUnrun' /\ NoDuplicate'
  BY <1>1, Zenon DEF WaitsUnrun, NoDuplicate, Listed
<1> QED
  BY <1>10, <1>11, <1>12, <1>13

\* StartDownload looks for dl, and decides.
LEMMA StartKeeps ==
  ASSUME Inv, NEW t \in Threads, StartDownload(t)
  PROVE  Inv'
<1> USE DEF Inv
<1> DEFINE f == Top(t)
<1>1. /\ AtTop(t, "start")
      /\ UNCHANGED <<List, name, Status, bAlreadyRun, due, thread>>
  BY Zenon DEF StartDownload
<1>2. /\ stack[t] # <<>> /\ stack[t] \in Seq(Frames) /\ f \in Frames /\ f.at = "start"
      /\ f = stack[t][1] /\ 1 \in DOMAIN stack[t]
      /\ Agrees(f, List, Status, thread, bAlreadyRun)
  BY <1>1, TopFrame
<1>3. f.dl \in Objs
  BY <1>2, FrameFields
<1> DEFINE Kept == /\ stack' \in [Threads -> Seq(Frames)] /\ Stacks' /\ Alone'
                   /\ RetryCount' \in [Objs -> 0 .. MaxRetry]
                   /\ \A u \in Threads \ {t} : stack'[u] = stack[u]
<1>4. Kept
  <2>1. CASE Replace(t, <<>>) /\ UNCHANGED RetryCount
    <3>1. <<>> \in Seq(Frames) /\ DOMAIN <<>> = {}
      OBVIOUS
    <3>2. stack' \in [Threads -> Seq(Frames)] /\ Stacks' /\ Alone'
      BY <1>1, <2>1, <3>1, FitsNone, StepOnly DEF Inner
    <3>3. \A u \in Threads \ {t} : stack'[u] = stack[u]
      BY <1>2, <2>1, <3>1, ReplaceTop
    <3>4. RetryCount' \in [Objs -> 0 .. MaxRetry]
      BY <2>1, Zenon DEF TypeOK
    <3> QED
      BY <3>2, <3>3, <3>4
  <2>2. ASSUME NEW i \in DOMAIN List, List[i] = f.dl, NEW w \in BOOLEAN,
               Replace(t, <<Swap(f.dl, i, w)>>),
               RetryCount' = IF f.reset THEN [RetryCount EXCEPT ![f.dl] = 0] ELSE RetryCount
        PROVE  Kept
    <3> DEFINE g == Swap(f.dl, i, w)
    <3>1. g \in Frames /\ g.at = "swap" /\ g.dl = f.dl /\ g.i = i
      <4>1. i \in Nat
        BY ListIndex
      <4> QED
        BY <1>3, <4>1 DEF Frames, Swap
    <3> HIDE DEF g
    <3>2. <<g>> \in Seq(Frames) /\ DOMAIN <<g>> = {1} /\ <<g>>[1] = g
      BY <3>1
    <3>3. Agrees(g, List, Status, thread, bAlreadyRun)
      BY <1>2, <2>2, <3>1 DEF Agrees
    <3>4. Fits(<<g>>, stack[t], List)
      <4>1. ASSUME NEW m \in 2 .. Len(stack[t]), stack[t][m].at = "boot"
            PROVE  \A k \in 1 .. stack[t][m].i : List[k] # g.dl
        <5>1. m \in DOMAIN stack[t]
          BY <1>2, LenProperties
        <5>2. Ahead(stack[t], List)
          BY Zenon DEF Stacks
        <5> QED
          BY <1>2, <3>1, <4>1, <5>1, <5>2 DEF Ahead
      <4> QED
        BY <3>1, <4>1, FitsOne DEF Inner
    <3>5. Replace(t, <<g>>)
      BY <2>2 DEF g
    <3>6. \A k \in DOMAIN <<g>> : Agrees(<<g>>[k], List, Status, thread, bAlreadyRun)
      BY <3>2, <3>3
    <3>7. stack' \in [Threads -> Seq(Frames)] /\ Stacks' /\ Alone'
      BY <1>1, <3>2, <3>4, <3>5, <3>6, StepOnly DEF Inner
    <3>8. \A u \in Threads \ {t} : stack'[u] = stack[u]
      BY <1>2, <3>2, <3>5, ReplaceTop
    <3>9. RetryCount' \in [Objs -> 0 .. MaxRetry]
      BY <2>2, ConstantsAssumption DEF TypeOK
    <3> QED
      BY <3>7, <3>8, <3>9
  <2> QED
    BY <2>1, <2>2 DEF StartDownload
<1>5. TypeOK'
  BY <1>1, <1>4, Zenon DEF TypeOK
<1>6. Threaded' /\ Marked'
  BY <1>1, <1>4, ThreadsKeep
<1>7. WaitsUnrun' /\ NoDuplicate'
  BY <1>1, Zenon DEF WaitsUnrun, NoDuplicate, Listed
<1> QED
  BY <1>4, <1>5, <1>6, <1>7

\* The first loop starts the next download whose retry is due, or goes on.
LEMMA RetryKeeps ==
  ASSUME Inv, NEW t \in Threads, RetryLoop(t)
  PROVE  Inv'
<1> USE DEF Inv
<1> DEFINE hits == {j \in Top(t).i .. Len(List) : Status[List[j]] = "RETRY" /\ due[List[j]]}
           active == {j \in DOMAIN List : Status[List[j]] \in {"START", "RETRY"}}
           n == Cardinality(active)
<1>1. /\ AtTop(t, "retry")
      /\ UNCHANGED <<List, name, Status, bAlreadyRun, due, thread>>
  BY Zenon DEF RetryLoop
<1>2. /\ stack[t] # <<>> /\ stack[t] \in Seq(Frames) /\ Top(t) \in Frames /\ Top(t).at = "retry"
      /\ Agrees(Top(t), List, Status, thread, bAlreadyRun)
  BY <1>1, TopFrame
<1>3. Top(t).i \in Nat /\ Top(t).i # 0
  BY <1>2, FrameFields DEF Agrees
<1>4. hits \subseteq DOMAIN List /\ \A j \in hits : j \in Nat /\ Status[List[j]] = "RETRY"
  BY <1>3, ListIndex
<1>5. n \in Nat
  <2>1. IsFiniteSet(1 .. Len(List)) /\ active \subseteq 1 .. Len(List)
    BY ListIndex, FS_Interval
  <2> QED
    BY <2>1, FS_Subset, FS_CardinalityType
<1>6. \/ \E j \in hits :
           /\ RetryCount' = [RetryCount EXCEPT ![List[j]] = IF @ < MaxRetry THEN @ + 1 ELSE MaxRetry]
           /\ Replace(t, <<Start(List[j], FALSE, TRUE), Retry(j + 1)>>)
      \/ /\ hits = {}
         /\ Replace(t, IF n < MaxDL THEN <<Wait(Len(List), n)>> ELSE <<>>)
         /\ UNCHANGED RetryCount
  BY Zenon DEF RetryLoop
<1> HIDE DEF hits, n
<1> DEFINE Kept == /\ stack' \in [Threads -> Seq(Frames)] /\ Stacks' /\ Alone'
                   /\ RetryCount' \in [Objs -> 0 .. MaxRetry]
                   /\ \A u \in Threads \ {t} : stack'[u] = stack[u]
<1>7. ASSUME NEW j \in hits,
             RetryCount' = [RetryCount EXCEPT ![List[j]] = IF @ < MaxRetry THEN @ + 1 ELSE MaxRetry],
             Replace(t, <<Start(List[j], FALSE, TRUE), Retry(j + 1)>>)
      PROVE  Kept
  <2> DEFINE f == Start(List[j], FALSE, TRUE)
             g == Retry(j + 1)
             fs == <<f, g>>
  <2>1. j \in DOMAIN List /\ j \in Nat /\ List[j] \in Objs /\ Status[List[j]] = "RETRY"
    BY <1>4, ListIndex
  <2>2. f \in Frames /\ f.at = "start" /\ f.dl = List[j]
    BY <2>1 DEF Frames, Start
  <2>3. g \in Frames /\ g.at = "retry" /\ g.i # 0
    BY <2>1 DEF Frames, Retry
  <2>4. Replace(t, fs)
    BY <1>7
  <2> HIDE DEF f, g
  <2>5. fs \in Seq(Frames) /\ DOMAIN fs = {1, 2} /\ fs[1] = f /\ fs[2] = g
    BY <2>2, <2>3
  <2>6. Fits(fs, stack[t], List)
    <3>1. ASSUME NEW m \in 2 .. Len(stack[t]), stack[t][m].at = "boot"
          PROVE  \A i \in 1 .. stack[t][m].i : List[i] # f.dl
      <4>1. Agrees(stack[t][m], List, Status, thread, bAlreadyRun)
        BY <1>2, Below
      <4> QED
        BY <2>1, <2>2, <3>1, <4>1 DEF Agrees, Untouched
    <3> QED
      BY <2>2, <2>3, <3>1, FitsStart
  <2>7. \A k \in DOMAIN fs : Agrees(fs[k], List, Status, thread, bAlreadyRun)
    <3>1. f.dl \in Range(List)
      BY <2>1, <2>2, ListIndex
    <3>2. Agrees(f, List, Status, thread, bAlreadyRun)
      BY <2>1, <2>2, <3>1 DEF Agrees
    <3>3. Agrees(g, List, Status, thread, bAlreadyRun)
      BY <2>3 DEF Agrees
    <3> QED
      BY <2>5, <3>2, <3>3
  <2> HIDE DEF fs
  <2>8. stack' \in [Threads -> Seq(Frames)] /\ Stacks' /\ Alone'
    BY <1>1, <2>4, <2>5, <2>6, <2>7, StepOnly DEF Inner
  <2>9. \A u \in Threads \ {t} : stack'[u] = stack[u]
    BY <1>2, <2>4, <2>5, ReplaceTop
  <2>10. RetryCount' \in [Objs -> 0 .. MaxRetry]
    <3>1. RetryCount[List[j]] \in 0 .. MaxRetry
      BY <2>1 DEF TypeOK
    <3>2. (IF RetryCount[List[j]] < MaxRetry THEN RetryCount[List[j]] + 1 ELSE MaxRetry) \in 0 .. MaxRetry
      BY <3>1, ConstantsAssumption
    <3> QED
      BY <1>7, <3>2 DEF TypeOK
  <2> QED
    BY <2>8, <2>9, <2>10
<1>8. ASSUME NEW fs \in {<<>>, <<Wait(Len(List), n)>>}, Replace(t, fs), UNCHANGED RetryCount
      PROVE  Kept
  <2> DEFINE f == Wait(Len(List), n)
  <2>1. f \in Frames /\ f.at = "wait"
    BY <1>5, ListIndex DEF Frames, Wait
  <2>2. fs = <<>> \/ fs = <<f>>
    OBVIOUS
  <2> HIDE DEF f
  <2>3. fs \in Seq(Frames) /\ \A k \in DOMAIN fs : fs[k] = f
    <3>1. CASE fs = <<>>
      BY <3>1
    <3>2. CASE fs = <<f>>
      BY <2>1, <3>2
    <3> QED
      BY <2>2, <3>1, <3>2
  <2>4. Fits(fs, stack[t], List)
    BY <2>1, <2>2, FitsNone, FitsOne DEF Inner
  <2>5. \A k \in DOMAIN fs : Agrees(fs[k], List, Status, thread, bAlreadyRun)
    BY <2>1, <2>3 DEF Agrees
  <2>6. stack' \in [Threads -> Seq(Frames)] /\ Stacks' /\ Alone'
    BY <1>1, <1>8, <2>3, <2>4, <2>5, StepOnly DEF Inner
  <2>7. \A u \in Threads \ {t} : stack'[u] = stack[u]
    BY <1>2, <1>8, <2>3, ReplaceTop
  <2>8. RetryCount' \in [Objs -> 0 .. MaxRetry]
    BY <1>8, Zenon DEF TypeOK
  <2> QED
    BY <2>6, <2>7, <2>8
<1>9. Kept
  <2>1. ASSUME Replace(t, IF n < MaxDL THEN <<Wait(Len(List), n)>> ELSE <<>>), UNCHANGED RetryCount
        PROVE  Kept
    BY <1>8, <2>1, Zenon
  <2> QED
    BY <1>6, <1>7, <2>1, Zenon
<1>10. TypeOK'
  BY <1>1, <1>9, Zenon DEF TypeOK
<1>11. Threaded' /\ Marked'
  BY <1>1, <1>9, ThreadsKeep
<1>12. WaitsUnrun' /\ NoDuplicate'
  BY <1>1, Zenon DEF WaitsUnrun, NoDuplicate, Listed
<1> QED
  BY <1>9, <1>10, <1>11, <1>12

\* The starter sets bAlreadyRun.
LEMMA RanKeeps ==
  ASSUME Inv, NEW t \in Threads, AfterRun(t)
  PROVE  Inv'
<1> USE DEF Inv
<1> DEFINE o == Top(t).dl
<1>1. /\ AtTop(t, "ran") /\ bAlreadyRun' = [bAlreadyRun EXCEPT ![o] = TRUE] /\ Replace(t, <<>>)
      /\ UNCHANGED <<List, name, RetryCount, thread>>
      /\ IF Top(t).failed THEN Fails(o) ELSE UNCHANGED <<Status, due>>
  BY Zenon DEF AfterRun
<1>2. /\ stack[t] # <<>> /\ Top(t) \in Frames /\ Top(t).at = "ran"
      /\ Agrees(Top(t), List, Status, thread, bAlreadyRun) /\ Inside(t)
  BY <1>1, TopFrame DEF Inner
<1>3. o \in Objs /\ thread[o] # "new" /\ UNCHANGED <<Status, due>>
  BY <1>1, <1>2, FrameFields DEF Agrees
<1> HIDE DEF o
<1>4. /\ bAlreadyRun' \in [Objs -> BOOLEAN] /\ bAlreadyRun'[o]
      /\ \A a \in Objs \ {o} : bAlreadyRun'[a] = bAlreadyRun[a]
  BY <1>1, <1>3 DEF TypeOK
<1>5. <<>> \in Seq(Frames) /\ DOMAIN <<>> = {}
  OBVIOUS
<1>6. stack' \in [Threads -> Seq(Frames)] /\ Stacks' /\ Alone'
  <2>1. ASSUME NEW m \in 2 .. Len(stack[t])
        PROVE  Agrees(stack[t][m], List, Status, thread, bAlreadyRun')
    <3> DEFINE f == stack[t][m]
    <3>1. /\ f \in Frames /\ f.at \notin {"start", "swap", "ran"}
          /\ Agrees(f, List, Status, thread, bAlreadyRun)
      BY <1>2, Below
    <3> HIDE DEF f
    <3>2. f.at = "run" => ~bAlreadyRun'[f.dl]
      BY <1>3, <1>4, <3>1, FrameFields DEF Agrees
    <3>3. f.at = "boot" => f.i <= Len(List) /\ \A j \in 1 .. f.i : Untouched(List[j], Status, thread, bAlreadyRun')
      <4>1. ASSUME f.at = "boot", NEW j \in 1 .. f.i
            PROVE  Untouched(List[j], Status, thread, bAlreadyRun')
        <5>1. f.i \in Nat /\ f.i <= Len(List) /\ Untouched(List[j], Status, thread, bAlreadyRun)
          BY <3>1, <4>1, FrameFields DEF Agrees
        <5>2. List[j] \in Objs
          BY <5>1, ListIndex
        <5>3. List[j] # o
          BY <1>3, <5>1 DEF Untouched
        <5> QED
          BY <1>4, <5>1, <5>2, <5>3 DEF Untouched
      <4> QED
        BY <3>1, <4>1 DEF Agrees
    <3>4. Agrees(f, List, Status, thread, bAlreadyRun')
      BY <3>1, <3>2, <3>3 DEF Agrees
    <3> QED
      BY <3>4 DEF f
  <2> QED
    BY <1>1, <1>3, <1>5, <2>1, FitsNone, StepInside DEF Inner
<1>7. \A u \in Threads \ {t} : stack'[u] = stack[u]
  BY <1>1, <1>2, <1>5, ReplaceTop
<1>8. TypeOK'
  BY <1>1, <1>3, <1>4, <1>6, Zenon DEF TypeOK
<1>9. Threaded'
  <2>1. \A a \in Objs : stack'[a] # <<>> => stack[a] # <<>>
    BY <1>2, <1>7 DEF Threads
  <2> QED
    BY <1>1, <2>1 DEF Threaded
<1>10. Marked'
  <2>1. ASSUME NEW a \in Listed, thread[a] # "new", ~bAlreadyRun'[a]
        PROVE  FALSE
    <3>1. a \in Objs /\ a # o
      BY <1>4, <2>1, ListIndex DEF Listed
    <3>2. PICK u \in Threads : AtTop(u, "ran") /\ Top(u).dl = a
      BY <1>4, <2>1, <3>1 DEF Marked
    <3>3. Inside(u)
      BY <3>2, TopFrame DEF Inner
    <3>4. u = t
      BY <1>2, <3>3 DEF Alone
    <3> QED
      BY <3>1, <3>2, <3>4 DEF o
  <2>2. Listed' = Listed
    BY <1>1, Zenon DEF Listed
  <2> QED
    BY <1>1, <2>1, <2>2, Zenon DEF Marked
<1>11. WaitsUnrun'
  <2>1. ASSUME NEW a \in Listed, Status[a] = "WAIT"
        PROVE  thread[a] = "new" /\ ~bAlreadyRun'[a]
    <3>1. thread[a] = "new" /\ ~bAlreadyRun[a] /\ a \in Objs
      BY <2>1, ListIndex DEF WaitsUnrun, Listed
    <3> QED
      BY <1>3, <1>4, <3>1
  <2>2. Listed' = Listed
    BY <1>1, Zenon DEF Listed
  <2> QED
    BY <1>1, <1>3, <2>1, <2>2, Zenon DEF WaitsUnrun
<1>12. NoDuplicate'
  BY <1>1, Zenon DEF NoDuplicate
<1> QED
  BY <1>6, <1>8, <1>9, <1>10, <1>11, <1>12

\* Inside, nobody else is in the middle of a start.
LEMMA NoRan ==
  ASSUME Inv, NEW t \in Threads, NEW label \in Inner, label # "ran", AtTop(t, label),
         NEW o \in Listed, ~bAlreadyRun[o]
  PROVE  thread[o] = "new"
<1> USE DEF Inv
<1> SUFFICES ASSUME thread[o] # "new"
             PROVE  FALSE
  OBVIOUS
<1>1. PICK u \in Threads : AtTop(u, "ran") /\ Top(u).dl = o
  BY Zenon DEF Marked
<1>2. Inside(u) /\ Inside(t)
  <2>1. "ran" \in Inner
    BY DEF Inner
  <2> QED
    BY <1>1, <2>1, TopFrame
<1>3. u = t
  BY <1>2, Zenon DEF Alone
<1> QED
  BY <1>1, <1>3, Zenon DEF AtTop

\* One frame and another are two.
LEMMA Two ==
  ASSUME NEW a, NEW b
  PROVE  <<a>> \o <<b>> = <<a, b>>
<1> DEFINE S == {a, b}
           p == <<a>>
           q == <<b>>
           r == <<a, b>>
<1>1. /\ p \in Seq(S) /\ q \in Seq(S) /\ r \in Seq(S)
      /\ Len(p) = 1 /\ Len(q) = 1 /\ Len(r) = 2
      /\ p[1] = a /\ q[1] = b /\ r[1] = a /\ r[2] = b
  OBVIOUS
<1> HIDE DEF p, q, r
<1>2. /\ p \o q \in Seq(S) /\ Len(p \o q) = 2
      /\ \A i \in 1 .. 2 : (p \o q)[i] = IF i <= 1 THEN p[i] ELSE q[i - 1]
  BY <1>1, ConcatProperties
<1>3. \A i \in 1 .. 2 : (p \o q)[i] = r[i]
  BY <1>1, <1>2
<1>4. p \o q = r
  BY <1>1, <1>2, <1>3, SeqEqual
<1> QED
  BY <1>4 DEF p, q, r

\* Two frames and one more are three.
LEMMA Three ==
  ASSUME NEW a, NEW b, NEW c
  PROVE  <<a, b>> \o <<c>> = <<a, b, c>>
<1> DEFINE S == {a, b, c}
           p == <<a, b>>
           q == <<c>>
           r == <<a, b, c>>
<1>1. /\ p \in Seq(S) /\ q \in Seq(S) /\ r \in Seq(S)
      /\ Len(p) = 2 /\ Len(q) = 1 /\ Len(r) = 3
      /\ p[1] = a /\ p[2] = b /\ q[1] = c /\ r[1] = a /\ r[2] = b /\ r[3] = c
  OBVIOUS
<1> HIDE DEF p, q, r
<1>2. /\ p \o q \in Seq(S) /\ Len(p \o q) = 3
      /\ \A i \in 1 .. 3 : (p \o q)[i] = IF i <= 2 THEN p[i] ELSE q[i - 2]
  BY <1>1, ConcatProperties, SMTT(30)
<1>3. \A i \in 1 .. 3 : (p \o q)[i] = r[i]
  BY <1>1, <1>2
<1>4. p \o q = r
  BY <1>1, <1>2, <1>3, SeqEqual
<1> QED
  BY <1>4 DEF p, q, r

\* The third loop starts a waiting download, or ends.
LEMMA WaitKeeps ==
  ASSUME Inv, NEW t \in Threads, WaitLoop(t)
  PROVE  Inv'
<1> USE DEF Inv
<1> DEFINE n == Top(t).n + 1
<1>1. /\ AtTop(t, "wait")
      /\ UNCHANGED <<List, name, RetryCount, bAlreadyRun, due, thread>>
      /\ \/ \E j \in DOMAIN List :
              /\ Status[List[j]] = "WAIT" /\ j <= Top(t).i
              /\ Status' = [Status EXCEPT ![List[j]] = "START"]
              /\ Replace(t, <<Retry(1), Run(List[j])>>
                            \o (IF n < MaxDL THEN <<Wait(j - 1, n)>> ELSE <<>>))
         \/ Replace(t, <<>>) /\ UNCHANGED Status
  BY Zenon DEF WaitLoop
<1>2. /\ stack[t] # <<>> /\ stack[t] \in Seq(Frames) /\ Top(t) \in Frames /\ Top(t).at = "wait"
  BY <1>1, TopFrame
<1>3. n \in Nat
  BY <1>2, FrameFields
<1> HIDE DEF n
<1> DEFINE Kept == /\ stack' \in [Threads -> Seq(Frames)] /\ Stacks' /\ Alone'
                   /\ Status' \in [Objs -> States] /\ WaitsUnrun'
                   /\ \A u \in Threads \ {t} : stack'[u] = stack[u]
<1>4. ASSUME NEW j \in DOMAIN List, Status[List[j]] = "WAIT",
             Status' = [Status EXCEPT ![List[j]] = "START"],
             NEW h, h = Wait(j - 1, n),
             NEW fs \in {<<Retry(1), Run(List[j])>>, <<Retry(1), Run(List[j]), h>>},
             Replace(t, fs)
      PROVE  Kept
  <2> DEFINE o == List[j]
             f == Retry(1)
             g == Run(o)
  <2>1. j - 1 \in Nat /\ o \in Objs /\ o \in Listed /\ o \in Range(List)
    BY ListIndex
  <2>2. f \in Frames /\ f.at = "retry" /\ f.i = 1
    BY DEF Frames, Retry
  <2>3. g \in Frames /\ g.at = "run" /\ g.dl = o
    BY <2>1 DEF Frames, Run
  <2>4. h \in Frames /\ h.at = "wait"
    BY <1>3, <1>4, <2>1 DEF Frames, Wait
  <2>5. Status[o] = "WAIT" /\ Status' = [Status EXCEPT ![o] = "START"]
        /\ (fs = <<f, g>> \/ fs = <<f, g, h>>)
    BY <1>4
  <2>6. thread[o] = "new" /\ ~bAlreadyRun[o]
    BY <2>1, <2>5, Zenon DEF WaitsUnrun
  <2> HIDE DEF o, f, g
  <2>7. Status' \in [Objs -> States] /\ Status'[o] = "START"
        /\ \A a \in Objs \ {o} : Status'[a] = Status[a]
    BY <2>1, <2>5 DEF TypeOK, States
  <2>8. fs \in Seq(Frames) /\ \A k \in DOMAIN fs : fs[k] \in {f, g, h}
    <3>1. CASE fs = <<f, g>>
      BY <2>2, <2>3, <3>1
    <3>2. CASE fs = <<f, g, h>>
      BY <2>2, <2>3, <2>4, <3>2
    <3> QED
      BY <2>5, <3>1, <3>2
  <2>9. ASSUME NEW m \in 2 .. Len(stack[t])
        PROVE  /\ Agrees(stack[t][m], List, Status', thread, bAlreadyRun)
               /\ stack[t][m].at = "run" => o # stack[t][m].dl
    <3> DEFINE e == stack[t][m]
    <3>1. /\ e \in Frames /\ e.at \notin {"start", "swap", "ran"}
          /\ Agrees(e, List, Status, thread, bAlreadyRun)
      BY <1>2, Below
    <3> HIDE DEF e
    <3>2. e.at = "run" => e.dl # o /\ Status'[e.dl] = "START"
      BY <2>5, <2>7, <3>1, FrameFields DEF Agrees
    <3>3. e.at = "boot" => e.i <= Len(List) /\ \A k \in 1 .. e.i : Untouched(List[k], Status', thread, bAlreadyRun)
      <4>1. ASSUME e.at = "boot", NEW k \in 1 .. e.i
            PROVE  Untouched(List[k], Status', thread, bAlreadyRun)
        <5>1. e.i \in Nat /\ e.i <= Len(List) /\ Untouched(List[k], Status, thread, bAlreadyRun)
          BY <3>1, <4>1, FrameFields DEF Agrees
        <5>2. List[k] \in Objs
          BY <5>1, ListIndex
        <5>3. List[k] # o
          BY <2>5, <5>1 DEF Untouched
        <5> QED
          BY <2>7, <5>1, <5>2, <5>3 DEF Untouched
      <4> QED
        BY <3>1, <4>1 DEF Agrees
    <3>4. Agrees(e, List, Status', thread, bAlreadyRun)
      BY <3>1, <3>2, <3>3 DEF Agrees
    <3> QED
      BY <3>2, <3>4 DEF e
  <2>10. Fits(fs, stack[t], List)
    BY <2>2, <2>3, <2>4, <2>5, <2>9, FitsRun, FitsRunLoop
  <2>11. \A k \in DOMAIN fs : Agrees(fs[k], List, Status', thread, bAlreadyRun)
    <3>1. Agrees(f, List, Status', thread, bAlreadyRun)
      BY <2>2 DEF Agrees
    <3>2. Agrees(g, List, Status', thread, bAlreadyRun)
      BY <2>1, <2>3, <2>6, <2>7 DEF Agrees, o
    <3>3. Agrees(h, List, Status', thread, bAlreadyRun)
      BY <2>4 DEF Agrees
    <3> QED
      BY <2>8, <3>1, <3>2, <3>3
  <2>12. stack' \in [Threads -> Seq(Frames)] /\ Stacks' /\ Alone'
    <3>1. "wait" \in Inner /\ \A m \in 2 .. Len(stack[t]) : Agrees(stack[t][m], List, Status', thread, bAlreadyRun)
      BY <2>9 DEF Inner
    <3> QED
      BY <1>1, <1>4, <2>8, <2>10, <2>11, <3>1, StepInside
  <2>13. \A u \in Threads \ {t} : stack'[u] = stack[u]
    BY <1>2, <1>4, <2>8, ReplaceTop
  <2>14. WaitsUnrun'
    <3>1. ASSUME NEW a \in Listed, Status'[a] = "WAIT"
          PROVE  thread[a] = "new" /\ ~bAlreadyRun[a]
      <4>1. a \in Objs /\ a # o
        BY <2>7, <3>1, ListIndex DEF Listed
      <4> QED
        BY <2>7, <3>1, <4>1 DEF WaitsUnrun
    <3>2. Listed' = Listed
      BY <1>1, Zenon DEF Listed
    <3> QED
      BY <1>1, <3>1, <3>2, Zenon DEF WaitsUnrun
  <2> QED
    BY <2>7, <2>12, <2>13, <2>14
<1>5. ASSUME Replace(t, <<>>), UNCHANGED Status
      PROVE  Kept
  <2>1. <<>> \in Seq(Frames) /\ DOMAIN <<>> = {}
    OBVIOUS
  <2>2. stack' \in [Threads -> Seq(Frames)] /\ Stacks' /\ Alone'
    BY <1>1, <1>5, <2>1, FitsNone, StepOnly DEF Inner
  <2>3. \A u \in Threads \ {t} : stack'[u] = stack[u]
    BY <1>2, <1>5, <2>1, ReplaceTop
  <2>4. Status' \in [Objs -> States] /\ WaitsUnrun'
    BY <1>1, <1>5, Zenon DEF TypeOK, WaitsUnrun, Listed
  <2> QED
    BY <2>2, <2>3, <2>4
<1>6. Kept
  <2>1. ASSUME NEW j \in DOMAIN List, Status[List[j]] = "WAIT",
               Status' = [Status EXCEPT ![List[j]] = "START"],
               Replace(t, <<Retry(1), Run(List[j])>>
                          \o (IF n < MaxDL THEN <<Wait(j - 1, n)>> ELSE <<>>))
        PROVE  Kept
    <3> DEFINE fs == <<Retry(1), Run(List[j])>>
                       \o (IF n < MaxDL THEN <<Wait(j - 1, n)>> ELSE <<>>)
    <3>1. CASE n < MaxDL
      <4>1. fs = <<Retry(1), Run(List[j]), Wait(j - 1, n)>>
        BY <3>1, Three
      <4>2. Replace(t, <<Retry(1), Run(List[j]), Wait(j - 1, n)>>)
        BY <2>1, <4>1, Zenon
      <4> QED
        BY <1>4, <2>1, <4>2, Zenon
    <3>2. CASE ~(n < MaxDL)
      <4>1. fs = <<Retry(1), Run(List[j])>>
        BY <3>2
      <4>2. Replace(t, <<Retry(1), Run(List[j])>>)
        BY <2>1, <4>1, Zenon
      <4> QED
        BY <1>4, <2>1, <4>2, Zenon
    <3> QED
      BY <3>1, <3>2
  <2> QED
    BY <1>1, <1>5, <2>1, Zenon
<1>7. TypeOK'
  BY <1>1, <1>6, Zenon DEF TypeOK
<1>8. Threaded' /\ Marked'
  BY <1>1, <1>6, ThreadsKeep
<1>9. NoDuplicate'
  BY <1>1, Zenon DEF NoDuplicate
<1> QED
  BY <1>6, <1>7, <1>8, <1>9

\* The constructor's loop starts a loaded download, makes it wait, or skips it.
LEMMA BootKeeps ==
  ASSUME Inv, NEW t \in Threads, BootLoop(t)
  PROVE  Inv'
<1> USE DEF Inv
<1> DEFINE b == Top(t)
           i == b.i
           o == List[i]
<1>1. /\ AtTop(t, "boot") /\ due' = [a \in Objs |-> due[a] /\ Status'[a] = "RETRY"]
      /\ UNCHANGED <<List, name, RetryCount, bAlreadyRun, thread>>
  BY Zenon DEF BootLoop
<1>2. /\ stack[t] # <<>> /\ stack[t] \in Seq(Frames) /\ b \in Frames /\ b.at = "boot"
      /\ b = stack[t][1] /\ 1 \in DOMAIN stack[t] /\ Shape(stack[t])
      /\ Agrees(b, List, Status, thread, bAlreadyRun)
  BY <1>1, TopFrame
<1>3. b.i \in Nat /\ b.n \in Nat
  BY <1>2, FrameFields
<1>4. i <= Len(List) /\ \A j \in 1 .. i : Untouched(List[j], Status, thread, bAlreadyRun)
  BY <1>2 DEF Agrees
<1>5. i > 0 => /\ i \in DOMAIN List /\ o \in Objs /\ o \in Listed /\ o \in Range(List)
               /\ Untouched(o, Status, thread, bAlreadyRun)
               /\ \A j \in 1 .. i - 1 : j \in DOMAIN List /\ List[j] \in Objs /\ List[j] # o
  BY <1>3, <1>4, ListIndex DEF NoDuplicate
\* Below the loop nothing is inside the manager.
<1>6. \A m \in 2 .. Len(stack[t]) : stack[t][m].at \notin Inner
  <2> SUFFICES ASSUME NEW m \in 2 .. Len(stack[t]), stack[t][m].at \in Inner
               PROVE  FALSE
    OBVIOUS
  <2>1. m \in DOMAIN stack[t]
    BY <1>2, Below
  <2>2. m <= 1
    BY <1>2, <2>1 DEF Shape
  <2> QED
    BY <2>2
<1>7. \A m \in 2 .. Len(stack[t]) : Agrees(stack[t][m], List, Status', thread, bAlreadyRun)
  BY <1>6 DEF Agrees, Inner
<1>8. "boot" \in Inner
  BY DEF Inner
<1> DEFINE Kept == /\ stack' \in [Threads -> Seq(Frames)] /\ Stacks' /\ Alone'
                   /\ Status' \in [Objs -> States] /\ WaitsUnrun'
                   /\ \A u \in Threads \ {t} : stack'[u] = stack[u]
\* What is left to show of a step that changes at most the status of o.
<1>9. ASSUME NEW fs \in Seq(Frames), Replace(t, fs), Fits(fs, stack[t], List),
             \A k \in DOMAIN fs : Agrees(fs[k], List, Status', thread, bAlreadyRun),
             UNCHANGED Status \/ (i > 0 /\ \E x \in States : Status' = [Status EXCEPT ![o] = x])
      PROVE  Kept
  <2>1. stack' \in [Threads -> Seq(Frames)] /\ Stacks' /\ Alone'
    BY <1>1, <1>7, <1>8, <1>9, StepInside
  <2>2. \A u \in Threads \ {t} : stack'[u] = stack[u]
    BY <1>2, <1>9, ReplaceTop
  <2> HIDE DEF o
  <2>3. Status' \in [Objs -> States]
    BY <1>9 DEF TypeOK
  <2>4. WaitsUnrun'
    <3>1. ASSUME NEW a \in Listed, Status'[a] = "WAIT"
          PROVE  thread[a] = "new" /\ ~bAlreadyRun[a]
      <4>1. a \in Objs
        BY ListIndex DEF Listed
      <4>2. CASE Status'[a] = Status[a]
        BY <3>1, <4>2 DEF WaitsUnrun
      <4>3. CASE Status'[a] # Status[a]
        <5>1. i > 0 /\ a = o
          BY <1>9, <4>1, <4>3 DEF TypeOK
        <5> QED
          BY <1>5, <5>1 DEF Untouched
      <4> QED
        BY <4>2, <4>3
    <3>2. Listed' = Listed
      BY <1>1, Zenon DEF Listed
    <3> QED
      BY <1>1, <3>1, <3>2, Zenon DEF WaitsUnrun
  <2> QED
    BY <2>1, <2>2, <2>3, <2>4
\* The next frame of the loop.
<1>10. ASSUME i > 0, NEW n \in Nat, NEW f, f = Boot(i - 1, n),
              UNCHANGED Status \/ (\E x \in States : Status' = [Status EXCEPT ![o] = x])
       PROVE  f \in Frames /\ f.at = "boot" /\ Agrees(f, List, Status', thread, bAlreadyRun)
  <2>1. f \in Frames /\ f.at = "boot" /\ f.i = i - 1
    BY <1>3, <1>10 DEF Frames, Boot
  <2>2. ASSUME NEW j \in 1 .. i - 1
        PROVE  Untouched(List[j], Status', thread, bAlreadyRun)
    <3>1. Untouched(List[j], Status, thread, bAlreadyRun) /\ List[j] \in Objs /\ List[j] # o
      BY <1>3, <1>4, <1>5, <1>10
    <3>2. Status'[List[j]] = Status[List[j]]
      BY <1>10, <3>1 DEF TypeOK
    <3> QED
      BY <3>1, <3>2 DEF Untouched
  <2>3. f.i <= Len(List)
    BY <1>3, <1>5, <1>10, <2>1, ListIndex
  <2> QED
    BY <2>1, <2>2, <2>3 DEF Agrees
<1>11. ASSUME Replace(t, <<>>), UNCHANGED Status
       PROVE  Kept
  <2>1. <<>> \in Seq(Frames) /\ DOMAIN <<>> = {} /\ Fits(<<>>, stack[t], List)
    BY FitsNone
  <2> QED
    BY <1>9, <1>11, <2>1
<1>12. ASSUME i > 0, NEW n \in Nat, Replace(t, <<Boot(i - 1, n)>>),
              UNCHANGED Status \/ (\E x \in States : Status' = [Status EXCEPT ![o] = x])
       PROVE  Kept
  <2> DEFINE f == Boot(i - 1, n)
             fs == <<f>>
  <2>1. f \in Frames /\ f.at = "boot" /\ Agrees(f, List, Status', thread, bAlreadyRun)
    BY <1>10, <1>12
  <2>2. Replace(t, fs)
    BY <1>12
  <2> HIDE DEF f
  <2>3. fs \in Seq(Frames) /\ \A k \in DOMAIN fs : fs[k] = f
    BY <2>1
  <2>4. Fits(fs, stack[t], List)
    BY <1>6, <2>1, FitsBoot
  <2> HIDE DEF fs
  <2>5. \A k \in DOMAIN fs : Agrees(fs[k], List, Status', thread, bAlreadyRun)
    BY <2>1, <2>3
  <2> QED
    BY <1>9, <1>12, <2>2, <2>3, <2>4, <2>5, Zenon
<1>13. ASSUME i > 0, NEW n \in Nat, Replace(t, <<Retry(1), Run(o), Boot(i - 1, n)>>),
              Status' = [Status EXCEPT ![o] = "START"]
       PROVE  Kept
  <2> DEFINE f == Retry(1)
             g == Run(o)
             h == Boot(i - 1, n)
             fs == <<f, g, h>>
  <2>1. f \in Frames /\ f.at = "retry" /\ f.i = 1
    BY DEF Frames, Retry
  <2>2. g \in Frames /\ g.at = "run" /\ g.dl = o
    BY <1>5, <1>13 DEF Frames, Run
  <2>3. "START" \in States
    BY DEF States
  <2>4. h \in Frames /\ h.at = "boot" /\ Agrees(h, List, Status', thread, bAlreadyRun)
    BY <1>10, <1>13, <2>3
  <2>5. Replace(t, fs)
    BY <1>13
  <2> HIDE DEF f, g, h
  <2>6. fs \in Seq(Frames) /\ \A k \in DOMAIN fs : fs[k] \in {f, g, h}
    BY <2>1, <2>2, <2>4
  <2>7. Fits(fs, stack[t], List)
    <3>1. \A m \in 2 .. Len(stack[t]) : stack[t][m].at # "run"
      BY <1>6 DEF Inner
    <3> QED
      BY <1>6, <2>1, <2>2, <2>4, <3>1, FitsRunLoop
  <2> HIDE DEF fs
  <2>8. \A k \in DOMAIN fs : Agrees(fs[k], List, Status', thread, bAlreadyRun)
    <3>1. Agrees(f, List, Status', thread, bAlreadyRun)
      BY <2>1 DEF Agrees
    <3>2. Status'[o] = "START"
      BY <1>5, <1>13 DEF TypeOK
    <3>3. thread[o] = "new" /\ ~bAlreadyRun[o] /\ o \in Range(List)
      BY <1>5, <1>13 DEF Untouched
    <3> HIDE DEF o
    <3>4. Agrees(g, List, Status', thread, bAlreadyRun)
      BY <2>2, <3>2, <3>3 DEF Agrees
    <3> QED
      BY <2>4, <2>6, <3>1, <3>4
  <2>9. UNCHANGED Status \/ (i > 0 /\ \E x \in States : Status' = [Status EXCEPT ![o] = x])
    BY <1>13, <2>3, Zenon
  <2> QED
    BY <1>9, <2>5, <2>6, <2>7, <2>8, <2>9, Zenon
<1>14. Kept
  <2>1. b.n + 1 \in Nat /\ "WAIT" \in States /\ "START" \in States
    BY <1>3 DEF States
  <2>2. \/ i = 0 /\ Replace(t, <<>>) /\ UNCHANGED Status
        \/ i > 0 /\ Replace(t, <<Boot(i - 1, b.n)>>) /\ UNCHANGED Status
        \/ i > 0 /\ Replace(t, <<Boot(i - 1, b.n)>>) /\ Status' = [Status EXCEPT ![o] = "WAIT"]
        \/ /\ i > 0 /\ Status' = [Status EXCEPT ![o] = "START"]
           /\ Replace(t, IF Status[o] = "START" THEN <<Boot(i - 1, b.n + 1)>>
                         ELSE <<Retry(1), Run(o), Boot(i - 1, b.n + 1)>>)
    BY Zenon DEF BootLoop
  <2>3. i > 0 => Status[o] # "START"
    BY <1>5 DEF Untouched
  <2>4. \/ i = 0 /\ Replace(t, <<>>) /\ UNCHANGED Status
        \/ i > 0 /\ Replace(t, <<Boot(i - 1, b.n)>>) /\ UNCHANGED Status
        \/ i > 0 /\ Replace(t, <<Boot(i - 1, b.n)>>) /\ Status' = [Status EXCEPT ![o] = "WAIT"]
        \/ /\ i > 0 /\ Status' = [Status EXCEPT ![o] = "START"]
           /\ Replace(t, <<Retry(1), Run(o), Boot(i - 1, b.n + 1)>>)
    BY <2>2, <2>3, Zenon
  <2>5. ASSUME i > 0, Replace(t, <<Boot(i - 1, b.n)>>), UNCHANGED Status
        PROVE  Kept
    BY <1>3, <1>12, <2>5, Zenon
  <2>6. ASSUME i > 0, Replace(t, <<Boot(i - 1, b.n)>>), Status' = [Status EXCEPT ![o] = "WAIT"]
        PROVE  Kept
    <3>1. \E x \in States : Status' = [Status EXCEPT ![o] = x]
      BY <2>1, <2>6, Zenon
    <3> QED
      BY <1>3, <1>12, <2>6, <3>1, Zenon
  <2>7. ASSUME i > 0, Status' = [Status EXCEPT ![o] = "START"],
               Replace(t, <<Retry(1), Run(o), Boot(i - 1, b.n + 1)>>)
        PROVE  Kept
    BY <1>13, <2>1, <2>7, Zenon
  <2> QED
    BY <1>11, <2>4, <2>5, <2>6, <2>7, Zenon
<1>15. TypeOK'
  <2>1. due' \in [Objs -> BOOLEAN]
    BY <1>1 DEF TypeOK
  <2> QED
    BY <1>1, <1>14, <2>1, Zenon DEF TypeOK
<1>16. Threaded' /\ Marked'
  BY <1>1, <1>14, ThreadsKeep
<1>17. NoDuplicate'
  BY <1>1, Zenon DEF NoDuplicate
<1> QED
  BY <1>14, <1>15, <1>16, <1>17

\* At index i the object o gives way to n, which is o or a copy with a new thread, and
\* which nobody runs; it waits or is started.
Copied(o, i, n, wait) ==
  /\ n \in Objs /\ stack[n] = <<>>
  /\ n = o \/ (n \notin Listed /\ \A t \in Threads : n \notin Refs(t))
  /\ List' \in Seq(Objs) /\ Len(List') = Len(List) /\ DOMAIN List' = DOMAIN List
  /\ List'[i] = n
  /\ \A j \in DOMAIN List \ {i} : List'[j] = List[j] /\ List[j] # o /\ List[j] # n
  /\ name'[n] = name[o] /\ Status'[n] = (IF wait THEN "WAIT" ELSE "START")
  /\ thread'[n] = "new" /\ ~bAlreadyRun'[n]
  /\ \A a \in Objs \ {n} : /\ name'[a] = name[a] /\ Status'[a] = Status[a]
                           /\ thread'[a] = thread[a] /\ bAlreadyRun'[a] = bAlreadyRun[a]

\* The call that makes the copy found o at i, and o did not run since.
LEMMA SwapFound ==
  ASSUME Inv, NEW t \in Threads, AtTop(t, "swap")
  PROVE  /\ Top(t).dl \in Objs /\ Top(t).dl \in Range(List) /\ Top(t).dl \in Listed
         /\ Status[Top(t).dl] \in {"STOP", "ERROR", "RETRY"}
         /\ Top(t).i \in DOMAIN List /\ List[Top(t).i] = Top(t).dl
         /\ Top(t).wait \in BOOLEAN
         /\ stack[t] # <<>> /\ stack[t] \in Seq(Frames) /\ Inside(t)
         /\ ~bAlreadyRun[Top(t).dl] => thread[Top(t).dl] = "new"
<1>1. /\ stack[t] # <<>> /\ stack[t] \in Seq(Frames) /\ Top(t) \in Frames /\ Top(t).at = "swap"
      /\ Agrees(Top(t), List, Status, thread, bAlreadyRun) /\ Inside(t)
  BY TopFrame DEF Inner, Inv
<1>2. Top(t).dl \in Objs /\ Top(t).wait \in BOOLEAN
  BY <1>1, FrameFields
<1>3. /\ Top(t).dl \in Range(List) /\ Status[Top(t).dl] \in {"STOP", "ERROR", "RETRY"}
      /\ Top(t).i \in DOMAIN List /\ List[Top(t).i] = Top(t).dl
  BY <1>1 DEF Agrees
<1>4. Top(t).dl \in Listed
  BY <1>3 DEF Listed
<1>5. ~bAlreadyRun[Top(t).dl] => thread[Top(t).dl] = "new"
  BY <1>4, NoRan DEF Inner
<1> QED
  BY <1>1, <1>2, <1>3, <1>4, <1>5

\* What the copy does to the state.
LEMMA SwapCopies ==
  ASSUME Inv, NEW t \in Threads, SwapAndGo(t)
  PROVE  \E n \in Objs :
           /\ Copied(Top(t).dl, Top(t).i, n, Top(t).wait)
           /\ Replace(t, IF Top(t).wait THEN <<>> ELSE <<Retry(1), Run(n)>>)
           /\ name' \in [Objs -> Names] /\ Status' \in [Objs -> States]
           /\ RetryCount' \in [Objs -> 0 .. MaxRetry] /\ bAlreadyRun' \in [Objs -> BOOLEAN]
           /\ due' \in [Objs -> BOOLEAN] /\ thread' \in [Objs -> {"new", "running", "done"}]
<1> DEFINE o == Top(t).dl
           i == Top(t).i
           w == Top(t).wait
<1>1. AtTop(t, "swap")
  BY Zenon DEF SwapAndGo
<1>2. PICK n \in IF bAlreadyRun[o] THEN Unused ELSE {o} :
        /\ List' = IF bAlreadyRun[o] /\ i \in DOMAIN List THEN [List EXCEPT ![i] = n] ELSE List
        /\ name' = [name EXCEPT ![n] = name[o]]
        /\ RetryCount' = [RetryCount EXCEPT ![n] = RetryCount[o]]
        /\ thread' = [thread EXCEPT ![n] = IF n = o THEN @ ELSE "new"]
        /\ bAlreadyRun' = [bAlreadyRun EXCEPT ![n] = FALSE]
        /\ due' = [due EXCEPT ![n] = FALSE, ![o] = FALSE]
        /\ Status' = [Status EXCEPT ![n] = IF w THEN "WAIT" ELSE "START"]
        /\ Replace(t, IF w \/ Status[o] = "START" THEN <<>> ELSE <<Retry(1), Run(n)>>)
  BY Zenon DEF SwapAndGo
<1>3. /\ o \in Objs /\ o \in Listed /\ Status[o] \in {"STOP", "ERROR", "RETRY"}
      /\ i \in DOMAIN List /\ List[i] = o /\ w \in BOOLEAN
      /\ ~bAlreadyRun[o] => thread[o] = "new"
  BY <1>1, SwapFound
<1> HIDE DEF o, i, w
<1>4. bAlreadyRun[o] => /\ n \in Objs /\ n \notin Listed /\ stack[n] = <<>>
                        /\ \A u \in Threads : n \notin Refs(u)
  BY <1>2, Zenon DEF Unused
<1>5. ~bAlreadyRun[o] => n = o /\ n \in Objs /\ stack[n] = <<>>
  <2>1. ~bAlreadyRun[o] => n = o
    BY <1>2
  <2>2. thread[o] = "new" => stack[o] = <<>>
    BY <1>3 DEF Inv, Threaded
  <2> QED
    BY <1>3, <2>1, <2>2
<1>6. /\ n \in Objs /\ stack[n] = <<>>
      /\ n = o \/ (n \notin Listed /\ \A u \in Threads : n \notin Refs(u))
  BY <1>4, <1>5, Zenon
<1>7. \A j \in DOMAIN List \ {i} : List[j] # o /\ List[j] # n
  <2>1. \A j \in DOMAIN List \ {i} : List[j] # o
    BY <1>3, Zenon DEF Inv, NoDuplicate
  <2>2. \A j \in DOMAIN List : List[j] \in Listed
    BY ListIndex DEF Inv
  <2> QED
    BY <1>6, <2>1, <2>2
<1>8. /\ List' \in Seq(Objs) /\ Len(List') = Len(List) /\ DOMAIN List' = DOMAIN List
      /\ List'[i] = n /\ \A j \in DOMAIN List \ {i} : List'[j] = List[j]
  <2>0. List \in Seq(Objs)
    BY DEF Inv, TypeOK
  <2>1. CASE bAlreadyRun[o]
    <3>1. List' = [List EXCEPT ![i] = n]
      BY <1>2, <1>3, <2>1
    <3>2. i \in 1 .. Len(List)
      BY <1>3, <2>0, LenProperties
    <3> DEFINE l == [List EXCEPT ![i] = n]
    <3>3. l \in Seq(Objs) /\ Len(l) = Len(List)
          /\ \A j \in 1 .. Len(List) : l[j] = IF j = i THEN n ELSE List[j]
      BY <1>6, <2>0, <3>2, ExceptSeq
    <3> HIDE DEF l
    <3>4. List' = l
      BY <3>1 DEF l
    <3> QED
      BY <2>0, <3>2, <3>3, <3>4, LenProperties
  <2>2. CASE ~bAlreadyRun[o]
    <3>1. List' = List /\ n = o
      BY <1>2, <1>5, <2>2
    <3> QED
      BY <1>3, <2>0, <3>1
  <2> QED
    BY <2>1, <2>2
<1>9. /\ name' \in [Objs -> Names] /\ Status' \in [Objs -> States]
      /\ RetryCount' \in [Objs -> 0 .. MaxRetry] /\ bAlreadyRun' \in [Objs -> BOOLEAN]
      /\ due' \in [Objs -> BOOLEAN] /\ thread' \in [Objs -> {"new", "running", "done"}]
  <2>1. name' \in [Objs -> Names] /\ RetryCount' \in [Objs -> 0 .. MaxRetry]
    BY <1>2, <1>3 DEF Inv, TypeOK
  <2>2. bAlreadyRun' \in [Objs -> BOOLEAN] /\ due' \in [Objs -> BOOLEAN]
    BY <1>2 DEF Inv, TypeOK
  <2>3. Status' \in [Objs -> States]
    BY <1>2 DEF Inv, TypeOK, States
  <2>4. thread' \in [Objs -> {"new", "running", "done"}]
    BY <1>2, <1>6 DEF Inv, TypeOK
  <2> QED
    BY <2>1, <2>2, <2>3, <2>4
<1>10. /\ name'[n] = name[o] /\ Status'[n] = (IF w THEN "WAIT" ELSE "START")
       /\ thread'[n] = "new" /\ ~bAlreadyRun'[n]
  <2>1. name'[n] = name[o] /\ ~bAlreadyRun'[n]
    BY <1>2, <1>6 DEF Inv, TypeOK
  <2>2. Status'[n] = (IF w THEN "WAIT" ELSE "START")
    BY <1>2, <1>6 DEF Inv, TypeOK
  <2>3. thread'[n] = IF n = o THEN thread[n] ELSE "new"
    BY <1>2, <1>6 DEF Inv, TypeOK
  <2>4. n = o => thread[o] = "new"
    BY <1>3, <1>4
  <2> QED
    BY <2>1, <2>2, <2>3, <2>4
<1>11. \A a \in Objs \ {n} : /\ name'[a] = name[a] /\ Status'[a] = Status[a]
                             /\ thread'[a] = thread[a] /\ bAlreadyRun'[a] = bAlreadyRun[a]
  BY <1>2, <1>6 DEF Inv, TypeOK
<1>12. Copied(o, i, n, w)
  BY <1>6, <1>7, <1>8, <1>10, <1>11, Zenon DEF Copied
<1>13. Replace(t, IF w THEN <<>> ELSE <<Retry(1), Run(n)>>)
  <2>1. Status[o] # "START"
    BY <1>3
  <2> QED
    BY <1>2, <2>1, Zenon
<1> QED
  BY <1>6, <1>9, <1>12, <1>13 DEF o, i, w

\* The frames below the call that makes the copy are about other objects.
LEMMA SwapBelow ==
  ASSUME Inv, NEW t \in Threads, AtTop(t, "swap"), NEW n,
         Copied(Top(t).dl, Top(t).i, n, Top(t).wait), NEW m \in 2 .. Len(stack[t])
  PROVE  /\ Agrees(stack[t][m], List', Status', thread', bAlreadyRun')
         /\ stack[t][m].at = "run" => n # stack[t][m].dl
<1> DEFINE o == Top(t).dl
           i == Top(t).i
           w == Top(t).wait
           e == stack[t][m]
<1>1. /\ Copied(o, i, n, w) /\ o \in Objs /\ Status[o] \in {"STOP", "ERROR", "RETRY"}
      /\ i \in DOMAIN List /\ List[i] = o /\ stack[t] # <<>>
  BY SwapFound
<1>2. /\ e \in Frames /\ e.at \notin {"start", "swap", "ran"} /\ m \in DOMAIN stack[t]
      /\ Agrees(e, List, Status, thread, bAlreadyRun)
  BY <1>1, Below DEF Inv
<1>3. e.at = "run" => e.dl \in Refs(t)
  BY <1>2 DEF Refs
<1>4. e.at = "boot" => \A k \in 1 .. e.i : List[k] # o
  <2>1. 1 \in DOMAIN stack[t] /\ stack[t][1].at = "swap" /\ stack[t][1].dl = o /\ Ahead(stack[t], List)
    BY TopFrame DEF Inv, Stacks
  <2> QED
    BY <1>2, <2>1 DEF Ahead

<1>5. /\ Len(List) \in Nat /\ DOMAIN List = 1 .. Len(List)
      /\ \A j \in DOMAIN List : List[j] \in Objs
      /\ \A a \in Range(List) : a \in Objs /\ \E j \in DOMAIN List : List[j] = a
  BY ListIndex DEF Inv
<1> HIDE DEF o, i, w, e
<1>6. /\ n = o \/ (\A u \in Threads : n \notin Refs(u))
      /\ Len(List') = Len(List) /\ DOMAIN List' = DOMAIN List
      /\ \A j \in DOMAIN List \ {i} : List'[j] = List[j] /\ List[j] # o /\ List[j] # n
      /\ \A a \in Objs \ {n} : /\ Status'[a] = Status[a] /\ thread'[a] = thread[a]
                               /\ bAlreadyRun'[a] = bAlreadyRun[a]
  BY <1>1, Zenon DEF Copied
<1>7. ASSUME e.at = "run"
      PROVE  /\ n # e.dl /\ e.dl \in Range(List') /\ Status'[e.dl] = "START"
             /\ thread'[e.dl] = "new" /\ ~bAlreadyRun'[e.dl]
  <2>1. /\ e.dl \in Range(List) /\ Status[e.dl] = "START" /\ thread[e.dl] = "new"
        /\ ~bAlreadyRun[e.dl]
    BY <1>2, <1>7 DEF Agrees
  <2>2. e.dl # o /\ n # e.dl
    BY <1>1, <1>3, <1>6, <1>7, <2>1
  <2>3. PICK j \in DOMAIN List : List[j] = e.dl
    BY <1>5, <2>1
  <2>4. j \in DOMAIN List' /\ List'[j] = e.dl
    BY <1>1, <1>6, <2>2, <2>3
  <2>5. e.dl \in Range(List')
    BY <2>4 DEF Range
  <2>6. e.dl \in Objs \ {n}
    BY <1>5, <2>1, <2>2
  <2> QED
    BY <1>6, <2>1, <2>2, <2>5, <2>6
<1>8. ASSUME e.at = "boot"
      PROVE  /\ e.i <= Len(List')
             /\ \A j \in 1 .. e.i : Untouched(List'[j], Status', thread', bAlreadyRun')
  <2>1. /\ e.i \in Nat /\ e.i <= Len(List)
        /\ \A j \in 1 .. e.i : Untouched(List[j], Status, thread, bAlreadyRun)
    BY <1>2, <1>8, FrameFields DEF Agrees
  <2>2. ASSUME NEW j \in 1 .. e.i
        PROVE  Untouched(List'[j], Status', thread', bAlreadyRun')
    <3>1. j \in DOMAIN List /\ List[j] # o
      BY <1>4, <1>5, <1>8, <2>1
    <3>2. List'[j] = List[j] /\ List[j] \in Objs \ {n}
      BY <1>1, <1>5, <1>6, <3>1
    <3> QED
      BY <1>6, <2>1, <3>2 DEF Untouched
  <2> QED
    BY <1>6, <2>1, <2>2
<1>9. Agrees(e, List', Status', thread', bAlreadyRun')
  <2>1. e.at = "retry" => e.i # 0
    BY <1>2 DEF Agrees
  <2> QED
    BY <1>2, <1>7, <1>8, <2>1 DEF Agrees
<1> QED
  BY <1>7, <1>9 DEF e

\* The copy is made where the object was found, and waits or is started.
LEMMA SwapKeeps ==
  ASSUME Inv, NEW t \in Threads, SwapAndGo(t)
  PROVE  Inv'
<1> DEFINE o == Top(t).dl
           i == Top(t).i
           w == Top(t).wait
<1>1. AtTop(t, "swap")
  BY Zenon DEF SwapAndGo
<1>2. PICK n \in Objs :
        /\ Copied(o, i, n, w)
        /\ Replace(t, IF w THEN <<>> ELSE <<Retry(1), Run(n)>>)
        /\ name' \in [Objs -> Names] /\ Status' \in [Objs -> States]
        /\ RetryCount' \in [Objs -> 0 .. MaxRetry] /\ bAlreadyRun' \in [Objs -> BOOLEAN]
        /\ due' \in [Objs -> BOOLEAN] /\ thread' \in [Objs -> {"new", "running", "done"}]
  BY SwapCopies
<1>3. /\ o \in Objs /\ o \in Listed /\ i \in DOMAIN List /\ List[i] = o /\ w \in BOOLEAN
      /\ stack[t] # <<>> /\ stack[t] \in Seq(Frames)
  BY <1>1, SwapFound
<1>4. \A m \in 2 .. Len(stack[t]) :
        /\ Agrees(stack[t][m], List', Status', thread', bAlreadyRun')
        /\ stack[t][m].at = "run" => n # stack[t][m].dl
  BY <1>1, <1>2, SwapBelow
<1> HIDE DEF o, i, w
<1>5. /\ stack[n] = <<>> /\ List' \in Seq(Objs) /\ DOMAIN List' = DOMAIN List /\ List'[i] = n
      /\ \A j \in DOMAIN List \ {i} : List'[j] = List[j] /\ List[j] # o /\ List[j] # n
      /\ name'[n] = name[o] /\ Status'[n] = (IF w THEN "WAIT" ELSE "START")
      /\ thread'[n] = "new" /\ ~bAlreadyRun'[n]
  BY <1>2, Zenon DEF Copied
<1>6. \A a \in Objs \ {n} : /\ name'[a] = name[a] /\ Status'[a] = Status[a]
                            /\ thread'[a] = thread[a] /\ bAlreadyRun'[a] = bAlreadyRun[a]
  BY <1>2, Zenon DEF Copied
<1>7. \A a \in Listed' : a = n \/ (a \in Listed /\ a \in Objs \ {n})
  <2>1. \A j \in DOMAIN List' : List'[j] = n \/ (List'[j] = List[j] /\ j \in DOMAIN List /\ List[j] # n)
    BY <1>5
  <2>2. \A j \in DOMAIN List : List[j] \in Listed /\ List[j] \in Objs
    BY ListIndex DEF Inv
  <2>3. \A a \in Listed' : \E j \in DOMAIN List' : a = List'[j]
    BY DEF Listed, Range
  <2> QED
    BY <2>1, <2>2, <2>3
<1>8. stack' \in [Threads -> Seq(Frames)] /\ Stacks' /\ Alone' /\ \A u \in Threads \ {t} : stack'[u] = stack[u]
  <2> DEFINE f == Retry(1)
             g == Run(n)
  <2>1. f \in Frames /\ f.at = "retry" /\ f.i = 1
    BY DEF Frames, Retry
  <2>2. g \in Frames /\ g.at = "run" /\ g.dl = n
    BY <1>2 DEF Frames, Run
  <2> DEFINE fs == IF w THEN <<>> ELSE <<f, g>>
  <2>3. Replace(t, fs)
    BY <1>2
  <2> HIDE DEF f, g
  <2>4. (w /\ fs = <<>>) \/ (~w /\ fs = <<f, g>>)
    OBVIOUS
  <2> HIDE DEF fs
  <2>5. fs \in Seq(Frames) /\ \A k \in DOMAIN fs : ~w /\ fs[k] \in {f, g}
    <3>1. CASE fs = <<>> /\ w
      BY <3>1
    <3>2. CASE fs = <<f, g>> /\ ~w
      BY <2>1, <2>2, <3>2
    <3> QED
      BY <2>4, <3>1, <3>2
  <2>6. Fits(fs, stack[t], List')
    <3>1. Fits(<<>>, stack[t], List')
      BY FitsNone
    <3>2. Fits(<<f, g>>, stack[t], List')
      BY <1>4, <2>1, <2>2, FitsRun
    <3> QED
      BY <2>4, <3>1, <3>2, Zenon
  <2>7. \A k \in DOMAIN fs : Agrees(fs[k], List', Status', thread', bAlreadyRun')
    <3>1. Agrees(f, List', Status', thread', bAlreadyRun')
      BY <2>1 DEF Agrees
    <3>2. ~w => Agrees(g, List', Status', thread', bAlreadyRun')
      <4>1. n \in Range(List')
        BY <1>3, <1>5 DEF Range
      <4> QED
        BY <1>5, <2>2, <4>1 DEF Agrees
    <3> QED
      BY <2>5, <3>1, <3>2
  <2>8. "swap" \in Inner
    BY DEF Inner
  <2>9. stack' \in [Threads -> Seq(Frames)] /\ Stacks' /\ Alone'
    BY <1>1, <1>4, <2>3, <2>5, <2>6, <2>7, <2>8, StepInside DEF Inv
  <2>10. \A u \in Threads \ {t} : stack'[u] = stack[u]
    BY <1>3, <2>3, <2>5, ReplaceTop DEF Inv
  <2> QED
    BY <2>9, <2>10
<1>9. TypeOK'
  BY <1>2, <1>5, <1>8, Zenon DEF TypeOK
<1>10. Threaded'
  <2>1. ASSUME NEW a \in Objs, stack'[a] # <<>>
        PROVE  thread'[a] # "new"
    <3>1. stack[a] # <<>>
      BY <1>3, <1>8, <2>1 DEF Threads
    <3>2. a \in Objs \ {n} /\ thread[a] # "new"
      BY <1>5, <3>1 DEF Inv, Threaded
    <3> QED
      BY <1>6, <3>2
  <2> QED
    BY <2>1 DEF Threaded
<1>11. Marked'
  <2>1. ASSUME NEW a \in Listed', thread'[a] # "new", ~bAlreadyRun'[a]
        PROVE  FALSE
    <3>1. a \in Listed /\ a \in Objs \ {n}
      BY <1>5, <1>7, <2>1
    <3>2. thread[a] # "new" /\ ~bAlreadyRun[a]
      BY <1>6, <2>1, <3>1
    <3>3. "swap" \in Inner /\ "swap" # "ran"
      BY DEF Inner
    <3> QED
      BY <1>1, <3>1, <3>2, <3>3, NoRan
  <2> QED
    BY <2>1, Zenon DEF Marked
<1>12. WaitsUnrun'
  <2>1. ASSUME NEW a \in Listed', Status'[a] = "WAIT"
        PROVE  thread'[a] = "new" /\ ~bAlreadyRun'[a]
    <3>1. CASE a = n
      BY <1>5, <3>1
    <3>2. CASE a \in Listed /\ a \in Objs \ {n}
      BY <1>6, <2>1, <3>2 DEF Inv, WaitsUnrun
    <3> QED
      BY <1>7, <3>1, <3>2
  <2> QED
    BY <2>1, Zenon DEF WaitsUnrun
<1>13. NoDuplicate'
  <2>1. ASSUME NEW j \in DOMAIN List
        PROVE  name'[List'[j]] = name[List[j]]
    <3>1. List[j] \in Objs
      BY ListIndex DEF Inv
    <3> QED
      BY <1>3, <1>5, <1>6, <3>1
  <2>2. ASSUME NEW j \in DOMAIN List, NEW k \in DOMAIN List,
               List'[j] = List'[k] \/ name'[List'[j]] = name'[List'[k]]
        PROVE  j = k
    <3>1. name[List[j]] = name[List[k]]
      BY <2>1, <2>2
    <3> QED
      BY <3>1, Zenon DEF Inv, NoDuplicate
  <2> QED
    BY <1>5, <2>2, Zenon DEF NoDuplicate
<1> QED
  BY <1>8, <1>9, <1>10, <1>11, <1>12, <1>13 DEF Inv

\* Create fails, or the thread is run; it never ran before.
LEMMA RunKeeps ==
  ASSUME Inv, NEW t \in Threads, RunThread(t)
  PROVE  Inv'
<1> DEFINE o == Top(t).dl
           s == stack[t]
<1>1. /\ AtTop(t, "run") /\ UNCHANGED <<List, name, RetryCount, bAlreadyRun>>
      /\ \/ /\ Status' = [Status EXCEPT ![o] = "ERROR"]
            /\ due' = [due EXCEPT ![o] = FALSE]
            /\ Replace(t, <<Retry(1)>>)
            /\ UNCHANGED thread
         \/ /\ thread' = [thread EXCEPT ![o] = "running"]
            /\ stack' = [stack EXCEPT ![t] = <<Ran(o, FALSE)>> \o Tail(@), ![o] = <<Work("entry")>>]
            /\ UNCHANGED <<Status, due>>
         \/ thread[o] # "new"
  BY Zenon DEF RunThread
<1>2. /\ s # <<>> /\ s \in Seq(Frames) /\ Top(t) \in Frames /\ Top(t).at = "run"
      /\ Agrees(Top(t), List, Status, thread, bAlreadyRun) /\ Inside(t) /\ Shape(s)
      /\ 1 \in DOMAIN s /\ s[1] = Top(t)
  BY <1>1, TopFrame DEF Inv, Inner
<1>3. /\ o \in Objs /\ o \in Listed /\ o \in Range(List) /\ Status[o] = "START"
      /\ thread[o] = "new" /\ ~bAlreadyRun[o]
  BY <1>2, FrameFields DEF Agrees, Listed
<1>4. stack[o] = <<>> /\ o # t
  BY <1>2, <1>3 DEF Inv, Threaded
<1>5. ASSUME NEW m \in 2 .. Len(s)
      PROVE  /\ s[m] \in Frames /\ Agrees(s[m], List, Status, thread, bAlreadyRun)
             /\ s[m].at \notin {"start", "swap", "ran"}
             /\ s[m].at = "run" => s[m].dl \in Objs \ {o}
  <2>1. /\ s[m] \in Frames /\ Agrees(s[m], List, Status, thread, bAlreadyRun)
        /\ s[m].at \notin {"start", "swap", "ran"} /\ m \in DOMAIN s /\ m # 1
    BY <1>2, Below DEF Inv
  <2>2. s[m].at = "run" => s[m].dl # o
    BY <1>2, <2>1 DEF Shape
  <2> QED
    BY <2>1, <2>2, FrameFields
<1>6. \A e \in Frames : e.at = "boot" /\ Agrees(e, List, Status, thread, bAlreadyRun)
        => /\ e.i <= Len(List)
           /\ \A j \in 1 .. e.i : List[j] \in Objs \ {o} /\ Untouched(List[j], Status, thread, bAlreadyRun)
  <2> SUFFICES ASSUME NEW e \in Frames, e.at = "boot",
                      Agrees(e, List, Status, thread, bAlreadyRun), NEW j \in 1 .. e.i
               PROVE  e.i <= Len(List) /\ List[j] \in Objs \ {o}
                      /\ Untouched(List[j], Status, thread, bAlreadyRun)
    BY DEF Agrees
  <2>1. e.i \in Nat /\ e.i <= Len(List) /\ Untouched(List[j], Status, thread, bAlreadyRun)
    BY FrameFields DEF Agrees
  <2>2. List[j] \in Objs
    BY <2>1, ListIndex DEF Inv
  <2> QED
    BY <1>3, <2>1, <2>2 DEF Untouched
<1>7. "run" \in Inner /\ "run" # "ran"
  BY DEF Inner
<1>8. NoDuplicate' /\ Listed' = Listed
  BY <1>1, Zenon DEF Inv, NoDuplicate, Listed
<1> HIDE DEF o, s
<1>9. ASSUME Status' = [Status EXCEPT ![o] = "ERROR"], due' = [due EXCEPT ![o] = FALSE],
             Replace(t, <<Retry(1)>>), UNCHANGED thread
      PROVE  Inv'
  <2> DEFINE f == Retry(1)
             fs == <<f>>
  <2>1. f \in Frames /\ f.at = "retry" /\ f.i = 1
    BY DEF Frames, Retry
  <2>2. Replace(t, fs)
    BY <1>9
  <2> HIDE DEF f
  <2>3. fs \in Seq(Frames) /\ \A k \in DOMAIN fs : fs[k] = f
    BY <2>1
  <2>4. Fits(fs, s, List)
    BY <2>1, FitsOne DEF Inner
  <2> HIDE DEF fs
  <2>5. /\ Status' \in [Objs -> States] /\ Status'[o] = "ERROR"
        /\ \A a \in Objs \ {o} : Status'[a] = Status[a]
    BY <1>3, <1>9 DEF Inv, TypeOK, States
  <2>6. due' \in [Objs -> BOOLEAN]
    BY <1>9 DEF Inv, TypeOK
  <2>7. \A m \in 2 .. Len(s) : Agrees(s[m], List, Status', thread, bAlreadyRun)
    <3> SUFFICES ASSUME NEW m \in 2 .. Len(s)
                 PROVE  Agrees(s[m], List, Status', thread, bAlreadyRun)
      OBVIOUS
    <3> DEFINE e == s[m]
    <3>1. /\ e \in Frames /\ Agrees(e, List, Status, thread, bAlreadyRun)
          /\ e.at \notin {"start", "swap", "ran"}
          /\ e.at = "run" => e.dl \in Objs \ {o}
      BY <1>5
    <3> HIDE DEF e
    <3>2. e.at = "boot" => /\ e.i <= Len(List)
                           /\ \A j \in 1 .. e.i : Untouched(List[j], Status', thread, bAlreadyRun)
      BY <1>6, <2>5, <3>1 DEF Untouched
    <3>3. Agrees(e, List, Status', thread, bAlreadyRun)
      BY <2>5, <3>1, <3>2 DEF Agrees
    <3> QED
      BY <3>3 DEF e
  <2>8. \A k \in DOMAIN fs : Agrees(fs[k], List, Status', thread, bAlreadyRun)
    BY <2>1, <2>3 DEF Agrees
  <2>9. stack' \in [Threads -> Seq(Frames)] /\ Stacks' /\ Alone'
    BY <1>1, <1>7, <1>9, <2>2, <2>3, <2>4, <2>7, <2>8, StepInside DEF Inv, s
  <2>10. \A u \in Threads \ {t} : stack'[u] = stack[u]
    BY <1>2, <2>2, <2>3, ReplaceTop DEF Inv, s
  <2>11. TypeOK'
    BY <1>1, <1>9, <2>5, <2>6, <2>9, Zenon DEF Inv, TypeOK
  <2>12. Threaded' /\ Marked'
    BY <1>1, <1>7, <1>9, <2>10, ThreadsKeep DEF Inv
  <2>13. WaitsUnrun'
    <3>1. ASSUME NEW a \in Listed, Status'[a] = "WAIT"
          PROVE  thread[a] = "new" /\ ~bAlreadyRun[a]
      <4>1. a \in Objs /\ a # o
        BY <2>5, <3>1, ListIndex DEF Listed, Inv
      <4> QED
        BY <2>5, <3>1, <4>1 DEF Inv, WaitsUnrun
    <3> QED
      BY <1>1, <1>8, <1>9, <3>1, Zenon DEF WaitsUnrun
  <2> QED
    BY <1>8, <2>9, <2>11, <2>12, <2>13 DEF Inv
<1>10. ASSUME thread' = [thread EXCEPT ![o] = "running"],
              stack' = [stack EXCEPT ![t] = <<Ran(o, FALSE)>> \o Tail(@), ![o] = <<Work("entry")>>],
              UNCHANGED <<Status, due>>
       PROVE  Inv'
  <2> DEFINE f == Ran(o, FALSE)
             fs == <<f>>
             g == Work("entry")
             gs == <<g>>
             new == fs \o Tail(s)
  <2>1. f \in Frames /\ f.at = "ran" /\ f.dl = o /\ ~f.failed
    BY <1>3 DEF Frames, Ran
  <2>2. g \in Frames /\ g.at = "entry"
    BY WorkTypes DEF WorkLabels
  <2>3. stack' = [stack EXCEPT ![t] = new, ![o] = gs]
    BY <1>10 DEF s
  <2> HIDE DEF f, g
  <2>4. fs \in Seq(Frames) /\ DOMAIN fs = {1} /\ fs[1] = f /\ Len(fs) = 1
        /\ gs \in Seq(Frames) /\ \A k \in DOMAIN gs : gs[k] = g
    BY <2>1, <2>2
  <2>5. Fits(fs, s, List)
    BY <2>1, FitsOne DEF Inner
  <2> HIDE DEF fs, gs
  <2>6. new \in Seq(Frames) /\ new # <<>> /\ new[1] = f
    <3>1. 1 \in 1 .. Len(fs)
      BY <2>4
    <3>2. /\ new \in Seq(Frames) /\ Len(new) = Len(fs) + Len(s) - 1 /\ Len(s) \in Nat \ {0}
          /\ \A k \in 1 .. Len(fs) : new[k] = fs[k]
      <4>1. fs \in Seq(Frames)
        BY <2>4
      <4> QED
        BY <1>2, <4>1, Pushed
    <3> HIDE DEF new
    <3>3. Len(new) # 0
      BY <2>4, <3>2
    <3> QED
      BY <2>4, <3>1, <3>2, <3>3
  <2> HIDE DEF new
  <2>7. /\ stack' \in [Threads -> Seq(Frames)] /\ stack'[t] = new /\ stack'[o] = gs
        /\ \A u \in Threads \ {t, o} : stack'[u] = stack[u]
    <3>1. stack \in [Threads -> Seq(Frames)] /\ o \in Threads
      BY <1>3, Zenon DEF Inv, TypeOK, Threads
    <3> QED
      BY <1>4, <2>3, <2>4, <2>6, <3>1
  <2>8. \A u \in Threads \ {t} : Out(stack'[u])
    <3>1. Out(gs)
      BY <2>2, <2>4 DEF Out, Inner
    <3>2. \A u \in Threads \ {t} : Out(stack[u])
      BY <1>2, OthersOut DEF Inv
    <3> QED
      BY <2>7, <3>1, <3>2
  <2>9. /\ thread' \in [Objs -> {"new", "running", "done"}] /\ thread'[o] = "running"
        /\ \A a \in Objs \ {o} : thread'[a] = thread[a]
    BY <1>3, <1>10 DEF Inv, TypeOK
  <2>10. \A m \in 2 .. Len(s) : Agrees(s[m], List, Status, thread', bAlreadyRun)
    <3> SUFFICES ASSUME NEW m \in 2 .. Len(s)
                 PROVE  Agrees(s[m], List, Status, thread', bAlreadyRun)
      OBVIOUS
    <3> DEFINE e == s[m]
    <3>1. /\ e \in Frames /\ Agrees(e, List, Status, thread, bAlreadyRun)
          /\ e.at \notin {"start", "swap", "ran"}
          /\ e.at = "run" => e.dl \in Objs \ {o}
      BY <1>5
    <3> HIDE DEF e
    <3>2. e.at = "boot" => /\ e.i <= Len(List)
                           /\ \A j \in 1 .. e.i : Untouched(List[j], Status, thread', bAlreadyRun)
      BY <1>6, <2>9, <3>1 DEF Untouched
    <3>3. Agrees(e, List, Status, thread', bAlreadyRun)
      BY <2>9, <3>1, <3>2 DEF Agrees
    <3> QED
      BY <3>3 DEF e
  <2>11. \A k \in DOMAIN fs : Agrees(fs[k], List, Status, thread', bAlreadyRun)
    BY <2>1, <2>4, <2>9 DEF Agrees
  <2>12. Stacks' /\ Alone'
    <3>1. stack'[t] = fs \o Tail(s)
      BY <2>7 DEF new
    <3> QED
      BY <1>1, <1>2, <1>10, <2>4, <2>5, <2>7, <2>8, <2>10, <2>11, <3>1, ManagerKeeps DEF Inv, s
  <2>13. TypeOK'
    BY <1>1, <1>10, <2>7, <2>9, Zenon DEF Inv, TypeOK
  <2>14. Threaded'
    <3>1. ASSUME NEW a \in Objs, stack'[a] # <<>>
          PROVE  thread'[a] # "new"
      <4>1. CASE a = o
        BY <2>9, <4>1
      <4>2. CASE a # o
        <5>1. stack[a] # <<>>
          BY <1>2, <2>7, <3>1, <4>2 DEF Threads, s
        <5> QED
          BY <2>9, <4>2, <5>1 DEF Inv, Threaded
      <4> QED
        BY <4>1, <4>2
    <3> QED
      BY <3>1 DEF Threaded
  <2>15. Marked'
    <3>1. AtTop(t, "ran")' /\ Top(t)'.dl = o
      BY <2>1, <2>6, <2>7 DEF AtTop, Top
    <3>2. ASSUME NEW a \in Listed, thread'[a] # "new", ~bAlreadyRun[a], a # o
          PROVE  FALSE
      <4>1. a \in Objs
        BY ListIndex DEF Inv, Listed
      <4>2. thread[a] # "new"
        BY <2>9, <3>2, <4>1
      <4> QED
        BY <1>1, <1>7, <3>2, <4>2, NoRan
    <3> QED
      BY <1>1, <1>8, <3>1, <3>2, Zenon DEF Marked
  <2>16. WaitsUnrun'
    <3>1. ASSUME NEW a \in Listed, Status[a] = "WAIT"
          PROVE  thread'[a] = "new" /\ ~bAlreadyRun[a]
      <4>1. a \in Objs \ {o}
        BY <1>3, <3>1, ListIndex DEF Listed, Inv
      <4> QED
        BY <2>9, <3>1, <4>1 DEF Inv, WaitsUnrun
    <3> QED
      BY <1>1, <1>8, <1>10, <3>1, Zenon DEF WaitsUnrun
  <2> QED
    BY <1>8, <2>12, <2>13, <2>14, <2>15, <2>16 DEF Inv
<1> QED
  BY <1>1, <1>3, <1>9, <1>10, Zenon

-----------------------------------------------------------------------------
(***************************************************************************)
(* The steps of a worker.                                                  *)
(***************************************************************************)
\* A stack without a call inside the manager, after a step.
LEMMA OutsideAfter ==
  ASSUME stack' \in [Threads -> Seq(Frames)], NEW u \in Threads, Out(stack'[u])
  PROVE  ~Inside(u)'
<1>1. ASSUME stack'[u] # <<>>
      PROVE  stack'[u][1].at \in Outer
  <2>1. 1 \in DOMAIN stack'[u] /\ stack'[u][1] \in Frames
    BY <1>1, LenProperties, EmptySeq
  <2>2. stack'[u][1].at \notin Inner
    BY <2>1 DEF Out
  <2> QED
    BY <2>1, <2>2, FrameFields
<1> QED
  BY <1>1 DEF Inside, Top, Outer

\* A worker changes the status of its own object only; a start that is under way is
\* about one that never ran, or finds it still stopped or failed.
LEMMA WorkKeeps ==
  ASSUME Inv, NEW o \in Objs, NEW label \in WorkLabels, AtTop(o, label),
         stack' \in [Threads -> Seq(Frames)], Out(stack'[o]),
         \A u \in Threads \ {o} : stack'[u] = stack[u],
         UNCHANGED <<List, name, RetryCount, bAlreadyRun>>,
         Status' \in [Objs -> States], due' \in [Objs -> BOOLEAN],
         \A a \in Objs \ {o} : Status'[a] = Status[a],
         Status[o] \in {"STOP", "ERROR", "RETRY"} => Status'[o] \in {"STOP", "ERROR", "RETRY"},
         Status'[o] = "WAIT" => Status[o] = "WAIT",
         thread' \in [Objs -> {"new", "running", "done"}], thread'[o] # "new",
         \A a \in Objs \ {o} : thread'[a] = thread[a]
  PROVE  Inv'
<1>1. stack[o] # <<>> /\ thread[o] # "new" /\ o \in Threads
  BY Zenon DEF AtTop, Inv, Threaded, Threads
<1>2. \A a \in Objs : thread'[a] = "new" <=> thread[a] = "new"
  BY <1>1
<1>3. ASSUME NEW e \in Frames, Agrees(e, List, Status, thread, bAlreadyRun)
      PROVE  Agrees(e, List, Status', thread', bAlreadyRun)
  <2>1. e.at \in {"start", "swap"} => /\ e.dl \in Range(List)
                                      /\ Status'[e.dl] \in {"STOP", "ERROR", "RETRY"}
    BY <1>3, FrameFields DEF Agrees
  <2>2. e.at = "run" => /\ e.dl \in Range(List) /\ Status'[e.dl] = "START"
                        /\ thread'[e.dl] = "new" /\ ~bAlreadyRun[e.dl]
    BY <1>1, <1>2, <1>3, FrameFields DEF Agrees
  <2>3. e.at = "ran" => thread'[e.dl] # "new" /\ ~e.failed
    BY <1>2, <1>3, FrameFields DEF Agrees
  <2>4. ASSUME e.at = "boot", NEW j \in 1 .. e.i
        PROVE  Untouched(List[j], Status', thread', bAlreadyRun)
    <3>1. e.i \in Nat /\ e.i <= Len(List) /\ Untouched(List[j], Status, thread, bAlreadyRun)
      BY <1>3, <2>4, FrameFields DEF Agrees
    <3>2. List[j] \in Objs
      BY <3>1, ListIndex DEF Inv
    <3>3. List[j] # o
      BY <1>1, <3>1 DEF Untouched
    <3> QED
      BY <1>2, <3>1, <3>2, <3>3 DEF Untouched
  <2> QED
    BY <1>3, <2>1, <2>2, <2>3, <2>4 DEF Agrees
<1>4. Stacks'
  <2>1. ASSUME NEW u \in Threads
        PROVE  /\ Shape(stack'[u]) /\ Ahead(stack'[u], List)
               /\ \A k \in DOMAIN stack'[u] :
                    Agrees(stack'[u][k], List, Status', thread', bAlreadyRun)
    <3>1. CASE u = o
      BY <3>1, OutGood, Zenon
    <3>2. CASE u # o
      <4>1. stack'[u] = stack[u] /\ Shape(stack[u]) /\ Ahead(stack[u], List)
        BY <3>2 DEF Inv, Stacks
      <4>2. ASSUME NEW k \in DOMAIN stack[u]
            PROVE  Agrees(stack[u][k], List, Status', thread', bAlreadyRun)
        <5>1. stack[u][k] \in Frames
          BY InsideTop, ElementOfSeq, LenProperties DEF Inv
        <5>2. Agrees(stack[u][k], List, Status, thread, bAlreadyRun)
          BY Zenon DEF Inv, Stacks
        <5> QED
          BY <1>3, <5>1, <5>2
      <4> QED
        BY <4>1, <4>2
    <3> QED
      BY <3>1, <3>2
  <2>2. UNCHANGED <<List, bAlreadyRun>>
    OBVIOUS
  <2> QED
    BY <2>1, <2>2, Zenon DEF Stacks
<1>5. Alone'
  <2>1. ~Inside(o)'
    BY <1>1, OutsideAfter
  <2>2. \A u \in Threads \ {o} : Inside(u)' => Inside(u)
    BY DEF Inside, Top
  <2> QED
    BY <2>1, <2>2 DEF Inv, Alone
<1>6. TypeOK'
  BY Zenon DEF Inv, TypeOK
<1>7. Threaded'
  BY <1>2 DEF Inv, Threaded, Threads
<1>8. Listed' = Listed /\ NoDuplicate' /\ \A a \in Listed : a \in Objs
  <2>1. Listed' = Listed /\ NoDuplicate'
    BY Zenon DEF Inv, NoDuplicate, Listed
  <2>2. \A a \in Listed : a \in Objs
    BY ListIndex DEF Inv, Listed
  <2> QED
    BY <2>1, <2>2
<1>9. Marked'
  <2>1. label # "ran"
    BY DEF WorkLabels
  <2>2. ASSUME NEW u \in Threads, AtTop(u, "ran")
        PROVE  AtTop(u, "ran")' /\ Top(u)' = Top(u)
    <3>1. u # o
      BY <2>1, <2>2, Zenon DEF AtTop
    <3> QED
      BY <2>2, <3>1, Zenon DEF AtTop, Top
  <2>3. ASSUME NEW a \in Listed, thread'[a] # "new", ~bAlreadyRun[a]
        PROVE  \E u \in Threads : AtTop(u, "ran")' /\ Top(u)'.dl = a
    <3>1. thread[a] # "new"
      BY <1>2, <1>8, <2>3
    <3>2. PICK u \in Threads : AtTop(u, "ran") /\ Top(u).dl = a
      BY <2>3, <3>1, Zenon DEF Inv, Marked
    <3> QED
      BY <2>2, <3>2, Zenon
  <2>4. UNCHANGED bAlreadyRun
    OBVIOUS
  <2> QED
    BY <1>8, <2>3, <2>4, Zenon DEF Marked
<1>10. WaitsUnrun'
  <2>1. ASSUME NEW a \in Listed, Status'[a] = "WAIT"
        PROVE  thread'[a] = "new" /\ ~bAlreadyRun[a]
    <3>1. Status[a] = "WAIT" /\ a \in Objs
      BY <1>8, <2>1
    <3> QED
      BY <1>2, <2>1, <3>1 DEF Inv, WaitsUnrun
  <2>2. UNCHANGED bAlreadyRun
    OBVIOUS
  <2> QED
    BY <1>8, <2>1, <2>2, Zenon DEF WaitsUnrun
<1> QED
  BY <1>4, <1>5, <1>6, <1>7, <1>8, <1>9, <1>10 DEF Inv

\* Status becomes RETRY or ERROR.
LEMMA SetTypes ==
  ASSUME TypeOK, NEW o \in Objs, NEW x \in States, Set(o, x)
  PROVE  /\ Status' \in [Objs -> States] /\ due' \in [Objs -> BOOLEAN]
         /\ Status'[o] = x /\ \A a \in Objs \ {o} : Status'[a] = Status[a]
<1>1. Status' = [Status EXCEPT ![o] = x]
  BY Zenon DEF Set
<1>2. \E d \in BOOLEAN : due' = [due EXCEPT ![o] = d]
  <2> DEFINE d == (x = "RETRY" /\ o \in Listed /\ Room)
  <2>1. \E e \in {FALSE, d} : due' = [due EXCEPT ![o] = e]
    BY Zenon DEF Set
  <2>2. d \in BOOLEAN
    OBVIOUS
  <2> HIDE DEF d
  <2> QED
    BY <2>1, <2>2
<1> QED
  BY <1>1, <1>2 DEF TypeOK

\* A failed download is RETRY or ERROR.
LEMMA FailTypes ==
  ASSUME TypeOK, NEW o \in Objs, Fails(o)
  PROVE  /\ Status' \in [Objs -> States] /\ due' \in [Objs -> BOOLEAN]
         /\ Status'[o] \in {"RETRY", "ERROR"} /\ \A a \in Objs \ {o} : Status'[a] = Status[a]
<1>1. CASE Set(o, "RETRY")
  BY <1>1, SetTypes DEF States
<1>2. CASE Set(o, "ERROR")
  BY <1>2, SetTypes DEF States
<1> QED
  BY <1>1, <1>2, Zenon DEF Fails

\* The frames of a worker are all outside the manager.
LEMMA WorkerStack ==
  ASSUME Inv, NEW o \in Objs, NEW label \in WorkLabels, AtTop(o, label)
  PROVE  /\ Out(stack[o]) /\ stack[o] # <<>> /\ stack[o] \in Seq(Frames) /\ o \in Threads
         /\ thread[o] # "new"
<1>1. o \in Threads /\ stack[o] # <<>> /\ thread[o] # "new"
  BY Zenon DEF AtTop, Inv, Threaded, Threads
<1>2. ~Inside(o)
  BY Zenon DEF AtTop, Inside
<1> QED
  BY <1>1, <1>2, OutsideOut, InsideTop DEF Inv

\* They are replaced by others of that kind.
LEMMA WorkReplaced ==
  ASSUME Inv, NEW o \in Objs, NEW label \in WorkLabels, AtTop(o, label),
         NEW fs \in Seq(Frames), Out(fs), Replace(o, fs)
  PROVE  /\ stack' \in [Threads -> Seq(Frames)] /\ Out(stack'[o])
         /\ \A u \in Threads \ {o} : stack'[u] = stack[u]
<1>1. Out(stack[o]) /\ stack[o] # <<>> /\ stack[o] \in Seq(Frames) /\ o \in Threads
  BY WorkerStack
<1>2. /\ stack' \in [Threads -> Seq(Frames)] /\ stack'[o] = fs \o Tail(stack[o])
      /\ \A u \in Threads \ {o} : stack'[u] = stack[u]
  BY <1>1, ReplaceTop DEF Inv
<1>3. \A k \in DOMAIN (fs \o Tail(stack[o])) :
        \/ k \in DOMAIN fs /\ (fs \o Tail(stack[o]))[k] = fs[k]
        \/ \E m \in DOMAIN stack[o] : (fs \o Tail(stack[o]))[k] = stack[o][m]
  BY <1>1, Places
<1>4. Out(stack'[o])
  BY <1>1, <1>2, <1>3 DEF Out
<1> QED
  BY <1>2, <1>4

\* The frames that a worker's steps push.
LEMMA WorkFrames ==
  ASSUME NEW l \in WorkLabels
  PROVE  /\ <<>> \in Seq(Frames) /\ Out(<<>>)
         /\ <<Work(l)>> \in Seq(Frames) /\ Out(<<Work(l)>>)
         /\ <<Enter>> \in Seq(Frames) /\ Out(<<Enter>>)
         /\ <<Enter, Work(l)>> \in Seq(Frames) /\ Out(<<Enter, Work(l)>>)
<1> DEFINE f == Work(l)
           g == Enter
<1>1. f \in Frames /\ f.at \notin Inner
  BY WorkTypes DEF Inner, WorkLabels
<1>2. g \in Frames /\ g.at \notin Inner
  BY DEF Frames, Inner, Enter
<1> HIDE DEF f, g
<1>3. <<>> \in Seq(Frames) /\ Out(<<>>)
  BY DEF Out
<1>4. <<f>> \in Seq(Frames) /\ Out(<<f>>)
  BY <1>1 DEF Out
<1>5. <<g>> \in Seq(Frames) /\ Out(<<g>>)
  BY <1>2 DEF Out
<1>6. <<g, f>> \in Seq(Frames) /\ Out(<<g, f>>)
  BY <1>1, <1>2 DEF Out
<1> QED
  BY <1>3, <1>4, <1>5, <1>6 DEF f, g

\* Every step of a worker keeps the invariant.
LEMMA WorkerKeeps ==
  ASSUME Inv, NEW o \in Objs, Worker(o)
  PROVE  Inv'
<1>1. /\ Status \in [Objs -> States] /\ due \in [Objs -> BOOLEAN]
      /\ thread \in [Objs -> {"new", "running", "done"}] /\ stack \in [Threads -> Seq(Frames)]
  BY Zenon DEF Inv, TypeOK
\* A step that leaves the status and the threads alone.
<1>2. ASSUME NEW label \in WorkLabels, AtTop(o, label), NEW fs \in Seq(Frames), Out(fs),
             Replace(o, fs), UNCHANGED <<List, name, Status, RetryCount, bAlreadyRun, due, thread>>
      PROVE  Inv'
  <2>1. /\ stack' \in [Threads -> Seq(Frames)] /\ Out(stack'[o])
        /\ \A u \in Threads \ {o} : stack'[u] = stack[u]
    BY <1>2, WorkReplaced
  <2>2. thread[o] # "new"
    BY <1>2, WorkerStack
  <2> QED
    BY <1>1, <1>2, <2>1, <2>2, WorkKeeps
\* A step that gives o another status.
<1>3. ASSUME NEW label \in WorkLabels, AtTop(o, label),
             stack' \in [Threads -> Seq(Frames)], Out(stack'[o]),
             \A u \in Threads \ {o} : stack'[u] = stack[u],
             Status' \in [Objs -> States], due' \in [Objs -> BOOLEAN],
             \A a \in Objs \ {o} : Status'[a] = Status[a],
             \/ Status'[o] \in {"RETRY", "ERROR"}
             \/ Status[o] = "START" /\ Status'[o] = "FINISH"
             \/ Status'[o] = Status[o],
             UNCHANGED <<List, name, RetryCount, bAlreadyRun, thread>>
      PROVE  Inv'
  <2>1. thread[o] # "new"
    BY <1>3, WorkerStack
  <2> QED
    BY <1>1, <1>3, <2>1, WorkKeeps
<1>4. CASE Entry(o)
  <2>1. AtTop(o, "entry") /\ UNCHANGED <<List, name, Status, RetryCount, bAlreadyRun, due, thread>>
        /\ \E l \in {"data", "tail", "exit"} : Replace(o, <<Work(l)>>)
    BY <1>4, Zenon DEF Entry
  <2>2. \A l \in {"data", "tail", "exit"} : <<Work(l)>> \in Seq(Frames) /\ Out(<<Work(l)>>)
    BY WorkFrames DEF WorkLabels
  <2>3. "entry" \in WorkLabels
    BY DEF WorkLabels
  <2> QED
    BY <1>2, <2>1, <2>2, <2>3, Zenon
<1>5. CASE Transfer(o)
  <2> DEFINE new == IF Status[o] = "START" THEN "FINISH" ELSE Status[o]
  <2>1. AtTop(o, "data") /\ "data" \in WorkLabels
        /\ UNCHANGED <<List, name, RetryCount, bAlreadyRun, thread>>
    BY <1>5, Zenon DEF Transfer, WorkLabels
  <2>2. "tail" \in WorkLabels /\ "failed" \in WorkLabels
    BY DEF WorkLabels
  <2>3. ASSUME NEW fs \in {<<>>, <<Enter>>}, Replace(o, fs \o <<Work("failed")>>)
        PROVE  /\ stack' \in [Threads -> Seq(Frames)] /\ Out(stack'[o])
               /\ \A u \in Threads \ {o} : stack'[u] = stack[u]
    <3>1. CASE fs = <<>>
      <4>1. fs \o <<Work("failed")>> = <<Work("failed")>>
        BY <3>1
      <4>2. Replace(o, <<Work("failed")>>)
        BY <2>3, <4>1, Zenon
      <4>3. <<Work("failed")>> \in Seq(Frames) /\ Out(<<Work("failed")>>)
        BY <2>2, WorkFrames
      <4> QED
        BY <2>1, <4>2, <4>3, WorkReplaced
    <3>2. CASE fs = <<Enter>>
      <4>1. fs \o <<Work("failed")>> = <<Enter, Work("failed")>>
        <5> DEFINE f == Enter
                   g == Work("failed")
        <5> HIDE DEF f, g
        <5>1. <<f>> \o <<g>> = <<f, g>>
          BY Two
        <5> QED
          BY <3>2, <5>1 DEF f, g
      <4>2. Replace(o, <<Enter, Work("failed")>>)
        BY <2>3, <4>1, Zenon
      <4>3. <<Enter, Work("failed")>> \in Seq(Frames) /\ Out(<<Enter, Work("failed")>>)
        BY <2>2, WorkFrames
      <4> QED
        BY <2>1, <4>2, <4>3, WorkReplaced
    <3> QED
      BY <3>1, <3>2
  <2>4. CASE Status' = [Status EXCEPT ![o] = new] /\ UNCHANGED due /\ Replace(o, <<Enter, Work("tail")>>)
    <3>1. /\ stack' \in [Threads -> Seq(Frames)] /\ Out(stack'[o])
          /\ \A u \in Threads \ {o} : stack'[u] = stack[u]
      BY <2>1, <2>2, <2>4, WorkFrames, WorkReplaced
    <3>2. /\ Status' \in [Objs -> States] /\ \A a \in Objs \ {o} : Status'[a] = Status[a]
          /\ (Status[o] = "START" /\ Status'[o] = "FINISH") \/ Status'[o] = Status[o]
      BY <1>1, <2>4 DEF States
    <3> QED
      BY <1>1, <1>3, <2>1, <2>4, <3>1, <3>2
  <2>5. CASE Status[o] = "START" /\ Status' = [Status EXCEPT ![o] = "FINISH"] /\ UNCHANGED <<due, stack>>
    <3>1. /\ stack' \in [Threads -> Seq(Frames)] /\ Out(stack'[o])
          /\ \A u \in Threads \ {o} : stack'[u] = stack[u]
      BY <1>1, <2>1, <2>5, WorkerStack
    <3>2. /\ Status' \in [Objs -> States] /\ \A a \in Objs \ {o} : Status'[a] = Status[a]
          /\ Status'[o] = "FINISH"
      BY <1>1, <2>5 DEF States
    <3> QED
      BY <1>1, <1>3, <2>1, <2>5, <3>1, <3>2
  <2>6. CASE Replace(o, <<Work("failed")>>) /\ UNCHANGED <<Status, due>>
    BY <1>2, <2>1, <2>2, <2>6, WorkFrames
  <2>7. CASE /\ Fails(o)
             /\ \E fs \in {<<>>, <<Enter>>} : Replace(o, fs \o <<Work("failed")>>)
    <3>1. /\ stack' \in [Threads -> Seq(Frames)] /\ Out(stack'[o])
          /\ \A u \in Threads \ {o} : stack'[u] = stack[u]
      BY <2>3, <2>7, Zenon
    <3>2. /\ Status' \in [Objs -> States] /\ due' \in [Objs -> BOOLEAN]
          /\ Status'[o] \in {"RETRY", "ERROR"} /\ \A a \in Objs \ {o} : Status'[a] = Status[a]
      BY <2>7, FailTypes DEF Inv
    <3> QED
      BY <1>3, <2>1, <3>1, <3>2
  <2> QED
    BY <1>5, <2>4, <2>5, <2>6, <2>7, Zenon DEF Transfer
<1>6. CASE Failed(o)
  <2>1. AtTop(o, "failed") /\ UNCHANGED <<List, name, RetryCount, bAlreadyRun, thread>>
    BY <1>6, Zenon DEF Failed
  <2>2. {"failed", "tail", "exit"} \subseteq WorkLabels
    BY DEF WorkLabels
  <2>3. CASE Fails(o) /\ Replace(o, <<Work("exit")>>)
    <3>1. /\ stack' \in [Threads -> Seq(Frames)] /\ Out(stack'[o])
          /\ \A u \in Threads \ {o} : stack'[u] = stack[u]
      BY <2>1, <2>2, <2>3, WorkFrames, WorkReplaced
    <3>2. /\ Status' \in [Objs -> States] /\ due' \in [Objs -> BOOLEAN]
          /\ Status'[o] \in {"RETRY", "ERROR"} /\ \A a \in Objs \ {o} : Status'[a] = Status[a]
      BY <2>3, FailTypes DEF Inv
    <3> QED
      BY <1>3, <2>1, <2>2, <3>1, <3>2
  <2>4. CASE Replace(o, <<Enter, Work("tail")>>) /\ UNCHANGED <<Status, due>>
    BY <1>2, <2>1, <2>2, <2>4, WorkFrames
  <2> QED
    BY <1>6, <2>3, <2>4, Zenon DEF Failed
<1>7. CASE EntryTail(o)
  <2>1. AtTop(o, "tail") /\ UNCHANGED <<List, name, RetryCount, bAlreadyRun, thread>>
        /\ Set(o, "RETRY") /\ Replace(o, <<Work("exit")>>)
    BY <1>7, Zenon DEF EntryTail
  <2>2. {"tail", "exit"} \subseteq WorkLabels /\ "RETRY" \in States
    BY DEF WorkLabels, States
  <2>3. /\ stack' \in [Threads -> Seq(Frames)] /\ Out(stack'[o])
        /\ \A u \in Threads \ {o} : stack'[u] = stack[u]
    BY <2>1, <2>2, WorkFrames, WorkReplaced
  <2>4. /\ Status' \in [Objs -> States] /\ due' \in [Objs -> BOOLEAN]
        /\ Status'[o] = "RETRY" /\ \A a \in Objs \ {o} : Status'[a] = Status[a]
    BY <2>1, <2>2, SetTypes DEF Inv
  <2> QED
    BY <1>3, <2>1, <2>2, <2>3, <2>4
<1>8. CASE OnExit(o)
  <2>1. /\ AtTop(o, "exit") /\ thread' = [thread EXCEPT ![o] = "done"] /\ Replace(o, <<Enter>>)
        /\ UNCHANGED <<List, name, Status, RetryCount, bAlreadyRun, due>>
    BY <1>8, Zenon DEF OnExit
  <2>2. "exit" \in WorkLabels
    BY DEF WorkLabels
  <2>3. /\ stack' \in [Threads -> Seq(Frames)] /\ Out(stack'[o])
        /\ \A u \in Threads \ {o} : stack'[u] = stack[u]
    BY <2>1, <2>2, WorkFrames, WorkReplaced
  <2>4. /\ thread' \in [Objs -> {"new", "running", "done"}] /\ thread'[o] = "done"
        /\ \A a \in Objs \ {o} : thread'[a] = thread[a]
    BY <1>1, <2>1
  <2> QED
    BY <1>1, <2>1, <2>2, <2>3, <2>4, WorkKeeps
<1> QED
  BY <1>4, <1>5, <1>6, <1>7, <1>8 DEF Worker

-----------------------------------------------------------------------------
(***************************************************************************)
(* The user, the timer and the clock.                                      *)
(***************************************************************************)
\* When a button or the timer calls the manager, no call is in progress.
LEMMA Quiet ==
  ASSUME ~Overlap, Inv, GuiIdle
  PROVE  /\ Gui \in Threads /\ Gui \notin Objs /\ stack[Gui] = <<>>
         /\ \A t \in Threads : Out(stack[t]) /\ ~Inside(t)
         /\ \A o \in Listed : thread[o] = "new" \/ bAlreadyRun[o]
<1>1. Gui \in Threads /\ stack[Gui] = <<>> /\ \A t \in Threads : ~Inside(t)
  BY Zenon DEF GuiIdle, MayEnter, Threads
<1>2. \A t \in Threads : Out(stack[t])
  BY <1>1, OutsideOut DEF Inv
<1>3. ASSUME NEW o \in Listed, thread[o] # "new", ~bAlreadyRun[o]
      PROVE  FALSE
  <2>1. PICK t \in Threads : AtTop(t, "ran")
    BY <1>3, Zenon DEF Inv, Marked
  <2>2. "ran" \in Inner
    BY DEF Inner
  <2>3. Inside(t)
    BY <2>1, <2>2, TopFrame DEF Inv
  <2> QED
    BY <1>1, <2>3
<1> QED
  BY <1>1, <1>2, <1>3, ConstantsAssumption, Zenon

\* The handler's calls are the only ones on the stack of the GUI thread.
LEMMA Called ==
  ASSUME Inv, NEW fs \in Seq(Frames), Call(fs)
  PROVE  /\ stack' \in [Threads -> Seq(Frames)] /\ stack'[Gui] = fs
         /\ \A u \in Threads \ {Gui} : stack'[u] = stack[u]
         /\ \A o \in Objs : stack'[o] = stack[o]
<1>1. stack \in [Threads -> Seq(Frames)] /\ Gui \in Threads
  BY Zenon DEF Inv, TypeOK, Threads
<1>2. stack' = [stack EXCEPT ![Gui] = fs]
  BY Zenon DEF Call
<1>3. /\ stack' \in [Threads -> Seq(Frames)] /\ stack'[Gui] = fs
      /\ \A u \in Threads \ {Gui} : stack'[u] = stack[u]
  BY <1>1, <1>2
<1>4. \A o \in Objs : o \in Threads \ {Gui}
  BY ConstantsAssumption DEF Threads
<1> QED
  BY <1>3, <1>4

\* A handler that only refreshes the screen at its end.
LEMMA Refreshes ==
  ASSUME ~Overlap, Inv, GuiIdle, Call(<<Enter>>)
  PROVE  /\ stack' \in [Threads -> Seq(Frames)] /\ Stacks' /\ Alone'
         /\ \A o \in Objs : stack'[o] = stack[o]
<1> DEFINE fs == <<Enter>>
<1>1. fs \in Seq(Frames) /\ Out(fs)
  BY WorkFrames DEF WorkLabels
<1> HIDE DEF fs
<1>2. /\ stack' \in [Threads -> Seq(Frames)] /\ stack'[Gui] = fs
      /\ \A u \in Threads \ {Gui} : stack'[u] = stack[u]
      /\ \A o \in Objs : stack'[o] = stack[o]
  BY <1>1, Called DEF fs
<1>3. Gui \in Threads /\ \A u \in Threads \ {Gui} : Out(stack'[u])
  BY <1>2, Quiet
<1>4. /\ Shape(stack'[Gui]) /\ Ahead(stack'[Gui], List')
      /\ \A k \in DOMAIN stack'[Gui] : Agrees(stack'[Gui][k], List', Status', thread', bAlreadyRun')
  BY <1>1, <1>2, OutGood, Zenon
<1> QED
  BY <1>2, <1>3, <1>4, OneGood

\* The threads and their marks stay, and only listed objects are listed.
LEMMA QuietThreads ==
  ASSUME ~Overlap, Inv, GuiIdle, \A o \in Objs : stack'[o] = stack[o],
         UNCHANGED <<thread, bAlreadyRun>>, Listed' \subseteq Listed,
         \A o \in Listed : Status'[o] = "WAIT" => Status[o] = "WAIT"
  PROVE  Threaded' /\ Marked' /\ WaitsUnrun'
<1>1. Threaded'
  BY DEF Inv, Threaded
<1>2. Marked'
  <2>1. \A o \in Listed' : thread'[o] = "new" \/ bAlreadyRun'[o]
    BY Quiet
  <2> QED
    BY <2>1, Zenon DEF Marked
<1>3. WaitsUnrun'
  <2>1. \A o \in Listed' : Status'[o] = "WAIT" => thread'[o] = "new" /\ ~bAlreadyRun'[o]
    BY DEF Inv, WaitsUnrun
  <2> QED
    BY <2>1, Zenon DEF WaitsUnrun
<1> QED
  BY <1>1, <1>2, <1>3

\* A new download is listed under a name of its own.
LEMMA AddKeeps ==
  ASSUME ~Overlap, Inv, NEW nm \in Names, AddDownload(nm)
  PROVE  Inv'
<1>1. PICK n \in Unused :
        /\ List' = Append(List, n)
        /\ name' = [name EXCEPT ![n] = nm]
        /\ Status' = [Status EXCEPT ![n] = "STOP"]
        /\ RetryCount' = [RetryCount EXCEPT ![n] = 0]
        /\ bAlreadyRun' = [bAlreadyRun EXCEPT ![n] = FALSE]
        /\ due' = [due EXCEPT ![n] = FALSE]
        /\ thread' = [thread EXCEPT ![n] = "new"]
  BY Zenon DEF AddDownload
<1>2. GuiIdle /\ Call(<<Enter>>) /\ \A o \in Listed : name[o] # nm
  BY Zenon DEF AddDownload
<1>3. n \in Objs /\ n \notin Listed /\ stack[n] = <<>>
  BY Zenon DEF Unused
<1>4. stack' \in [Threads -> Seq(Frames)] /\ Stacks' /\ Alone' /\ \A o \in Objs : stack'[o] = stack[o]
  BY <1>2, Refreshes
<1>5. /\ Len(List) \in Nat /\ DOMAIN List = 1 .. Len(List) /\ List \in Seq(Objs)
      /\ \A j \in DOMAIN List : List[j] \in Listed /\ List[j] \in Objs
      /\ \A a \in Listed : \E j \in DOMAIN List : List[j] = a
  BY ListIndex DEF Inv, TypeOK, Listed
<1>6. /\ List' \in Seq(Objs) /\ DOMAIN List' = 1 .. Len(List) + 1
      /\ List'[Len(List) + 1] = n /\ \A j \in DOMAIN List : List'[j] = List[j]
  BY <1>1, <1>3, <1>5, AppendProperties, LenProperties
<1>7. \A j \in DOMAIN List' : (j = Len(List) + 1 /\ List'[j] = n)
                              \/ (j \in DOMAIN List /\ List'[j] = List[j] /\ List[j] \in Objs \ {n})
  BY <1>3, <1>5, <1>6
<1>8. \A a \in Listed' : a = n \/ (a \in Listed /\ a \in Objs \ {n})
  <2>1. \A a \in Listed' : \E j \in DOMAIN List' : List'[j] = a
    BY DEF Listed, Range
  <2> QED
    BY <1>5, <1>7, <2>1
<1>9. /\ name' \in [Objs -> Names] /\ name'[n] = nm
      /\ \A a \in Objs \ {n} : name'[a] = name[a]
  BY <1>1, <1>3 DEF Inv, TypeOK
<1>10. /\ Status' \in [Objs -> States] /\ Status'[n] = "STOP"
       /\ \A a \in Objs \ {n} : Status'[a] = Status[a]
  BY <1>1, <1>3 DEF Inv, TypeOK, States
<1>11. /\ thread' \in [Objs -> {"new", "running", "done"}] /\ thread'[n] = "new"
       /\ \A a \in Objs \ {n} : thread'[a] = thread[a]
  BY <1>1, <1>3 DEF Inv, TypeOK
<1>12. /\ bAlreadyRun' \in [Objs -> BOOLEAN] /\ ~bAlreadyRun'[n]
       /\ \A a \in Objs \ {n} : bAlreadyRun'[a] = bAlreadyRun[a]
  BY <1>1, <1>3 DEF Inv, TypeOK
<1>13. RetryCount' \in [Objs -> 0 .. MaxRetry] /\ due' \in [Objs -> BOOLEAN]
  <2>1. 0 \in 0 .. MaxRetry
    BY ConstantsAssumption
  <2>2. RetryCount' \in [Objs -> 0 .. MaxRetry]
    BY <1>1, <2>1 DEF Inv, TypeOK
  <2>3. due' \in [Objs -> BOOLEAN]
    BY <1>1 DEF Inv, TypeOK
  <2> QED
    BY <2>2, <2>3
<1>14. TypeOK'
  BY <1>4, <1>6, <1>9, <1>10, <1>11, <1>12, <1>13, Zenon DEF TypeOK
<1>15. Threaded'
  <2>1. ASSUME NEW a \in Objs, stack'[a] # <<>>
        PROVE  thread'[a] # "new"
    <3>1. a \in Objs \ {n} /\ stack[a] # <<>>
      BY <1>3, <1>4, <2>1
    <3> QED
      BY <1>11, <3>1 DEF Inv, Threaded
  <2> QED
    BY <2>1 DEF Threaded
<1>16. Marked'
  <2>1. \A a \in Listed : thread[a] = "new" \/ bAlreadyRun[a]
    BY <1>2, Quiet
  <2>2. \A a \in Listed' : thread'[a] = "new" \/ bAlreadyRun'[a]
    BY <1>8, <1>11, <1>12, <2>1
  <2> QED
    BY <2>2, Zenon DEF Marked
<1>17. WaitsUnrun'
  <2>1. ASSUME NEW a \in Listed', Status'[a] = "WAIT"
        PROVE  thread'[a] = "new" /\ ~bAlreadyRun'[a]
    <3>1. a \in Listed /\ a \in Objs \ {n}
      BY <1>8, <1>10, <2>1
    <3>2. thread[a] = "new" /\ ~bAlreadyRun[a]
      BY <1>10, <2>1, <3>1 DEF Inv, WaitsUnrun
    <3> QED
      BY <1>11, <1>12, <3>1, <3>2
  <2> QED
    BY <2>1, Zenon DEF WaitsUnrun
<1>18. NoDuplicate'
  <2>1. \A j \in DOMAIN List : name'[List'[j]] = name[List[j]] /\ name[List[j]] # nm
    BY <1>2, <1>3, <1>5, <1>6, <1>9
  <2>2. ASSUME NEW j \in DOMAIN List', NEW k \in DOMAIN List', name'[List'[j]] = name'[List'[k]]
        PROVE  j = k
    <3>1. CASE j = Len(List) + 1
      BY <1>6, <1>7, <1>9, <2>1, <2>2, <3>1
    <3>2. CASE j \in DOMAIN List
      <4>1. k \in DOMAIN List
        BY <1>6, <1>7, <1>9, <2>1, <2>2, <3>2
      <4>2. name[List[j]] = name[List[k]]
        BY <2>1, <2>2, <3>2, <4>1
      <4> QED
        BY <3>2, <4>1, <4>2, Zenon DEF Inv, NoDuplicate
    <3> QED
      BY <1>7, <3>1, <3>2
  <2> QED
    BY <2>2, Zenon DEF NoDuplicate
<1> QED
  BY <1>4, <1>14, <1>15, <1>16, <1>17, <1>18 DEF Inv

\* The start button, for a download that is stopped or failed.
LEMMA StartButtonKeeps ==
  ASSUME ~Overlap, Inv, NEW o \in Objs, StartButton(o)
  PROVE  Inv'
<1>1. /\ GuiIdle /\ o \in Listed
      /\ Call(IF Status[o] \in {"START", "WAIT", "RETRY", "FINISH"} THEN <<Enter>>
              ELSE <<Start(o, TRUE, FALSE), Enter>>)
      /\ UNCHANGED <<List, name, Status, RetryCount, bAlreadyRun, due, thread>>
  BY Zenon DEF StartButton
<1>2. stack' \in [Threads -> Seq(Frames)] /\ Stacks' /\ Alone' /\ \A a \in Objs : stack'[a] = stack[a]
  <2>1. CASE Call(<<Enter>>)
    BY <1>1, <2>1, Refreshes
  <2>2. CASE Status[o] \notin {"START", "WAIT", "RETRY", "FINISH"} /\ Call(<<Start(o, TRUE, FALSE), Enter>>)
    <3> DEFINE f == Start(o, TRUE, FALSE)
               g == Enter
               fs == <<f, g>>
    <3>1. f \in Frames /\ f.at = "start" /\ f.dl = o
      BY DEF Frames, Start
    <3>2. g \in Frames /\ g.at = "enter"
      BY DEF Frames, Enter
    <3>3. Call(fs)
      BY <2>2
    <3> HIDE DEF f, g
    <3>4. fs \in Seq(Frames) /\ DOMAIN fs = {1, 2} /\ fs[1] = f /\ fs[2] = g
      BY <3>1, <3>2
    <3> HIDE DEF fs
    <3>5. /\ stack' \in [Threads -> Seq(Frames)] /\ stack'[Gui] = fs
          /\ \A u \in Threads \ {Gui} : stack'[u] = stack[u]
          /\ \A a \in Objs : stack'[a] = stack[a]
      BY <3>3, <3>4, Called
    <3>6. Gui \in Threads /\ \A u \in Threads \ {Gui} : Out(stack'[u])
      BY <1>1, <3>5, Quiet
    <3>7. \A k \in DOMAIN fs : (k = 1 /\ fs[k] = f) \/ (k = 2 /\ fs[k] = g)
      BY <3>4
    <3>8. Shape(fs)
      <4>1. \A k \in DOMAIN fs : fs[k].at \in Inner => k = 1 /\ \A j \in 1 .. k : j = 1
        BY <3>1, <3>2, <3>7 DEF Inner
      <4> QED
        BY <3>1, <3>2, <3>7, <4>1 DEF Shape, Inner
    <3>9. Ahead(fs, List)
      BY <3>1, <3>2, <3>7 DEF Ahead
    <3>10. Agrees(f, List, Status, thread, bAlreadyRun)
      <4>1. o \in Range(List) /\ Status[o] \in {"STOP", "ERROR", "RETRY"}
        BY <1>1, <2>2 DEF Inv, TypeOK, States, Listed
      <4> QED
        BY <3>1, <4>1 DEF Agrees
    <3>11. Agrees(g, List, Status, thread, bAlreadyRun)
      BY <3>2 DEF Agrees
    <3>12. /\ Shape(stack'[Gui]) /\ Ahead(stack'[Gui], List')
           /\ \A k \in DOMAIN stack'[Gui] : Agrees(stack'[Gui][k], List', Status', thread', bAlreadyRun')
      BY <1>1, <3>5, <3>7, <3>8, <3>9, <3>10, <3>11
    <3> QED
      BY <3>5, <3>6, <3>12, OneGood
  <2> QED
    BY <1>1, <2>1, <2>2, Zenon
<1>3. TypeOK'
  BY <1>1, <1>2, Zenon DEF Inv, TypeOK
<1>4. NoDuplicate' /\ Listed' = Listed
  BY <1>1, Zenon DEF Inv, NoDuplicate, Listed
<1>5. Threaded' /\ Marked' /\ WaitsUnrun'
  BY <1>1, <1>2, <1>4, QuietThreads
<1> QED
  BY <1>2, <1>3, <1>4, <1>5 DEF Inv

\* The stop button.
LEMMA StopButtonKeeps ==
  ASSUME ~Overlap, Inv, NEW S, StopButton(S)
  PROVE  Inv'
<1>1. /\ GuiIdle /\ Call(<<Enter>>) /\ UNCHANGED <<List, name, RetryCount, bAlreadyRun, thread>>
      /\ Status' = [o \in Objs |-> IF o \in S /\ Status[o] # "FINISH" THEN "STOP" ELSE Status[o]]
      /\ due' = [o \in Objs |-> due[o] /\ Status'[o] = "RETRY"]
  BY Zenon DEF StopButton
<1>2. stack' \in [Threads -> Seq(Frames)] /\ Stacks' /\ Alone' /\ \A a \in Objs : stack'[a] = stack[a]
  BY <1>1, Refreshes
<1>3. Status' \in [Objs -> States] /\ \A a \in Objs : Status'[a] = "WAIT" => Status[a] = "WAIT"
  BY <1>1 DEF Inv, TypeOK, States
<1>4. due' \in [Objs -> BOOLEAN]
  BY <1>1
<1>5. TypeOK'
  BY <1>1, <1>2, <1>3, <1>4, Zenon DEF Inv, TypeOK
<1>6. NoDuplicate' /\ Listed' = Listed
  BY <1>1, Zenon DEF Inv, NoDuplicate, Listed
<1>7. \A a \in Listed : Status'[a] = "WAIT" => Status[a] = "WAIT"
  BY <1>3, ListIndex DEF Inv, Listed
<1>8. Threaded' /\ Marked' /\ WaitsUnrun'
  BY <1>1, <1>2, <1>6, <1>7, QuietThreads
<1> QED
  BY <1>2, <1>5, <1>6, <1>8 DEF Inv

\* The delete button.
LEMMA DeleteButtonKeeps ==
  ASSUME ~Overlap, Inv, NEW S, DeleteButton(S)
  PROVE  Inv'
<1>1. /\ GuiIdle /\ Call(<<Enter>>) /\ UNCHANGED <<name, RetryCount, bAlreadyRun, thread>>
      /\ Status' = [o \in Objs |-> IF o \in S THEN "STOP" ELSE Status[o]]
      /\ due' = [o \in Objs |-> due[o] /\ o \notin S]
      /\ List' = Without(List, S)
  BY Zenon DEF DeleteButton
<1>2. stack' \in [Threads -> Seq(Frames)] /\ Stacks' /\ Alone' /\ \A a \in Objs : stack'[a] = stack[a]
  BY <1>1, Refreshes
<1>3. Status' \in [Objs -> States] /\ \A a \in Objs : Status'[a] = "WAIT" => Status[a] = "WAIT"
  BY <1>1 DEF Inv, TypeOK, States
<1>4. due' \in [Objs -> BOOLEAN]
  BY <1>1
<1>5. List' \in Seq(Objs) /\ Selects(List', List, Len(List), S)
  <2>1. List \in Seq(Objs)
    BY DEF Inv, TypeOK
  <2> QED
    BY <1>1, <2>1, WithoutSelects
<1>6. TypeOK'
  BY <1>1, <1>2, <1>3, <1>4, <1>5, Zenon DEF Inv, TypeOK
<1>7. PICK e \in [1 .. Len(List') -> 1 .. Len(List)] :
        /\ \A k \in 1 .. Len(List') : List'[k] = List[e[k]] /\ List'[k] \notin S
        /\ \A j, k \in 1 .. Len(List') : j < k => e[j] < e[k]
  BY <1>5, Zenon DEF Selects
<1>8. /\ DOMAIN List' = 1 .. Len(List') /\ Len(List') \in Nat
      /\ DOMAIN List = 1 .. Len(List) /\ Len(List) \in Nat
  BY <1>5, ListIndex, LenProperties DEF Inv
<1>9. NoDuplicate'
  <2>1. ASSUME NEW j \in 1 .. Len(List'), NEW k \in 1 .. Len(List'),
               List'[j] = List'[k] \/ name[List'[j]] = name[List'[k]]
        PROVE  j = k
    <3>1. e[j] \in 1 .. Len(List) /\ e[k] \in 1 .. Len(List)
      OBVIOUS
    <3>2. List[e[j]] = List[e[k]] \/ name[List[e[j]]] = name[List[e[k]]]
      BY <1>7, <2>1
    <3>3. e[j] = e[k]
      BY <1>8, <3>1, <3>2 DEF Inv, NoDuplicate
    <3>4. ~(j < k) /\ ~(k < j)
      BY <1>7, <3>1, <3>3
    <3> QED
      BY <1>8, <3>4
  <2>2. UNCHANGED name
    BY <1>1
  <2> QED
    BY <1>8, <2>1, <2>2, Zenon DEF NoDuplicate
<1>10. Listed' \subseteq Listed
  <2>1. \A a \in Listed' : \E k \in 1 .. Len(List') : List'[k] = a
    BY <1>8 DEF Listed, Range
  <2>2. \A k \in 1 .. Len(List') : List'[k] \in Listed
    BY <1>7, <1>8 DEF Listed, Range
  <2> QED
    BY <2>1, <2>2
<1>11. \A a \in Listed : Status'[a] = "WAIT" => Status[a] = "WAIT"
  BY <1>3, ListIndex DEF Inv, Listed
<1>12. Threaded' /\ Marked' /\ WaitsUnrun'
  BY <1>1, <1>2, <1>10, <1>11, QuietThreads
<1> QED
  BY <1>2, <1>6, <1>9, <1>12 DEF Inv

\* The timer only refreshes the screen.
LEMMA TimerKeeps ==
  ASSUME ~Overlap, Inv, Timer
  PROVE  Inv'
<1>1. /\ GuiIdle /\ Call(<<Enter>>)
      /\ UNCHANGED <<List, name, Status, RetryCount, bAlreadyRun, due, thread>>
  BY Zenon DEF Timer
<1>2. stack' \in [Threads -> Seq(Frames)] /\ Stacks' /\ Alone' /\ \A a \in Objs : stack'[a] = stack[a]
  BY <1>1, Refreshes
<1>3. TypeOK' /\ NoDuplicate' /\ Listed' = Listed
  BY <1>1, <1>2, Zenon DEF Inv, TypeOK, NoDuplicate, Listed
<1>4. Threaded' /\ Marked' /\ WaitsUnrun'
  BY <1>1, <1>2, <1>3, QuietThreads
<1> QED
  BY <1>2, <1>3, <1>4 DEF Inv

\* Time passes, and nothing else.
LEMMA ElapseKeeps ==
  ASSUME Inv, NEW o \in Objs, Elapse(o)
  PROVE  Inv'
<1>1. /\ due' = [due EXCEPT ![o] = TRUE]
      /\ UNCHANGED <<List, name, Status, RetryCount, bAlreadyRun, thread, stack>>
  BY Zenon DEF Elapse
<1>2. due' \in [Objs -> BOOLEAN]
  BY <1>1 DEF Inv, TypeOK
<1>3. TypeOK'
  BY <1>1, <1>2, Zenon DEF Inv, TypeOK
<1>4. Stacks' /\ Alone'
  BY <1>1, Zenon DEF Inv, Stacks, Alone, Inside, Top
<1>5. Threaded' /\ Marked' /\ WaitsUnrun' /\ NoDuplicate'
  BY <1>1, Zenon DEF Inv, Threaded, Marked, WaitsUnrun, NoDuplicate, Listed, AtTop, Top
<1> QED
  BY <1>3, <1>4, <1>5 DEF Inv

-----------------------------------------------------------------------------
(***************************************************************************)
(* The theorems.                                                           *)
(***************************************************************************)
\* The invariant holds when the program has loaded its list.
LEMMA InitInv ==
  ASSUME Init
  PROVE  Inv
<1>1. PICK c \in Nat : List \in [1 .. c -> Objs] /\ IsInjective(List)
  BY DEF Init
<1>2. PICK f \in {<<Boot(Len(List), 0), Enter>>, <<Enter>>} :
        stack = [t \in Threads |-> IF t = Gui THEN f ELSE <<>>]
  BY Zenon DEF Init
<1>3. /\ name \in [Objs -> Names] /\ Status \in [Objs -> {"STOP", "FINISH"}]
      /\ RetryCount = [o \in Objs |-> 0] /\ bAlreadyRun = [o \in Objs |-> FALSE]
      /\ due = [o \in Objs |-> FALSE] /\ thread = [o \in Objs |-> "new"]
      /\ \A i, j \in DOMAIN List : name[List[i]] = name[List[j]] => i = j
  BY Zenon DEF Init
<1>4. List \in Seq(Objs) /\ Len(List) = c /\ DOMAIN List = 1 .. c
  BY <1>1
<1> DEFINE b == Boot(Len(List), 0)
           e == Enter
<1>5. b \in Frames /\ b.at = "boot" /\ b.i = Len(List)
  BY <1>4 DEF Frames, Boot
<1>6. e \in Frames /\ e.at = "enter"
  BY DEF Frames, Enter
<1>7. f = <<b, e>> \/ f = <<e>>
  OBVIOUS
<1> HIDE DEF b, e
<1>8. f \in Seq(Frames) /\ \A k \in DOMAIN f : (k = 1 /\ f[k] = b) \/ f[k] = e
  <2>1. CASE f = <<b, e>>
    BY <1>5, <1>6, <2>1
  <2>2. CASE f = <<e>>
    BY <1>6, <2>2
  <2> QED
    BY <1>7, <2>1, <2>2
<1>9. Gui \in Threads /\ stack[Gui] = f /\ \A t \in Threads \ {Gui} : stack[t] = <<>>
  BY <1>2 DEF Threads
<1>10. stack \in [Threads -> Seq(Frames)]
  BY <1>2, <1>8
<1>11. TypeOK
  <2>1. Status \in [Objs -> States]
    BY <1>3 DEF States
  <2>2. RetryCount \in [Objs -> 0 .. MaxRetry]
    BY <1>3, ConstantsAssumption
  <2>3. /\ bAlreadyRun \in [Objs -> BOOLEAN] /\ due \in [Objs -> BOOLEAN]
        /\ thread \in [Objs -> {"new", "running", "done"}]
    BY <1>3
  <2> QED
    BY <1>3, <1>4, <1>10, <2>1, <2>2, <2>3 DEF TypeOK
<1>12. Shape(f) /\ Ahead(f, List)
  <2>1. \A k \in DOMAIN f : f[k].at \in Inner => k = 1 /\ \A j \in 1 .. k : j = 1
    BY <1>6, <1>8 DEF Inner
  <2> QED
    BY <1>5, <1>6, <1>8, <2>1 DEF Shape, Ahead, Inner
<1>13. Agrees(b, List, Status, thread, bAlreadyRun) /\ Agrees(e, List, Status, thread, bAlreadyRun)
  <2>1. \A j \in 1 .. c : List[j] \in Objs
    BY <1>1
  <2>2. \A j \in 1 .. c : Untouched(List[j], Status, thread, bAlreadyRun)
    BY <1>3, <2>1 DEF Untouched
  <2> QED
    BY <1>4, <1>5, <1>6, <2>2 DEF Agrees
<1>14. Stacks
  <2>1. ASSUME NEW t \in Threads
        PROVE  /\ Shape(stack[t]) /\ Ahead(stack[t], List)
               /\ \A k \in DOMAIN stack[t] : Agrees(stack[t][k], List, Status, thread, bAlreadyRun)
    <3>1. CASE t = Gui
      BY <1>8, <1>9, <1>12, <1>13, <3>1
    <3>2. CASE t # Gui
      <4>1. stack[t] = <<>> /\ Out(<<>>)
        BY <1>9, <3>2, WorkFrames DEF WorkLabels
      <4> QED
        BY <4>1, OutGood, Zenon
    <3> QED
      BY <3>1, <3>2
  <2> QED
    BY <2>1, Zenon DEF Stacks
<1>15. Alone
  BY <1>9, Zenon DEF Alone, Inside
<1>16. Threaded /\ Marked /\ WaitsUnrun
  <2>1. \A o \in Objs : o \in Threads \ {Gui} /\ thread[o] = "new" /\ Status[o] # "WAIT"
    BY <1>3, ConstantsAssumption DEF Threads
  <2>2. \A o \in Listed : o \in Objs
    BY <1>11, ListIndex DEF Listed
  <2>3. \A o \in Objs : stack[o] = <<>>
    BY <1>9, <2>1
  <2> QED
    BY <2>1, <2>2, <2>3, Zenon DEF Threaded, Marked, WaitsUnrun
<1>17. NoDuplicate
  BY <1>1, <1>3 DEF NoDuplicate, IsInjective
<1> QED
  BY <1>11, <1>14, <1>15, <1>16, <1>17 DEF Inv

\* Every step keeps it, as long as one call at a time is in the manager.
LEMMA StepInv ==
  ASSUME ~Overlap, Inv, [Next]_vars
  PROVE  Inv'
<1>1. CASE User
  BY <1>1, AddKeeps, StartButtonKeeps, StopButtonKeeps, DeleteButtonKeeps, Zenon DEF User
<1>2. CASE Timer
  BY <1>2, TimerKeeps
<1>3. ASSUME NEW o \in Objs, Elapse(o) \/ Worker(o)
      PROVE  Inv'
  BY <1>3, ElapseKeeps, WorkerKeeps
<1>4. ASSUME NEW t \in Threads, Manager(t)
      PROVE  Inv'
  BY <1>4, BootKeeps, EnterKeeps, RetryKeeps, WaitKeeps, StartKeeps, SwapKeeps, RunKeeps, RanKeeps,
     Zenon DEF Manager
<1>5. CASE UNCHANGED vars
  <2>1. /\ List' = List /\ name' = name /\ Status' = Status /\ RetryCount' = RetryCount
        /\ bAlreadyRun' = bAlreadyRun /\ due' = due /\ thread' = thread /\ stack' = stack
    BY <1>5 DEF vars
  <2>2. TypeOK' /\ NoDuplicate'
    BY <2>1, Zenon DEF Inv, TypeOK, NoDuplicate
  <2>3. Stacks' /\ Alone'
    BY <2>1, Zenon DEF Inv, Stacks, Alone, Inside, Top
  <2>4. Threaded' /\ Marked' /\ WaitsUnrun'
    BY <2>1, Zenon DEF Inv, Threaded, Marked, WaitsUnrun, Listed, AtTop, Top
  <2> QED
    BY <2>2, <2>3, <2>4 DEF Inv
<1> QED
  BY <1>1, <1>2, <1>3, <1>4, <1>5, Zenon DEF Next

\* DLManager, one call at a time: the stacks of calls agree with the list, the statuses
\* and the threads, in every reachable state.
THEOREM CallsAgree == ~Overlap => (Spec => []Inv)
<1> SUFFICES ASSUME ~Overlap
             PROVE  Spec => []Inv
  OBVIOUS
<1>1. Init => Inv
  BY InitInv
<1>2. Inv /\ [Next]_vars => Inv'
  BY StepInv
<1> QED
  BY <1>1, <1>2, PTL DEF Spec

\* DLManager's variables have their types.
THEOREM TypeCorrect == ~Overlap => (Spec => []TypeOK)
<1>1. Inv => TypeOK
  BY DEF Inv
<1> QED
  BY <1>1, CallsAgree, PTL

\* AddDownload, the copies and DeleteDownload: no name and no object is listed twice.
THEOREM NeverTwice == ~Overlap => (Spec => []NoDuplicate)
<1>1. Inv => NoDuplicate
  BY DEF Inv
<1> QED
  BY <1>1, CallsAgree, PTL

\* The third loop of UpdateScreen finds waiting downloads whose thread never ran.
THEOREM WaitingFresh == ~Overlap => (Spec => []WaitsUnrun)
<1>1. Inv => WaitsUnrun
  BY DEF Inv
<1> QED
  BY <1>1, CallsAgree, PTL

\* UpdateScreen and StartDownload call each other: no download is in the middle of two
\* calls of FileDownloader::StartDownload.
THEOREM StartedOnce == ~Overlap => (Spec => []StartsOnce)
<1>1. ASSUME Inv
      PROVE  StartsOnce
  <2>1. ASSUME NEW a \in Starting
        PROVE  /\ a[1] \in Threads /\ a = <<a[1], a[2]>> /\ a[2] \in DOMAIN stack[a[1]]
               /\ stack[a[1]][a[2]].at = "run" /\ Inside(a[1])
    <3>1. /\ a[1] \in Threads /\ a = <<a[1], a[2]>> /\ a[2] \in DOMAIN stack[a[1]] /\ a[2] \in 1 .. MaxDepth
          /\ stack[a[1]][a[2]].at = "run"
      BY DEF Starting
    <3>2. stack[a[1]] # <<>> /\ stack[a[1]][1].at \in Inner
      <4>1. stack[a[1]] \in Seq(Frames) /\ Shape(stack[a[1]])
        BY <1>1, <3>1 DEF Inv, TypeOK, Stacks
      <4>2. "run" \in Inner /\ 1 \in 1 .. a[2]
        BY <3>1 DEF Inner
      <4> QED
        BY <3>1, <4>1, <4>2 DEF Shape
    <3> QED
      BY <1>1, <3>1, <3>2, InsideTop DEF Inv
  <2>2. ASSUME NEW a \in Starting, NEW b \in Starting, stack[a[1]][a[2]].dl = stack[b[1]][b[2]].dl
        PROVE  a = b
    <3>1. a[1] = b[1]
      BY <1>1, <2>1 DEF Inv, Alone
    <3>2. Shape(stack[a[1]])
      BY <1>1, <2>1 DEF Inv, Stacks
    <3>3. a[2] = b[2]
      BY <2>1, <2>2, <3>1, <3>2 DEF Shape
    <3> QED
      BY <2>1, <3>1, <3>3, Zenon
  <2> QED
    BY <2>2, Zenon DEF StartsOnce
<1>2. Inv => StartsOnce
  BY <1>1
<1> QED
  BY <1>2, CallsAgree, PTL

\* The steps after which list and names are the same.
LEMMA StepList ==
  ASSUME [Next]_vars
  PROVE  \/ UNCHANGED <<List, name>>
         \/ \E nm \in Names : AddDownload(nm)
         \/ \E S \in SUBSET Listed : DeleteButton(S)
         \/ \E t \in Threads : SwapAndGo(t)
<1>1. CASE User
  BY <1>1, Zenon DEF User, StartButton, StopButton
<1>2. CASE Timer
  BY <1>2, Zenon DEF Timer
<1>3. ASSUME NEW o \in Objs, Elapse(o) \/ Worker(o)
      PROVE  UNCHANGED <<List, name>>
  BY <1>3, Zenon DEF Elapse, Worker, Entry, Transfer, Failed, EntryTail, OnExit
<1>4. ASSUME NEW t \in Threads, Manager(t)
      PROVE  UNCHANGED <<List, name>> \/ SwapAndGo(t)
  BY <1>4, Zenon DEF Manager, BootLoop, EnterScreen, RetryLoop, WaitLoop, StartDownload, RunThread, AfterRun
<1>5. CASE UNCHANGED vars
  BY <1>5 DEF vars
<1> QED
  BY <1>1, <1>2, <1>3, <1>4, <1>5, Zenon DEF Next

\* StartDownload, retries and copies: unless a download is added or deleted, the names
\* on the list and their order stay.
THEOREM NamesStay == ~Overlap => (Spec => NamesKept)
<1>1. ASSUME Inv, [Next]_vars, Len(List') = Len(List)
      PROVE  DownloadNames' = DownloadNames
  <2>1. /\ Len(List) \in Nat /\ DOMAIN List = 1 .. Len(List) /\ List \in Seq(Objs)
        /\ \A j \in DOMAIN List : List[j] \in Objs
    BY <1>1, ListIndex DEF Inv, TypeOK
  <2>2. CASE UNCHANGED <<List, name>>
    BY <2>2, Zenon DEF DownloadNames
  <2>3. ASSUME NEW nm \in Names, AddDownload(nm)
        PROVE  FALSE
    <3>1. PICK n \in Unused : List' = Append(List, n)
      BY <2>3, Zenon DEF AddDownload
    <3>2. n \in Objs
      BY DEF Unused
    <3>3. Len(List') = Len(List) + 1
      BY <2>1, <3>1, <3>2, AppendProperties
    <3> QED
      BY <1>1, <2>1, <3>3
  <2>4. ASSUME NEW S, DeleteButton(S)
        PROVE  DownloadNames' = DownloadNames
    <3>1. List' = Without(List, S) /\ UNCHANGED name
      BY <2>4, Zenon DEF DeleteButton
    <3>2. List' \in Seq(Objs) /\ Selects(List', List, Len(List), S)
      BY <2>1, <3>1, WithoutSelects
    <3>3. \A j \in 1 .. Len(List) : List'[j] = List[j]
      BY <1>1, <3>2 DEF Selects
    <3>4. List' = List
      BY <1>1, <2>1, <3>2, <3>3, SeqEqual
    <3> QED
      BY <3>1, <3>4, Zenon DEF DownloadNames
  <2>5. ASSUME NEW t \in Threads, SwapAndGo(t)
        PROVE  DownloadNames' = DownloadNames
    <3> DEFINE o == Top(t).dl
               i == Top(t).i
               w == Top(t).wait
    <3>1. AtTop(t, "swap")
      BY <2>5, Zenon DEF SwapAndGo
    <3>2. i \in DOMAIN List /\ List[i] = o
      BY <1>1, <3>1, SwapFound
    <3>3. PICK n \in Objs : Copied(o, i, n, w)
      BY <1>1, <2>5, SwapCopies
    <3> HIDE DEF o, i, w
    <3>4. /\ DOMAIN List' = DOMAIN List /\ List'[i] = n /\ name'[n] = name[o]
          /\ \A j \in DOMAIN List \ {i} : List'[j] = List[j] /\ List[j] # n
          /\ \A a \in Objs \ {n} : name'[a] = name[a]
      BY <3>3, Zenon DEF Copied
    <3>5. \A j \in DOMAIN List : name'[List'[j]] = name[List[j]]
      BY <2>1, <3>2, <3>4
    <3>6. DownloadNames' = [j \in DOMAIN List |-> name'[List'[j]]]
      BY <3>4 DEF DownloadNames
    <3> QED
      BY <3>5, <3>6 DEF DownloadNames
  <2> QED
    BY <1>1, <2>2, <2>3, <2>4, <2>5, StepList, Zenon
<1>2. Inv /\ [Next]_vars => [Len(List') = Len(List) => DownloadNames' = DownloadNames]_vars
  BY <1>1
<1> QED
  BY <1>2, CallsAgree, PTL DEF Spec, NamesKept

\* FileDownloader::StartDownload: a thread is run for a listed download that is START.
THEOREM RunsForListed == ~Overlap => (Spec => RunsStarted)
<1>1. ASSUME Inv, [Next]_vars, NEW o \in Objs, thread[o] = "new", thread'[o] = "running"
      PROVE  o \in Listed /\ Status[o] = "START"
  <2>0. thread \in [Objs -> {"new", "running", "done"}]
    BY <1>1 DEF Inv, TypeOK
  <2>1. ASSUME NEW t \in Threads, RunThread(t)
        PROVE  o \in Listed /\ Status[o] = "START"
    <3>1. AtTop(t, "run")
      BY <2>1, Zenon DEF RunThread
    <3>2. thread' = thread \/ thread' = [thread EXCEPT ![Top(t).dl] = "running"]
      BY <2>1, Zenon DEF RunThread
    <3>3. o = Top(t).dl
      BY <1>1, <2>0, <3>2
    <3>4. Top(t).at = "run" /\ Agrees(Top(t), List, Status, thread, bAlreadyRun)
      BY <1>1, <3>1, TopFrame DEF Inv
    <3> QED
      BY <3>3, <3>4 DEF Agrees, Listed
  <2>2. ASSUME NEW n, thread' = [thread EXCEPT ![n] = "new"]
        PROVE  FALSE
    BY <1>1, <2>0, <2>2
  <2>3. ASSUME NEW t \in Threads, SwapAndGo(t)
        PROVE  FALSE
    <3>1. PICK n : thread' = [thread EXCEPT ![n] = IF n = Top(t).dl THEN @ ELSE "new"]
      BY <2>3, Zenon DEF SwapAndGo
    <3> QED
      BY <1>1, <2>0, <3>1
  <2>4. ASSUME NEW n, thread' = [thread EXCEPT ![n] = "done"]
        PROVE  FALSE
    BY <1>1, <2>0, <2>4
  <2>5. CASE UNCHANGED thread
    BY <1>1, <2>5
  <2>6. CASE User
    BY <2>2, <2>5, <2>6, Zenon DEF User, AddDownload, StartButton, StopButton, DeleteButton
  <2>7. CASE Timer
    BY <2>5, <2>7, Zenon DEF Timer
  <2>8. ASSUME NEW a \in Objs, Elapse(a) \/ Worker(a)
        PROVE  o \in Listed /\ Status[o] = "START"
    BY <2>4, <2>5, <2>8, Zenon DEF Elapse, Worker, Entry, Transfer, Failed, EntryTail, OnExit
  <2>9. ASSUME NEW t \in Threads, Manager(t)
        PROVE  o \in Listed /\ Status[o] = "START"
    BY <2>1, <2>3, <2>5, <2>9, Zenon DEF Manager, BootLoop, EnterScreen, RetryLoop, WaitLoop,
       StartDownload, AfterRun
  <2>10. CASE UNCHANGED vars
    BY <2>5, <2>10 DEF vars
  <2> QED
    BY <1>1, <2>6, <2>7, <2>8, <2>9, <2>10, Zenon DEF Next
<1>2. Inv /\ [Next]_vars =>
        [\A o \in Objs : thread[o] = "new" /\ thread'[o] = "running"
           => o \in Listed /\ Status[o] = "START"]_vars
  BY <1>1
<1> QED
  BY <1>2, CallsAgree, PTL DEF Spec, RunsStarted

-----------------------------------------------------------------------------
(***************************************************************************)
(* A download that is START is served, where files can be opened.          *)
(***************************************************************************)
Jobs == {"entry", "data", "failed", "tail"}

\* One, two or three frames.
LEMMA Tuples ==
  ASSUME NEW f \in Frames, NEW g \in Frames, NEW h \in Frames
  PROVE  /\ <<>> \in Seq(Frames) /\ <<f>> \in Seq(Frames) /\ <<f, g>> \in Seq(Frames)
         /\ <<f, g, h>> \in Seq(Frames)
         /\ \E k \in DOMAIN <<f>> : <<f>>[k] = f
         /\ \E k \in DOMAIN <<f, g>> : <<f, g>>[k] = g
         /\ \E k \in DOMAIN <<f, g, h>> : <<f, g, h>>[k] = g
<1>1. <<>> \in Seq(Frames)
  OBVIOUS
<1>2. <<f>> \in Seq(Frames) /\ 1 \in DOMAIN <<f>> /\ <<f>>[1] = f
  OBVIOUS
<1>3. <<f, g>> \in Seq(Frames) /\ 2 \in DOMAIN <<f, g>> /\ <<f, g>>[2] = g
  OBVIOUS
<1>4. <<f, g, h>> \in Seq(Frames) /\ 2 \in DOMAIN <<f, g, h>> /\ <<f, g, h>>[2] = g
  OBVIOUS
<1> QED
  BY <1>1, <1>2, <1>3, <1>4, Zenon

\* Only the frame on top goes when others replace it.
LEMMA FramesStay ==
  ASSUME TypeOK, NEW t \in Threads, stack[t] # <<>>, NEW fs \in Seq(Frames), Replace(t, fs)
  PROVE  /\ \A u \in Threads : \A m \in DOMAIN stack[u] :
              u # t \/ m # 1 => \E k \in DOMAIN stack'[u] : stack'[u][k] = stack[u][m]
         /\ \A j \in DOMAIN fs : \E k \in DOMAIN stack'[t] : stack'[t][k] = fs[j]
<1>1. /\ stack' \in [Threads -> Seq(Frames)] /\ stack'[t] = fs \o Tail(stack[t])
      /\ \A u \in Threads \ {t} : stack'[u] = stack[u]
  BY ReplaceTop
<1>2. stack[t] \in Seq(Frames)
  BY InsideTop
<1> DEFINE r == fs \o Tail(stack[t])
<1>3. /\ r \in Seq(Frames) /\ Len(fs) \in Nat /\ Len(stack[t]) \in Nat \ {0}
      /\ Len(r) = Len(fs) + Len(stack[t]) - 1
      /\ \A k \in 1 .. Len(fs) : r[k] = fs[k]
      /\ \A k \in 2 .. Len(stack[t]) : r[k + Len(fs) - 1] = stack[t][k]
  BY <1>2, Pushed
<1>4. stack'[t] = r
  BY <1>1
<1> HIDE DEF r
<1>5. DOMAIN r = 1 .. Len(r) /\ DOMAIN fs = 1 .. Len(fs) /\ DOMAIN stack[t] = 1 .. Len(stack[t])
  BY <1>2, <1>3, LenProperties
<1>6. ASSUME NEW m \in DOMAIN stack[t], m # 1
      PROVE  \E k \in DOMAIN r : r[k] = stack[t][m]
  <2>1. m \in 2 .. Len(stack[t]) /\ m + Len(fs) - 1 \in DOMAIN r
    BY <1>3, <1>5, <1>6
  <2> QED
    BY <1>3, <2>1
<1>7. \A j \in DOMAIN fs : j \in DOMAIN r /\ r[j] = fs[j]
  BY <1>3, <1>5
<1> QED
  BY <1>1, <1>4, <1>6, <1>7, ZenonT(40)

\* So whoever has o in hand keeps it, unless its job was on top.
LEMMA HandsStay ==
  ASSUME TypeOK, NEW t \in Threads, stack[t] # <<>>, NEW fs \in Seq(Frames), Replace(t, fs),
         NEW o \in Objs, InHand(o), t # o \/ Top(t).at \notin Jobs, Top(t) # Run(o)
  PROVE  InHand(o)'
<1>1. \A u \in Threads : \A m \in DOMAIN stack[u] :
        u # t \/ m # 1 => \E k \in DOMAIN stack'[u] : stack'[u][k] = stack[u][m]
  BY FramesStay
<1>2. CASE Working(o)
  <2>1. o \in Threads
    BY DEF Threads
  <2>2. PICK m \in DOMAIN stack[o] : stack[o][m].at \in Jobs
    BY <1>2, Zenon DEF Working, Jobs
  <2>3. o # t \/ m # 1
    BY <2>2, Zenon DEF Top
  <2>4. PICK k \in DOMAIN stack'[o] : stack'[o][k] = stack[o][m]
    BY <1>1, <2>1, <2>3, Zenon
  <2>5. stack'[o][k].at \in {"entry", "data", "failed", "tail"}
    BY <2>2, <2>4, Zenon DEF Jobs
  <2> QED
    BY <2>5, Zenon DEF InHand, Working
<1>3. ASSUME NEW u \in Threads, NEW m \in DOMAIN stack[u], stack[u][m] = Run(o)
      PROVE  InHand(o)'
  <2>1. u # t \/ m # 1
    BY <1>3, Zenon DEF Top
  <2>2. PICK k \in DOMAIN stack'[u] : stack'[u][k] = Run(o)
    BY <1>1, <1>3, <2>1, Zenon
  <2>3. Run(o)' = Run(o)
    BY DEF Run
  <2> QED
    BY <2>2, <2>3, Zenon DEF InHand
<1> QED
  BY <1>2, <1>3, Zenon DEF InHand

\* A step that takes no download out of hand while it is START.
LEMMA WorkStays ==
  ASSUME TypeOK, AtWork, NEW t \in Threads, stack[t] # <<>>, NEW fs \in Seq(Frames), Replace(t, fs),
         \A o \in Listed' :
           Status'[o] = "START" =>
             o \in Objs /\ \/ /\ o \in Listed /\ Status[o] = "START"
                              /\ t # o \/ Top(t).at \notin Jobs
                              /\ Top(t) # Run(o)
                           \/ \E j \in DOMAIN fs : fs[j] = Run(o)
                           \/ t = o /\ \E j \in DOMAIN fs : fs[j].at \in Jobs
  PROVE  AtWork'
<1> SUFFICES ASSUME NEW o \in Listed', Status'[o] = "START"
             PROVE  InHand(o)'
  BY Zenon DEF AtWork
<1>1. \A j \in DOMAIN fs : \E k \in DOMAIN stack'[t] : stack'[t][k] = fs[j]
  BY FramesStay
<1>2. ASSUME o \in Objs, o \in Listed, Status[o] = "START", t # o \/ Top(t).at \notin Jobs, Top(t) # Run(o)
      PROVE  InHand(o)'
  <2>1. InHand(o)
    BY <1>2, Zenon DEF AtWork
  <2> QED
    BY <1>2, <2>1, HandsStay
<1>3. ASSUME NEW j \in DOMAIN fs, fs[j] = Run(o)
      PROVE  InHand(o)'
  <2>1. PICK k \in DOMAIN stack'[t] : stack'[t][k] = Run(o)
    BY <1>1, <1>3, Zenon
  <2> QED
    BY <2>1, Zenon DEF InHand, Run
<1>4. ASSUME t = o, NEW j \in DOMAIN fs, fs[j].at \in Jobs
      PROVE  InHand(o)'
  <2>1. PICK k \in DOMAIN stack'[o] : stack'[o][k].at \in Jobs
    BY <1>1, <1>4, Zenon
  <2> QED
    BY <2>1, Zenon DEF InHand, Working, Jobs
<1> QED
  BY <1>2, <1>3, <1>4, Zenon

\* Nothing on the stacks of the workers changes while the GUI thread is called.
LEMMA CallStays ==
  ASSUME ~Overlap, Inv, AtWork, GuiIdle, NEW fs \in Seq(Frames), Call(fs),
         \A o \in Listed' : Status'[o] = "START" => o \in Listed /\ Status[o] = "START"
  PROVE  AtWork'
<1>1. stack[Gui] = <<>> /\ Gui \in Threads /\ Gui \notin Objs
  BY Quiet
<1>2. \A u \in Threads \ {Gui} : stack'[u] = stack[u]
  BY Called
<1> SUFFICES ASSUME NEW o \in Listed', Status'[o] = "START"
             PROVE  InHand(o)'
  BY Zenon DEF AtWork
<1>3. InHand(o) /\ o \in Objs /\ o \in Listed
  <2>1. o \in Listed /\ Status[o] = "START"
    OBVIOUS
  <2> QED
    BY <2>1, ListIndex DEF AtWork, Inv, Listed
<1>4. CASE Working(o)
  <2>1. o \in Threads \ {Gui}
    BY <1>1, <1>3 DEF Threads
  <2> QED
    BY <1>2, <1>4, <2>1, Zenon DEF InHand, Working
<1>5. ASSUME NEW u \in Threads, NEW m \in DOMAIN stack[u], stack[u][m] = Run(o)
      PROVE  InHand(o)'
  <2>1. u # Gui
    BY <1>1, <1>5
  <2>2. stack'[u] = stack[u]
    BY <1>2, <2>1
  <2> QED
    BY <1>5, <2>2, Zenon DEF InHand, Run
<1> QED
  BY <1>3, <1>4, <1>5, Zenon DEF InHand

\* The steps of the user, the timer and the clock.
LEMMA UserServes ==
  ASSUME ~Overlap, Inv, AtWork, User \/ Timer \/ \E o \in Objs : Elapse(o)
  PROVE  AtWork'
<1>0. /\ Status \in [Objs -> States] /\ List \in Seq(Objs) /\ \A a \in Listed : a \in Objs
  BY ListIndex DEF Inv, TypeOK, Listed
<1>1. <<Enter>> \in Seq(Frames)
  BY WorkFrames DEF WorkLabels
<1>2. ASSUME NEW nm \in Names, AddDownload(nm)
      PROVE  AtWork'
  <2>1. PICK n \in Unused : List' = Append(List, n) /\ Status' = [Status EXCEPT ![n] = "STOP"]
    BY <1>2, Zenon DEF AddDownload
  <2>2. GuiIdle /\ Call(<<Enter>>)
    BY <1>2, Zenon DEF AddDownload
  <2>3. n \in Objs
    BY DEF Unused
  <2>4. \A a \in Listed' : a = n \/ a \in Listed
    <3>1. /\ Len(List') = Len(List) + 1 /\ List' \in Seq(Objs) /\ List'[Len(List) + 1] = n
          /\ \A j \in 1 .. Len(List) : List'[j] = List[j]
      BY <1>0, <2>1, <2>3, AppendProperties
    <3>2. DOMAIN List' = 1 .. Len(List) + 1 /\ DOMAIN List = 1 .. Len(List) /\ Len(List) \in Nat
      BY <1>0, <3>1, LenProperties
    <3>3. \A j \in DOMAIN List' : List'[j] = n \/ (j \in DOMAIN List /\ List'[j] = List[j])
      BY <3>1, <3>2
    <3> QED
      BY <3>3 DEF Listed, Range
  <2>5. \A a \in Listed' : Status'[a] = "START" => a \in Listed /\ Status[a] = "START"
    BY <1>0, <2>1, <2>3, <2>4
  <2> QED
    BY <1>1, <2>2, <2>5, CallStays
<1>3. ASSUME NEW o \in Objs, StartButton(o)
      PROVE  AtWork'
  <2>1. /\ GuiIdle /\ UNCHANGED <<List, Status>>
        /\ Call(<<Enter>>) \/ Call(<<Start(o, TRUE, FALSE), Enter>>)
    BY <1>3, Zenon DEF StartButton
  <2>2. \A a \in Listed' : Status'[a] = "START" => a \in Listed /\ Status[a] = "START"
    BY <2>1, Zenon DEF Listed
  <2>3. <<Start(o, TRUE, FALSE), Enter>> \in Seq(Frames)
    <3>1. Start(o, TRUE, FALSE) \in Frames /\ Enter \in Frames
      BY DEF Frames, Start, Enter
    <3> QED
      BY <3>1, Tuples
  <2> QED
    BY <1>1, <2>1, <2>2, <2>3, CallStays
<1>4. ASSUME NEW S, StopButton(S)
      PROVE  AtWork'
  <2>1. /\ GuiIdle /\ Call(<<Enter>>) /\ UNCHANGED List
        /\ Status' = [o \in Objs |-> IF o \in S /\ Status[o] # "FINISH" THEN "STOP" ELSE Status[o]]
    BY <1>4, Zenon DEF StopButton
  <2>2. Listed' = Listed
    BY <2>1, Zenon DEF Listed
  <2>3. \A a \in Listed : Status'[a] = "START" => Status[a] = "START"
    BY <1>0, <2>1
  <2> QED
    BY <1>1, <2>1, <2>2, <2>3, CallStays
<1>5. ASSUME NEW S, DeleteButton(S)
      PROVE  AtWork'
  <2>1. /\ GuiIdle /\ Call(<<Enter>>) /\ List' = Without(List, S)
        /\ Status' = [o \in Objs |-> IF o \in S THEN "STOP" ELSE Status[o]]
    BY <1>5, Zenon DEF DeleteButton
  <2>2. List' \in Seq(Objs) /\ Selects(List', List, Len(List), S)
    BY <1>0, <2>1, WithoutSelects
  <2>3. PICK e \in [1 .. Len(List') -> 1 .. Len(List)] :
          \A k \in 1 .. Len(List') : List'[k] = List[e[k]]
    BY <2>2, Zenon DEF Selects
  <2>4. \A a \in Listed' : a \in Listed
    <3>1. DOMAIN List' = 1 .. Len(List') /\ DOMAIN List = 1 .. Len(List)
      BY <1>0, <2>2, LenProperties
    <3>2. \A k \in DOMAIN List' : e[k] \in DOMAIN List /\ List'[k] = List[e[k]]
      BY <2>3, <3>1
    <3> QED
      BY <3>2 DEF Listed, Range
  <2>5. \A a \in Listed : Status'[a] = "START" => Status[a] = "START"
    BY <1>0, <2>1
  <2> QED
    BY <1>1, <2>1, <2>4, <2>5, CallStays
<1>6. CASE Timer
  <2>1. GuiIdle /\ Call(<<Enter>>) /\ UNCHANGED <<List, Status>>
    BY <1>6, Zenon DEF Timer
  <2>2. \A a \in Listed' : Status'[a] = "START" => a \in Listed /\ Status[a] = "START"
    BY <2>1, Zenon DEF Listed
  <2> QED
    BY <1>1, <2>1, <2>2, CallStays
<1>7. ASSUME NEW o \in Objs, Elapse(o)
      PROVE  AtWork'
  <2>1. UNCHANGED <<List, Status, stack>>
    BY <1>7, Zenon DEF Elapse
  <2> QED
    BY <2>1, Zenon DEF AtWork, InHand, Working, Listed, Run
<1> QED
  BY <1>2, <1>3, <1>4, <1>5, <1>6, <1>7, Zenon DEF User

\* The steps of a worker.
LEMMA WorkerServes ==
  ASSUME ~OpenFails, Inv, AtWork, NEW o \in Objs, Worker(o)
  PROVE  AtWork'
<1>0. /\ Status \in [Objs -> States] /\ TypeOK /\ \A a \in Listed : a \in Objs
  BY ListIndex DEF Inv, TypeOK, Listed
<1>1. UNCHANGED List /\ stack[o] # <<>> /\ o \in Threads /\ Listed' = Listed
  BY Zenon DEF Worker, Entry, Transfer, Failed, EntryTail, OnExit, AtTop, Threads, Listed
<1>2. Top(o).at \in WorkLabels /\ \A a \in Objs : Top(o) # Run(a)
  <2>1. Top(o).at \in WorkLabels
    BY DEF Worker, Entry, Transfer, Failed, EntryTail, OnExit, AtTop, WorkLabels
  <2> QED
    BY <2>1 DEF Run, WorkLabels
<1>3. ASSUME NEW fs \in Seq(Frames), Replace(o, fs), \A a \in Objs \ {o} : Status'[a] = Status[a],
             Status'[o] = "START" => \E j \in DOMAIN fs : fs[j].at \in Jobs
      PROVE  AtWork'
  <2>1. \A a \in Listed' : Status'[a] = "START" =>
          a \in Objs /\ \/ /\ a \in Listed /\ Status[a] = "START"
                           /\ o # a \/ Top(o).at \notin Jobs
                           /\ Top(o) # Run(a)
                        \/ \E j \in DOMAIN fs : fs[j] = Run(a)
                        \/ o = a /\ \E j \in DOMAIN fs : fs[j].at \in Jobs
    BY <1>0, <1>1, <1>2, <1>3
  <2> QED
    BY <1>0, <1>1, <1>3, <2>1, WorkStays
<1>4. ASSUME NEW l \in WorkLabels
      PROVE  /\ <<Work(l)>> \in Seq(Frames) /\ <<Enter, Work(l)>> \in Seq(Frames)
             /\ l \in Jobs => /\ \E j \in DOMAIN <<Work(l)>> : <<Work(l)>>[j].at \in Jobs
                              /\ \E j \in DOMAIN <<Enter, Work(l)>> : <<Enter, Work(l)>>[j].at \in Jobs
  <2>1. Work(l) \in Frames /\ Work(l).at = l /\ Enter \in Frames
    BY WorkTypes DEF Frames, Enter
  <2> DEFINE f == Work(l)
             g == Enter
  <2> HIDE DEF f, g
  <2>2. f \in Frames /\ f.at = l /\ g \in Frames
    BY <2>1 DEF f, g
  <2>3. /\ <<f>> \in Seq(Frames) /\ <<g, f>> \in Seq(Frames)
        /\ \E j \in DOMAIN <<f>> : <<f>>[j] = f
        /\ \E j \in DOMAIN <<g, f>> : <<g, f>>[j] = f
    BY <2>2, Tuples
  <2>4. l \in Jobs => /\ \E j \in DOMAIN <<f>> : <<f>>[j].at \in Jobs
                      /\ \E j \in DOMAIN <<g, f>> : <<g, f>>[j].at \in Jobs
    BY <2>2, <2>3, Zenon
  <2> QED
    BY <2>3, <2>4 DEF f, g
<1>5. {"data", "tail", "failed", "exit"} \subseteq WorkLabels /\ {"data", "tail", "failed"} \subseteq Jobs
  BY DEF WorkLabels, Jobs
<1>6. CASE Entry(o)
  <2>1. Replace(o, <<Work("data")>>) /\ UNCHANGED Status
    BY <1>6, Zenon DEF Entry
  <2> QED
    BY <1>3, <1>4, <1>5, <2>1
<1>7. CASE Transfer(o)
  <2>1. CASE Replace(o, <<Enter, Work("tail")>>) /\ \E x : Status' = [Status EXCEPT ![o] = x]
    BY <1>0, <1>3, <1>4, <1>5, <2>1
  <2>2. CASE Status' = [Status EXCEPT ![o] = "FINISH"] /\ UNCHANGED stack
    <3>1. ASSUME NEW a \in Listed', Status'[a] = "START"
          PROVE  InHand(a)
      <4>1. a \in Listed /\ Status[a] = "START"
        BY <1>0, <1>1, <2>2, <3>1
      <4> QED
        BY <4>1, Zenon DEF AtWork
    <3> QED
      BY <2>2, <3>1, Zenon DEF AtWork, InHand, Working, Run
  <2>3. CASE Replace(o, <<Work("failed")>>) /\ UNCHANGED Status
    BY <1>3, <1>4, <1>5, <2>3
  <2>4. ASSUME Fails(o), NEW fs \in {<<>>, <<Enter>>}, Replace(o, fs \o <<Work("failed")>>)
        PROVE  AtWork'
    <3>1. Status'[o] \in {"RETRY", "ERROR"} /\ \A a \in Objs \ {o} : Status'[a] = Status[a]
      BY <1>0, <2>4, FailTypes
    <3>2. fs \o <<Work("failed")>> \in Seq(Frames)
      <4>1. fs \in Seq(Frames)
        BY WorkFrames DEF WorkLabels
      <4>2. <<Work("failed")>> \in Seq(Frames)
        BY <1>4, <1>5
      <4> QED
        BY <4>1, <4>2, ConcatProperties
    <3>3. Status'[o] # "START"
      BY <3>1
    <3> DEFINE gs == fs \o <<Work("failed")>>
    <3>4. gs \in Seq(Frames) /\ Replace(o, gs)
      BY <2>4, <3>2
    <3> HIDE DEF gs
    <3> QED
      BY <1>3, <3>1, <3>3, <3>4
  <2> QED
    BY <1>7, <2>1, <2>2, <2>3, <2>4, Zenon DEF Transfer
<1>8. CASE Failed(o)
  <2>1. CASE Fails(o) /\ Replace(o, <<Work("exit")>>)
    <3>1. Status'[o] \in {"RETRY", "ERROR"} /\ \A a \in Objs \ {o} : Status'[a] = Status[a]
      BY <1>0, <2>1, FailTypes
    <3> QED
      BY <1>3, <1>4, <1>5, <2>1, <3>1
  <2>2. CASE Replace(o, <<Enter, Work("tail")>>) /\ UNCHANGED Status
    BY <1>3, <1>4, <1>5, <2>2
  <2> QED
    BY <1>8, <2>1, <2>2, Zenon DEF Failed
<1>9. CASE EntryTail(o)
  <2>1. Set(o, "RETRY") /\ Replace(o, <<Work("exit")>>)
    BY <1>9, Zenon DEF EntryTail
  <2>2. Status'[o] = "RETRY" /\ \A a \in Objs \ {o} : Status'[a] = Status[a]
    BY <1>0, <2>1, SetTypes DEF States
  <2> QED
    BY <1>3, <1>4, <1>5, <2>1, <2>2
<1>10. CASE OnExit(o)
  <2>1. Replace(o, <<Enter>>) /\ UNCHANGED Status /\ Top(o).at = "exit"
    BY <1>10, Zenon DEF OnExit, AtTop
  <2>2. <<Enter>> \in Seq(Frames)
    BY WorkFrames DEF WorkLabels
  <2>3. \A a \in Listed' : Status'[a] = "START" =>
          a \in Objs /\ a \in Listed /\ Status[a] = "START" /\ Top(o).at \notin Jobs /\ Top(o) # Run(a)
    BY <1>0, <1>1, <1>2, <2>1 DEF Jobs
  <2> QED
    BY <1>0, <1>1, <2>1, <2>2, <2>3, WorkStays
<1> QED
  BY <1>6, <1>7, <1>8, <1>9, <1>10, Zenon DEF Worker

\* The steps inside the manager.
LEMMA ManagerServes ==
  ASSUME ~OpenFails, Inv, AtWork, NEW t \in Threads, Manager(t)
  PROVE  AtWork'
<1>0. /\ Status \in [Objs -> States] /\ TypeOK /\ \A a \in Listed : a \in Objs
  BY ListIndex DEF Inv, TypeOK, Listed
\* A call that is not a thread's to be run is replaced, and whatever becomes START is run.
<1>1. ASSUME NEW label \in Inner \ {"run"}, AtTop(t, label), NEW fs \in Seq(Frames), Replace(t, fs),
             \A a \in Listed' : Status'[a] = "START" =>
               \/ a \in Listed /\ Status[a] = "START"
               \/ a \in Objs /\ \E j \in DOMAIN fs : fs[j] = Run(a)
      PROVE  AtWork'
  <2>1. stack[t] # <<>> /\ Top(t).at = label
    BY <1>1, Zenon DEF AtTop
  <2>2. Top(t).at \notin Jobs /\ \A a \in Objs : Top(t) # Run(a)
    BY <1>1, <2>1 DEF Run, Jobs, Inner
  <2>3. \A a \in Listed' : Status'[a] = "START" =>
          a \in Objs /\ \/ /\ a \in Listed /\ Status[a] = "START"
                           /\ t # a \/ Top(t).at \notin Jobs
                           /\ Top(t) # Run(a)
                        \/ \E j \in DOMAIN fs : fs[j] = Run(a)
                        \/ t = a /\ \E j \in DOMAIN fs : fs[j].at \in Jobs
    BY <1>0, <1>1, <2>2
  <2> QED
    BY <1>0, <1>1, <2>1, <2>3, WorkStays
\* The same when list and status stay.
<1>2. ASSUME NEW label \in Inner \ {"run"}, AtTop(t, label), NEW fs \in Seq(Frames), Replace(t, fs),
             UNCHANGED <<List, Status>>
      PROVE  AtWork'
  <2>1. \A a \in Listed' : Status'[a] = "START" => a \in Listed /\ Status[a] = "START"
    BY <1>2, Zenon DEF Listed
  <2> QED
    BY <1>1, <1>2, <2>1
<1>3. Inner \ {"run"} = {"boot", "retry", "wait", "start", "swap", "ran"} /\ <<>> \in Seq(Frames)
  BY DEF Inner
<1>4. CASE BootLoop(t)
  <2> DEFINE i == Top(t).i
             n == Top(t).n
             o == List[i]
  <2>1. /\ AtTop(t, "boot") /\ UNCHANGED List
        /\ \/ i = 0 /\ Replace(t, <<>>) /\ UNCHANGED Status
           \/ i > 0 /\ Replace(t, <<Boot(i - 1, n)>>) /\ UNCHANGED Status
           \/ i > 0 /\ Replace(t, <<Boot(i - 1, n)>>) /\ Status' = [Status EXCEPT ![o] = "WAIT"]
           \/ /\ i > 0 /\ Status' = [Status EXCEPT ![o] = "START"]
              /\ Replace(t, IF Status[o] = "START" THEN <<Boot(i - 1, n + 1)>>
                            ELSE <<Retry(1), Run(o), Boot(i - 1, n + 1)>>)
    BY <1>4, Zenon DEF BootLoop
  <2>2. Top(t) \in Frames /\ Top(t).at = "boot" /\ Agrees(Top(t), List, Status, thread, bAlreadyRun)
    BY <2>1, TopFrame DEF Inv
  <2>3. i \in Nat /\ n \in Nat /\ i <= Len(List)
    BY <2>2, FrameFields DEF Agrees
  <2>4. i > 0 => o \in Objs /\ Status[o] # "START"
    BY <2>2, <2>3, ListIndex DEF Inv, Agrees, Untouched
  <2>5. Listed' = Listed
    BY <2>1, Zenon DEF Listed
  <2> HIDE DEF i, n, o
  <2>6. CASE i = 0 /\ Replace(t, <<>>) /\ UNCHANGED Status
    BY <1>2, <1>3, <2>1, <2>6
  <2>7. CASE /\ i > 0 /\ Replace(t, <<Boot(i - 1, n)>>)
             /\ UNCHANGED Status \/ Status' = [Status EXCEPT ![o] = "WAIT"]
    <3>1. Boot(i - 1, n) \in Frames
      BY <2>3, <2>7 DEF Frames, Boot
    <3>2. <<Boot(i - 1, n)>> \in Seq(Frames)
      BY <3>1, Tuples
    <3>3. \A a \in Listed' : Status'[a] = "START" => a \in Listed /\ Status[a] = "START"
      BY <1>0, <2>5, <2>7
    <3> QED
      BY <1>1, <1>3, <2>1, <2>7, <3>2, <3>3
  <2>8. CASE /\ i > 0 /\ Status' = [Status EXCEPT ![o] = "START"]
             /\ Replace(t, <<Retry(1), Run(o), Boot(i - 1, n + 1)>>)
    <3> DEFINE fs == <<Retry(1), Run(o), Boot(i - 1, n + 1)>>
    <3>1. Boot(i - 1, n + 1) \in Frames /\ Retry(1) \in Frames /\ Run(o) \in Frames
      BY <2>3, <2>4, <2>8 DEF Frames, Boot, Retry, Run
    <3>2. fs \in Seq(Frames) /\ \E j \in DOMAIN fs : fs[j] = Run(o)
      BY <3>1, Tuples
    <3>3. Replace(t, fs)
      BY <2>8
    <3> HIDE DEF fs
    <3>4. \A a \in Listed' : Status'[a] = "START" => (a \in Listed /\ Status[a] = "START") \/ a = o
      BY <1>0, <2>5, <2>8
    <3>5. \A a \in Listed' : Status'[a] = "START" =>
            \/ a \in Listed /\ Status[a] = "START"
            \/ a \in Objs /\ \E j \in DOMAIN fs : fs[j] = Run(a)
      BY <2>4, <2>8, <3>2, <3>4, Zenon
    <3> QED
      BY <1>1, <1>3, <2>1, <3>2, <3>3, <3>5
  <2> QED
    BY <2>1, <2>4, <2>6, <2>7, <2>8, Zenon
<1>5. CASE EnterScreen(t)
  <2>1. AtTop(t, "enter") /\ Replace(t, <<Retry(1)>>) /\ UNCHANGED <<List, Status>>
    BY <1>5, Zenon DEF EnterScreen
  <2>2. Retry(1) \in Frames /\ <<Retry(1)>> \in Seq(Frames)
    <3>1. Retry(1) \in Frames
      BY DEF Frames, Retry
    <3> QED
      BY <3>1, Tuples
  <2>3. stack[t] # <<>> /\ Top(t).at \notin Jobs /\ \A a \in Objs : Top(t) # Run(a)
    BY <2>1 DEF AtTop, Jobs, Run
  <2>4. \A a \in Listed' : Status'[a] = "START" =>
          a \in Objs /\ a \in Listed /\ Status[a] = "START" /\ Top(t).at \notin Jobs /\ Top(t) # Run(a)
    BY <1>0, <2>1, <2>3 DEF Listed
  <2> QED
    BY <1>0, <2>1, <2>2, <2>3, <2>4, WorkStays
<1>6. CASE RetryLoop(t)
  <2> DEFINE n == Cardinality({j \in DOMAIN List : Status[List[j]] \in {"START", "RETRY"}})
  <2>1. /\ AtTop(t, "retry") /\ UNCHANGED <<List, Status>>
        /\ \/ \E j \in Top(t).i .. Len(List) :
                Replace(t, <<Start(List[j], FALSE, TRUE), Retry(j + 1)>>)
           \/ Replace(t, IF n < MaxDL THEN <<Wait(Len(List), n)>> ELSE <<>>)
    BY <1>6, Zenon DEF RetryLoop
  <2>2. Top(t).i \in Nat /\ Top(t).i # 0
    <3>1. Top(t) \in Frames /\ Top(t).at = "retry" /\ Agrees(Top(t), List, Status, thread, bAlreadyRun)
      BY <2>1, TopFrame DEF Inv
    <3> QED
      BY <3>1, FrameFields DEF Agrees
  <2>3. ASSUME NEW j \in Top(t).i .. Len(List)
        PROVE  <<Start(List[j], FALSE, TRUE), Retry(j + 1)>> \in Seq(Frames)
    <3>1. List[j] \in Objs /\ j \in Nat
      BY <1>0, <2>2, ListIndex
    <3>2. Start(List[j], FALSE, TRUE) \in Frames /\ Retry(j + 1) \in Frames
      BY <3>1 DEF Frames, Start, Retry
    <3> QED
      BY <3>2, Tuples
  <2>4. <<Wait(Len(List), n)>> \in Seq(Frames)
    <3>1. n \in Nat /\ Len(List) \in Nat
      <4>1. IsFiniteSet(1 .. Len(List)) /\ DOMAIN List = 1 .. Len(List) /\ Len(List) \in Nat
        BY <1>0, ListIndex, FS_Interval
      <4> QED
        BY <4>1, FS_Subset, FS_CardinalityType
    <3> HIDE DEF n
    <3>2. Wait(Len(List), n) \in Frames
      BY <3>1 DEF Frames, Wait
    <3> QED
      BY <3>2, Tuples
  <2> HIDE DEF n
  <2> QED
    BY <1>2, <1>3, <2>1, <2>3, <2>4
<1>7. CASE WaitLoop(t)
  <2> DEFINE n == Top(t).n + 1
  <2>1. /\ AtTop(t, "wait") /\ UNCHANGED List
        /\ \/ \E j \in DOMAIN List :
                /\ Status' = [Status EXCEPT ![List[j]] = "START"]
                /\ Replace(t, <<Retry(1), Run(List[j])>>
                              \o (IF n < MaxDL THEN <<Wait(j - 1, n)>> ELSE <<>>))
           \/ Replace(t, <<>>) /\ UNCHANGED Status
    BY <1>7, Zenon DEF WaitLoop
  <2>2. n \in Nat
    <3>1. Top(t) \in Frames /\ Top(t).at = "wait"
      BY <2>1, TopFrame DEF Inv
    <3> QED
      BY <3>1, FrameFields
  <2>3. Listed' = Listed
    BY <2>1, Zenon DEF Listed
  <2> HIDE DEF n
  <2>4. ASSUME NEW j \in DOMAIN List, Status' = [Status EXCEPT ![List[j]] = "START"],
               Replace(t, <<Retry(1), Run(List[j])>>
                          \o (IF n < MaxDL THEN <<Wait(j - 1, n)>> ELSE <<>>))
        PROVE  AtWork'
    <3> DEFINE o == List[j]
               f == Retry(1)
               g == Run(o)
               h == Wait(j - 1, n)
               fs == <<f, g>> \o (IF n < MaxDL THEN <<h>> ELSE <<>>)
    <3>1. o \in Objs /\ j - 1 \in Nat
      BY <1>0, ListIndex
    <3>2. f \in Frames /\ g \in Frames /\ h \in Frames
      BY <2>2, <3>1 DEF Frames, Retry, Run, Wait
    <3>3. Replace(t, fs) /\ Status' = [Status EXCEPT ![o] = "START"]
      BY <2>4
    <3>4. fs = <<f, g>> \/ fs = <<f, g, h>>
      <4> HIDE DEF f, g, h
      <4>1. CASE n < MaxDL
        BY <4>1, Three
      <4>2. CASE ~(n < MaxDL)
        BY <4>2
      <4> QED
        BY <4>1, <4>2
    <3> HIDE DEF fs, f, g, h
    <3>5. fs \in Seq(Frames) /\ \E k \in DOMAIN fs : fs[k] = Run(o)
      <4>1. fs \in Seq(Frames) /\ \E k \in DOMAIN fs : fs[k] = g
        <5>1. CASE fs = <<f, g>>
          BY <3>2, <5>1, Tuples
        <5>2. CASE fs = <<f, g, h>>
          BY <3>2, <5>2, Tuples
        <5> QED
          BY <3>4, <5>1, <5>2
      <4> QED
        BY <4>1, Zenon DEF g
    <3> HIDE DEF o
    <3>6. \A a \in Listed' : Status'[a] = "START" => (a \in Listed /\ Status[a] = "START") \/ a = o
      BY <1>0, <2>3, <3>3
    <3>7. \A a \in Listed' : Status'[a] = "START" =>
            \/ a \in Listed /\ Status[a] = "START"
            \/ a \in Objs /\ \E k \in DOMAIN fs : fs[k] = Run(a)
      BY <3>1, <3>5, <3>6, Zenon
    <3> QED
      BY <1>1, <1>3, <2>1, <3>3, <3>5, <3>7
  <2>5. CASE Replace(t, <<>>) /\ UNCHANGED Status
    BY <1>2, <1>3, <2>1, <2>5
  <2> QED
    BY <2>1, <2>4, <2>5, Zenon
<1>8. CASE StartDownload(t)
  <2>1. /\ AtTop(t, "start") /\ UNCHANGED <<List, Status>>
        /\ \/ Replace(t, <<>>)
           \/ \E i \in DOMAIN List, w \in BOOLEAN : Replace(t, <<Swap(Top(t).dl, i, w)>>)
    <3> DEFINE w == Cardinality({j \in DOMAIN List : Status[List[j]] # "START"}) >= MaxDL /\ ~Top(t).force
    <3>1. /\ AtTop(t, "start") /\ UNCHANGED <<List, Status>>
          /\ \/ Replace(t, <<>>)
             \/ \E i \in DOMAIN List : Replace(t, <<Swap(Top(t).dl, i, w)>>)
      BY <1>8, Zenon DEF StartDownload
    <3>2. w \in BOOLEAN
      OBVIOUS
    <3> HIDE DEF w
    <3> QED
      BY <3>1, <3>2
  <2>2. Top(t).dl \in Objs
    <3>1. Top(t) \in Frames /\ Top(t).at = "start"
      BY <2>1, TopFrame DEF Inv
    <3> QED
      BY <3>1, FrameFields
  <2>3. ASSUME NEW i \in DOMAIN List, NEW w \in BOOLEAN
        PROVE  <<Swap(Top(t).dl, i, w)>> \in Seq(Frames)
    <3>1. i \in Nat
      BY <1>0, ListIndex
    <3>2. Swap(Top(t).dl, i, w) \in Frames
      BY <2>2, <3>1 DEF Frames, Swap
    <3> QED
      BY <3>2, Tuples
  <2> QED
    BY <1>2, <1>3, <2>1, <2>3
<1>9. CASE SwapAndGo(t)
  <2> DEFINE o == Top(t).dl
             i == Top(t).i
             w == Top(t).wait
  <2>1. AtTop(t, "swap")
    BY <1>9, Zenon DEF SwapAndGo
  <2>2. PICK n \in Objs : /\ Copied(o, i, n, w)
                          /\ Replace(t, IF w THEN <<>> ELSE <<Retry(1), Run(n)>>)
    BY <1>9, SwapCopies
  <2>3. i \in DOMAIN List
    BY <2>1, SwapFound
  <2> HIDE DEF o, i, w
  <2>4. /\ DOMAIN List' = DOMAIN List /\ List'[i] = n
        /\ \A j \in DOMAIN List \ {i} : List'[j] = List[j] /\ List[j] # n
        /\ Status'[n] = (IF w THEN "WAIT" ELSE "START")
        /\ \A a \in Objs \ {n} : Status'[a] = Status[a]
    BY <2>2, Zenon DEF Copied
  <2>5. \A a \in Listed' : Status'[a] = "START" => (a \in Listed /\ Status[a] = "START") \/ (a = n /\ ~w)
    <3>1. ASSUME NEW a \in Listed', Status'[a] = "START", a # n
          PROVE  a \in Listed /\ Status[a] = "START"
      <4>1. PICK j \in DOMAIN List' : List'[j] = a
        BY DEF Listed, Range
      <4>2. j \in DOMAIN List /\ List[j] = a
        BY <2>4, <3>1, <4>1
      <4>3. a \in Listed
        BY <4>2 DEF Listed, Range
      <4> QED
        BY <1>0, <2>4, <3>1, <4>3
    <3> QED
      BY <2>4, <3>1
  <2>6. CASE w
    <3>1. Replace(t, <<>>) /\ \A a \in Listed' : Status'[a] = "START" => a \in Listed /\ Status[a] = "START"
      BY <2>2, <2>5, <2>6
    <3> QED
      BY <1>1, <1>3, <2>1, <3>1
  <2>7. CASE ~w
    <3> DEFINE fs == <<Retry(1), Run(n)>>
    <3>1. Retry(1) \in Frames /\ Run(n) \in Frames
      BY DEF Frames, Retry, Run
    <3>2. fs \in Seq(Frames) /\ \E k \in DOMAIN fs : fs[k] = Run(n)
      BY <3>1, Tuples
    <3>3. Replace(t, fs)
      BY <2>2, <2>7
    <3> HIDE DEF fs
    <3>4. \A a \in Listed' : Status'[a] = "START" =>
            \/ a \in Listed /\ Status[a] = "START"
            \/ a \in Objs /\ \E k \in DOMAIN fs : fs[k] = Run(a)
      BY <2>5, <3>2, Zenon
    <3> QED
      BY <1>1, <1>3, <2>1, <3>2, <3>3, <3>4
  <2> QED
    BY <2>6, <2>7
<1>10. CASE RunThread(t)
  <2> DEFINE o == Top(t).dl
             fs == <<Ran(o, FALSE)>>
             gs == <<Work("entry")>>
             new == fs \o Tail(stack[t])
  <2>1. AtTop(t, "run") /\ UNCHANGED List
    BY <1>10, Zenon DEF RunThread
  <2>2. /\ Top(t) \in Frames /\ Top(t).at = "run" /\ Agrees(Top(t), List, Status, thread, bAlreadyRun)
        /\ stack[t] # <<>> /\ stack[t] \in Seq(Frames)
    BY <2>1, TopFrame DEF Inv
  <2>3. o \in Objs /\ thread[o] = "new"
    BY <2>2, FrameFields DEF Agrees
  <2>4. stack[o] = <<>> /\ o # t /\ o \in Threads
    BY <2>2, <2>3 DEF Inv, Threaded, Threads
  <2>5. stack' = [stack EXCEPT ![t] = new, ![o] = gs] /\ UNCHANGED Status
    BY <1>10, <2>3, Zenon DEF RunThread
  <2>6. Ran(o, FALSE) \in Frames /\ Work("entry") \in Frames /\ Work("entry").at = "entry"
    BY <2>3, WorkTypes DEF Frames, Ran, WorkLabels
  <2>7. fs \in Seq(Frames) /\ gs \in Seq(Frames) /\ \E k \in DOMAIN gs : gs[k].at = "entry"
    <3> DEFINE f == Ran(o, FALSE)
               g == Work("entry")
    <3>1. f \in Frames /\ g \in Frames /\ g.at = "entry"
      BY <2>6
    <3> HIDE DEF f, g
    <3>2. <<f>> \in Seq(Frames) /\ <<g>> \in Seq(Frames) /\ \E k \in DOMAIN <<g>> : <<g>>[k] = g
      BY <3>1, Tuples
    <3>3. \E k \in DOMAIN <<g>> : <<g>>[k].at = "entry"
      BY <3>1, <3>2, Zenon
    <3> QED
      BY <3>2, <3>3 DEF f, g
  <2>8. new \in Seq(Frames) /\ \A m \in DOMAIN stack[t] : m # 1 => \E k \in DOMAIN new : new[k] = stack[t][m]
    <3> HIDE DEF fs
    <3>1. /\ new \in Seq(Frames) /\ Len(fs) \in Nat /\ Len(stack[t]) \in Nat \ {0}
          /\ Len(new) = Len(fs) + Len(stack[t]) - 1
          /\ \A k \in 2 .. Len(stack[t]) : new[k + Len(fs) - 1] = stack[t][k]
      BY <2>2, <2>7, Pushed
    <3> HIDE DEF new
    <3>2. ASSUME NEW m \in DOMAIN stack[t], m # 1
          PROVE  \E k \in DOMAIN new : new[k] = stack[t][m]
      <4>1. m \in 2 .. Len(stack[t])
        BY <2>2, <3>1, <3>2, LenProperties
      <4>2. m + Len(fs) - 1 \in DOMAIN new
        BY <3>1, <4>1, LenProperties
      <4> QED
        BY <3>1, <4>1, <4>2
    <3> QED
      BY <3>1, <3>2
  <2> HIDE DEF new, gs, fs
  <2>9. /\ stack'[t] = new /\ stack'[o] = gs /\ \A u \in Threads \ {t, o} : stack'[u] = stack[u]
    <3>1. stack \in [Threads -> Seq(Frames)]
      BY Zenon DEF Inv, TypeOK
    <3> QED
      BY <2>4, <2>5, <3>1
  <2>10. ASSUME NEW a \in Listed', Status'[a] = "START"
         PROVE  InHand(a)'
    <3>1. a \in Listed /\ Status[a] = "START" /\ a \in Objs
      BY <1>0, <2>1, <2>5, <2>10 DEF Listed
    <3>2. CASE a = o
      <4>1. \E k \in DOMAIN stack'[a] : stack'[a][k].at \in {"entry", "data", "failed", "tail"}
        BY <2>7, <2>9, <3>2
      <4> QED
        BY <4>1, Zenon DEF InHand, Working
    <3>3. CASE a # o
      <4>1. InHand(a)
        BY <3>1, Zenon DEF AtWork
      <4>2. \A u \in Threads : \A m \in DOMAIN stack[u] :
              u # t \/ m # 1 => \E k \in DOMAIN stack'[u] : stack'[u][k] = stack[u][m]
        BY <2>4, <2>8, <2>9
      <4>3. CASE Working(a)
        <5>1. PICK m \in DOMAIN stack[a] : stack[a][m].at \in Jobs
          BY <4>3, Zenon DEF Working, Jobs
        <5>2. a # t \/ m # 1
          BY <2>2, <5>1 DEF Top, Jobs
        <5>3. PICK k \in DOMAIN stack'[a] : stack'[a][k] = stack[a][m]
          BY <3>1, <4>2, <5>2, Zenon DEF Threads
        <5>4. stack'[a][k].at \in {"entry", "data", "failed", "tail"}
          BY <5>1, <5>3, Zenon DEF Jobs
        <5> QED
          BY <5>4, Zenon DEF InHand, Working
      <4>4. ASSUME NEW u \in Threads, NEW m \in DOMAIN stack[u], stack[u][m] = Run(a)
            PROVE  InHand(a)'
        <5>1. Run(a).dl = a
          BY DEF Run
        <5>2. u # t \/ m # 1
          BY <3>3, <4>4, <5>1 DEF Top, o
        <5>3. PICK k \in DOMAIN stack'[u] : stack'[u][k] = Run(a)
          BY <4>2, <4>4, <5>2, Zenon
        <5> QED
          BY <5>3, Zenon DEF InHand, Run
      <4> QED
        BY <4>1, <4>3, <4>4, Zenon DEF InHand
    <3> QED
      BY <3>2, <3>3
  <2> QED
    BY <2>10, Zenon DEF AtWork
<1>11. CASE AfterRun(t)
  <2>1. AtTop(t, "ran") /\ Replace(t, <<>>) /\ UNCHANGED List
        /\ IF Top(t).failed THEN Fails(Top(t).dl) ELSE UNCHANGED <<Status, due>>
    BY <1>11, Zenon DEF AfterRun
  <2>2. ~Top(t).failed
    BY <2>1, TopFrame DEF Inv, Agrees
  <2> QED
    BY <1>2, <1>3, <2>1, <2>2
<1> QED
  BY <1>4, <1>5, <1>6, <1>7, <1>8, <1>9, <1>10, <1>11, Zenon DEF Manager

\* As long as files can be opened, a listed download that is START has a thread at work on
\* it or about to be run.
THEOREM AllServed == ~Overlap /\ ~OpenFails => (Spec => []Served)
<1> SUFFICES ASSUME ~Overlap, ~OpenFails
             PROVE  Spec => []Served
  OBVIOUS
<1>1. ASSUME Init
      PROVE  AtWork
  <2>1. Status \in [Objs -> {"STOP", "FINISH"}]
    BY <1>1, Zenon DEF Init
  <2>2. \A o \in Listed : o \in Objs
    BY <1>1, InitInv, ListIndex DEF Inv, Listed
  <2>3. \A o \in Listed : Status[o] # "START"
    BY <2>1, <2>2
  <2> QED
    BY <2>3, Zenon DEF AtWork
<1>2. ASSUME Inv, AtWork, [Next]_vars
      PROVE  AtWork'
  <2>1. CASE UNCHANGED vars
    <3>1. UNCHANGED <<List, Status, stack>>
      BY <2>1 DEF vars
    <3> QED
      BY <1>2, <3>1, Zenon DEF AtWork, InHand, Working, Listed, Run
  <2> QED
    BY <1>2, <2>1, UserServes, WorkerServes, ManagerServes, Zenon DEF Next
<1>3. ASSUME AtWork, Inv
      PROVE  Served
  <2>1. ASSUME NEW o \in Listed, Status[o] = "START", stack[o] = <<>>
        PROVE  \E t \in Threads : o \in Refs(t)
    <3>1. InHand(o) /\ ~Working(o)
      BY <1>3, <2>1 DEF AtWork, Working
    <3>2. PICK t \in Threads : \E k \in DOMAIN stack[t] : stack[t][k] = Run(o)
      BY <3>1, Zenon DEF InHand
    <3>3. o \in Refs(t)
      BY <3>2 DEF Refs, Run
    <3> QED
      BY <3>3
  <2> QED
    BY <2>1, Zenon DEF Served
<1>4. Spec => []Inv
  BY CallsAgree
<1>5. Init => AtWork
  BY <1>1
<1>6. Inv /\ AtWork /\ [Next]_vars => AtWork'
  BY <1>2
<1>7. AtWork /\ Inv => Served
  BY <1>3
<1> QED
  BY <1>4, <1>5, <1>6, <1>7, PTL DEF Spec

-----------------------------------------------------------------------------
(***************************************************************************)
(* The manager implements Lifecycle.                                       *)
(***************************************************************************)
\* The state of the abstract specification.
life == [n \in Names |-> LifeOf(n)]

\* A step of one download.
LEMMA Moves ==
  ASSUME NEW n, NEW from, NEW to, life[n] \in from, life' = [life EXCEPT ![n] = to]
  PROVE  Downloads!Becomes(n, from, to)
BY DEF Downloads!Becomes, life

\* The status of the download that l lists under the name n.
LifeIn(l, nm, st, n) ==
  IF \E o \in Range(l) : nm[o] = n THEN st[CHOOSE o \in Range(l) : nm[o] = n] ELSE "ABSENT"

\* It is that of its object, if no name is listed twice.
LEMMA LifeOne ==
  ASSUME NEW l, NEW nm, NEW st, \A i, j \in DOMAIN l : nm[l[i]] = nm[l[j]] => i = j
  PROVE  \A o \in Range(l) : LifeIn(l, nm, st, nm[o]) = st[o]
<1> SUFFICES ASSUME NEW o \in Range(l)
             PROVE  LifeIn(l, nm, st, nm[o]) = st[o]
  OBVIOUS
<1> DEFINE c == CHOOSE a \in Range(l) : nm[a] = nm[o]
<1>1. c \in Range(l) /\ nm[c] = nm[o]
  OBVIOUS
<1>2. LifeIn(l, nm, st, nm[o]) = st[c]
  BY DEF LifeIn
<1> HIDE DEF c
<1>3. PICK i \in DOMAIN l, j \in DOMAIN l : l[i] = c /\ l[j] = o
  BY <1>1 DEF Range
<1>4. c = o
  BY <1>1, <1>3
<1> QED
  BY <1>2, <1>4

\* What life says of a list, the names and the statuses.
Tells(f, l, nm, st) ==
  /\ \A o \in Range(l) : o \in Objs /\ nm[o] \in Names /\ f[nm[o]] = st[o]
  /\ \A n \in Names : (\A o \in Range(l) : nm[o] # n) => f[n] = "ABSENT"
  /\ f \in [Names -> States \cup {"ABSENT"}]

\* It is so of a list without duplicates.
LEMMA LifeTells ==
  ASSUME NEW l \in Seq(Objs), NEW nm \in [Objs -> Names], NEW st \in [Objs -> States],
         \A i, j \in DOMAIN l : nm[l[i]] = nm[l[j]] => i = j,
         NEW f, f = [n \in Names |-> LifeIn(l, nm, st, n)]
  PROVE  Tells(f, l, nm, st)
<1>1. \A n \in Names : f[n] = LifeIn(l, nm, st, n)
  OBVIOUS
<1>2. \A o \in Range(l) : o \in Objs
  BY LenProperties DEF Range
<1>3. \A o \in Range(l) : nm[o] \in Names /\ st[o] \in States
  BY <1>2
<1>4. \A o \in Range(l) : f[nm[o]] = st[o]
  <2>1. \A o \in Range(l) : LifeIn(l, nm, st, nm[o]) = st[o]
    BY LifeOne
  <2> QED
    BY <1>1, <1>3, <2>1
<1>5. \A n \in Names : (\A o \in Range(l) : nm[o] # n) => f[n] = "ABSENT"
  BY <1>1 DEF LifeIn
<1>6. \A n \in Names : f[n] \in States \cup {"ABSENT"}
  BY <1>3, <1>4, <1>5
<1>7. f \in [Names -> States \cup {"ABSENT"}]
  <2>1. f = [n \in Names |-> f[n]]
    OBVIOUS
  <2> QED
    BY <1>6, <2>1
<1> QED
  BY <1>2, <1>3, <1>4, <1>5, <1>7 DEF Tells

\* The abstract state says so of every state that satisfies the invariant.
LEMMA LifeNow ==
  ASSUME Inv
  PROVE  Tells(life, List, name, Status)
<1>1. \A i, j \in DOMAIN List : name[List[i]] = name[List[j]] => i = j
  BY Zenon DEF Inv, NoDuplicate
<1>2. life = [n \in Names |-> LifeIn(List, name, Status, n)]
  BY DEF life, LifeOf, LifeIn, Listed
<1>3. List \in Seq(Objs) /\ name \in [Objs -> Names] /\ Status \in [Objs -> States]
  BY DEF Inv, TypeOK
<1> QED
  BY <1>1, <1>2, <1>3, LifeTells

\* The same of the state after a step.
LEMMA LifeThen ==
  ASSUME Inv'
  PROVE  Tells(life', List', name', Status')
<1>1. \A i, j \in DOMAIN List' : name'[List'[i]] = name'[List'[j]] => i = j
  BY Zenon DEF Inv, NoDuplicate
<1>2. life' = [n \in Names |-> LifeIn(List', name', Status', n)]
  BY DEF life, LifeOf, LifeIn, Listed
<1>3. List' \in Seq(Objs) /\ name' \in [Objs -> Names] /\ Status' \in [Objs -> States]
  BY DEF Inv, TypeOK
<1> QED
  BY <1>1, <1>2, <1>3, LifeTells

\* The list stays, and at most the status of o changes.
LEMMA LifeChange ==
  ASSUME Inv, Inv', UNCHANGED <<List, name>>, NEW o \in Objs,
         \A a \in Objs \ {o} : Status'[a] = Status[a]
  PROVE  \/ life' = life
         \/ /\ o \in Listed /\ life[name[o]] = Status[o]
            /\ life' = [life EXCEPT ![name[o]] = Status'[o]]
<1>1. Tells(life, List, name, Status) /\ Tells(life', List, name, Status')
  BY LifeNow, LifeThen
<1> DEFINE f == life
           g == life'
<1>2. Tells(f, List, name, Status) /\ Tells(g, List, name, Status')
  BY <1>1
<1> HIDE DEF f, g
<1>3. \A n \in Names : (~\E a \in Range(List) : name[a] = n) => g[n] = f[n]
  BY <1>2 DEF Tells
<1>4. \A a \in Range(List) : name[a] \in Names /\ f[name[a]] = Status[a] /\ g[name[a]] = Status'[a] /\ a \in Objs
  BY <1>2 DEF Tells
<1>5. f \in [Names -> States \cup {"ABSENT"}] /\ g \in [Names -> States \cup {"ABSENT"}]
  BY <1>2 DEF Tells
<1>6. CASE o \notin Listed
  <2>1. \A n \in Names : g[n] = f[n]
    BY <1>3, <1>4, <1>6 DEF Listed
  <2>2. g = f
    BY <1>5, <2>1
  <2> QED
    BY <2>2 DEF f, g
<1>7. CASE o \in Listed
  <2>1. \A n \in Names \ {name[o]} : g[n] = f[n]
    BY <1>3, <1>4
  <2>2. name[o] \in Names /\ f[name[o]] = Status[o] /\ g[name[o]] = Status'[o]
    BY <1>4, <1>7 DEF Listed
  <2>3. g = [f EXCEPT ![name[o]] = Status'[o]]
    BY <1>5, <2>1, <2>2
  <2> QED
    BY <1>7, <2>2, <2>3 DEF f, g
<1> QED
  BY <1>6, <1>7

\* In particular when nothing of it changes.
LEMMA LifeSame ==
  ASSUME Inv, Inv', UNCHANGED <<List, name, Status>>
  PROVE  life' = life
BY Zenon DEF life, LifeOf, Listed

\* A step of the abstract specification, or none.
Lives == life' = life \/ Downloads!Next

\* One download goes from one status to another.
LEMMA OneMoves ==
  ASSUME Inv, Inv', UNCHANGED <<List, name>>, NEW o \in Objs,
         \A a \in Objs \ {o} : Status'[a] = Status[a],
         o \in Listed =>
           \/ Status'[o] = Status[o]
           \/ Status[o] \in {"STOP", "ERROR", "RETRY"} /\ Status'[o] = "WAIT"
           \/ Status[o] \in {"STOP", "ERROR", "RETRY", "WAIT"} /\ Status'[o] = "START"
           \/ Status[o] = "START" /\ Status'[o] = "FINISH"
           \/ Status[o] \in {"START", "FINISH", "RETRY", "ERROR"} /\ Status'[o] \in {"RETRY", "ERROR"}
           \/ Status[o] \in {"START", "STOP", "FINISH"} /\ Status'[o] = "RETRY"
  PROVE  Lives
<1> DEFINE n == name[o]
           x == Status'[o]
<1>1. \/ life' = life
      \/ o \in Listed /\ life[n] = Status[o] /\ life' = [life EXCEPT ![n] = x]
  BY LifeChange
<1>2. CASE o \in Listed /\ life[n] = Status[o] /\ life' = [life EXCEPT ![n] = x]
  <2>1. n \in Names /\ life \in [Names -> States \cup {"ABSENT"}]
    BY <1>2, LifeNow DEF Tells, Listed
  <2> HIDE DEF n, x
  <2>0. \A from : Status[o] \in from => Downloads!Becomes(n, from, x)
    BY <1>2, Moves
  <2>2. CASE x = Status[o]
    BY <1>2, <2>1, <2>2 DEF Lives
  <2>3. CASE Status[o] \in {"STOP", "ERROR", "RETRY"} /\ x = "WAIT"
    <3>1. Downloads!Becomes(n, {"STOP", "ERROR", "RETRY"}, x)
      BY <2>0, <2>3
    <3>2. Downloads!Queue(n)
      BY <2>3, <3>1, Zenon DEF Downloads!Queue
    <3> QED
      BY <2>1, <3>2, Zenon DEF Lives, Downloads!Next
  <2>4. CASE Status[o] \in {"STOP", "ERROR", "RETRY", "WAIT"} /\ x = "START"
    <3>1. Downloads!Becomes(n, {"STOP", "ERROR", "RETRY", "WAIT"}, x)
      BY <2>0, <2>4
    <3>2. Downloads!Begin(n)
      BY <2>4, <3>1, Zenon DEF Downloads!Begin
    <3> QED
      BY <2>1, <3>2, Zenon DEF Lives, Downloads!Next
  <2>5. CASE Status[o] = "START" /\ x = "FINISH"
    <3>1. Downloads!Becomes(n, {"START"}, x)
      BY <2>0, <2>5
    <3>2. Downloads!Finish(n)
      BY <2>5, <3>1, Zenon DEF Downloads!Finish
    <3> QED
      BY <2>1, <3>2, Zenon DEF Lives, Downloads!Next
  <2>6. CASE Status[o] \in {"START", "FINISH", "RETRY", "ERROR"} /\ x \in {"RETRY", "ERROR"}
    <3>1. Downloads!Becomes(n, {"START", "FINISH", "RETRY", "ERROR"}, x)
      BY <2>0, <2>6
    <3>2. Downloads!Fail(n)
      BY <2>6, <3>1, Zenon DEF Downloads!Fail
    <3> QED
      BY <2>1, <3>2, Zenon DEF Lives, Downloads!Next
  <2>7. CASE Status[o] \in {"START", "STOP", "FINISH"} /\ x = "RETRY"
    <3>1. Downloads!Becomes(n, {"START", "STOP", "FINISH"}, x)
      BY <2>0, <2>7
    <3>2. Downloads!Again(n)
      BY <2>7, <3>1, Zenon DEF Downloads!Again
    <3> QED
      BY <2>1, <3>2, Zenon DEF Lives, Downloads!Next
  <2> QED
    BY <1>2, <2>2, <2>3, <2>4, <2>5, <2>6, <2>7 DEF x
<1> QED
  BY <1>1, <1>2 DEF Lives

\* One status is written.
LEMMA OneSet ==
  ASSUME Inv, Inv', UNCHANGED <<List, name>>, NEW o \in Objs, NEW s,
         Status' = [Status EXCEPT ![o] = s],
         o \in Listed =>
           \/ Status[o] \in {"STOP", "ERROR", "RETRY"} /\ s = "WAIT"
           \/ Status[o] \in {"STOP", "ERROR", "RETRY", "WAIT"} /\ s = "START"
           \/ Status[o] = "START" /\ s = "FINISH"
           \/ Status[o] \in {"START", "FINISH", "RETRY", "ERROR"} /\ s \in {"RETRY", "ERROR"}
           \/ Status[o] \in {"START", "STOP", "FINISH"} /\ s = "RETRY"
  PROVE  Lives
<1>1. Status \in [Objs -> States]
  BY DEF Inv, TypeOK
<1>2. Status'[o] = s /\ \A a \in Objs \ {o} : Status'[a] = Status[a]
  BY <1>1
<1> QED
  BY <1>2, OneMoves

\* Entry, WriteData and OnExit write what Lifecycle allows: a download that waits has a
\* new object, which no worker belongs to.
LEMMA WorkerLives ==
  ASSUME Inv, Inv', NEW o \in Objs, Worker(o)
  PROVE  Lives
<1>1. UNCHANGED <<List, name>>
  BY Zenon DEF Worker, Entry, Transfer, Failed, EntryTail, OnExit
<1>2. stack[o] # <<>>
  BY Zenon DEF Worker, Entry, Transfer, Failed, EntryTail, OnExit, AtTop
<1>3. thread[o] # "new"
  BY <1>2 DEF Inv, Threaded
<1>4. o \in Listed => Status[o] # "WAIT"
  BY <1>3 DEF Inv, WaitsUnrun
<1>5. Status[o] \in States
  BY DEF Inv, TypeOK
<1>6. CASE UNCHANGED Status
  BY <1>1, <1>6, LifeSame DEF Lives
<1>7. ASSUME Status[o] # "STOP", Fails(o)
      PROVE  Lives
  <2>1. PICK s \in {"RETRY", "ERROR"} : Status' = [Status EXCEPT ![o] = s]
    BY <1>7, Zenon DEF Fails, Set
  <2>2. o \in Listed => Status[o] \in {"START", "FINISH", "RETRY", "ERROR"}
    BY <1>4, <1>5, <1>7 DEF States
  <2> QED
    BY <1>1, <2>1, <2>2, OneSet
<1>8. CASE Transfer(o)
  <2>1. \/ Status' = [Status EXCEPT ![o] = IF @ = "START" THEN "FINISH" ELSE @]
        \/ Status[o] = "START" /\ Status' = [Status EXCEPT ![o] = "FINISH"]
        \/ UNCHANGED Status
        \/ Status[o] = "START" /\ Fails(o)
    BY <1>8, Zenon DEF Transfer
  <2>2. CASE Status[o] # "START" /\ Status' = [Status EXCEPT ![o] = IF @ = "START" THEN "FINISH" ELSE @]
    <3>1. Status' = Status
      BY <2>2 DEF Inv, TypeOK
    <3> QED
      BY <1>6, <3>1
  <2>3. CASE Status[o] = "START" /\ Status' = [Status EXCEPT ![o] = "FINISH"]
    BY <1>1, <2>3, OneSet
  <2>4. CASE Status[o] = "START" /\ Status' = [Status EXCEPT ![o] = IF @ = "START" THEN "FINISH" ELSE @]
    <3>1. Status' = [Status EXCEPT ![o] = "FINISH"]
      BY <2>4
    <3> QED
      BY <2>3, <2>4, <3>1
  <2> QED
    BY <1>6, <1>7, <2>1, <2>2, <2>3, <2>4
<1>9. CASE Failed(o)
  <2>1. (Status[o] # "STOP" /\ Fails(o)) \/ UNCHANGED Status
    BY <1>9, Zenon DEF Failed
  <2> QED
    BY <1>6, <1>7, <2>1
<1>10. CASE EntryTail(o)
  <2>1. Status' = [Status EXCEPT ![o] = "RETRY"]
    BY <1>10, Zenon DEF EntryTail, Set
  <2>2. o \in Listed => Status[o] \in {"START", "FINISH", "RETRY", "ERROR", "STOP"}
    BY <1>4, <1>5 DEF States
  <2> QED
    BY <1>1, <2>1, <2>2, OneSet
<1>11. CASE Entry(o) \/ OnExit(o)
  BY <1>6, <1>11, Zenon DEF Entry, OnExit
<1> QED
  BY <1>8, <1>9, <1>10, <1>11, Zenon DEF Worker

\* Between two lists, the download of the name c comes to be x, and the others stay.
Turns(c, x, l, nm, st, l2, nm2, st2) ==
  /\ \A a \in Range(l) : nm[a] # c => a \in Range(l2) /\ nm2[a] = nm[a] /\ st2[a] = st[a]
  /\ \A a \in Range(l2) : nm2[a] # c => a \in Range(l) /\ nm2[a] = nm[a]
  /\ \E a \in Range(l2) : nm2[a] = c /\ st2[a] = x

\* A function is turned at c.
Turned(g, f, c, x) == g = [f EXCEPT ![c] = x]

\* What life says of such lists.
LEMMA LifeOther ==
  ASSUME NEW f, NEW l, NEW nm, NEW st, NEW g, NEW l2, NEW nm2, NEW st2, NEW c \in Names, NEW x,
         Tells(f, l, nm, st), Tells(g, l2, nm2, st2), Turns(c, x, l, nm, st, l2, nm2, st2)
  PROVE  Turned(g, f, c, x)
<1>1. f \in [Names -> States \cup {"ABSENT"}] /\ g \in [Names -> States \cup {"ABSENT"}]
  BY DEF Tells
<1>2. \A a \in Range(l2) : g[nm2[a]] = st2[a]
  BY DEF Tells
<1>3. g[c] = x
  BY <1>2 DEF Turns
<1>4. ASSUME NEW n \in Names \ {c}
      PROVE  g[n] = f[n]
  <2>1. CASE \E a \in Range(l) : nm[a] = n
    <3>1. PICK a \in Range(l) : nm[a] = n
      BY <2>1
    <3>2. f[n] = st[a]
      BY <3>1 DEF Tells
    <3>3. a \in Range(l2) /\ nm2[a] = n /\ st2[a] = st[a]
      BY <1>4, <3>1 DEF Turns
    <3> QED
      BY <1>2, <3>2, <3>3
  <2>2. CASE \A a \in Range(l) : nm[a] # n
    <3>1. f[n] = "ABSENT"
      BY <2>2 DEF Tells
    <3>2. \A a \in Range(l2) : nm2[a] # n
      BY <1>4, <2>2 DEF Turns
    <3>3. g[n] = "ABSENT"
      BY <3>2 DEF Tells
    <3> QED
      BY <3>1, <3>3
  <2> QED
    BY <2>1, <2>2
<1> QED
  BY <1>1, <1>3, <1>4 DEF Turned

\* The copy that is to wait, or is started, has the name and the place of its object.
LEMMA SwapLives ==
  ASSUME Inv, Inv', NEW t \in Threads, SwapAndGo(t)
  PROVE  Lives
<1> DEFINE o == Top(t).dl
           i == Top(t).i
           w == Top(t).wait
           x == IF w THEN "WAIT" ELSE "START"
<1>1. AtTop(t, "swap")
  BY Zenon DEF SwapAndGo
<1>2. PICK n \in Objs : Copied(o, i, n, w)
  BY SwapCopies
<1>3. /\ o \in Objs /\ o \in Range(List) /\ Status[o] \in {"STOP", "ERROR", "RETRY"}
      /\ i \in DOMAIN List /\ List[i] = o /\ w \in BOOLEAN
  BY <1>1, SwapFound
<1> HIDE DEF o, i, w
<1>4. /\ DOMAIN List' = DOMAIN List /\ List'[i] = n
      /\ \A j \in DOMAIN List \ {i} : List'[j] = List[j] /\ List[j] # o /\ List[j] # n
      /\ name'[n] = name[o] /\ Status'[n] = x
      /\ \A a \in Objs \ {n} : name'[a] = name[a] /\ Status'[a] = Status[a]
  BY <1>2, Zenon DEF Copied
<1>5. Tells(life, List, name, Status) /\ Tells(life', List', name', Status')
  BY LifeNow, LifeThen
<1>6. \A j \in DOMAIN List : List[j] \in Objs
  BY ListIndex DEF Inv
<1> DEFINE f == life
           g == life'
           l2 == List'
           nm2 == name'
           st2 == Status'
<1>7. \A j \in DOMAIN List \ {i} : l2[j] = List[j] /\ List[j] \in Objs \ {n}
  BY <1>4, <1>6
<1> HIDE DEF x
<1>8. Tells(f, List, name, Status) /\ Tells(g, l2, nm2, st2)
  BY <1>5
<1>9. DOMAIN l2 = DOMAIN List /\ l2[i] = n /\ nm2[n] = name[o] /\ st2[n] = x
      /\ \A a \in Objs \ {n} : nm2[a] = name[a] /\ st2[a] = Status[a]
  BY <1>4
<1> HIDE DEF f, g, l2, nm2, st2
<1>10. name[o] \in Names /\ f[name[o]] = Status[o]
  BY <1>3, <1>8 DEF Tells
<1>11. \A a \in Range(List) : name[a] # name[o]
         => a \in Range(l2) /\ nm2[a] = name[a] /\ st2[a] = Status[a]
  <2>1. ASSUME NEW j \in DOMAIN List, name[List[j]] # name[o]
        PROVE  List[j] \in Range(l2) /\ nm2[List[j]] = name[List[j]] /\ st2[List[j]] = Status[List[j]]
    <3>1. j \in DOMAIN List \ {i}
      BY <1>3, <2>1
    <3>2. l2[j] = List[j] /\ j \in DOMAIN l2
      BY <1>7, <1>9, <3>1
    <3> QED
      BY <1>7, <1>9, <3>1, <3>2 DEF Range
  <2> QED
    BY <2>1 DEF Range
<1>12. \A a \in Range(l2) : nm2[a] # name[o] => a \in Range(List) /\ nm2[a] = name[a]
  <2>1. ASSUME NEW j \in DOMAIN l2, nm2[l2[j]] # name[o]
        PROVE  l2[j] \in Range(List) /\ nm2[l2[j]] = name[l2[j]]
    <3>1. j \in DOMAIN List \ {i}
      BY <1>9, <2>1
    <3> QED
      BY <1>7, <1>9, <3>1 DEF Range
  <2> QED
    BY <2>1 DEF Range
<1>13. \E a \in Range(l2) : nm2[a] = name[o] /\ st2[a] = x
  BY <1>3, <1>9 DEF Range
<1>14. g = [f EXCEPT ![name[o]] = x]
  <2>1. Turns(name[o], x, List, name, Status, l2, nm2, st2)
    BY <1>11, <1>12, <1>13, Zenon DEF Turns
  <2>2. Turned(g, f, name[o], x)
    BY <1>8, <1>10, <2>1, LifeOther, Zenon
  <2> QED
    BY <2>2 DEF Turned
<1>15. life[name[o]] = Status[o] /\ life' = [life EXCEPT ![name[o]] = x]
  BY <1>10, <1>14 DEF f, g
<1>16. \A from : Status[o] \in from => Downloads!Becomes(name[o], from, x)
  BY <1>15, Moves
<1>17. CASE w
  <2>1. Downloads!Becomes(name[o], {"STOP", "ERROR", "RETRY"}, x) /\ x = "WAIT"
    BY <1>3, <1>16, <1>17 DEF x
  <2>2. Downloads!Queue(name[o])
    BY <2>1, Zenon DEF Downloads!Queue
  <2> QED
    BY <1>10, <2>2, Zenon DEF Lives, Downloads!Next
<1>18. CASE ~w
  <2>1. Downloads!Becomes(name[o], {"STOP", "ERROR", "RETRY", "WAIT"}, x) /\ x = "START"
    BY <1>3, <1>16, <1>18 DEF x
  <2>2. Downloads!Begin(name[o])
    BY <2>1, Zenon DEF Downloads!Begin
  <2> QED
    BY <1>10, <2>2, Zenon DEF Lives, Downloads!Next
<1> QED
  BY <1>17, <1>18

\* What the manager does on any thread, for each download.
LEMMA ManagerLives ==
  ASSUME Inv, Inv', NEW t \in Threads, Manager(t)
  PROVE  Lives
<1>1. CASE UNCHANGED <<List, name, Status>>
  BY <1>1, LifeSame DEF Lives
<1>2. CASE SwapAndGo(t)
  BY <1>2, SwapLives
<1>3. CASE EnterScreen(t) \/ RetryLoop(t) \/ StartDownload(t)
  BY <1>1, <1>3, Zenon DEF EnterScreen, RetryLoop, StartDownload
<1>4. CASE AfterRun(t)
  <2>1. /\ AtTop(t, "ran") /\ UNCHANGED <<List, name>>
        /\ IF Top(t).failed THEN Fails(Top(t).dl) ELSE UNCHANGED <<Status, due>>
    BY <1>4, Zenon DEF AfterRun
  <2>2. ~Top(t).failed
    BY <2>1, TopFrame DEF Inv, Agrees
  <2> QED
    BY <1>1, <2>1, <2>2
<1>5. \A j \in DOMAIN List : List[j] \in Objs
  BY ListIndex DEF Inv
<1>6. CASE BootLoop(t)
  <2>1. AtTop(t, "boot") /\ UNCHANGED <<List, name>>
    BY <1>6, Zenon DEF BootLoop
  <2> DEFINE i == Top(t).i
  <2>2. \/ UNCHANGED Status
        \/ i > 0 /\ Status[List[i]] # "FINISH" /\ Status' = [Status EXCEPT ![List[i]] = "WAIT"]
        \/ i > 0 /\ Status[List[i]] # "FINISH" /\ Status' = [Status EXCEPT ![List[i]] = "START"]
    BY <1>6, Zenon DEF BootLoop
  <2>3. i > 0 => i \in DOMAIN List /\ Status[List[i]] \in {"STOP", "FINISH"}
    <3>1. Top(t) \in Frames /\ Top(t).at = "boot" /\ Agrees(Top(t), List, Status, thread, bAlreadyRun)
      BY <2>1, TopFrame DEF Inv
    <3>2. i \in Nat /\ i <= Len(List) /\ \A j \in 1 .. i : Status[List[j]] \in {"STOP", "FINISH"}
      BY <3>1, FrameFields DEF Agrees, Untouched
    <3>3. DOMAIN List = 1 .. Len(List) /\ Len(List) \in Nat
      BY ListIndex DEF Inv
    <3> QED
      BY <3>2, <3>3
  <2> HIDE DEF i
  <2>4. i > 0 => List[i] \in Objs
    BY <1>5, <2>3
  <2> QED
    BY <1>1, <2>1, <2>2, <2>3, <2>4, OneSet
<1>7. CASE WaitLoop(t)
  <2>1. UNCHANGED <<List, name>>
    BY <1>7, Zenon DEF WaitLoop
  <2>2. \/ UNCHANGED Status
        \/ \E j \in DOMAIN List : Status[List[j]] = "WAIT" /\ Status' = [Status EXCEPT ![List[j]] = "START"]
    BY <1>7, Zenon DEF WaitLoop
  <2>3. ASSUME NEW j \in DOMAIN List, Status[List[j]] = "WAIT", Status' = [Status EXCEPT ![List[j]] = "START"]
        PROVE  Lives
    <3> DEFINE o == List[j]
    <3>1. o \in Objs /\ Status[o] = "WAIT" /\ Status' = [Status EXCEPT ![o] = "START"]
      BY <1>5, <2>3
    <3> HIDE DEF o
    <3> QED
      BY <2>1, <3>1, OneSet
  <2> QED
    BY <1>1, <2>1, <2>2, <2>3
<1>8. CASE RunThread(t)
  <2>1. AtTop(t, "run") /\ UNCHANGED <<List, name>>
    BY <1>8, Zenon DEF RunThread
  <2> DEFINE o == Top(t).dl
  <2>2. UNCHANGED Status \/ Status' = [Status EXCEPT ![o] = "ERROR"]
    BY <1>8, Zenon DEF RunThread
  <2>3. o \in Objs /\ Status[o] = "START"
    BY <2>1, TopFrame, FrameFields DEF Inv, Agrees
  <2> HIDE DEF o
  <2> QED
    BY <1>1, <2>1, <2>2, <2>3, OneSet
<1> QED
  BY <1>2, <1>3, <1>4, <1>6, <1>7, <1>8, Zenon DEF Manager

\* A new download appears under a name that was absent.
LEMMA AddLives ==
  ASSUME Inv, Inv', NEW nm \in Names, AddDownload(nm)
  PROVE  Lives
<1>1. PICK n \in Unused :
        /\ List' = Append(List, n)
        /\ name' = [name EXCEPT ![n] = nm]
        /\ Status' = [Status EXCEPT ![n] = "STOP"]
  BY Zenon DEF AddDownload
<1>2. \A o \in Listed : name[o] # nm
  BY Zenon DEF AddDownload
<1>3. n \in Objs /\ n \notin Listed
  BY Zenon DEF Unused
<1>4. /\ Len(List) \in Nat /\ DOMAIN List = 1 .. Len(List) /\ List \in Seq(Objs)
      /\ \A j \in DOMAIN List : List[j] \in Objs /\ List[j] \in Listed
  BY ListIndex DEF Inv, TypeOK, Listed
<1>5. /\ DOMAIN List' = 1 .. Len(List) + 1 /\ List'[Len(List) + 1] = n
      /\ \A j \in DOMAIN List : List'[j] = List[j]
  BY <1>1, <1>3, <1>4, AppendProperties, LenProperties
<1>6. /\ name'[n] = nm /\ Status'[n] = "STOP"
      /\ \A a \in Objs \ {n} : name'[a] = name[a] /\ Status'[a] = Status[a]
  BY <1>1, <1>3 DEF Inv, TypeOK
<1>7. Tells(life, List, name, Status) /\ Tells(life', List', name', Status')
  BY LifeNow, LifeThen
<1> DEFINE f == life
           g == life'
           l2 == List'
           nm2 == name'
           st2 == Status'
<1>8. /\ Tells(f, List, name, Status) /\ Tells(g, l2, nm2, st2)
      /\ DOMAIN l2 = 1 .. Len(List) + 1 /\ l2[Len(List) + 1] = n
      /\ \A j \in DOMAIN List : l2[j] = List[j] /\ List[j] \in Objs \ {n}
      /\ nm2[n] = nm /\ st2[n] = "STOP"
      /\ \A a \in Objs \ {n} : nm2[a] = name[a] /\ st2[a] = Status[a]
  BY <1>3, <1>4, <1>5, <1>6, <1>7
<1> HIDE DEF f, g, l2, nm2, st2
<1>9. \A a \in Range(List) : a \in Range(l2) /\ nm2[a] = name[a] /\ st2[a] = Status[a]
  <2>1. ASSUME NEW j \in DOMAIN List
        PROVE  List[j] \in Range(l2) /\ nm2[List[j]] = name[List[j]] /\ st2[List[j]] = Status[List[j]]
    <3>1. j \in DOMAIN l2 /\ l2[j] = List[j]
      BY <1>4, <1>8
    <3> QED
      BY <1>8, <3>1 DEF Range
  <2> QED
    BY <2>1 DEF Range
<1>10. \A a \in Range(l2) : nm2[a] # nm => a \in Range(List) /\ nm2[a] = name[a]
  <2>1. ASSUME NEW j \in DOMAIN l2, nm2[l2[j]] # nm
        PROVE  l2[j] \in Range(List) /\ nm2[l2[j]] = name[l2[j]]
    <3>1. j \in DOMAIN List
      BY <1>4, <1>8, <2>1
    <3> QED
      BY <1>8, <3>1 DEF Range
  <2> QED
    BY <2>1 DEF Range
<1>11. \E a \in Range(l2) : nm2[a] = nm /\ st2[a] = "STOP"
  BY <1>4, <1>8 DEF Range
<1>12. Turns(nm, "STOP", List, name, Status, l2, nm2, st2)
  BY <1>9, <1>10, <1>11, Zenon DEF Turns
<1>13. Turned(g, f, nm, "STOP")
  BY <1>8, <1>12, LifeOther, Zenon
<1>14. f[nm] = "ABSENT"
  BY <1>2, <1>8 DEF Tells, Listed
<1>15. life[nm] \in {"ABSENT"} /\ life' = [life EXCEPT ![nm] = "STOP"]
  BY <1>13, <1>14 DEF Turned, f, g
<1>16. Downloads!Becomes(nm, {"ABSENT"}, "STOP")
  BY <1>15, Zenon DEF Downloads!Becomes, life
<1>17. Downloads!Add(nm)
  BY <1>16, Zenon DEF Downloads!Add
<1> QED
  BY <1>17, Zenon DEF Lives, Downloads!Next

\* No two listed objects have the same name.
LEMMA OneName ==
  ASSUME Inv, NEW a \in Listed, NEW b \in Listed, name[a] = name[b]
  PROVE  a = b
<1>1. PICK i \in DOMAIN List, j \in DOMAIN List : List[i] = a /\ List[j] = b
  BY DEF Listed, Range
<1>2. i = j
  BY <1>1 DEF Inv, NoDuplicate
<1> QED
  BY <1>1, <1>2

\* The selected downloads that are not finished are stopped.
LEMMA StopLives ==
  ASSUME Inv, Inv', NEW S \in SUBSET Listed, StopButton(S)
  PROVE  Lives
<1>1. /\ UNCHANGED <<List, name>>
      /\ Status' = [o \in Objs |-> IF o \in S /\ Status[o] # "FINISH" THEN "STOP" ELSE Status[o]]
  BY Zenon DEF StopButton
<1>2. Tells(life, List, name, Status) /\ Tells(life', List', name', Status')
  BY LifeNow, LifeThen
<1> DEFINE f == life
           g == life'
           N == {name[o] : o \in {s \in S : Status[s] # "FINISH"}}
<1>3. Tells(f, List, name, Status) /\ Tells(g, List, name, Status')
  BY <1>1, <1>2
<1> HIDE DEF f, g
<1>4. \A a \in Range(List) : a \in Objs /\ name[a] \in Names /\ f[name[a]] = Status[a]
  BY <1>3 DEF Tells
<1>5. \A a \in Range(List) : g[name[a]] = Status'[a]
  BY <1>3 DEF Tells
<1>6. f \in [Names -> States \cup {"ABSENT"}] /\ g \in [Names -> States \cup {"ABSENT"}]
  BY <1>3 DEF Tells
<1>7. N \in SUBSET Names
  BY <1>4 DEF Listed
<1>8. \A a \in Range(List) : name[a] \in N <=> a \in S /\ Status[a] # "FINISH"
  BY OneName DEF Listed
<1>9. \A n \in N : f[n] \notin {"ABSENT", "FINISH"}
  <2>1. \A s \in S : Status[s] \in States
    BY <1>4 DEF Listed, Inv, TypeOK
  <2>2. \A s \in S : f[name[s]] = Status[s]
    BY <1>4 DEF Listed
  <2> QED
    BY <2>1, <2>2 DEF States
<1>10. ASSUME NEW n \in Names
       PROVE  g[n] = IF n \in N THEN "STOP" ELSE f[n]
  <2>1. CASE \E a \in Range(List) : name[a] = n
    <3>1. PICK a \in Range(List) : name[a] = n
      BY <2>1
    <3>2. g[n] = IF a \in S /\ Status[a] # "FINISH" THEN "STOP" ELSE f[n]
      BY <1>1, <1>4, <1>5, <3>1
    <3> QED
      BY <1>8, <3>1, <3>2
  <2>2. CASE \A a \in Range(List) : name[a] # n
    <3>1. f[n] = "ABSENT" /\ g[n] = "ABSENT"
      BY <1>3, <2>2 DEF Tells
    <3>2. n \notin N
      BY <2>2 DEF Listed
    <3> QED
      BY <3>1, <3>2
  <2> QED
    BY <2>1, <2>2
<1> HIDE DEF N
<1>11. g = [n \in Names |-> IF n \in N THEN "STOP" ELSE f[n]]
  BY <1>6, <1>10
<1>12. Downloads!Stop(N)
  BY <1>9, <1>11 DEF Downloads!Stop, f, g, life
<1> QED
  BY <1>7, <1>12, Zenon DEF Lives, Downloads!Next

\* The selected downloads are gone.
LEMMA DeleteLives ==
  ASSUME Inv, Inv', NEW S \in SUBSET Listed, DeleteButton(S)
  PROVE  Lives
<1>1. /\ UNCHANGED name /\ List' = Without(List, S)
      /\ Status' = [o \in Objs |-> IF o \in S THEN "STOP" ELSE Status[o]]
  BY Zenon DEF DeleteButton
<1>2. Tells(life, List, name, Status) /\ Tells(life', List', name', Status')
  BY LifeNow, LifeThen
<1>3. List' \in Seq(Objs) /\ Selects(List', List, Len(List), S)
  <2>1. List \in Seq(Objs)
    BY DEF Inv, TypeOK
  <2> QED
    BY <1>1, <2>1, WithoutSelects
<1>4. /\ DOMAIN List = 1 .. Len(List) /\ Len(List) \in Nat
      /\ DOMAIN List' = 1 .. Len(List') /\ Len(List') \in Nat
  BY <1>3, ListIndex, LenProperties DEF Inv
<1>5. /\ \A i \in 1 .. Len(List) : List[i] \notin S => \E k \in 1 .. Len(List') : List'[k] = List[i]
      /\ \A k \in 1 .. Len(List') : List'[k] \notin S /\ \E i \in 1 .. Len(List) : List'[k] = List[i]
  <2>1. PICK e \in [1 .. Len(List') -> 1 .. Len(List)] :
          \A k \in 1 .. Len(List') : List'[k] = List[e[k]] /\ List'[k] \notin S
    BY <1>3, Zenon DEF Selects
  <2>2. \A i \in 1 .. Len(List) : List[i] \notin S => \E k \in 1 .. Len(List') : List'[k] = List[i]
    BY <1>3, Zenon DEF Selects
  <2> QED
    BY <2>1, <2>2
<1>6. \A a : a \in Range(List') <=> a \in Range(List) /\ a \notin S
  BY <1>4, <1>5, ZenonT(40) DEF Range
<1> DEFINE f == life
           g == life'
           l2 == List'
           N == {name[o] : o \in S}
<1>7. Tells(f, List, name, Status) /\ Tells(g, l2, name, Status')
  BY <1>1, <1>2
<1>8. \A a : a \in Range(l2) <=> a \in Range(List) /\ a \notin S
  BY <1>6
<1> HIDE DEF f, g, l2
<1>9. \A a \in Range(List) : a \in Objs /\ name[a] \in Names /\ f[name[a]] = Status[a]
  BY <1>7 DEF Tells
<1>10. \A a \in Range(l2) : g[name[a]] = Status'[a]
  BY <1>7 DEF Tells
<1>11. f \in [Names -> States \cup {"ABSENT"}] /\ g \in [Names -> States \cup {"ABSENT"}]
  BY <1>7 DEF Tells
<1>12. N \in SUBSET Names
  BY <1>9 DEF Listed
<1>13. \A a \in Range(List) : name[a] \in N <=> a \in S
  BY OneName DEF Listed
<1>14. ASSUME NEW n \in Names
       PROVE  g[n] = IF n \in N THEN "ABSENT" ELSE f[n]
  <2>1. CASE \E a \in Range(l2) : name[a] = n
    <3>1. PICK a \in Range(l2) : name[a] = n
      BY <2>1
    <3>2. a \in Range(List) /\ a \notin S
      BY <1>8, <3>1
    <3>3. g[n] = Status[a] /\ f[n] = Status[a]
      BY <1>1, <1>9, <1>10, <3>1, <3>2
    <3>4. n \notin N
      BY <1>13, <3>1, <3>2
    <3> QED
      BY <3>3, <3>4
  <2>2. CASE \A a \in Range(l2) : name[a] # n
    <3>1. g[n] = "ABSENT"
      BY <1>7, <2>2 DEF Tells
    <3>2. ASSUME n \notin N
          PROVE  f[n] = "ABSENT"
      <4>1. \A a \in Range(List) : name[a] # n
        BY <1>8, <2>2, <3>2
      <4> QED
        BY <1>7, <4>1 DEF Tells
    <3> QED
      BY <3>1, <3>2
  <2> QED
    BY <2>1, <2>2
<1> HIDE DEF N
<1>15. g = [n \in Names |-> IF n \in N THEN "ABSENT" ELSE f[n]]
  BY <1>11, <1>14
<1>16. Downloads!Remove(N)
  BY <1>15 DEF Downloads!Remove, f, g, life
<1> QED
  BY <1>12, <1>16, Zenon DEF Lives, Downloads!Next

\* Every step of the manager is one of Lifecycle, or changes nothing that it sees.
LEMMA StepLives ==
  ASSUME Inv, Inv', [Next]_vars
  PROVE  Lives
<1>1. CASE UNCHANGED <<List, name, Status>>
  BY <1>1, LifeSame DEF Lives
<1>2. CASE User
  <2>1. ASSUME NEW o \in Objs, StartButton(o)
        PROVE  Lives
    BY <1>1, <2>1, Zenon DEF StartButton
  <2> QED
    BY <1>2, <2>1, AddLives, StopLives, DeleteLives, Zenon DEF User
<1>3. CASE Timer
  BY <1>1, <1>3, Zenon DEF Timer
<1>4. ASSUME NEW o \in Objs, Elapse(o) \/ Worker(o)
      PROVE  Lives
  <2>1. CASE Elapse(o)
    BY <1>1, <2>1, Zenon DEF Elapse
  <2> QED
    BY <1>4, <2>1, WorkerLives
<1>5. CASE UNCHANGED vars
  BY <1>1, <1>5 DEF vars
<1> QED
  BY <1>2, <1>3, <1>4, <1>5, ManagerLives, Zenon DEF Next

\* DLManager implements Lifecycle: each download, by its name, only ever goes through the
\* statuses and the events that Lifecycle allows.
THEOREM LifecycleKept == ~Overlap => (Spec => KeepsLifecycle)
<1> SUFFICES ASSUME ~Overlap
             PROVE  Spec => KeepsLifecycle
  OBVIOUS
<1>1. ASSUME Init
      PROVE  Downloads!Init
  <2>1. Inv /\ Tells(life, List, name, Status)
    BY <1>1, InitInv, LifeNow
  <2>2. Status \in [Objs -> {"STOP", "FINISH"}]
    BY <1>1, Zenon DEF Init
  <2>3. ASSUME NEW n \in Names
        PROVE  life[n] \in {"ABSENT", "STOP", "FINISH"}
    <3>1. CASE \E o \in Range(List) : name[o] = n
      BY <2>1, <2>2, <3>1 DEF Tells
    <3>2. CASE \A o \in Range(List) : name[o] # n
      BY <2>1, <3>2 DEF Tells
    <3> QED
      BY <3>1, <3>2
  <2>4. life = [n \in Names |-> life[n]]
    BY DEF life
  <2>5. life \in [Names -> {"ABSENT", "STOP", "FINISH"}]
    BY <2>3, <2>4
  <2> QED
    BY <2>5 DEF Downloads!Init, life
<1>2. ASSUME Inv, Inv', [Next]_vars
      PROVE  [Downloads!Next]_([n \in Names |-> LifeOf(n)])
  <2>1. Lives
    BY <1>2, StepLives
  <2> QED
    BY <2>1, Zenon DEF Lives, life
<1>3. Init => Downloads!Init
  BY <1>1
<1>4. Inv /\ Inv' /\ [Next]_vars => [Downloads!Next]_([n \in Names |-> LifeOf(n)])
  BY <1>2
<1>5. Spec => []Inv
  BY CallsAgree
<1> QED
  BY <1>3, <1>4, <1>5, PTL DEF Spec, KeepsLifecycle, Downloads!Spec
=============================================================================
