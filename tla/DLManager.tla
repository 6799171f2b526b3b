------------------------------ MODULE DLManager ------------------------------
(***************************************************************************)
(* The scheduler of the download manager and the threads that call it.     *)
(*                                                                         *)
(* DLManager has no thread and no lock of its own: UpdateScreen and the    *)
(* StartDownload methods run on the stack of the GUI thread (buttons,      *)
(* timer) and of every worker (Entry, WriteData and OnExit call            *)
(* UpdateScreen(true)), and they call each other recursively, because      *)
(* FileDownloader::StartDownload refreshes the screen before it runs its   *)
(* thread.  The model keeps one call stack per thread; a step is taken by  *)
(* the frame on top.                                                       *)
(*                                                                         *)
(* A transfer is reduced to how it ends (its data: see FileDownloader);    *)
(* the display, which reads and decides nothing, is left out.              *)
(***************************************************************************)
EXTENDS Integers, Sequences, FiniteSets, Functions

CONSTANTS Objs,      \* identities of FileDownloader objects, and their threads
          Gui,       \* the GUI thread
          Names,     \* file names of downloads
          MaxDL,     \* DLManager::MaxDL
          MaxRetry,  \* DLManager::MaxRetry
          OpenFails, \* may fopen or Create fail?
          Overlap    \* may two threads be inside the manager at once?

ASSUME ConstantsAssumption ==
  /\ Gui \notin Objs
  /\ MaxDL \in Nat
  /\ MaxRetry \in Nat
  /\ OpenFails \in BOOLEAN
  /\ Overlap \in BOOLEAN

VARIABLES
  List,         \* DLManager::List
  name,         \* pFileName of every object
  Status, RetryCount, bAlreadyRun,
  due,          \* GetTickCount() - ErrorTime >= RetryTime, where a listed object is RETRY
  thread,       \* state of the wxThread: "new", "running" or "done"
  stack         \* the frames of every thread, top first

vars == <<List, name, Status, RetryCount, bAlreadyRun, due, thread, stack>>

Threads == Objs \cup {Gui}
States == {"STOP", "START", "WAIT", "FINISH", "ERROR", "RETRY"}

(***************************************************************************)
(* Frames.  UpdateScreen is "enter" while it is only called, then "retry"  *)
(* (first loop, next index i), then "wait" (third loop, next index i,      *)
(* DLCount n).  DLManager::StartDownload(dl, ..) is "start", then "swap"   *)
(* once it found dl at index i and decided between starting and waiting.   *)
(* FileDownloader::StartDownload is "run" before Run() and "ran" after it. *)
(* The loop of the constructor over the loaded list is "boot".             *)
(***************************************************************************)
Enter          == [at |-> "enter"]
Retry(i)       == [at |-> "retry", i |-> i]
Wait(i, n)     == [at |-> "wait", i |-> i, n |-> n]
Start(o, r, f) == [at |-> "start", dl |-> o, reset |-> r, force |-> f]
Swap(o, i, w)  == [at |-> "swap", dl |-> o, i |-> i, wait |-> w]
Run(o)         == [at |-> "run", dl |-> o]
Ran(o, e)      == [at |-> "ran", dl |-> o, failed |-> e]
Boot(i, n)     == [at |-> "boot", i |-> i, n |-> n]
Work(label)    == [at |-> label]

WorkLabels == {"entry", "data", "failed", "tail", "exit"}

Frames ==
  {Enter} \cup {Work(l) : l \in WorkLabels}
  \cup [at : {"retry"}, i : Nat] \cup [at : {"wait", "boot"}, i : Nat, n : Nat]
  \cup [at : {"start"}, dl : Objs, reset : BOOLEAN, force : BOOLEAN]
  \cup [at : {"swap"}, dl : Objs, i : Nat, wait : BOOLEAN]
  \cup [at : {"run"}, dl : Objs] \cup [at : {"ran"}, dl : Objs, failed : BOOLEAN]

TypeOK ==
  /\ List \in Seq(Objs)
  /\ name \in [Objs -> Names]
  /\ Status \in [Objs -> States]
  /\ RetryCount \in [Objs -> 0 .. MaxRetry]
  /\ bAlreadyRun \in [Objs -> BOOLEAN]
  /\ due \in [Objs -> BOOLEAN]
  /\ thread \in [Objs -> {"new", "running", "done"}]
  /\ stack \in [Threads -> Seq(Frames)]

MaxDepth == 12   \* bound: no stack of a checked instance is deeper

Top(t) == stack[t][1]
AtTop(t, label) == stack[t] # <<>> /\ Top(t).at = label
Inside(t) == stack[t] # <<>> /\ Top(t).at \notin WorkLabels \cup {"enter"}

\* A call into the manager begins: at any time in the program, and in a run
\* without overlap only when no other call is in progress.
MayEnter == Overlap \/ \A t \in Threads : ~Inside(t)

\* The top frame of t is replaced by the frames fs.
Replace(t, fs) == stack' = [stack EXCEPT ![t] = fs \o Tail(@)]

Listed == Range(List)
Refs(t) == {stack[t][k].dl : k \in {j \in DOMAIN stack[t] :
                                      stack[t][j].at \in {"start", "swap", "run", "ran"}}}

\* An identity for a new object: memory that nothing uses any more.
Unused == {o \in Objs : /\ o \notin Listed
                        /\ stack[o] = <<>>
                        /\ \A t \in Threads : o \notin Refs(t)}

\* The starts under way that may still make a copy.
Pending == {tk \in Threads \X (1 .. MaxDepth) :
              /\ tk[2] \in DOMAIN stack[tk[1]]
              /\ stack[tk[1]][tk[2]].at \in {"start", "swap"}}

\* Bound: a start or a retry begins only while an identity is left for its copy,
\* beside those of the starts under way and of the retries that are due.
Room ==
  Cardinality(Unused) > Cardinality({o \in Listed : due[o]}) + Cardinality(Pending)

\* Status becomes RETRY or ERROR; ErrorTime is written after it, and a new object
\* has none yet, so the delay may seem to have passed already.
Set(o, status) ==
  /\ Status' = [Status EXCEPT ![o] = status]
  /\ \E d \in {FALSE, (status = "RETRY" /\ o \in Listed /\ Room)} :
       due' = [due EXCEPT ![o] = d]

Fails(o) == Set(o, IF RetryCount[o] < MaxRetry THEN "RETRY" ELSE "ERROR")

\* LoadDownloads, which every start begins with: the list that was saved, each
\* download stopped or finished; then the constructor's loop, if downloads are
\* to be started with the program, and its UpdateScreen.
Init ==
  /\ List \in {l \in UNION {[1 .. n -> Objs] : n \in 0 .. Cardinality(Names)} :
                 IsInjective(l)}
  /\ name \in [Objs -> Names]
  /\ \A i, j \in DOMAIN List : name[List[i]] = name[List[j]] => i = j
  /\ Status \in [Objs -> {"STOP", "FINISH"}]
  /\ \A o \in Objs \ Range(List) : Status[o] = "STOP"
  /\ RetryCount = [o \in Objs |-> 0]
  /\ bAlreadyRun = [o \in Objs |-> FALSE]
  /\ due = [o \in Objs |-> FALSE]
  /\ thread = [o \in Objs |-> "new"]
  /\ \E f \in {<<Boot(Len(List), 0), Enter>>, <<Enter>>} :
       stack = [t \in Threads |-> IF t = Gui THEN f ELSE <<>>]
-----------------------------------------------------------------------------
(***************************************************************************)
(* The user and the timer, on the GUI thread.  The buttons act on the      *)
(* selected rows and refresh the screen at the end.                        *)
(***************************************************************************)
Call(fs) == stack' = [stack EXCEPT ![Gui] = fs]

GuiIdle == stack[Gui] = <<>> /\ MayEnter

\* Wrong on purpose (each operator "...Wrong" is a plausible bug that a property
\* of this module must detect): a name that is listed already is accepted.
AddDownloadWrong(nm) ==
  /\ GuiIdle
  /\ Room
  /\ \E n \in Unused :
       /\ List' = Append(List, n)
       /\ name' = [name EXCEPT ![n] = nm]
       /\ Status' = [Status EXCEPT ![n] = "STOP"]
       /\ RetryCount' = [RetryCount EXCEPT ![n] = 0]
       /\ bAlreadyRun' = [bAlreadyRun EXCEPT ![n] = FALSE]
       /\ due' = [due EXCEPT ![n] = FALSE]
       /\ thread' = [thread EXCEPT ![n] = "new"]
  /\ Call(<<Enter>>)

AddDownload(nm) ==
  /\ GuiIdle
  /\ \A o \in Listed : name[o] # nm
  /\ Room
  /\ \E n \in Unused :
       /\ List' = Append(List, n)
       /\ name' = [name EXCEPT ![n] = nm]
       /\ Status' = [Status EXCEPT ![n] = "STOP"]
       /\ RetryCount' = [RetryCount EXCEPT ![n] = 0]
       /\ bAlreadyRun' = [bAlreadyRun EXCEPT ![n] = FALSE]
       /\ due' = [due EXCEPT ![n] = FALSE]
       /\ thread' = [thread EXCEPT ![n] = "new"]
  /\ Call(<<Enter>>)

\* Wrong: a finished download may be started.
StartButtonWrong(o) ==
  /\ GuiIdle
  /\ o \in Listed
  /\ bAlreadyRun[o] => Room
  /\ Call(IF Status[o] \in {"START", "WAIT", "RETRY"} THEN <<Enter>>
          ELSE <<Start(o, TRUE, FALSE), Enter>>)
  /\ UNCHANGED <<List, name, Status, RetryCount, bAlreadyRun, due, thread>>

StartButton(o) ==
  /\ GuiIdle
  /\ o \in Listed
  /\ bAlreadyRun[o] => Room
  /\ Call(IF Status[o] \in {"START", "WAIT", "RETRY", "FINISH"} THEN <<Enter>>
          ELSE <<Start(o, TRUE, FALSE), Enter>>)
  /\ UNCHANGED <<List, name, Status, RetryCount, bAlreadyRun, due, thread>>

StopButton(S) ==
  /\ GuiIdle
  /\ S # {}
  /\ Status' = [o \in Objs |-> IF o \in S /\ Status[o] # "FINISH" THEN "STOP"
                               ELSE Status[o]]
  /\ due' = [o \in Objs |-> due[o] /\ Status'[o] = "RETRY"]
  /\ Call(<<Enter>>)
  /\ UNCHANGED <<List, name, RetryCount, bAlreadyRun, thread>>

\* DeleteDownload removes objects one by one; the others keep their order.
Without(l, S) ==
  LET kept[n \in 0 .. Len(l)] ==
        IF n = 0 THEN <<>>
        ELSE IF l[n] \in S THEN kept[n - 1] ELSE Append(kept[n - 1], l[n])
  IN kept[Len(l)]

\* The objects are told to stop, unlisted and deleted; a worker of one that
\* runs is not waited for and goes on with the deleted object.
DeleteButton(S) ==
  /\ GuiIdle
  /\ S # {}
  /\ Status' = [o \in Objs |-> IF o \in S THEN "STOP" ELSE Status[o]]
  /\ due' = [o \in Objs |-> due[o] /\ o \notin S]
  /\ List' = Without(List, S)
  /\ Call(<<Enter>>)
  /\ UNCHANGED <<name, RetryCount, bAlreadyRun, thread>>

Timer ==
  /\ GuiIdle
  /\ Call(<<Enter>>)
  /\ UNCHANGED <<List, name, Status, RetryCount, bAlreadyRun, due, thread>>

\* RetryTime seconds have passed since ErrorTime.
Elapse(o) ==
  /\ o \in Listed /\ Status[o] = "RETRY" /\ ~due[o] /\ Room
  /\ due' = [due EXCEPT ![o] = TRUE]
  /\ UNCHANGED <<List, name, Status, RetryCount, bAlreadyRun, thread, stack>>
-----------------------------------------------------------------------------
(***************************************************************************)
(* DLManager and FileDownloader::StartDownload, on any thread.             *)
(***************************************************************************)
\* The constructor's loop, from the end of the list.
BootLoop(t) ==
  /\ AtTop(t, "boot")
  /\ LET i == Top(t).i
         n == Top(t).n
     IN \/ /\ i = 0
           /\ Replace(t, <<>>)
           /\ UNCHANGED Status
        \/ /\ i > 0 /\ Status[List[i]] = "FINISH"
           /\ Replace(t, <<Boot(i - 1, n)>>)
           /\ UNCHANGED Status
        \/ /\ i > 0 /\ Status[List[i]] # "FINISH" /\ n >= MaxDL
           /\ Status' = [Status EXCEPT ![List[i]] = "WAIT"]
           /\ Replace(t, <<Boot(i - 1, n)>>)
        \/ /\ i > 0 /\ Status[List[i]] # "FINISH" /\ n < MaxDL
           /\ Status' = [Status EXCEPT ![List[i]] = "START"]
           /\ Replace(t, IF Status[List[i]] = "START" THEN <<Boot(i - 1, n + 1)>>
                         ELSE <<Retry(1), Run(List[i]), Boot(i - 1, n + 1)>>)
  /\ due' = [o \in Objs |-> due[o] /\ Status'[o] = "RETRY"]
  /\ UNCHANGED <<List, name, RetryCount, bAlreadyRun, thread>>

EnterScreen(t) ==
  /\ AtTop(t, "enter")
  /\ MayEnter
  /\ Replace(t, <<Retry(1)>>)
  /\ UNCHANGED <<List, name, Status, RetryCount, bAlreadyRun, due, thread>>

\* Wrong: the third loop begins at List.Count() - 1 of a list counted from 1.
RetryLoopWrong(t) ==
  /\ AtTop(t, "retry")
  /\ LET due1 == {j \in Top(t).i .. Len(List) : Status[List[j]] = "RETRY" /\ due[List[j]]}
     IN \/ \E j \in due1 : Replace(t, <<Start(List[j], FALSE, TRUE), Retry(j + 1)>>)
        \/ due1 = {} /\ Replace(t, <<Wait(Len(List) - 1, 0)>>)
  /\ UNCHANGED <<List, name, Status, RetryCount, bAlreadyRun, due, thread>>

\* The first loop: the next download whose retry is due is started by force.
\* After the last one, the downloads that are active are counted.
RetryLoop(t) ==
  /\ AtTop(t, "retry")
  /\ LET hits == {j \in Top(t).i .. Len(List) : Status[List[j]] = "RETRY" /\ due[List[j]]}
         active == {j \in DOMAIN List : Status[List[j]] \in {"START", "RETRY"}}
         n == Cardinality(active)
     IN \/ \E j \in hits :
             /\ \A k \in hits : j <= k
             /\ RetryCount' = [RetryCount EXCEPT ![List[j]] =
                                 IF @ < MaxRetry THEN @ + 1 ELSE MaxRetry]
             /\ Replace(t, <<Start(List[j], FALSE, TRUE), Retry(j + 1)>>)
        \/ /\ hits = {}
           /\ Replace(t, IF n < MaxDL THEN <<Wait(Len(List), n)>> ELSE <<>>)
           /\ UNCHANGED RetryCount
  /\ UNCHANGED <<List, name, Status, bAlreadyRun, due, thread>>

\* Wrong: FileDownloader::StartDownload refreshes the screen before it sets START.
WaitLoopWrong(t) ==
  /\ AtTop(t, "wait")
  /\ LET hits == {j \in DOMAIN List : j <= Top(t).i /\ Status[List[j]] = "WAIT"}
         n == Top(t).n + 1
     IN \/ \E j \in hits :
             Replace(t, <<Retry(1), Run(List[j])>>
                        \o (IF n < MaxDL THEN <<Wait(j - 1, n)>> ELSE <<>>))
        \/ hits = {} /\ Replace(t, <<>>)
  /\ UNCHANGED <<List, name, Status, RetryCount, bAlreadyRun, due, thread>>

\* The third loop, from the end of the list: a waiting download is started, and
\* DLCount, counted before, goes up by one and may end the loop.  What is left of
\* UpdateScreen then draws the list, and changes nothing here.
WaitLoop(t) ==
  /\ AtTop(t, "wait")
  /\ LET hits == {j \in DOMAIN List : /\ j <= Top(t).i
                                      /\ Status[List[j]] = "WAIT"
                                      /\ thread[List[j]] # "running"}
         n == Top(t).n + 1
     IN \/ \E j \in hits :
             /\ \A k \in hits : k <= j
             /\ Status' = [Status EXCEPT ![List[j]] = "START"]
             /\ Replace(t, <<Retry(1), Run(List[j])>>
                           \o (IF n < MaxDL THEN <<Wait(j - 1, n)>> ELSE <<>>))
        \/ /\ hits = {}
           /\ Replace(t, <<>>)
           /\ UNCHANGED Status
  /\ UNCHANGED <<List, name, RetryCount, bAlreadyRun, due, thread>>

\* Wrong: the index is where the loop ended, not where it found dl.
StartDownloadWrong(t) ==
  /\ AtTop(t, "start")
  /\ Replace(t, IF Top(t).dl \in Listed THEN <<Swap(Top(t).dl, Len(List), FALSE)>>
                ELSE <<>>)
  /\ UNCHANGED <<List, name, Status, RetryCount, bAlreadyRun, due, thread>>

\* StartDownload(dl, reset, force) up to its copy: the index of dl, and a count
\* of the downloads that are not START.
StartDownload(t) ==
  /\ AtTop(t, "start")
  /\ LET f == Top(t)
         at == {j \in DOMAIN List : List[j] = f.dl}
         DLCount == Cardinality({j \in DOMAIN List : Status[List[j]] # "START"})
     IN \/ /\ at = {}
           /\ Replace(t, <<>>)
           /\ UNCHANGED RetryCount
        \/ \E i \in at :
             /\ \A k \in at : k <= i
             /\ RetryCount' = IF f.reset THEN [RetryCount EXCEPT ![f.dl] = 0]
                              ELSE RetryCount
             /\ Replace(t, <<Swap(f.dl, i, DLCount >= MaxDL /\ ~f.force)>>)
  /\ UNCHANGED <<List, name, Status, bAlreadyRun, due, thread>>

\* Wrong: an object that is to wait is not replaced.
SwapAndGoWrong(t) ==
  /\ AtTop(t, "swap")
  /\ LET f == Top(t)
     IN \E n \in IF bAlreadyRun[f.dl] /\ ~f.wait THEN Unused ELSE {f.dl} :
          /\ List' = IF n # f.dl /\ f.i \in DOMAIN List
                     THEN [List EXCEPT ![f.i] = n] ELSE List
          /\ name' = [name EXCEPT ![n] = name[f.dl]]
          /\ RetryCount' = [RetryCount EXCEPT ![n] = RetryCount[f.dl]]
          /\ thread' = [thread EXCEPT ![n] = IF n = f.dl THEN @ ELSE "new"]
          /\ bAlreadyRun' = [bAlreadyRun EXCEPT ![n] = n = f.dl /\ @]
          /\ due' = [due EXCEPT ![n] = FALSE, ![f.dl] = FALSE]
          /\ Status' = [Status EXCEPT ![n] = IF f.wait THEN "WAIT" ELSE "START"]
          /\ Replace(t, IF f.wait \/ Status[f.dl] = "START" THEN <<>>
                        ELSE <<Retry(1), Run(n)>>)

\* Wrong: START is only set once the thread runs.
SwapAndGoLateWrong(t) ==
  /\ AtTop(t, "swap")
  /\ LET f == Top(t)
     IN \E n \in IF bAlreadyRun[f.dl] THEN Unused ELSE {f.dl} :
          /\ List' = IF bAlreadyRun[f.dl] /\ f.i \in DOMAIN List
                     THEN [List EXCEPT ![f.i] = n] ELSE List
          /\ name' = [name EXCEPT ![n] = name[f.dl]]
          /\ RetryCount' = [RetryCount EXCEPT ![n] = RetryCount[f.dl]]
          /\ thread' = [thread EXCEPT ![n] = IF n = f.dl THEN @ ELSE "new"]
          /\ bAlreadyRun' = [bAlreadyRun EXCEPT ![n] = FALSE]
          /\ due' = [due EXCEPT ![n] = FALSE, ![f.dl] = FALSE]
          /\ Status' = [Status EXCEPT ![n] = IF f.wait THEN "WAIT" ELSE Status[f.dl]]
          /\ Replace(t, IF f.wait THEN <<>> ELSE <<Retry(1), Run(n)>>)

\* The rest: an object that already ran is replaced, at the index found before,
\* by a copy with a new thread, and deleted.  Then the download waits, or
\* FileDownloader::StartDownload makes it START and refreshes the screen.
SwapAndGo(t) ==
  /\ AtTop(t, "swap")
  /\ LET f == Top(t)
     IN \E n \in IF bAlreadyRun[f.dl] THEN Unused ELSE {f.dl} :
          /\ List' = IF bAlreadyRun[f.dl] /\ f.i \in DOMAIN List
                     THEN [List EXCEPT ![f.i] = n] ELSE List
          /\ name' = [name EXCEPT ![n] = name[f.dl]]
          /\ RetryCount' = [RetryCount EXCEPT ![n] = RetryCount[f.dl]]
          /\ thread' = [thread EXCEPT ![n] = IF n = f.dl THEN @ ELSE "new"]
          /\ bAlreadyRun' = [bAlreadyRun EXCEPT ![n] = FALSE]
          /\ due' = [due EXCEPT ![n] = FALSE, ![f.dl] = FALSE]
          /\ Status' = [Status EXCEPT ![n] = IF f.wait THEN "WAIT" ELSE "START"]
          /\ Replace(t, IF f.wait \/ Status[f.dl] = "START" THEN <<>>
                        ELSE <<Retry(1), Run(n)>>)

\* Create() and Run(): a wxThread runs once.
RunThread(t) ==
  /\ AtTop(t, "run")
  /\ LET o == Top(t).dl
     IN \/ /\ OpenFails                              \* Create fails
           /\ Status' = [Status EXCEPT ![o] = "ERROR"]
           /\ due' = [due EXCEPT ![o] = FALSE]
           /\ Replace(t, <<Retry(1)>>)
           /\ UNCHANGED thread
        \/ /\ thread[o] = "new"
           /\ thread' = [thread EXCEPT ![o] = "running"]
           /\ stack' = [stack EXCEPT ![t] = <<Ran(o, FALSE)>> \o Tail(@),
                                     ![o] = <<Work("entry")>>]
           /\ UNCHANGED <<Status, due>>
        \/ /\ thread[o] # "new"
           /\ Replace(t, <<Ran(o, TRUE)>>)
           /\ UNCHANGED <<Status, due, thread>>
  /\ UNCHANGED <<List, name, RetryCount, bAlreadyRun>>

\* bAlreadyRun is set by the starter, after the new thread may have run.
AfterRun(t) ==
  /\ AtTop(t, "ran")
  /\ bAlreadyRun' = [bAlreadyRun EXCEPT ![Top(t).dl] = TRUE]
  /\ IF Top(t).failed THEN Fails(Top(t).dl) ELSE UNCHANGED <<Status, due>>
  /\ Replace(t, <<>>)
  /\ UNCHANGED <<List, name, RetryCount, thread>>

Manager(t) ==
  \/ BootLoop(t) \/ EnterScreen(t) \/ RetryLoop(t) \/ WaitLoop(t)
  \/ StartDownload(t) \/ SwapAndGo(t) \/ RunThread(t) \/ AfterRun(t)
-----------------------------------------------------------------------------
(***************************************************************************)
(* The worker of o: FileDownloader::Entry, the end of its transfer, OnExit.*)
(***************************************************************************)
\* curl_easy_init fails and Entry goes to its last lines; or fopen fails, Entry
\* returns and Status stays START.
Entry(o) ==
  /\ AtTop(o, "entry")
  /\ \/ Replace(o, <<Work("data")>>)
     \/ OpenFails /\ \E l \in {"tail", "exit"} : Replace(o, <<Work(l)>>)
  /\ UNCHANGED <<List, name, Status, RetryCount, bAlreadyRun, due, thread>>

\* Wrong: Entry does not refresh the screen when its transfer is over.
TransferWrong(o) ==
  /\ AtTop(o, "data")
  /\ Status' = [Status EXCEPT ![o] = IF @ = "START" THEN "FINISH" ELSE @]
  /\ Replace(o, <<Work("tail")>>)
  /\ UNCHANGED <<List, name, RetryCount, bAlreadyRun, due, thread>>

\* The transfer ends well; its size is reached, while curl goes on; it breaks; or
\* WriteData finds another size, or a write that falls short, which refreshes
\* the screen.
Transfer(o) ==
  /\ AtTop(o, "data")
  /\ \/ /\ Status' = [Status EXCEPT ![o] = IF @ = "START" THEN "FINISH" ELSE @]
        /\ Replace(o, <<Enter, Work("tail")>>)
        /\ UNCHANGED due
     \/ /\ Status[o] = "START"
        /\ Status' = [Status EXCEPT ![o] = "FINISH"]
        /\ UNCHANGED <<due, stack>>
     \/ /\ Replace(o, <<Work("failed")>>)
        /\ UNCHANGED <<Status, due>>
     \/ /\ Status[o] = "START"
        /\ Fails(o)
        /\ \E fs \in {<<>>, <<Enter>>} : Replace(o, fs \o <<Work("failed")>>)
  /\ UNCHANGED <<List, name, RetryCount, bAlreadyRun, thread>>

\* Wrong: the error branch returns without a new status.
FailedWrong(o) ==
  /\ AtTop(o, "failed")
  /\ Replace(o, <<Work("exit")>>)
  /\ UNCHANGED <<List, name, Status, RetryCount, bAlreadyRun, due, thread>>

Failed(o) ==
  /\ AtTop(o, "failed")
  /\ \/ /\ Status[o] # "STOP"
        /\ Fails(o)
        /\ Replace(o, <<Work("exit")>>)
     \/ /\ Status[o] = "STOP"
        /\ Replace(o, <<Enter, Work("tail")>>)
        /\ UNCHANGED <<Status, due>>
  /\ UNCHANGED <<List, name, RetryCount, bAlreadyRun, thread>>

\* The last lines of Entry: RETRY, whatever happened.
EntryTail(o) ==
  /\ AtTop(o, "tail")
  /\ Set(o, "RETRY")
  /\ Replace(o, <<Work("exit")>>)
  /\ UNCHANGED <<List, name, RetryCount, bAlreadyRun, thread>>

\* The thread counts as ended before OnExit refreshes the screen.
OnExit(o) ==
  /\ AtTop(o, "exit")
  /\ thread' = [thread EXCEPT ![o] = "done"]
  /\ Replace(o, <<Enter>>)
  /\ UNCHANGED <<List, name, Status, RetryCount, bAlreadyRun, due>>

Worker(o) == Entry(o) \/ Transfer(o) \/ Failed(o) \/ EntryTail(o) \/ OnExit(o)

User ==
  \/ \E nm \in Names : AddDownload(nm)
  \/ \E o \in Objs : StartButton(o)
  \/ \E S \in SUBSET Listed : StopButton(S) \/ DeleteButton(S)

Next ==
  \/ User \/ Timer
  \/ \E o \in Objs : Elapse(o) \/ Worker(o)
  \/ \E t \in Threads : Manager(t)

Spec == Init /\ [][Next]_vars

\* Threads that can run do, and each gets its turn to enter the manager (strong
\* fairness: the once-a-second timer leaves gaps); transfers end, the timer fires,
\* time passes; the user owes nothing.
Step(t) == Manager(t) \/ (t \in Objs /\ Worker(t))

Fairness ==
  /\ \A t \in Threads : SF_vars(Step(t))
  /\ \A o \in Objs : WF_vars(Elapse(o))
  /\ WF_vars(Timer)

FairSpec == Spec /\ Fairness
-----------------------------------------------------------------------------
(***************************************************************************)
(* AddDownload refuses a name that is listed, and every other operation    *)
(* replaces objects in place: no name and no object is listed twice.       *)
(***************************************************************************)
NoDuplicate ==
  \A i, j \in DOMAIN List :
    List[i] = List[j] \/ name[List[i]] = name[List[j]] => i = j

DownloadNames == [i \in DOMAIN List |-> name[List[i]]]

(***************************************************************************)
(* Starting, retrying and replacing by copies keeps the downloads and      *)
(* their order: an index found before the copy still denotes the same      *)
(* download when `List[i] =' is executed.                                  *)
(***************************************************************************)
NamesKept == [][Len(List') = Len(List) => DownloadNames' = DownloadNames]_vars

(***************************************************************************)
(* A thread is only started for a download that is listed and START: none  *)
(* that was stopped, deleted or replaced in the refresh between Status =   *)
(* FFD_START and Run().                                                    *)
(***************************************************************************)
RunsStarted ==
  [][\A o \in Objs : thread[o] = "new" /\ thread'[o] = "running"
       => o \in Listed /\ Status[o] = "START"]_vars

(***************************************************************************)
(* A download that waits has an object whose thread was never run: the     *)
(* third loop of UpdateScreen starts it without a copy.                    *)
(***************************************************************************)
WaitsUnrun == \A o \in Listed : Status[o] = "WAIT" => thread[o] = "new" /\ ~bAlreadyRun[o]

(***************************************************************************)
(* A listed download that is START has a thread at work on it, or one about*)
(* to be run: FileDownloader::StartDownload returns at once if it is START,*)
(* so one that nobody works on could never be started again.               *)
(***************************************************************************)
Served == \A o \in Listed : Status[o] = "START" =>
            stack[o] # <<>> \/ \E t \in Threads : o \in Refs(t)

Starting == {tk \in Threads \X (1 .. MaxDepth) :
               tk[2] \in DOMAIN stack[tk[1]] /\ stack[tk[1]][tk[2]].at = "run"}

(***************************************************************************)
(* UpdateScreen and StartDownload call each other, on every thread.  A     *)
(* download is in the middle of at most one FileDownloader::StartDownload: *)
(* every level of the recursion belongs to another download, so that it    *)
(* ends, and no thread is run twice.                                       *)
(***************************************************************************)
StartsOnce ==
  \A a, b \in Starting : stack[a[1]][a[2]].dl = stack[b[1]][b[2]].dl => a = b

Waiting(nm) == \E o \in Listed : name[o] = nm /\ Status[o] = "WAIT"

(***************************************************************************)
(* Features.txt:22, "Reprise d'un telechargement en attente lorsqu'un      *)
(* telechargement est finie": a download that waits is started in the end  *)
(* (or stopped or deleted by the user).                                    *)
(***************************************************************************)
WaitEnds == \A nm \in Names : Waiting(nm) ~> ~Waiting(nm)

Active == {o \in Listed : Status[o] = "START"}

(***************************************************************************)
(* Features.txt:20, "Nombre max de telechargement en cours":               *)
(* DLManager::StartDownload decides to start a download, and not to make it*)
(* wait, only while fewer than MaxDL are in progress, unless it is forced  *)
(* to (a retry).                                                           *)
(***************************************************************************)
StartsBelowMax ==
  [][\A t \in Threads :
       (/\ AtTop(t, "start") /\ ~Top(t).force
        /\ AtTop(t, "swap")' /\ ~Top(t)'.wait)
       => Cardinality(Active) < MaxDL]_vars

-----------------------------------------------------------------------------
\* The download of a name, without its objects and threads.
LifeOf(n) ==
  IF \E o \in Listed : name[o] = n THEN Status[CHOOSE o \in Listed : name[o] = n]
  ELSE "ABSENT"

Downloads == INSTANCE Lifecycle WITH state <- [n \in Names |-> LifeOf(n)]

(***************************************************************************)
(* The manager keeps what Lifecycle promises of each download, although it *)
(* replaces objects by copies, old threads go on with their last lines, and*)
(* decisions are carried out after a refresh that may change everything: a *)
(* finished download is not started over, one that waits is not touched by *)
(* any worker, one that failed stays so until it is started, and none comes*)
(* back after it was removed.                                              *)
(***************************************************************************)
KeepsLifecycle == Downloads!Spec
=============================================================================
