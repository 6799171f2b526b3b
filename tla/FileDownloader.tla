--------------------------- MODULE FileDownloader ---------------------------
(***************************************************************************)
(* One HTTP download of the manager, seen from its data: the listed        *)
(* FileDownloader object, the worker thread that runs FileDownloader::Entry*)
(* on it, the file it appends to and the entry that downloads.cfg keeps.   *)
(*                                                                         *)
(* A download that already ran is never run again: every new attempt is    *)
(* made by a copy of the object, and the worker of the replaced object is  *)
(* not waited for.  Several objects of `Objs' can therefore be working on  *)
(* one file; only `cur' is listed.  The memory of a replaced object is     *)
(* taken to stay intact while its worker uses it; the other outcome, that  *)
(* the process dies, is the action Crash.                                  *)
(*                                                                         *)
(* The resource is the sequence of bytes 1 .. Total (a byte stands for one *)
(* call of WriteData); 0 stands for the body of an error page.             *)
(***************************************************************************)
EXTENDS Integers, Sequences, Functions

CONSTANTS Objs,         \* identities of FileDownloader objects
          Total,        \* length of the resource
          MaxRetry,     \* DLManager::MaxRetry
          LongMax,      \* largest value of a C long (curl_off_t is wider)
          RangeServer,  \* does the server honour a Range request?
          MaxFile       \* bound: no attempt starts on a file this long

ASSUME ConstantsAssumption ==
  /\ Total \in Nat \ {0}
  /\ MaxRetry \in Nat
  /\ LongMax \in Nat
  /\ RangeServer \in BOOLEAN
  /\ MaxFile \in Nat

VARIABLES
  cur,          \* the object listed in DLManager::List
  \* the fields of every object
  Status, RetryCount, iFileSize, iDataPos, bStartDL, bAlreadyRun,
  pHeader,      \* the total of the last Content-Range header received
  \* the worker of every object
  pc,           \* where it is in Entry, WriteData or OnExit
  next,         \* the byte the server sends next (0: its error page)
  buf,          \* what fwrite left in the buffer of pOutput
  \* around them
  disk,         \* bytes of the output file that reached the system
  app,          \* "up", "closing" (OnClose saved the list) or "down"
  saved,        \* the download's entry in downloads.cfg
  orderly,      \* history: nothing happened yet that mixes up the file
  kept          \* history: no crash yet between the save and the exit

object == <<iFileSize, bStartDL, RetryCount, bAlreadyRun, pHeader>>
history == <<orderly, kept>>
vars == <<cur, Status, iDataPos, object, pc, next, buf, disk, app, saved, history>>

States == {"STOP", "START", "FINISH", "ERROR", "RETRY"}  \* WAIT: see DLManager

Labels == {"idle", "Entry", "Perform", "Count", "Failed", "Tail", "OnExit"}

NoSize  == -2   \* iFileSize of a new object
Unknown == -1   \* GetFileSizeHTTP found no Content-Range

\* (long) n : SetFileSize, SetDownloadedSize and the "%d" of the Range header.
AsLong(n) == ((n + LongMax + 1) % (2 * (LongMax + 1))) - (LongMax + 1)

\* What every failing path of the worker stores in Status.
RetryOrError(o) == IF RetryCount[o] < MaxRetry THEN "RETRY" ELSE "ERROR"

TypeOK ==
  /\ cur \in Objs
  /\ Status \in [Objs -> States]
  /\ RetryCount \in [Objs -> 0 .. MaxRetry]
  /\ iFileSize \in [Objs -> Int]
  /\ iDataPos \in [Objs -> Int]
  /\ bStartDL \in [Objs -> BOOLEAN]
  /\ bAlreadyRun \in [Objs -> BOOLEAN]
  /\ pHeader \in [Objs -> {Unknown, Total}]
  /\ pc \in [Objs -> Labels]
  /\ next \in [Objs -> Nat]
  /\ buf \in [Objs -> Seq(0 .. Total)]
  /\ disk \in Seq(0 .. Total)
  /\ app \in {"up", "closing", "down"}
  /\ saved \in [size : Int, pos : Int]
  /\ orderly \in BOOLEAN
  /\ kept \in BOOLEAN

\* AddDownload on an empty list, no file of that name yet, nothing saved.
Init ==
  /\ Status = [o \in Objs |-> "STOP"]
  /\ RetryCount = [o \in Objs |-> 0]
  /\ iFileSize = [o \in Objs |-> NoSize]
  /\ iDataPos = [o \in Objs |-> 0]
  /\ bStartDL = [o \in Objs |-> FALSE]
  /\ bAlreadyRun = [o \in Objs |-> FALSE]
  /\ pHeader = [o \in Objs |-> Unknown]
  /\ pc = [o \in Objs |-> "idle"]
  /\ next = [o \in Objs |-> 0]
  /\ buf = [o \in Objs |-> <<>>]
  /\ cur \in Objs
  /\ disk = <<>>
  /\ app = "up"
  /\ saved = [size |-> NoSize, pos |-> 0]
  /\ orderly = TRUE
  /\ kept = TRUE
-----------------------------------------------------------------------------
(***************************************************************************)
(* The manager's side: DLManager::StartDownload / StopDownload on this     *)
(* download, MainWindow::OnClose, and the process around it.               *)
(***************************************************************************)
\* Wrong on purpose (each operator "...Wrong" is a plausible bug that a property
\* of this module must detect): the copy constructor forgets the position.
ConstructWrong(n, size, pos, started, count, ran, label) ==
  /\ RetryCount' = [RetryCount EXCEPT ![n] = count]
  /\ iFileSize' = [iFileSize EXCEPT ![n] = size]
  /\ iDataPos' = [iDataPos EXCEPT ![n] = 0]
  /\ bStartDL' = [bStartDL EXCEPT ![n] = started]
  /\ bAlreadyRun' = [bAlreadyRun EXCEPT ![n] = ran]
  /\ pHeader' = [pHeader EXCEPT ![n] = Unknown]
  /\ pc' = [pc EXCEPT ![n] = label]
  /\ next' = [next EXCEPT ![n] = 0]

\* The object n holds what the constructor leaves in it.
Construct(n, size, pos, started, count, ran, label) ==
  /\ RetryCount' = [RetryCount EXCEPT ![n] = count]
  /\ iFileSize' = [iFileSize EXCEPT ![n] = size]
  /\ iDataPos' = [iDataPos EXCEPT ![n] = pos]
  /\ bStartDL' = [bStartDL EXCEPT ![n] = started]
  /\ bAlreadyRun' = [bAlreadyRun EXCEPT ![n] = ran]
  /\ pHeader' = [pHeader EXCEPT ![n] = Unknown]
  /\ pc' = [pc EXCEPT ![n] = label]
  /\ next' = [next EXCEPT ![n] = 0]

\* DLManager::StartDownload(dl, ...) followed by FileDownloader::StartDownload:
\* an object that already ran is replaced by a copy n (size, position, status,
\* bStartDL and RetryCount are copied; header, stream and thread are new), then
\* START, Run().
Launch(n, count) ==
  /\ Len(disk) + Len(buf[cur]) < MaxFile
  /\ IF bAlreadyRun[cur] THEN n # cur /\ pc[n] = "idle" ELSE n = cur
  /\ Construct(n, iFileSize[cur], iDataPos[cur], bStartDL[cur], count, TRUE, "Entry")
  /\ Status' = [Status EXCEPT ![n] = "START"]
  /\ cur' = n
  /\ orderly' = (orderly /\ app = "up" /\ pc[cur] = "idle")
  /\ UNCHANGED <<buf, disk, app, saved, kept>>

\* The user starts the download: the retry count is reset.
Start(n) ==
  /\ app = "up"
  /\ Status[cur] \notin {"START", "RETRY", "FINISH"}
  /\ Launch(n, 0)

\* The retry loop of UpdateScreen, run by the GUI or by a worker.  ErrorTime
\* may never have been set, so the delay bounds nothing here.  RetryCount is
\* only ever compared with MaxRetry: it saturates there.
Retry(n) ==
  /\ app # "down"
  /\ Status[cur] = "RETRY"
  /\ Launch(n, IF RetryCount[cur] < MaxRetry THEN RetryCount[cur] + 1 ELSE MaxRetry)

Stop ==
  /\ app = "up"
  /\ Status[cur] # "FINISH"
  /\ Status' = [Status EXCEPT ![cur] = "STOP"]
  /\ UNCHANGED <<cur, iDataPos, object, pc, next, buf, disk, app, saved, history>>

\* DeleteDownload, then AddDownload of the same link: the file stays, the new
\* object starts at position 0, a running worker is not waited for.
Readd(n) ==
  /\ app = "up"
  /\ n # cur /\ pc[n] = "idle"
  /\ Construct(n, NoSize, 0, FALSE, 0, FALSE, "idle")
  /\ Status' = [Status EXCEPT ![cur] = "STOP", ![n] = "STOP"]
  /\ cur' = n
  /\ orderly' = FALSE
  /\ UNCHANGED <<buf, disk, app, saved, kept>>

\* OnClose: every download is told to stop, then the list is saved; nobody
\* waits for a worker that is between its fwrite and its iDataPos += len.
Close ==
  /\ app = "up"
  /\ Status' = [Status EXCEPT ![cur] = "STOP"]
  /\ saved' = [size |-> iFileSize[cur], pos |-> iDataPos[cur]]
  /\ app' = "closing"
  /\ orderly' = (orderly /\ pc[cur] # "Count")
  /\ UNCHANGED <<cur, iDataPos, object, pc, next, buf, disk, kept>>

\* The process is gone, and its objects, threads and streams with it.
Gone ==
  /\ app' = "down"
  /\ Status' = [o \in Objs |-> "STOP"]
  /\ RetryCount' = [o \in Objs |-> 0]
  /\ iFileSize' = [o \in Objs |-> NoSize]
  /\ iDataPos' = [o \in Objs |-> 0]
  /\ bStartDL' = [o \in Objs |-> FALSE]
  /\ bAlreadyRun' = [o \in Objs |-> FALSE]
  /\ pHeader' = [o \in Objs |-> Unknown]
  /\ pc' = [o \in Objs |-> "idle"]
  /\ next' = [o \in Objs |-> 0]
  /\ buf' = [o \in Objs |-> <<>>]

\* exit(0), once the C library has flushed every open stream (Flush).
Exit ==
  /\ app = "closing"
  /\ \A o \in Objs : buf[o] = <<>>
  /\ Gone
  /\ UNCHANGED <<cur, disk, saved, history>>

\* The process dies: what no stream flushed is lost.
Crash ==
  /\ app # "down"
  /\ Gone
  /\ orderly' = FALSE
  /\ kept' = (kept /\ app = "up")
  /\ UNCHANGED <<cur, disk, saved>>

\* LoadDownloads: sizes pass through a long, equal sizes mean FINISH.
Relaunch ==
  /\ app = "down"
  /\ app' = "up"
  /\ iFileSize' = [iFileSize EXCEPT ![cur] = AsLong(saved.size)]
  /\ iDataPos' = [iDataPos EXCEPT ![cur] = AsLong(saved.pos)]
  /\ Status' = [Status EXCEPT ![cur] =
                  IF AsLong(saved.size) = AsLong(saved.pos) THEN "FINISH" ELSE "STOP"]
  /\ UNCHANGED <<cur, bStartDL, RetryCount, bAlreadyRun, pHeader, pc, next, buf,
                 disk, saved, history>>
-----------------------------------------------------------------------------
(***************************************************************************)
(* The worker: FileDownloader::Entry, WriteData (called by curl) and OnExit*)
(***************************************************************************)
\* The worker of o is at a label, and goes on to another.
At(o, label) == pc[o] = label /\ app # "down"
Goto(o, label) == pc' = [pc EXCEPT ![o] = label]

\* Wrong: the size is taken from Content-Length, what the reply itself holds.
RepliesWrong(from) ==
  IF from >= 0 THEN {[total |-> Total - from, first |-> from + 1]}
  ELSE {[total |-> Unknown, first |-> 1]}

\* The reply to "Range: bytes=<from>-": the total its Content-Range gives and
\* the first byte of its body (Total + 1: no body).
Replies(from) ==
  IF RangeServer /\ from >= Total
  THEN {[total |-> Total, first |-> b] : b \in {0, Total + 1}}
  ELSE IF RangeServer /\ from >= 0 THEN {[total |-> Total, first |-> from + 1]}
  ELSE {[total |-> Unknown, first |-> 1]}

\* curl_easy_init fails; or fopen fails, which leaves Status at START for good;
\* or no header is accepted: none comes, or the download is no longer START and
\* the callback refuses it.
OpenFails(o) ==
  /\ At(o, "Entry")
  /\ Goto(o, "Tail") \/ Goto(o, "OnExit") \/ Goto(o, "Failed")
  /\ UNCHANGED <<cur, Status, iDataPos, object, next, buf, disk, app, saved, history>>

\* The request is sent and its headers arrive.
Open(o) ==
  /\ At(o, "Entry")
  /\ Status[o] = "START"
  /\ \E r \in Replies(AsLong(iDataPos[o])) :
       /\ next' = [next EXCEPT ![o] = r.first]
       /\ pHeader' = [pHeader EXCEPT ![o] = r.total]
       /\ orderly' = (orderly /\ r.first # 0)
  /\ Goto(o, "Perform")
  /\ UNCHANGED <<cur, Status, iDataPos, iFileSize, bStartDL, RetryCount,
                 bAlreadyRun, buf, disk, app, saved, kept>>

\* Data for a download that is no longer START: WriteData returns 0.
Refuse(o) ==
  /\ At(o, "Perform") /\ next[o] <= Total
  /\ Status[o] # "START"
  /\ Goto(o, "Failed")
  /\ UNCHANGED <<cur, Status, iDataPos, object, next, buf, disk, app, saved, history>>

\* The first data of an object is checked against the size it was copied or
\* loaded with; a copy of an object that had data inherits bStartDL and skips it.
Differs(o) == ~bStartDL[o] /\ iDataPos[o] > 0 /\ pHeader[o] # iFileSize[o]

WrongSize(o) ==
  /\ At(o, "Perform") /\ next[o] <= Total
  /\ Status[o] = "START" /\ Differs(o)
  /\ bStartDL' = [bStartDL EXCEPT ![o] = TRUE]
  /\ Status' = [Status EXCEPT ![o] = RetryOrError(o)]
  /\ Goto(o, "Failed")
  /\ UNCHANGED <<cur, iDataPos, iFileSize, RetryCount, bAlreadyRun, pHeader, next,
                 buf, disk, app, saved, history>>

\* Wrong: a write that falls short is counted like any other.
WriteDataWrong(o) ==
  /\ At(o, "Perform") /\ next[o] <= Total
  /\ Status[o] = "START" /\ ~Differs(o)
  /\ bStartDL' = [bStartDL EXCEPT ![o] = TRUE]
  /\ iFileSize' = [iFileSize EXCEPT ![o] = IF bStartDL[o] THEN @ ELSE pHeader[o]]
  /\ \E written \in {<<>>, <<next[o]>>} : buf' = [buf EXCEPT ![o] = @ \o written]
  /\ Goto(o, "Count")
  /\ UNCHANGED <<cur, Status, iDataPos, RetryCount, bAlreadyRun, pHeader, next,
                 disk, app, saved, history>>

\* WriteData up to and with its fwrite, at the end of the file ("ab"), which
\* writes the byte or falls short.
WriteData(o) ==
  /\ At(o, "Perform") /\ next[o] <= Total
  /\ Status[o] = "START" /\ ~Differs(o)
  /\ bStartDL' = [bStartDL EXCEPT ![o] = TRUE]
  /\ iFileSize' = [iFileSize EXCEPT ![o] = IF bStartDL[o] THEN @ ELSE pHeader[o]]
  /\ \/ /\ buf' = [buf EXCEPT ![o] = Append(@, next[o])]
        /\ Goto(o, "Count")
        /\ UNCHANGED Status
     \/ /\ Status' = [Status EXCEPT ![o] = RetryOrError(o)]
        /\ Goto(o, "Failed")
        /\ UNCHANGED buf
  /\ UNCHANGED <<cur, iDataPos, RetryCount, bAlreadyRun, pHeader, next, disk, app,
                 saved, history>>

\* The rest of WriteData: iDataPos += len, and FINISH when the size is reached.
Count(o) ==
  /\ At(o, "Count")
  /\ iDataPos' = [iDataPos EXCEPT ![o] = @ + 1]
  /\ next' = [next EXCEPT ![o] = IF @ = 0 THEN Total + 1 ELSE @ + 1]
  /\ Status' = [Status EXCEPT ![o] =
                  IF iDataPos[o] + 1 = iFileSize[o] THEN "FINISH" ELSE @]
  /\ Goto(o, "Perform")
  /\ UNCHANGED <<cur, object, buf, disk, app, saved, history>>

\* curl_easy_perform succeeds: all the data was accepted (curl knows the length
\* of the body, a short one is an error).  A download still START is FINISH.
PerformOk(o) ==
  /\ At(o, "Perform") /\ next[o] = Total + 1
  /\ Status' = [Status EXCEPT ![o] = IF @ = "START" THEN "FINISH" ELSE @]
  /\ Goto(o, "Tail")
  /\ UNCHANGED <<cur, iDataPos, object, next, buf, disk, app, saved, history>>

\* Wrong: the result of curl_easy_perform is not looked at.
PerformFailsWrong(o) ==
  /\ At(o, "Perform")
  /\ Status' = [Status EXCEPT ![o] = IF @ = "START" THEN "FINISH" ELSE @]
  /\ Goto(o, "Tail")
  /\ UNCHANGED <<cur, iDataPos, object, next, buf, disk, app, saved, history>>

\* The connection breaks.
PerformFails(o) ==
  /\ At(o, "Perform")
  /\ Goto(o, "Failed")
  /\ UNCHANGED <<cur, Status, iDataPos, object, next, buf, disk, app, saved, history>>

\* The error branch of Entry; a download that was stopped falls through it.
Failed(o) ==
  /\ At(o, "Failed")
  /\ \/ /\ Status[o] # "STOP"
        /\ Status' = [Status EXCEPT ![o] = RetryOrError(o)]
        /\ Goto(o, "OnExit")
     \/ /\ Status[o] = "STOP"
        /\ Goto(o, "Tail")
        /\ UNCHANGED Status
  /\ UNCHANGED <<cur, iDataPos, object, next, buf, disk, app, saved, history>>

\* The last lines of Entry: RETRY, whatever happened.
EntryTail(o) ==
  /\ At(o, "Tail")
  /\ Status' = [Status EXCEPT ![o] = "RETRY"]
  /\ Goto(o, "OnExit")
  /\ UNCHANGED <<cur, iDataPos, object, next, buf, disk, app, saved, history>>

\* fclose or the C library writes a stream's buffer out.
WriteOut(o) ==
  /\ disk' = disk \o buf[o]
  /\ buf' = [buf EXCEPT ![o] = <<>>]

\* Wrong: OnExit leaves the stream open.
OnExitWrong(o) ==
  /\ At(o, "OnExit")
  /\ Goto(o, "idle")
  /\ next' = [next EXCEPT ![o] = 0]
  /\ UNCHANGED <<cur, Status, iDataPos, object, buf, disk, app, saved, history>>

OnExit(o) ==
  /\ At(o, "OnExit")
  /\ WriteOut(o)
  /\ Goto(o, "idle")
  /\ next' = [next EXCEPT ![o] = 0]
  /\ UNCHANGED <<cur, Status, iDataPos, object, app, saved, history>>

Flush(o) ==
  /\ app # "down" /\ buf[o] # <<>>
  /\ WriteOut(o)
  /\ UNCHANGED <<cur, Status, iDataPos, object, pc, next, app, saved, history>>

Worker(o) ==
  \/ OpenFails(o) \/ Open(o)
  \/ Refuse(o) \/ WrongSize(o) \/ WriteData(o) \/ Count(o)
  \/ PerformOk(o) \/ PerformFails(o)
  \/ Failed(o) \/ EntryTail(o) \/ OnExit(o)

Next ==
  \/ \E n \in Objs : Start(n) \/ Retry(n) \/ Readd(n)
  \/ Stop \/ Close \/ Exit \/ Crash \/ Relaunch
  \/ \E o \in Objs : Worker(o) \/ Flush(o)

Spec == Init /\ [][Next]_vars

\* A thread that runs keeps being scheduled, and curl hands it an answer or an
\* error in the end; nobody owes the user's actions or the library's flushes.
Fairness == \A o \in Objs : WF_vars(Worker(o))

FairSpec == Spec /\ Fairness
-----------------------------------------------------------------------------
OnDisk  == Range(disk)
Written == OnDisk \cup UNION {Range(buf[o]) : o \in Objs}

\* The bytes up to position p.
UpTo(p) == {b \in 1 .. Total : b <= p}

\* The bytes the program believes it has: those up to iDataPos, or while it is
\* down those that the next start will read from downloads.cfg.
Claimed == UpTo(IF app = "down" THEN saved.pos ELSE iDataPos[cur])

(***************************************************************************)
(* Resuming asks the server for what follows iDataPos, so a byte before it *)
(* that was never written is lost for good.  Through stops, errors,        *)
(* retries by copies, workers that overlap, short writes, restarts and     *)
(* crashes every claimed byte is in the file or in a stream about to be    *)
(* flushed; only a crash after SaveDownloads and before the exit flushes   *)
(* (kept) may break it.                                                    *)
(***************************************************************************)
Covered == kept => Claimed \subseteq Written

(***************************************************************************)
(* A download shown as finished has every byte of the resource: by the     *)
(* sizes comparison in WriteData, by the end of the transfer in Entry, or  *)
(* by the comparison in LoadDownloads.                                     *)
(***************************************************************************)
FinishedComplete ==
  kept /\ app # "down" /\ Status[cur] = "FINISH" => 1 .. Total \subseteq Written

(***************************************************************************)
(* While nothing mixed up the file (a second worker, a crash, a close in   *)
(* the middle of a write, a re-added link, the error page of a request     *)
(* past the end), the file and the stream hold exactly the bytes up to the *)
(* position: a resumed "ab" stream neither repeats nor skips one.          *)
(***************************************************************************)
Exact ==
  orderly =>
    LET pos == IF app = "down" THEN saved.pos
               ELSE iDataPos[cur] + (IF pc[cur] = "Count" THEN 1 ELSE 0)
    IN disk \o buf[cur] = [i \in 1 .. pos |-> i]

(***************************************************************************)
(* However an attempt ends (finished, failed, stopped, file not opened),   *)
(* OnExit closes the stream: no accepted byte stays in memory for ever.    *)
(***************************************************************************)
Flushed == \A o \in Objs : buf[o] # <<>> ~> buf[o] = <<>>

(***************************************************************************)
(* FileDownloader.h:40, "Stop (met en pause) le telechargement": a stopped *)
(* download stays stopped until somebody starts it, and a start replaces   *)
(* an object that already ran.                                             *)
(***************************************************************************)
StopHolds ==
  [][ (app = "up" /\ bAlreadyRun[cur] /\ Status[cur] = "STOP"
       /\ cur' = cur /\ app' = app) => Status'[cur] = "STOP" ]_vars

=============================================================================
