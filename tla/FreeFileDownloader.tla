------------------------- MODULE FreeFileDownloader -------------------------
(***************************************************************************)
(* A download from dl.free.fr: the FileDownloader of a link that leads to  *)
(* a page, from which the worker takes the link of the file.               *)
(*                                                                         *)
(* FreeFileDownloader overrides Entry alone: the manager's side, the       *)
(* callback WriteData and OnExit are those of FileDownloader, whose        *)
(* actions are used here.  Unlike its base class it resumes from the       *)
(* length of the file and not from the position it remembers.  Pages and   *)
(* links are reduced to what the worker finds in them.                     *)
(***************************************************************************)
EXTENDS FileDownloader

VARIABLE alone  \* history: no worker started beside another one, and no error
                \* page was served

freeVars == <<vars, alone>>

FreeLabels == Labels \cup {"Page", "Moved", "Link", "File"}

FreeTypeOK ==
  /\ cur \in Objs
  /\ Status \in [Objs -> States]
  /\ RetryCount \in [Objs -> 0 .. MaxRetry]
  /\ iFileSize \in [Objs -> {NoSize, Unknown, Total}]
  /\ iDataPos \in [Objs -> -1 .. MaxFile + Total]
  /\ pc \in [Objs -> FreeLabels]
  /\ disk \in Seq(0 .. Total)
  /\ \A o \in Objs : buf[o] \in Seq(0 .. Total)
  /\ saved.pos \in -1 .. MaxFile + Total
  /\ alone \in BOOLEAN

FreeInit == Init /\ alone = TRUE
-----------------------------------------------------------------------------
\* The worker of o goes on to a label and touches nothing else.
Step(o, from, to) ==
  /\ At(o, from)
  /\ Goto(o, to)
  /\ UNCHANGED <<cur, Status, iDataPos, object, next, buf, disk, app, saved, history,
                 alone>>

\* Any of the error paths of Entry but the last: a new status, and return.
Fail(o, from) ==
  /\ At(o, from)
  /\ Status' = [Status EXCEPT ![o] = RetryOrError(o)]
  /\ Goto(o, "OnExit")
  /\ UNCHANGED <<cur, iDataPos, object, next, buf, disk, app, saved, history, alone>>

\* Entry sets START itself: a stop given before it is lost.  It may go without
\* a connection (curl_easy_init) to its last lines.
Begin(o) ==
  /\ At(o, "Entry")
  /\ Status' = [Status EXCEPT ![o] = "START"]
  /\ Goto(o, "Page") \/ Goto(o, "Tail")
  /\ UNCHANGED <<cur, iDataPos, object, next, buf, disk, app, saved, history, alone>>

\* The page of the link arrives, perhaps as a redirection.
GetPage(o) == Status[o] = "START" /\ (Step(o, "Page", "Link") \/ Step(o, "Page", "Moved"))

\* It does not, or it is empty, or the callback refused it because the download
\* was stopped: this path does not look for STOP.
PageFails(o) == Fail(o, "Page")

\* The page behind the redirection.  If the download was stopped the callback
\* refuses it and Entry goes on without it.
Follow(o) == Step(o, "Moved", "Link")

FollowFails(o) == Status[o] # "STOP" /\ Fail(o, "Moved")

\* The final link is cut out of the page, and pHeader is emptied.
FindLink(o) ==
  /\ At(o, "Link")
  /\ pHeader' = [pHeader EXCEPT ![o] = Unknown]
  /\ Goto(o, "File")
  /\ UNCHANGED <<cur, Status, iDataPos, iFileSize, bStartDL, RetryCount, bAlreadyRun,
                 next, buf, disk, app, saved, history, alone>>

NoLink(o) == Fail(o, "Link")

\* fopen fails.
NoFile(o) == Fail(o, "File")

\* ftell at the end of the file: -1 when it does not fit in a long.
EndOfFile == IF Len(disk) <= LongMax THEN Len(disk) ELSE -1

\* Wrong on purpose (each operator "...Wrong" is a plausible bug that a property
\* of this module must detect): the end of the file is added to the position.
OpenFileWrong(o) ==
  /\ At(o, "File")
  /\ Status[o] = "START"
  /\ iDataPos' = [iDataPos EXCEPT ![o] = @ + EndOfFile]
  /\ \E r \in Replies(EndOfFile) :
       /\ next' = [next EXCEPT ![o] = r.first]
       /\ pHeader' = [pHeader EXCEPT ![o] = r.total]
       /\ alone' = (alone /\ r.first # 0)
  /\ Goto(o, "Perform")
  /\ UNCHANGED <<cur, Status, iFileSize, bStartDL, RetryCount, bAlreadyRun, buf, disk,
                 app, saved, history>>

\* Wrong: the download resumes from the position it remembers.
OpenFileStaleWrong(o) ==
  /\ At(o, "File")
  /\ Status[o] = "START"
  /\ UNCHANGED iDataPos
  /\ \E r \in Replies(iDataPos[o]) :
       /\ next' = [next EXCEPT ![o] = r.first]
       /\ pHeader' = [pHeader EXCEPT ![o] = r.total]
       /\ alone' = (alone /\ r.first # 0)
  /\ Goto(o, "Perform")
  /\ UNCHANGED <<cur, Status, iFileSize, bStartDL, RetryCount, bAlreadyRun, buf, disk,
                 app, saved, history>>

\* The file is opened, iDataPos is its end, and the headers of the reply to the
\* Range request for the rest of the resource arrive.
OpenFile(o) ==
  /\ At(o, "File")
  /\ Status[o] = "START"
  /\ iDataPos' = [iDataPos EXCEPT ![o] = EndOfFile]
  /\ \E r \in Replies(EndOfFile) :
       /\ next' = [next EXCEPT ![o] = r.first]
       /\ pHeader' = [pHeader EXCEPT ![o] = r.total]
       /\ alone' = (alone /\ r.first # 0)
  /\ Goto(o, "Perform")
  /\ UNCHANGED <<cur, Status, iFileSize, bStartDL, RetryCount, bAlreadyRun, buf, disk,
                 app, saved, history>>

\* No header is accepted: the link is wrong, nobody answers, or the download is
\* no longer START and the callback refuses it.
OpenFileFails(o) ==
  /\ At(o, "File")
  /\ iDataPos' = [iDataPos EXCEPT ![o] = EndOfFile]
  /\ Goto(o, "Failed")
  /\ UNCHANGED <<cur, Status, object, next, buf, disk, app, saved, history, alone>>

\* The last lines of Entry: RETRY or ERROR, whatever happened.
FreeTail(o) == Fail(o, "Tail")

Transfer(o) ==
  /\ \/ Refuse(o) \/ WrongSize(o) \/ WriteData(o) \/ Count(o)
     \/ PerformOk(o) \/ PerformFails(o) \/ Failed(o) \/ OnExit(o)
  /\ UNCHANGED alone

FreeWorker(o) ==
  \/ Begin(o) \/ GetPage(o) \/ PageFails(o) \/ Follow(o) \/ FollowFails(o)
  \/ FindLink(o) \/ NoLink(o) \/ NoFile(o) \/ OpenFile(o) \/ OpenFileFails(o)
  \/ Transfer(o) \/ FreeTail(o)

\* The manager runs a worker, while another one may be at work on the same file.
FreeLaunch(n) ==
  /\ Start(n) \/ Retry(n)
  /\ alone' = (alone /\ \A o \in Objs : pc[o] = "idle")

Around ==
  /\ \/ \E n \in Objs : Readd(n)
     \/ Stop \/ Close \/ Exit \/ Crash \/ Relaunch
     \/ \E o \in Objs : Flush(o)
  /\ UNCHANGED alone

FreeNext == Around \/ \E o \in Objs : FreeLaunch(o) \/ FreeWorker(o)

FreeSpec == FreeInit /\ [][FreeNext]_freeVars
-----------------------------------------------------------------------------
(***************************************************************************)
(* Because it starts at the end of the file, a free download survives what *)
(* FileDownloader does not: as long as one worker at a time writes and no  *)
(* error page was appended, the file and the open stream hold the first    *)
(* bytes of the resource in order and once, through stops, retries, short  *)
(* writes, crashes, stale saved positions and links added again.           *)
(***************************************************************************)
Prefix ==
  alone => \A o \in Objs : LET f == disk \o buf[o] IN f = [i \in DOMAIN f |-> i]

(***************************************************************************)
(* A free download shown as finished has every byte of the resource.       *)
(***************************************************************************)
FreeFinished ==
  kept /\ alone /\ app # "down" /\ Status[cur] = "FINISH" => 1 .. Total \subseteq Written
=============================================================================
