# DL.Free Manager: verification project

DL.Free Manager (`src/Src`) is a wxWidgets program for Windows that downloads
files over HTTP, among them files of the host dl.free.fr, several at once, and
resumes them after errors and restarts. This directory holds TLA+ modules that
model its core, TLC configurations that check them on small instances, and TLAPS
proofs. Line numbers below are those of `src/Src`.

## 1. Inventory

| component | files | state | operations |
|---|---|---|---|
| FileDownloader | FileDownloader.cpp/.h | link, file name, `Status`, `iFileSize`, `iDataPos`, `bStartDL`, `bAlreadyRun`, `RetryCount`, `ErrorTime`, header, output stream, thread | constructor, copy constructor, `StartDownload`, `StopDownload`, `Entry` (thread), `WriteData` (curl callback), `OnExit` |
| FreeFileDownloader | FreeFileDownloader.cpp/.h | the same, and the page | its own `Entry`: page, redirection, final link, then the transfer |
| DLManager | DLManager.cpp/.h | `List`, `Stack`, `MaxDL`, `MaxRetry`, `RetryTime`, `Time` | `AddDownload`, `StartDownload` (two), `StopDownload`, `DeleteDownload`, `UpdateScreen`, `UpdateOnce`, `UpdateBlocks`, `LoadDownloads`, `SaveDownloads` |
| MainWindow | MainWindow.cpp/.h | widgets, timer | buttons, `OnTimer`, `OnClose`, `MSWWindowProc` (message of a second instance) |
| Program start | main.cpp, ArgumentParser.cpp/.h | `AlreadyRun`, `Manager`, the named mutex | `OnInit`, `Parse` |
| New download dialog | DialogNewDL.cpp/.h | two text fields | OK, Cancel, text events |
| Config | Config.cpp/.h | list of option and comment lines | `Load`, `Save`, `Read...`, `Write...` |
| Parser | parser.cpp/.h | none | functions on URLs and headers |
| LanguageManager | LanguageManager.cpp/.h | table of captions | `LoadLanguage` |
| FilePage, ProgressBlocks, LogWindow, TaskBarIcon, wxVistaGauge, DialogOptions | ... | widgets | drawing |
| StateData, error | ... | tags and texts | none |
| thread.cpp | | | a sample of the wxWidgets distribution, not in the project file |
| src/lib | | | vendored libcurl, wxFlatNotebook, ... |

### How they interact

- `DLManager` is a passive object without a lock (its mutex is commented out,
  DLManager.cpp:429). It runs on the stack of the GUI thread (buttons, the
  one-second timer) **and** of every worker thread: `Entry`, `WriteData` and
  `OnExit` call `UpdateScreen(true)`, which retries, starts waiting downloads
  and redraws.
- `UpdateScreen` calls `DLManager::StartDownload`, which calls
  `FileDownloader::StartDownload`, which calls `UpdateScreen` again before it
  runs its thread.
- A wxThread runs once, so a download that already ran is replaced in `List` by
  a copy and the old object is deleted, even when its own thread is the caller.
- The output file is opened for append; the position to resume from is
  `iDataPos` (FileDownloader) or the end of the file (FreeFileDownloader).
- `downloads.cfg` is written once, by `OnClose`; the streams are flushed later,
  by `exit`. It is read by the constructor of `DLManager`.
- A second process finds the mutex, sends its arguments to the first one's
  window and exits. `Parse` opens modal dialogs, which dispatch messages, and so
  may be entered again.

### What is hard

Order of status changes (the last lines of `Entry` overwrite STOP and FINISH),
objects replaced and freed while used, two threads inside the manager, recursion,
crashes between a write, the save and the flush, servers that ignore `Range`,
sizes that do not fit in a `long`, starvation of waiting downloads, re-entrance
through modal dialogs, controls changed by several threads between two calls, files
cut short while they are saved. `PROJECT.json` lists each hazard at its line.

### What makes each part correct

- FileDownloader: no byte before the position is missing; FINISH means complete;
  an undisturbed file is exact; a stopped download stays stopped; what was
  accepted is flushed.
- FreeFileDownloader: the file is a prefix of the resource; FINISH means complete.
- DLManager: the list keeps its downloads through copies; threads are only run
  for listed downloads in START; nothing stays START unserved; the limit `MaxDL`;
  waiting downloads start; the recursion ends.
- Program start: one instance manages the list; links are offered once, in order.
- Options and list between sessions: what was saved is read back, and a save cut
  short costs only what it had not written yet.
- DLManager's display: rows and pages agree with the list after a refresh, and a
  button acts on what was selected.
- Functions: the blocks of a page cover the file, the size is that of the last
  reply, the name offered for a link is a name and not a path.

## 2. Modules

### FileDownloader

One download, seen from its data. Several objects (`Objs`) of the download may
exist: `cur` is the listed one, the others were replaced or deleted and their
workers may still run. The fields carry their C++ names. A worker's position is
`pc`: `Entry` (until the headers arrive), `Perform` (inside curl), `Count` (in
`WriteData` between its `fwrite` and `iDataPos += len`), `Failed`, `Tail` (lines
188-195), `OnExit`. A byte of the resource stands for one call of `WriteData`;
`buf` is what a stream holds, `disk` what reached the system, `saved` the entry
of `downloads.cfg`. Sizes pass through `AsLong` where the code passes them
through a `long` (the setters, and "%d" of the Range header).

| action | code |
|---|---|
| `Start`, `Retry`, `Launch`, `Construct` | DLManager.cpp:118-131, 415-508, the copy constructor, FileDownloader.cpp:217-245 |
| `Stop`, `Readd` | DLManager.cpp:510-581 and 58-108 |
| `Close`, `Exit`, `Relaunch` | MainWindow.cpp:326-356, the flush by `exit`, DLManager.cpp:583-640 |
| `Open`, `OpenFails` | FileDownloader.cpp:123-167 |
| `Refuse`, `WrongSize`, `WriteData`, `Count` | FileDownloader.cpp:252-372 |
| `PerformOk`, `PerformFails`, `Failed`, `EntryTail` | FileDownloader.cpp:167-195 |
| `OnExit`, `Flush` | FileDownloader.cpp:198-215, the C library |
| `Crash`, `Replies` | external: the end of the process, the HTTP server |

`orderly` and `kept` are history variables: the first turns false when something
happened that may mix up the file, the second when the process died between
`SaveDownloads` and the flush by `exit`.

The memory of a replaced object is taken to stay intact while its worker uses it;
the other outcome, that the process dies, is the action `Crash`.

### FreeFileDownloader

Extends FileDownloader with the `Entry` of a dl.free.fr download: the page, the
redirection, the final link, the end of the file as position (lines 15-267). The
manager's side, the callback and `OnExit` are those of FileDownloader. Two things
differ from the base class and are modelled: `Entry` sets START itself, and a
first page refused because of a stop is handled as an error.

### DLManager

The scheduler and all the threads that call it. Every thread has a stack of
frames; a step is taken by the frame on top, so the interleavings of two
`UpdateScreen` and the recursion are explicit. The frames are the places where
another thread can change what the code read before: the index found in
`StartDownload` (`swap`), the count of `UpdateScreen` (`wait`), START before
`Run()` (`run`), `Run()` before `bAlreadyRun` (`ran`). A transfer is reduced to
how it ends. `name` stands for both the link and the file name, which
`AddDownload` compares. `OpenFails` and `Overlap` choose the instance: may `fopen` and
`Create` fail, may two threads be inside the manager at once. The display (the
end of `UpdateScreen`, `UpdateOnce`) reads what this module has and decides nothing;
it is modelled in Display. `UpdateBlocks` has no caller.

### Lifecycle

The abstract specification of the manager: the status of each download by its file
name, and what each event may make of it. Objects, copies, threads and call stacks
are gone. Promised are, for instance, that a download that waits is touched by no
worker, that a finished one is not started over by the user (a worker's last lines
may still make it RETRY), that one that failed or was stopped is not FINISH later
without being started, and that a removed one does not come back. `DLManager!Downloads`
is the instance whose `state` maps a name to the status of the listed object of that
name (`LifeOf`); `KeepsLifecycle` says that every step of the manager and its threads
is a step of Lifecycle or none.

### Config, DownloadStore, Persistence

What is kept between sessions. `Config` has `Config::Load` as the automaton it is (one
operator for each state), `Save`, the look-up and the writing of options as operators
on texts and lists of slots. `DownloadStore` writes and reads `downloads.cfg` field by
field: `LoadDownloads` goes through one variable and one buffer and never asks
whether `fread` read anything, so `Field`, `Number` and `Chars` say what these hold
after a read that falls short. `Persistence` runs sessions over both files: the start
reads them, `OnClose` writes `downloads.cfg`, then `config.cfg`, each emptied first and
written through a stream, and the process may die between any two writes.

| action | code |
|---|---|
| `Launch` | main.cpp:107-129, MainWindow.cpp:36-41, DLManager.cpp:583-640, Config.cpp:21-126 |
| `SaveDownloads` | MainWindow.cpp:328-336, DLManager.cpp:642-682 |
| `SaveConfig` | MainWindow.cpp:338-351, Config.cpp:128-142, 198-228 |
| `Exit` | MainWindow.cpp:353-355 |
| `AddDownload`, `DeleteDownload`, `Progress` | what the session does to the list, in short (see the other modules) |
| `Write`, `Gone`, `Crash`, `Resize` | external |

`listed` and `sized` are history variables: what was saved last, and whether all of it
reached the file.

### Display

Rows of the list control and pages of the notebook. A handler of the GUI thread is one
action with the refreshes it makes (`Refreshed`, `Paged`); a worker's refresh is a step
for each call on a control, since each of them waits for the GUI thread. So a worker can
find a row, lose it, and write to the row that has its index now, or insert the row and
page of a download that was deleted. `raced` is a history variable: a refresh was
disturbed; what is exact is claimed without it, and `Converges` with it.

### ProgressBlocks, Parser

The blocks of a page (ProgressBlocks.cpp:39-108), and the size in a header, the name in
a URL and the first line of a text (parser.cpp:29-120), as operators, compared with
what they should compute over all bounded inputs. The operands of the blocks are
longs and overflow as such.
They depend on no state; MCDisplay states their properties
(`EveryBlockShown`, `BlueBlocks`, `SizeFound`, `NameFlat`) of the states in which a session
begins, so that the run of Display looks at them.

### Instances

Processes, the mutex, the window, WM_COPYDATA, `DLManager::Stack`,
`ArgumentParser::Parse` and the dialogs, with the stack of calls of each GUI
thread. A second process is blocked in `SendMessage` while its message is handled.

### Others

Each `...Proofs` module holds the theorems about the module it is named after;
`DisplayProofs` also has those about ProgressBlocks and Parser, whose properties
MCDisplay states. `Induction` has induction on the naturals with a set in the place of a
predicate, the existence of functions defined by recursion, and what `FlattenSeq`
returns. `MC*` modules hold what TLC needs (symmetry, constraints, the specification of the liveness
runs).

## 3. Runs

| run | question | instance |
|---|---|---|
| FileDownloader | `Covered`, `FinishedComplete`, `Exact` | 2 objects, 2 bytes, MaxRetry 1, `LongMax` 2 |
| FileDownloaderLive | `Flushed` under fairness | 2 objects, 2 bytes, `LongMax` 1 (so that a size read back differs), no crash, no link added again |
| FreeFileDownloader | `Prefix`, `FreeFinished` | 2 objects, 2 bytes |
| DLManager | `NoDuplicate`, `WaitsUnrun`, `Served`, `NamesKept`, `RunsStarted`, `StartsOnce`, `KeepsLifecycle` | 3 objects, 2 names, MaxDL 1, every user action, calls not overlapping |
| DLManagerThreads | `NoDuplicate`, `NamesKept`, `StartsOnce` | the same with overlap and failures, without add, stop and delete |
| DLManagerQueue | `WaitEnds` | a loaded list, files open |
| Instances | `OneInstance`, `Handed`, `Distinct` | 3 processes, 2 links, 2 file names |
| Persistence | `ListKept`, `TornFinished`, `Stable`, `CutLosesTheEnd`, `WidthKept` | all texts of up to 4 of 6 characters and files of two usual lines; 2 downloads of different kinds |
| Display | `InStep`, `PagesStay`, `ActsOnSelection`, `Converges`, and the functions: `BlocksShown`, `BlocksBlue`, `SizesFound`, `NamesFlat` | 2 names, 2 workers with one refresh each, 2 clicks, the timer |
| FileDownloaderStop | `StopHolds` is violated | |
| FileDownloaderNoRange | `Covered` is violated without a server that honours Range | |
| DLManagerMax | `StartsBelowMax` is violated | 4 objects, 3 names, MaxDL 2 |

### Bounds

- `MaxFile` (FileDownloader): no attempt begins on a file and stream this long. A
  worker appends the same bytes again after crashes and re-adds; the properties
  speak of sets of bytes or of orderly files, for which one repetition is enough.
- `Kept`, `Alone` (constraints): states after the history variable turned false
  are checked, not extended, because nothing is claimed of them.
- Two objects: a listed one and one whose worker was not waited for. `LongMax` 2 is
  the narrowest long in which the length fits.
- `Room`, `Unused`, `Pending` (DLManager): a start or a retry begins only while an
  identity for its copy is left. With two names and three objects one copy exists
  beside the full list. `MaxDepth` bounds stacks; no run reaches it.
- `Enough` (DLManagerThreads): with overlap two threads may retry one download;
  states with more copies under way than identities are not extended.
- `MaxRetry` 0 in DLManager still has the retries by the tail of `Entry`; counted
  retries saturate at `MaxRetry` because the code only compares the count with it.
- `MaxArgs`, `MaxLinks` (Instances): links of a command line; nothing is started
  while an instance holds that many. Three processes: the running one, the one
  whose message is handled, and one that arrives in its dialog.

- `MaxText` 4 (Persistence): an option and a comment with one-letter names, or a text
  that visits every state of the automaton and leaves it by every kind of character;
  `Lines` adds the usual layouts, two at a time. `Focus`: the list and the options are
  explored one at a time, because nothing but their order in `OnClose` links them;
  and what a session does with a torn list is not explored beyond its load.
- `Base` 4: a long has two digits, so that a number can be cut in the middle. Other
  fields are read whole or not at all. `Counts`: what an uninitialised `Count` holds.
  `MaxList` 2, `Total` 2 bytes.
- `MaxClicks` 2, `MaxReports` 1 (Display): enough to disturb a refresh with an addition
  and a deletion, and with the refresh of the other worker. `ticked`: a worker's refresh takes less than two seconds, so the timer,
  which fires once a second and skips when a refresh began less than one ago, gets in
  between once.
- `MaxTotal`, `MaxBlock`, `MaxWidth`, `MaxHeight`, `LongMax` (ProgressBlocks), `MaxHeader`,
  `MaxUrl` (Parser): inputs of the functions; every text of these lengths over the
  words they look for.

### Fairness

`FileDownloader!Fairness`: weak fairness of every worker; the operating system
schedules threads, and curl is taken to return in the end. (It is called without
a timeout, so a silent server can hold a slot for ever; this is an assumption.)
`DLManager!Fairness`: weak fairness of every worker's own steps, of the timer and of
the passing of time, and strong fairness of every thread's steps in the manager,
since the one-second timer leaves gaps in which another thread gets its turn to enter
(inside, a thread is never disabled, and strong fairness says no more than weak). The user owes nothing;
in the liveness runs the user does nothing after the start, because one who keeps
restarting a failing download can starve a waiting one. `Display!Spec`: weak fairness of
the timer, which the system sends each second, and of every worker's refresh; users and
downloads owe nothing, and their actions are bounded.

## 4. Findings

1. *Stop does not hold* (FileDownloaderStop). The worker of a stopped download goes
   through the `FFD_STOP` test at line 170 and reaches the last lines of `Entry`,
   which set RETRY; the retry loop starts it again. FileDownloader.h:40 says that
   stop pauses the download.
2. *A server that ignores Range* (FileDownloaderNoRange). The reply is appended at
   the position as if it began there.
3. *One too many* (DLManagerMax). The count compared with `MaxDL` at line 467 is
   that of the downloads that are **not** START.

Met while modelling and not given a run of their own:

- *START for ever.* When `fopen` fails, `Entry` returns (FileDownloader.cpp:138) and the
  download stays START: it cannot be started again and holds a slot, so that with
  `OpenFails` TRUE `Served` and `WaitEnds` do not hold (load two downloads with MaxDL 1;
  the first one's file does not open; the second waits for ever).
- *A stale index.* With `Overlap` TRUE and the user's actions, a worker's retry finds its
  index (DLManager.cpp:458), the GUI thread deletes an entry, and `List[i] = new ...`
  (line 488) replaces another download: `NamesKept` does not hold, nor do `NoDuplicate`,
  `WaitsUnrun`, `RunsStarted` and `Served`. The lock that line 430 logs is commented out.
- The option `FullScreen` is read (MainWindow.cpp:40) and `Fullscreen` is written (line
  349): the window never opens maximized because it was closed so.
- A comment of `config.cfg` that reads exactly like an option hides it from
  `WriteStringValue` (Config.cpp:204): the comment gets the value and the option keeps its
  old one (`Hidden`, the exception in `WidthKept`).
- `Config::Load` loses options with a name of one letter or an empty value, and a last
  comment without an end of line (Config.cpp:62-94, 113-123); `Stable` says that
  nothing is lost beyond that.
- A `downloads.cfg` cut short gives entries that are FINISH and never start again; the
  one cut inside its position may resume from a wrong place (`TornFinished`). From an
  empty file the number of entries is an uninitialised variable (DLManager.cpp:592).
- A page that a worker inserts for a download just deleted stays until rows and pages are
  made anew together, and the order of the rows may be lost (`Converges` claims neither).
- `ProgressBlocks` divides by the block size, which may be set to 0 in `config.cfg`, and
  by the number of blocks on a line, which is 0 in a window narrower than two blocks
  (lines 67-73). Near the largest long the product in line 86 overflows and blocks
  beyond the end are drawn blue. The first block is blue before anything arrived.
- The name in a URL keeps a leading backslash (`NamesFlat`), where line 80 of parser.cpp
  forgets the `+1` of line 75.
- The same last lines of `Entry` turn FINISH into RETRY, so a finished download is
  started again (Features.txt:18 lists this as perhaps corrected). The request then
  begins past the end of the resource and an error page may be appended.
- FINISH frees a slot before those lines run: a waiting download takes it, and the
  finished one is retried by force, so more than `MaxDL` are active.
- `DeleteDownload` frees a running object (Features.txt:27 reports crashes on stop).
- With `LongMax` below the length, `Exact` fails: the 2 GB bug of
  Features.txt:26.
- A process started while the first one loads, or exits, finds the mutex but no
  window: its link is lost (`Find`), although Features.txt:35 promises it.
- `GetFileSizeHTTP` gives -1 without a Content-Range header, and -1 is stored as size.

## 5. Proofs

Every theorem holds for all values of the constants, under the conditions of the table.

| module | theorems | conditions |
|---|---|---|
| FileDownloader | `TypeCorrect` | none |
| | `Inductive`, `NothingSkipped` (`Covered`), `FinishedIsComplete` (`FinishedComplete`), `ExactBytes` (`Exact`) | `RangeServer`, `Total <= LongMax` |
| FreeFileDownloader | `OneStream`, `FreeInductive`, `PrefixHolds` (`Prefix`), `FreeFinishedIsComplete` (`FreeFinished`), `FreeTypeCorrect` | the same |
| DLManager | `CallsAgree`, `TypeCorrect`, `NeverTwice` (`NoDuplicate`), `WaitingFresh` (`WaitsUnrun`), `StartedOnce` (`StartsOnce`), `NamesStay` (`NamesKept`), `RunsForListed` (`RunsStarted`), `LifecycleKept` (`KeepsLifecycle`) | `~Overlap` |
| | `AllServed` (`Served`) | `~Overlap`, `~OpenFails` |
| Instances | `TypesAndCalls`, `TypeCorrect`, `AllHanded` (`Handed`), `OnlyOne` (`OneInstance`), `NoTwoAlike` (`Distinct`) | none |
| Config | `TextIsLoaded`, `SaveLoads`, `CutText` | none |
| Persistence | `ListComesBack` (`ListKept`), `ConfigIsStable` (`Stable`), `CutConfig` (`CutLosesTheEnd`), `WidthComesBack` (`WidthKept`) | none |
| | `FileHolds`, `TornIsFinished` (`TornFinished`), `PersistenceTypeOK` (`TypeOK`) | `Total <= LongMax` |
| Display | `DisplayTypeOK` (`TypeOK`), `WindowInStep` (`InStep`), `EveryPageStays` (`PagesStay`), `ButtonsAct` (`ActsOnSelection`) | none |
| Parser | `NamesAreFlat`, `EveryName` (`NamesFlat`), `SizeIsFound`, `EverySize` (`SizesFound`) | none |
| ProgressBlocks | `BlocksReached`, `EveryBlock` (`BlocksShown`), `BlocksColoured`, `EveryColour` (`BlocksBlue`) | none |

`RangeServer` is needed (FileDownloaderNoRange shows why). `Total <= LongMax` is what the
arguments use at every conversion to a long: a size or position that does not fit is read
back as any number. `~Overlap` is what the lock that is commented out
(DLManager.cpp:430) would give: the section on findings says what fails without it. A
file that does not open leaves a download in START with nobody at work, hence
`~OpenFails`.

### FileDownloader

`Covered` alone is not inductive: it speaks of the listed object, but a copy takes its
position from an object whose worker is still counting, and a crash throws the streams
away. `IInv` adds: for every object, listed or not, the position is covered, FINISH is
covered, and the byte a worker is about to count is written (`Holds`); what
`downloads.cfg` claims is covered by the file alone while no close is in progress
(`SavedHolds(OnDisk)`); a thread that is idle has closed its stream, and sizes are one of
-2, -1, `Total` (`Shape`). `Exact` needs more than `IInv`, in fewer states: while
`orderly`, only the worker of the listed object runs, file and stream are the first
bytes up to the position (or one further, while that byte is counted), and the server
sends the byte after it (`Steady`).

### FreeFileDownloader

While `alone`, at most one worker is busy, the file is the beginning of the resource, its
stream goes on where the file ends, and the next byte from the server goes on where the
stream ends (`Lone`). So a stream may be lost: the next attempt starts from the end of
the file, not from a position that somebody counted. `Prefix` follows. `FreeFinished`
also needs the positions of all objects and of `downloads.cfg` to claim only what the
file has (`Claims`, while nothing was lost at the exit). `FreeTypeCorrect` says
`FreeSpec => [](alone => FreeTypeOK)`: without `alone` the ranges of `FreeTypeOK` follow
from `MaxFile`, which only bounds a run.

### DLManager

The statements are about list and statuses, but a frame on a stack acts on what its call
found before. `Inv` says what each frame may still rely on: the index found is that of
the object, the object is listed and may be started, or is START and was never run
(`Agrees`); which frames may be below which (`Shape`), and that the loop of the
constructor has yet to come to the objects below its index (`Ahead`). One call is inside
at a time (`Alone`), a worker's thread was run (`Threaded`), and `bAlreadyRun` is only
behind for the one call that is between `Run()` and its assignment (`Marked`).
`AtWork`, behind `Served`, says of every listed object in START that its worker has lines
left which change its status, or that a call on some stack is about to run it.

`LifecycleKept` maps the steps one by one: most change the status of one name, or none;
a copy has the name and the status of what it replaces; a deletion removes the
names of some objects, and `NoDuplicate` makes that one download for each name.

### Instances

`OneInstance` follows from the mutex (`AtMostOne`: one process is past the check and
has not gone). `Handed` is not inductive: `HandsAll` adds that at most one frame of a
process is a `Parse` and `AlreadyRun` says whether there is one, that this frame works on
the first entry of the stack, and that the stack is empty without it. What was received is
what was offered, what is left of the entry, and the entries behind it.

### Persistence

First, what a number becomes in the digits of a long and back (`DigitsBack`), what each
read of `LoadDownloads` returns inside a file and past its end, and where each entry
begins in what was saved (`BytesLaid`). `LoadReads` follows by induction on the entries:
those before the cut come back as they were, the one that is cut comes back as FINISH or
with a part of its position, those after it as FINISH. `Held`, the inductive invariant of
the sessions: the file is the beginning of what the last save writes, and file
and stream together are all of it while it is written.

### Config, and the options in Persistence

`Load` is an automaton, so its proofs run it. A slot is legible (`Legible`) when `Load`
can have made it: a comment has no end of line in it, a name has at least two characters
and does not begin with "#", a value has at least one, and neither holds a character that
would have ended it. Three facts go by induction over a text: whatever it is, the slots
that `Load` collects are legible (`SoundText`); from a state between two lines, the line
of a legible slot appends exactly that slot (`LineRun`); and a beginning of such a line
appends nothing, or a slot with a part of the value. Induction over the slots (`Restores`)
makes `TextIsLoaded` and `CutText` of the last two, and with the first they give
`SaveLoads`. `OptionsHeld`, the inductive invariant of the sessions: the slots in memory
are legible, whichever options were missing and added or were changed; file and stream
together are what `Save` writes while it writes; and after an orderly exit the file shows
the width that was saved, or hides it behind a comment.

### Display

As long as `raced` is FALSE at most one worker is inside a refresh, and nothing but this
worker has moved since it entered. `Inv` is `Typed /\ (~raced => Tidy)`. `Typed` has the
types, and that the list has no name twice. `Tidy` says that rows and pages have the
names of the list in reverse order, that the busy worker goes through the list (it never
finds a row or a page missing), and that every row shows its status, except those that
this worker has yet to come to; when it is done there are none of these. An operation of
the GUI thread goes through whole refreshes: `RefreshedMirrors` says what a refresh makes
of rows whose number is wrong, or which mirror the list already. For a deletion,
`CountsOnce`: as many pages are taken away as objects, at the places which mirror each
other, so the refresh after it keeps the pages. The start button's loop is an induction
over its turns: each leaves the names of tidy rows and their selection as they are. When
the rows are not tidy, `ButtonsAct` still says that no download is started whose row was
not selected: a refresh keeps a row with its selection or makes a new one that is not
selected (`RowsIn`).

### Parser

`LastFound` and `FirstFound` say which place a search returns. `SizeIsFound` puts them
together for a header that ends in a complete reply (`LastRange`) and says when there is
no size (`NoRange`), `NamesAreFlat` for what is behind the last separator of a link (`NameOfUrl`).
Both hold for every length: `MaxHeader` and `MaxUrl` only bound the run.

### ProgressBlocks

`BlocksReached` and `BlocksColoured` are about the operators alone; the constants
are only the bounds of their inputs, so they hold for all sizes. The lemmas are about
quotients and products, and about products that stay within a long.

### Only model-checked

- `Flushed`, `WaitEnds`, `Converges`: liveness under fairness is out of the prover's reach.
- DLManager with overlapping calls (`NoDuplicate`, `NamesKept`, `StartsOnce` in
  DLManagerThreads): the proofs rest on `Alone`.

Every other property of the passing runs, invariant or action property, is a theorem.

## 6. Not modelled, and the plan

Not modelled, and why:

- The vendored libraries (`src/lib`: libcurl with its tools and tests, wxFlatNotebook, ...),
  nearly all of the repository's lines. They are third-party code; curl, wxThread and
  the controls are modelled as `src/Src` uses them, and marked external.
- The sizes of widgets, colours, columns, the gauge, the tray icon, the log window,
  iconizing: they show or hide what others hold.
- Speeds, the remaining time, messages, error codes, `StateData`: nothing reads them
  but the display.
- `LanguageManager`: a table read once through `Config::Load`, before any thread runs.
- `Parser::IsValidLink` and `IsFreeLink`: a comparison with a prefix.
- `DLManager::UpdateBlocks`: nobody calls it. `thread.cpp`: not part of the program.

The order was chosen by importance: the data of a download, scheduling, free links, start
of the program; then what is kept between sessions, the display and the functions; then
the proofs, in the same order. Left:

1. Display and DLManager in one instance, with the statuses the scheduler sets.
2. What DLManager keeps when calls overlap (`NoDuplicate`, `NamesKept` and `StartsOnce`
   without the user's actions), proved without `Alone`.
