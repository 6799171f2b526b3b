------------------------------ MODULE Display ------------------------------
(***************************************************************************)
(* What the main window shows of the list of downloads: one row in the     *)
(* list control and one page in the notebook for every download, both      *)
(* found by file name, the newest first.                                   *)
(*                                                                         *)
(* Buttons and timer run on the GUI thread, which nothing interrupts: each *)
(* is one action, with every refresh that it makes.  A worker refreshes    *)
(* from its own thread (UpdateScreen(true)): each of its calls on a control*)
(* waits for its turn in the GUI thread, and anything may happen between   *)
(* two of them.                                                            *)
(*                                                                         *)
(* What UpdateScreen schedules is in DLManager; here a status changes when *)
(* a worker reports.  A row shows one field, its status.                   *)
(***************************************************************************)
EXTENDS Integers, FiniteSets, SequencesExt

CONSTANTS Names,      \* file names of downloads
          Workers,    \* threads that refresh the screen
          MaxClicks,  \* bound: operations of the user
          MaxReports  \* bound: refreshes by every worker

ASSUME ConstantsAssumption ==
  /\ IsFiniteSet(Names)
  /\ MaxClicks \in Nat
  /\ MaxReports \in Nat

VARIABLES
  List,    \* the file names of DLManager::List
  status,  \* the status of the download of every name
  rows,    \* mList, from the top
  pages,   \* mNotebook without its first page, from the left; `made': the number of
           \* clicks when the page was made, which tells it from a later one
  task,    \* where the refresh of every worker is
  ticked,  \* the workers during whose refresh the timer fired
  clicks,  \* operations the user has made
  reports, \* refreshes that every worker has begun
  raced,   \* history: something else happened while a worker refreshed
  did      \* history: the operation just made, and the names of the rows selected

vars == <<List, status, rows, pages, task, ticked, clicks, reports, raced, did>>

Statuses == {"STOP", "START"}

Row(n, shown) == [name |-> n, shown |-> shown, selected |-> FALSE]
Page(n, when) == [name |-> n, made |-> when]

NamesOf(seq) == {seq[k].name : k \in DOMAIN seq}

Nothing == [op |-> "none", names |-> {}]

Idle    == [at |-> "idle"]
To(l)   == [at |-> l]
Draw(i) == [at |-> "draw", i |-> i]
Doing(l, i, n, item) == [at |-> l, i |-> i, name |-> n, item |-> item]

\* The workers that refresh the screen.
Busy == {w \in Workers : task[w] # Idle}

TypeOK ==
  /\ List \in Seq(Names)
  /\ status \in [Names -> Statuses]
  /\ \A k \in DOMAIN rows :
       /\ rows[k].name \in Names
       /\ rows[k].shown \in Statuses \cup {""}
       /\ ~rows[k].selected
  /\ \A k \in DOMAIN pages : pages[k].name \in Names /\ pages[k].made \in 0 .. clicks
  /\ \A w \in Workers : task[w].at \in {"idle", "count", "clear", "pages", "drop", "draw",
                                       "row", "insert", "text", "page", "insertpage"}
  /\ ticked \subseteq Busy
  /\ clicks \in 0 .. MaxClicks
  /\ reports \in [Workers -> 0 .. MaxReports]
  /\ raced \in BOOLEAN

RowsOf(rs, n) == {k \in DOMAIN rs : rs[k].name = n}

\* UpdateOnce looks at every row and keeps the last of that name, 0 if there is none.
LastRow(rs, n) ==
  IF RowsOf(rs, n) = {} THEN 0
  ELSE CHOOSE k \in RowsOf(rs, n) : \A j \in RowsOf(rs, n) : j <= k
-----------------------------------------------------------------------------
(***************************************************************************)
(* A refresh on the GUI thread, from the rows rs and the pages ps.  A list *)
(* has no name twice, so the turns of the loop do not disturb each other.  *)
(***************************************************************************)
\* The names of the list for which there is nothing, each put in front of the others.
Missing(list, there) ==
  LET new[n \in 0 .. Len(list)] ==
        IF n = 0 THEN <<>>
        ELSE IF list[n] \in there THEN new[n - 1] ELSE <<list[n]>> \o new[n - 1]
  IN new[Len(list)]

\* A sequence without the elements at some places.
Without(seq, places) ==
  LET kept[n \in 0 .. Len(seq)] ==
        IF n = 0 THEN <<>>
        ELSE IF n \in places THEN kept[n - 1] ELSE Append(kept[n - 1], seq[n])
  IN kept[Len(seq)]

\* Wrong on purpose (each operator "...Wrong" is a plausible bug that a property
\* of this module must detect): rows are never taken away.
RefreshedLessWrong(rs, list, st) ==
  LET new == Missing(list, NamesOf(rs))
  IN [i \in DOMAIN new |-> Row(new[i], st[new[i]])] \o
     [k \in DOMAIN rs |-> [rs[k] EXCEPT !.shown = st[rs[k].name]]]

\* Wrong: the rows are made anew each time.
RefreshedWrong(rs, list, st) ==
  Reverse([i \in DOMAIN list |-> Row(list[i], st[list[i]])])

\* The rows are made anew when their number is not that of the downloads.  A row that
\* is missing is inserted at the top, and one that is there is filled in.
Refreshed(rs, list, st) ==
  LET base == IF Len(rs) = Len(list) THEN rs ELSE <<>>
      new  == Missing(list, NamesOf(base))
  IN [i \in DOMAIN new |-> Row(new[i], st[new[i]])] \o
     [k \in DOMAIN base |->
        IF base[k].name \in Range(list) /\ k = LastRow(base, base[k].name)
        THEN [base[k] EXCEPT !.shown = st[base[k].name]] ELSE base[k]]

\* The pages are made anew with the rows, when their number is wrong as well; one that
\* is missing is inserted in front.
Paged(ps, rs, list, when) ==
  LET base == IF Len(rs) = Len(list) \/ Len(ps) = Len(list) THEN ps ELSE <<>>
      new  == Missing(list, NamesOf(base))
  IN [i \in DOMAIN new |-> Page(new[i], when)] \o base

UpdateScreen(s, list) ==
  [s EXCEPT !.rows = Refreshed(s.rows, list, s.status),
            !.pages = Paged(s.pages, s.rows, list, s.clicks)]

Screen == [rows |-> rows, pages |-> pages, status |-> status, clicks |-> clicks']

\* What the handler leaves; the selection is made before the next click.
Shows(screen) ==
  \E s \in {screen} :
    /\ rows' = [k \in DOMAIN s.rows |-> [s.rows[k] EXCEPT !.selected = FALSE]]
    /\ pages' = s.pages
    /\ status' = s.status

\* AttachDLManager: the first refresh, of a list that was loaded.
Init ==
  /\ List \in {l \in UNION {[1 .. n -> Names] : n \in 0 .. Cardinality(Names)} :
                 \A i, j \in DOMAIN l : l[i] = l[j] => i = j}
  /\ status = [n \in Names |-> "STOP"]
  /\ rows = Refreshed(<<>>, List, status)
  /\ pages = Paged(<<>>, <<>>, List, 0)
  /\ task = [w \in Workers |-> Idle]
  /\ ticked = {}
  /\ clicks = 0
  /\ reports = [w \in Workers |-> 0]
  /\ raced = FALSE
  /\ did = Nothing
-----------------------------------------------------------------------------
\* One click, while the workers are wherever they are.
Click(op, names) ==
  /\ clicks < MaxClicks
  /\ clicks' = clicks + 1
  /\ did' = [op |-> op, names |-> names]
  /\ raced' = (raced \/ Busy # {})
  /\ UNCHANGED <<task, ticked, reports>>

\* The page is inserted before the refresh, which then keeps the pages.
AddDownload(n) ==
  /\ n \notin Range(List)
  /\ Click("add", {n})
  /\ List' = Append(List, n)
  /\ Shows(UpdateScreen([Screen EXCEPT !.pages = <<Page(n, clicks')>> \o @,
                                      !.status[n] = "STOP"], List'))

Selected(S) == [k \in DOMAIN rows |-> [rows[k] EXCEPT !.selected = k \in S]]
NamesAt(S)  == {rows[k].name : k \in S}

\* DLManager::StartDownload(link): a download that is stopped is started, which
\* refreshes the screen, and the screen is refreshed.
StartDownload(s, n) ==
  IF n \notin Range(List) THEN s
  ELSE LET started == UpdateScreen([s EXCEPT !.status[n] = "START"], List)
       IN UpdateScreen(IF s.status[n] = "STOP" THEN started ELSE s, List)

\* The loop over the rows reads them, and whether they are selected, again after
\* every refresh, which leaves at most two rows for each download.
Turns == Len(rows) + 2 * Len(List)

StartButton(S) ==
  /\ Click("start", NamesAt(S))
  /\ LET turn[k \in 0 .. Turns] ==
           IF k = 0 THEN [Screen EXCEPT !.rows = Selected(S)]
           ELSE LET s == turn[k - 1]
                IN IF k \in DOMAIN s.rows /\ s.rows[k].selected
                   THEN StartDownload(s, s.rows[k].name) ELSE s
     IN Shows(turn[Turns])
  /\ UNCHANGED List

StopButton(S) ==
  /\ Click("stop", NamesAt(S))
  /\ LET stopped == NamesAt(S) \cap Range(List)
     IN Shows(UpdateScreen([Screen EXCEPT !.status = [n \in Names |->
                              IF n \in stopped THEN "STOP" ELSE @[n]]], List))
  /\ UNCHANGED List

\* Where the list has these names.
PlacesOf(names) == {i \in DOMAIN List : List[i] \in names}

\* Wrong: the pages of the deleted downloads stay.
DeleteButtonWrong(S) ==
  /\ Click("delete", NamesAt(S))
  /\ List' = Without(List, PlacesOf(NamesAt(S)))
  /\ Shows(UpdateScreen([Screen EXCEPT !.rows = Selected({})], List'))

\* The first page of every deleted download is removed, then the screen is refreshed.
DeleteButton(S) ==
  /\ Click("delete", NamesAt(S))
  /\ List' = Without(List, PlacesOf(NamesAt(S)))
  /\ LET gone == {k \in DOMAIN pages : /\ pages[k].name \in NamesAt(S) \cap Range(List)
                                       /\ \A j \in 1 .. k - 1 : pages[j].name # pages[k].name}
     IN Shows(UpdateScreen([Screen EXCEPT !.pages = Without(pages, gone)], List'))

\* Wrong: the time of the last refresh is compared the wrong way round.
OnTimerWrong ==
  /\ raced' = (raced \/ Busy # {})
  /\ did' = Nothing
  /\ UNCHANGED <<List, status, rows, pages, task, ticked, clicks, reports>>

\* OnTimer, once a second, which refreshes unless a refresh, of any thread, began less
\* than a second ago.  Bound: a worker's refresh takes less than two seconds, so that
\* at most one refresh by the timer falls into it.
OnTimer ==
  /\ ticked = {}
  /\ ticked' = Busy
  /\ clicks' = clicks
  /\ Shows(UpdateScreen(Screen, List))
  /\ raced' = (raced \/ Busy # {})
  /\ did' = Nothing
  /\ UNCHANGED <<List, task, reports>>
-----------------------------------------------------------------------------
(***************************************************************************)
(* A worker's refresh, call by call.  It holds the object it draws, even if*)
(* that is deleted meanwhile: memory that was freed still reads as it was. *)
(***************************************************************************)
Goes(w, t) ==
  /\ task' = [task EXCEPT ![w] = t]
  /\ ticked' = IF t = Idle THEN ticked \ {w} ELSE ticked
  /\ raced' = (raced \/ Busy \ {w} # {})
  /\ did' = Nothing
  /\ UNCHANGED <<List, clicks>>

\* Something happens to a download, and its worker refreshes the screen.
Report(w, n) ==
  /\ task[w] = Idle
  /\ n \in Range(List)
  /\ reports[w] < MaxReports
  /\ reports' = [reports EXCEPT ![w] = @ + 1]
  /\ status' = [status EXCEPT ![n] = IF @ = "STOP" THEN "START" ELSE "STOP"]
  /\ Goes(w, To("count"))
  /\ UNCHANGED <<rows, pages>>

CountRows(w) ==
  /\ task[w].at = "count"
  /\ Goes(w, IF Len(rows) = Len(List) THEN Draw(1) ELSE To("clear"))
  /\ UNCHANGED <<rows, pages, status, reports>>

DeleteAllItems(w) ==
  /\ task[w].at = "clear"
  /\ rows' = <<>>
  /\ Goes(w, To("pages"))
  /\ UNCHANGED <<pages, status, reports>>

CountPages(w) ==
  /\ task[w].at = "pages"
  /\ Goes(w, IF Len(pages) = Len(List) THEN Draw(1) ELSE To("drop"))
  /\ UNCHANGED <<rows, pages, status, reports>>

DeletePage(w) ==
  /\ task[w].at = "drop"
  /\ pages # <<>>
  /\ pages' = Tail(pages)
  /\ Goes(w, To("drop"))
  /\ UNCHANGED <<rows, status, reports>>

PagesDeleted(w) ==
  /\ task[w].at = "drop"
  /\ pages = <<>>
  /\ Goes(w, Draw(1))
  /\ UNCHANGED <<rows, pages, status, reports>>

\* The next object of the list.
NextObject(w) ==
  /\ task[w].at = "draw"
  /\ LET i == task[w].i
     IN Goes(w, IF i > Len(List) THEN Idle ELSE Doing("row", i, List[i], 0))
  /\ UNCHANGED <<rows, pages, status, reports>>

FindRow(w) ==
  /\ task[w].at = "row"
  /\ LET item == LastRow(rows, task[w].name)
     IN Goes(w, [task[w] EXCEPT !.at = IF item = 0 THEN "insert" ELSE "text", !.item = item])
  /\ UNCHANGED <<rows, pages, status, reports>>

\* Wrong: a row is inserted without its name.
InsertItemWrong(w) ==
  /\ task[w].at = "insert"
  /\ rows' = <<Row("", "")>> \o rows
  /\ Goes(w, [task[w] EXCEPT !.at = "text", !.item = 1])
  /\ UNCHANGED <<pages, status, reports>>

InsertItem(w) ==
  /\ task[w].at = "insert"
  /\ rows' = <<Row(task[w].name, "")>> \o rows
  /\ Goes(w, [task[w] EXCEPT !.at = "text", !.item = 1])
  /\ UNCHANGED <<pages, status, reports>>

\* The row with the index found before, whichever it is now.
SetItem(w) ==
  /\ task[w].at = "text"
  /\ rows' = [k \in DOMAIN rows |->
                IF k = task[w].item THEN [rows[k] EXCEPT !.shown = status[task[w].name]]
                ELSE rows[k]]
  /\ Goes(w, [task[w] EXCEPT !.at = "page", !.item = 0])
  /\ UNCHANGED <<pages, status, reports>>

FindPage(w) ==
  /\ task[w].at = "page"
  /\ Goes(w, IF task[w].name \in NamesOf(pages) THEN Draw(task[w].i + 1)
              ELSE [task[w] EXCEPT !.at = "insertpage"])
  /\ UNCHANGED <<rows, pages, status, reports>>

InsertPage(w) ==
  /\ task[w].at = "insertpage"
  /\ pages' = <<Page(task[w].name, clicks)>> \o pages
  /\ Goes(w, Draw(task[w].i + 1))
  /\ UNCHANGED <<rows, status, reports>>

Refresh(w) ==
  \/ CountRows(w) \/ DeleteAllItems(w) \/ CountPages(w) \/ DeletePage(w) \/ PagesDeleted(w)
  \/ NextObject(w) \/ FindRow(w) \/ InsertItem(w) \/ SetItem(w) \/ FindPage(w) \/ InsertPage(w)

User ==
  \/ \E n \in Names : AddDownload(n)
  \/ \E S \in SUBSET (DOMAIN rows) \ {{}} : StartButton(S) \/ StopButton(S) \/ DeleteButton(S)

Next ==
  \/ User \/ OnTimer
  \/ \E w \in Workers : Refresh(w) \/ \E n \in Names : Report(w, n)

\* A refresh that began goes on, and the timer fires.
Spec == Init /\ [][Next]_vars /\ WF_vars(OnTimer) /\ \A w \in Workers : WF_vars(Refresh(w))
-----------------------------------------------------------------------------
(***************************************************************************)
(* As long as no refresh was disturbed, the window shows the list: rows and*)
(* pages are those of the downloads, the newest first, with their status.  *)
(* (After AddDownload, which inserts the page before the row, and after    *)
(* DeleteDownload, which takes away the page and leaves the row.)          *)
(***************************************************************************)
InStep ==
  ~raced /\ Busy = {} =>
    /\ rows = Reverse([i \in DOMAIN List |-> Row(List[i], status[List[i]])])
    /\ [k \in DOMAIN pages |-> pages[k].name] = Reverse(List)

(***************************************************************************)
(* The page that the user looks at stays: no refresh replaces the page of  *)
(* a download that stays in the list, as long as none was disturbed.       *)
(***************************************************************************)
PagesStay ==
  [][~raced' => \A k \in DOMAIN pages :
        pages[k].name \in Range(List') => \E j \in DOMAIN pages' : pages'[j] = pages[k]]_vars

(***************************************************************************)
(* A button acts on the downloads whose rows were selected and on no other,*)
(* whatever the refreshes in between do to the rows.  Start is the weakest:*)
(* when it finds the rows disturbed, it makes them anew, and the selection *)
(* is lost with those that are left.                                       *)
(***************************************************************************)
ActsOnSelection ==
  [][ clicks' # clicks =>
        LET chosen == did'.names
        IN CASE did'.op = "delete" -> Range(List') = Range(List) \ chosen
             [] did'.op = "stop"   -> \A n \in Range(List) : status'[n] =
                                        IF n \in chosen THEN "STOP" ELSE status[n]
             [] did'.op = "start"  -> \A n \in Range(List) :
                                        /\ n \in chosen /\ ~raced' => status'[n] = "START"
                                        /\ n \notin chosen => status'[n] = status[n]
             [] OTHER -> TRUE ]_vars

(***************************************************************************)
(* Whatever the refreshes of several threads made of the window, in the end*)
(* (the user and the downloads at rest) it has one row for each download,  *)
(* which shows its status, and a page for each.  Their order may be lost,  *)
(* and pages of deleted downloads may stay: the pages are only made anew   *)
(* together with the rows.                                                 *)
(***************************************************************************)
Converges ==
  <>[] /\ Len(rows) = Len(List)
       /\ \A n \in Range(List) : \E k \in DOMAIN rows : rows[k] = Row(n, status[n])
       /\ Range(List) \subseteq NamesOf(pages)
=============================================================================
