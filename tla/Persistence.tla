---------------------------- MODULE Persistence ----------------------------
(***************************************************************************)
(* What the program keeps from one session to the next: config.cfg, read   *)
(* by OnInit, and downloads.cfg, read by the constructor of DLManager.     *)
(* Both are written by OnClose alone, one after the other, over the old    *)
(* file ("w"), through a stream: a process that dies in between leaves a   *)
(* file cut short, or empty.                                               *)
(*                                                                         *)
(* Of the options, one stands for those the program reads and writes back  *)
(* (Width: the size of the window and of the columns), and one pair for    *)
(* the option that is read under one name and written under another.       *)
(* Numbers have one digit.                                                 *)
(***************************************************************************)
EXTENDS DownloadStore, Config

CONSTANTS Texts,     \* what config.cfg may hold when the program is first started
          New,       \* downloads that the user may add
          Total,     \* the size of every resource
          Counts,    \* values that an uninitialised Count may have
          MaxList    \* bound: downloads listed at once

ASSUME ConstantsAssumption ==
  /\ Base \in Nat \ {0, 1}
  /\ Base % 2 = 0
  /\ Junk \in Int
  /\ New \subseteq Downloads
  /\ Total \in Nat \ {0}
  /\ Counts \subseteq Nat
  /\ Texts \subseteq Seq(STRING)
  /\ MaxList \in Nat

VARIABLES
  pc,        \* "off", "up", or the file that OnClose is writing
  List,      \* DLManager::List
  Values,    \* Config::Values
  width,     \* the width of the window
  maximized, \* IsMaximized()
  store,     \* downloads.cfg on disk
  config,    \* config.cfg on disk
  out,       \* what the stream of the file being written still holds
  listed,    \* history: the list last saved, and whether it is all in the file
  sized      \* history: the width last saved, or NoSave

files == <<store, config, out>>
vars == <<pc, List, Values, width, maximized, files, listed, sized>>

NoSave == [never |-> TRUE]

Width            == <<"w", "i">>
FullScreenRead    == <<"f", "S">>   \* "FullScreen", which the constructor reads
FullscreenWritten == <<"f", "s">>   \* "Fullscreen", which OnClose writes
DefaultWidth == 1

\* atoi of a value, and "%d" of a number.
AtoI(value) == IF value # <<>> /\ Head(value) = "1" THEN 1 ELSE 0
ToText(n)   == IF n = 1 THEN <<"1">> ELSE <<"0">>

TypeOK ==
  /\ pc \in {"off", "up", "downloads", "config"}
  /\ \A i \in DOMAIN List : List[i].Status \in {"STOP", "FINISH"}
  /\ width \in {0, 1}
  /\ maximized \in BOOLEAN
  /\ store \in Seq(Int)
  /\ \A i \in DOMAIN Values : Values[i].IsCom \in BOOLEAN
  /\ listed.whole \in BOOLEAN
  /\ pc \in {"off", "up"} => out = <<>>

\* A first start: no downloads.cfg, which reads like one with no downloads, and
\* whatever the user put in config.cfg.
Init ==
  /\ pc = "off"
  /\ List = <<>>
  /\ Values = <<>>
  /\ width = DefaultWidth
  /\ maximized = FALSE
  /\ store = <<0>>
  /\ config \in Texts
  /\ out = <<>>
  /\ listed = [list |-> <<>>, whole |-> TRUE]
  /\ sized = NoSave
-----------------------------------------------------------------------------
\* The options a start reads: those that are missing are added with a default.
WithDefaults(values) ==
  ReadOrDefault(ReadOrDefault(values, Width, ToText(DefaultWidth)),
                  FullScreenRead, ToText(0))

\* OnInit: the options, the window, then the manager and its list.
Launch ==
  /\ pc = "off"
  /\ pc' = "up"
  /\ Values' = WithDefaults(Load(config))
  /\ width' = AtoI(Value(Values', Width))
  /\ maximized' = (AtoI(Value(Values', FullScreenRead)) # 0)
  /\ \E count \in Counts : List' = LoadDownloads(store, count)
  /\ UNCHANGED <<files, listed, sized>>

\* The user adds a download, resizes the window, or removes a download.
AddDownload(d) ==
  /\ pc = "up"
  /\ Len(List) < MaxList
  /\ \A i \in DOMAIN List : List[i].pLink # d.pLink /\ List[i].pFileName # d.pFileName
  /\ List' = Append(List, d)
  /\ UNCHANGED <<pc, Values, width, maximized, files, listed, sized>>

DeleteDownload(i) ==
  /\ pc = "up"
  /\ i \in DOMAIN List
  /\ List' = RemoveAt(List, i)
  /\ UNCHANGED <<pc, Values, width, maximized, files, listed, sized>>

Resize ==
  /\ pc = "up"
  /\ width' = 1 - width
  /\ maximized' \in BOOLEAN
  /\ UNCHANGED <<pc, List, Values, files, listed, sized>>

\* Data of a download arrives, the last one makes it complete.
Progress(i) ==
  /\ pc = "up"
  /\ i \in DOMAIN List
  /\ List[i].iDataPos < Total
  /\ List' = [List EXCEPT ![i].iFileSize = Total,
                          ![i].iDataPos = @ + 1,
                          ![i].Status = IF List[i].iDataPos + 1 = Total THEN "FINISH"
                                        ELSE "STOP"]
  /\ UNCHANGED <<pc, Values, width, maximized, files, listed, sized>>
-----------------------------------------------------------------------------
\* OnClose, then SaveDownloads opens its file, and empties it; if it cannot, the old
\* one stays.
SaveDownloads ==
  /\ pc = "up"
  /\ pc' = "downloads"
  /\ \/ store' = <<>> /\ out' = Bytes(List)
     \/ UNCHANGED <<store, out>>
  /\ listed' = IF store' = <<>> THEN [list |-> List, whole |-> FALSE] ELSE listed
  /\ UNCHANGED <<List, Values, width, maximized, config, sized>>

\* The stream of the open file reaches the disk, at the pace of the C library.
Write ==
  /\ pc \in {"downloads", "config"}
  /\ out # <<>>
  /\ out' = Tail(out)
  /\ IF pc = "downloads" THEN store' = Append(store, Head(out)) /\ UNCHANGED config
     ELSE config' = Append(config, Head(out)) /\ UNCHANGED store
  /\ UNCHANGED <<pc, List, Values, width, maximized, listed, sized>>

\* What OnClose writes back.
Closing ==
  WriteStringValue(WriteStringValue(Values, Width, ToText(width)),
                     FullscreenWritten, ToText(IF maximized THEN 1 ELSE 0))

\* Wrong on purpose (each operator "...Wrong" is a plausible bug that a property
\* of this module must detect): the old options are not thrown away first ("a" instead of "w").
SaveConfigWrong ==
  /\ pc = "downloads"
  /\ out = <<>>
  /\ pc' = "config"
  /\ Values' = Closing
  /\ out' = Text(Closing)
  /\ listed' = [listed EXCEPT !.whole = @ \/ store = Bytes(listed.list)]
  /\ sized' = NoSave
  /\ UNCHANGED <<List, width, maximized, store, config>>

\* fclose, the options that OnClose sets, and Config::Save opens its file, which
\* it empties.  (If it cannot, fclose(NULL) ends the process: Crash.)
SaveConfig ==
  /\ pc = "downloads"
  /\ out = <<>>
  /\ pc' = "config"
  /\ Values' = Closing
  /\ config' = <<>>
  /\ out' = Text(Closing)
  /\ listed' = [listed EXCEPT !.whole = @ \/ store = Bytes(listed.list)]
  /\ sized' = NoSave
  /\ UNCHANGED <<List, width, maximized, store>>

\* Wrong: what a stream holds is kept for the next start.
GoneWrong ==
  /\ pc' = "off"
  /\ List' = <<>>
  /\ Values' = <<>>
  /\ width' = DefaultWidth
  /\ maximized' = FALSE
  /\ UNCHANGED <<store, config, out, listed>>

\* The process is gone, and what its stream held with it.
Gone ==
  /\ pc' = "off"
  /\ List' = <<>>
  /\ Values' = <<>>
  /\ width' = DefaultWidth
  /\ maximized' = FALSE
  /\ out' = <<>>
  /\ UNCHANGED <<store, config, listed>>

\* exit(0), with the second file closed.
Exit ==
  /\ pc = "config"
  /\ out = <<>>
  /\ sized' = [width |-> width]
  /\ Gone

Crash ==
  /\ pc # "off"
  /\ UNCHANGED sized
  /\ Gone

Next ==
  \/ Launch \/ Resize
  \/ \E d \in New : AddDownload(d)
  \/ \E i \in 1 .. MaxList : DeleteDownload(i) \/ Progress(i)
  \/ SaveDownloads \/ Write \/ SaveConfig \/ Exit \/ Crash

Spec == Init /\ [][Next]_vars
-----------------------------------------------------------------------------
(***************************************************************************)
(* A list whose save came to its end is read back as it was, whatever      *)
(* happened to the program and to the save of the options since: every     *)
(* download with its kind, link, name, size and position, and complete if  *)
(* and only if it was.                                                     *)
(***************************************************************************)
ListKept ==
  listed.whole /\ Total <= LongMax =>
    \A count \in Counts : LoadDownloads(store, count) = listed.list

(***************************************************************************)
(* LoadDownloads does not notice that SaveDownloads was cut short.  What   *)
(* was written is read back, and each of the other entries, put together   *)
(* from what is there and what the variables held, is FINISH: nothing ever *)
(* starts it, although the download it stands for may not be complete.     *)
(* Only the entry that is cut in the middle of its position may be         *)
(* anything, a download that goes on from a wrong place for instance.      *)
(***************************************************************************)
TornFinished ==
  ~listed.whole /\ store # <<>> =>
    LET dls == LoadDownloads(store, 0)
    IN /\ Len(dls) = Len(listed.list)
       /\ Cardinality({i \in DOMAIN dls :
                          dls[i] # listed.list[i] /\ dls[i].Status # "FINISH"}) <= 1

(***************************************************************************)
(* What Load understands of a file, Save writes so that Load understands   *)
(* the same: a session in which nothing is changed loses no option and no  *)
(* comment, however the user laid out the file.                            *)
(***************************************************************************)
Stable == Load(Text(Load(config))) = Load(config)

(***************************************************************************)
(* The width of the window is what it was when the program was last closed *)
(* in order (unless a comment of config.cfg reads exactly like the option: *)
(* WriteStringValue then changes the comment).                             *)
(***************************************************************************)
WidthKept ==
  [][ pc = "off" /\ pc' = "up" /\ sized # NoSave
        => width' = sized.width \/ Hidden(Values', Width) ]_vars

(***************************************************************************)
(* A save of the options that is cut short loses those after the cut and   *)
(* no other: all but the last one of what is left read as they were.       *)
(***************************************************************************)
CutLosesTheEnd ==
  pc = "config" =>
    LET slots == Load(config)
    IN /\ Len(slots) <= Len(Values)
       /\ \A i \in 1 .. Len(slots) - 1 : Line(slots[i]) = Line(Values[i])
=============================================================================
