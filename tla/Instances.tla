------------------------------ MODULE Instances ------------------------------
(***************************************************************************)
(* The program's processes and the links given to them as arguments.       *)
(*                                                                         *)
(* A process that finds another one running (wxSingleInstanceChecker)      *)
(* hands its arguments to the other's window in a WM_COPYDATA message and  *)
(* exits; a first one opens a window and handles its own arguments.  Both  *)
(* ways end in ArgumentParser::Parse, which offers every link in a modal   *)
(* dialog.  A modal dialog dispatches messages, so Parse can be entered    *)
(* again while it is at work: AlreadyRun and DLManager::Stack are there    *)
(* for that.  The stack of calls of each GUI thread is kept in `frames'.   *)
(***************************************************************************)
EXTENDS Naturals, Sequences, FiniteSets, SequencesExt

CONSTANTS Procs,     \* processes the user starts
          Links,     \* valid links
          Files,     \* file names
          Blank,     \* the empty text of a field
          MaxArgs,   \* bound: links on one command line
          MaxLinks   \* bound: nothing is started while an instance holds so many

ASSUME ConstantsAssumption ==
  /\ Blank \notin Links \cup Files
  /\ MaxArgs \in Nat
  /\ MaxLinks \in Nat

VARIABLES
  pc,          \* how far each process is in OnInit
  args,        \* its command line
  target,      \* the process whose window it found
  Stack,       \* DLManager::Stack, an argument list per entry
  AlreadyRun,  \* of ArgumentParser
  frames,      \* the calls in progress on its GUI thread, top first
  List,        \* link and file name of the manager's downloads
  received,    \* history: the links put on Stack
  offered      \* history: the links shown in a dialog by Parse

vars == <<pc, args, target, Stack, AlreadyRun, frames, List, received, offered>>

ArgLists == UNION {[1 .. n -> Links] : n \in 0 .. MaxArgs}

Dialog == [at |-> "dialog"]
Parse(from, arg, rest) == [at |-> "parse", from |-> from, arg |-> arg, rest |-> rest]

Frames == {Dialog} \cup [at : {"parse"}, from : Procs, arg : ArgLists, rest : Seq(Links)]

TypeOK ==
  /\ pc \in [Procs -> {"off", "Check", "Find", "Send", "Wait", "Load", "Window", "Run"}]
  /\ args \in [Procs -> ArgLists]
  /\ target \in [Procs -> Procs]
  /\ Stack \in [Procs -> Seq(ArgLists)]
  /\ AlreadyRun \in [Procs -> BOOLEAN]
  /\ frames \in [Procs -> Seq(Frames)]
  /\ List \in SUBSET [link : Links, file : Files]
  /\ received \in [Procs -> Seq(Links)]
  /\ offered \in [Procs -> Seq(Links)]

Init ==
  /\ pc = [p \in Procs |-> "off"]
  /\ args = [p \in Procs |-> <<>>]
  /\ target = [p \in Procs |-> p]
  /\ Stack = [p \in Procs |-> <<>>]
  /\ AlreadyRun = [p \in Procs |-> FALSE]
  /\ frames = [p \in Procs |-> <<>>]
  /\ List = {}
  /\ received = [p \in Procs |-> <<>>]
  /\ offered = [p \in Procs |-> <<>>]

AtTop(p, label) == frames[p] # <<>> /\ frames[p][1].at = label
Goto(p, label) == pc' = [pc EXCEPT ![p] = label] /\ UNCHANGED args

\* The processes in P exit.
Leave(P) ==
  /\ pc' = [p \in Procs |-> IF p \in P THEN "off" ELSE pc[p]]
  /\ args' = [p \in Procs |-> IF p \in P THEN <<>> ELSE args[p]]
-----------------------------------------------------------------------------
(***************************************************************************)
(* MyApp::OnInit.                                                          *)
(***************************************************************************)
Launch(p, a) ==
  /\ pc[p] = "off"
  /\ \A q \in Procs : Len(received[q]) < MaxLinks /\ Len(Stack[q]) < MaxLinks
  /\ pc' = [pc EXCEPT ![p] = "Check"]
  /\ args' = [args EXCEPT ![p] = a]
  /\ UNCHANGED <<target, Stack, AlreadyRun, frames, List, received, offered>>

\* The named mutex: every process past the check holds it, second ones included.
IsAnotherRunning(p) == \E q \in Procs \ {p} : pc[q] \notin {"off", "Check"}

\* Wrong on purpose (each operator "...Wrong" is a plausible bug that a property
\* of this module must detect): another process is known by its window.
CheckWrong(p) ==
  /\ pc[p] = "Check"
  /\ Goto(p, IF \E q \in Procs : pc[q] \in {"Window", "Run"} THEN "Find" ELSE "Load")
  /\ UNCHANGED <<target, Stack, AlreadyRun, frames, List, received, offered>>

Check(p) ==
  /\ pc[p] = "Check"
  /\ Goto(p, IF IsAnotherRunning(p) THEN "Find" ELSE "Load")
  /\ UNCHANGED <<target, Stack, AlreadyRun, frames, List, received, offered>>

\* FindWindowEx by the title: without a window the process exits, and its links
\* are lost.
Find(p) ==
  /\ pc[p] = "Find"
  /\ \/ \E q \in Procs :
          /\ pc[q] \in {"Window", "Run"}
          /\ target' = [target EXCEPT ![p] = q]
          /\ Goto(p, "Send")
     \/ /\ \A q \in Procs : pc[q] \notin {"Window", "Run"}
        /\ Leave({p})
        /\ UNCHANGED target
  /\ UNCHANGED <<Stack, AlreadyRun, frames, List, received, offered>>

\* Configuration and languages are read, and the main window is created.
OpenWindow(p) ==
  /\ pc[p] = "Load"
  /\ Goto(p, "Window")
  /\ UNCHANGED <<target, Stack, AlreadyRun, frames, List, received, offered>>

\* Wrong: Parse works on the stack although a call of it is in progress.
AddAndParseWrong(q, from) ==
  /\ Stack' = [Stack EXCEPT ![q] = Append(@, args[from])]
  /\ received' = [received EXCEPT ![q] = @ \o args[from]]
  /\ AlreadyRun' = [AlreadyRun EXCEPT ![q] = TRUE]
  /\ frames' = LET a == Head(Stack'[q])
               IN [frames EXCEPT ![q] = <<Parse(from, a, a)>> \o @]

\* Stack.Add, then Parse as far as its first look at the stack: p's own call, or
\* the one made for the message of the process from.
AddAndParse(q, from) ==
  /\ Stack' = [Stack EXCEPT ![q] = Append(@, args[from])]
  /\ received' = [received EXCEPT ![q] = @ \o args[from]]
  /\ AlreadyRun' = [AlreadyRun EXCEPT ![q] = TRUE]
  /\ frames' = IF AlreadyRun[q] THEN frames
               ELSE LET a == Head(Stack'[q])
                    IN [frames EXCEPT ![q] = <<Parse(from, a, a)>> \o @]

\* The manager is created and attached, and the arguments are parsed.
AttachManager(p) ==
  /\ pc[p] = "Window"
  /\ Goto(p, "Run")
  /\ AddAndParse(p, p)
  /\ UNCHANGED <<target, List, offered>>
-----------------------------------------------------------------------------
(***************************************************************************)
(* The running instance.                                                   *)
(***************************************************************************)
\* MSWWindowProc: WM_COPYDATA, dispatched by the main loop or by a modal dialog.
\* SendMessage returns to the sender, which exits, when the handler does.
Receive(q, p) ==
  /\ pc[q] = "Run" /\ (frames[q] = <<>> \/ AtTop(q, "dialog"))
  /\ pc[p] = "Send" /\ target[p] = q
  /\ AddAndParse(q, p)
  /\ IF AlreadyRun[q] THEN Leave({p}) ELSE Goto(p, "Wait")
  /\ UNCHANGED <<target, List, offered>>

\* Parse shows its next link in a dialog.
Offer(q) ==
  /\ AtTop(q, "parse")
  /\ LET f == frames[q][1]
     IN /\ f.rest # <<>>
        /\ frames' = [frames EXCEPT ![q] =
                        <<Dialog, Parse(f.from, f.arg, Tail(f.rest))>> \o Tail(@)]
        /\ offered' = [offered EXCEPT ![q] = Append(@, Head(f.rest))]
  /\ UNCHANGED <<pc, args, target, Stack, AlreadyRun, List, received>>

\* Stack.Remove(Arguments) removes the first entry equal to the one just done;
\* the loop goes on with the first entry left, or Parse returns.
ParseNext(q) ==
  /\ AtTop(q, "parse")
  /\ LET f == frames[q][1]
         left == RemoveFirst(Stack[q], f.arg)
     IN /\ f.rest = <<>>
        /\ Stack' = [Stack EXCEPT ![q] = left]
        /\ \/ /\ left # <<>>
              /\ frames' = [frames EXCEPT ![q] =
                              <<Parse(f.from, Head(left), Head(left))>> \o Tail(@)]
              /\ UNCHANGED <<AlreadyRun, pc, args>>
           \/ /\ left = <<>>
              /\ AlreadyRun' = [AlreadyRun EXCEPT ![q] = FALSE]
              /\ frames' = [frames EXCEPT ![q] = Tail(@)]
              /\ Leave({f.from} \ {q})
  /\ UNCHANGED <<target, List, received, offered>>

\* The button opens the same dialog, when no modal one disables the window.
AddButton(q) ==
  /\ pc[q] = "Run" /\ frames[q] = <<>>
  /\ frames' = [frames EXCEPT ![q] = <<Dialog>>]
  /\ UNCHANGED <<pc, args, target, Stack, AlreadyRun, List, received, offered>>

CloseDialog(q) ==
  /\ AtTop(q, "dialog")
  /\ frames' = [frames EXCEPT ![q] = Tail(@)]
  /\ UNCHANGED <<pc, args, target, Stack, AlreadyRun, received, offered>>

\* Wrong: only an entry with both in common is refused.
AddDownloadWrong(link, file) == List' = List \cup {[link |-> link, file |-> file]}

\* DLManager::AddDownload refuses a link and a file name it has already.
AddDownload(link, file) ==
  List' = IF \E d \in List : d.link = link \/ d.file = file THEN List
          ELSE List \cup {[link |-> link, file |-> file]}

\* Wrong: OK closes the dialog whatever the fields hold.
OkWrong(q) ==
  /\ CloseDialog(q)
  /\ \E link \in Links \cup {Blank}, file \in Files \cup {Blank} : AddDownload(link, file)

\* OK: the fields, which the user may have edited, hold a valid link and a name.
Ok(q) ==
  /\ CloseDialog(q)
  /\ \E link \in Links, file \in Files : AddDownload(link, file)

Cancel(q) == CloseDialog(q) /\ UNCHANGED List

\* OnClose saves the list and exits; whoever waits for an answer exits as well.
Close(q) ==
  /\ pc[q] = "Run" /\ frames[q] = <<>>
  /\ Leave({q} \cup {p \in Procs : pc[p] = "Send" /\ target[p] = q})
  /\ received' = [received EXCEPT ![q] = <<>>]
  /\ offered' = [offered EXCEPT ![q] = <<>>]
  /\ UNCHANGED <<target, Stack, AlreadyRun, frames, List>>

Next ==
  \E p \in Procs :
    \/ \E a \in ArgLists : Launch(p, a)
    \/ Check(p) \/ Find(p) \/ OpenWindow(p) \/ AttachManager(p)
    \/ \E q \in Procs : Receive(p, q)
    \/ Offer(p) \/ ParseNext(p) \/ AddButton(p) \/ Ok(p) \/ Cancel(p) \/ Close(p)

Spec == Init /\ [][Next]_vars
-----------------------------------------------------------------------------
(***************************************************************************)
(* Features.txt:34, "Un seul instanciation du programme": of any number of *)
(* processes started together at most one comes to load the list.          *)
(***************************************************************************)
OneInstance == Cardinality({p \in Procs : pc[p] \in {"Load", "Window", "Run"}}) <= 1

ParseAt(q) == {k \in DOMAIN frames[q] : frames[q][k].at = "parse"}

(***************************************************************************)
(* Every link an instance received is offered once and in order, although  *)
(* messages arrive while Parse shows its dialogs and find it at work: what *)
(* was received is what was offered, then what Parse has left of its entry *)
(* and the entries behind it; and when Parse is over nothing is left.      *)
(***************************************************************************)
Handed ==
  \A q \in Procs :
    /\ \A j, k \in ParseAt(q) : j = k
    /\ ParseAt(q) = {} => received[q] = offered[q] /\ ~AlreadyRun[q]
    /\ \A k \in ParseAt(q) :
         received[q] = offered[q] \o frames[q][k].rest \o FlattenSeq(Tail(Stack[q]))

(***************************************************************************)
(* Dialogs may be open one on another, and links offered more than once:   *)
(* no two downloads of the list share a link, or write to one file.        *)
(***************************************************************************)
Distinct ==
  \A d, e \in List : d.link = e.link \/ d.file = e.file => d = e
=============================================================================
