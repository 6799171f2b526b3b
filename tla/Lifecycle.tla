----------------------------- MODULE Lifecycle -----------------------------
(***************************************************************************)
(* What the manager promises of each download, by its file name: the       *)
(* statuses it goes through, and which of them each event may bring about. *)
(* Objects, their copies, threads and the order of calls are not seen.     *)
(***************************************************************************)
CONSTANT Names   \* file names of downloads

VARIABLE state   \* the status of the download of every name, or "ABSENT"

Life == {"ABSENT", "STOP", "WAIT", "START", "RETRY", "ERROR", "FINISH"}

Init == state \in [Names -> {"ABSENT", "STOP", "FINISH"}]

Becomes(n, from, to) == state[n] \in from /\ state' = [state EXCEPT ![n] = to]

\* The user: downloads are added, removed, and stopped, several at a time.
Add(n) == Becomes(n, {"ABSENT"}, "STOP")

Remove(S) == state' = [n \in Names |-> IF n \in S THEN "ABSENT" ELSE state[n]]

Stop(S) ==
  /\ \A n \in S : state[n] \notin {"ABSENT", "FINISH"}
  /\ state' = [n \in Names |-> IF n \in S THEN "STOP" ELSE state[n]]

\* The scheduler: a download that was started has to wait, or begins.  One that
\* waits is touched by nothing else.
Queue(n) == Becomes(n, {"STOP", "ERROR", "RETRY"}, "WAIT")
Begin(n) == Becomes(n, {"STOP", "ERROR", "RETRY", "WAIT"}, "START")

\* The transfer: it is complete; or it fails, perhaps after its last byte, and is
\* tried again or not.  A worker may report its failure twice (WriteData, then
\* Entry), and count the attempts of the retry that came between.
Finish(n) == Becomes(n, {"START"}, "FINISH")
Fail(n) == \E to \in {"RETRY", "ERROR"} :
             Becomes(n, {"START", "FINISH", "RETRY", "ERROR"}, to)

\* The last lines of FileDownloader::Entry: whatever had become of it meanwhile, a
\* download whose transfer ends is tried again.
Again(n) == Becomes(n, {"START", "STOP", "FINISH"}, "RETRY")

Next ==
  \/ \E n \in Names : Add(n) \/ Queue(n) \/ Begin(n) \/ Finish(n) \/ Fail(n) \/ Again(n)
  \/ \E S \in SUBSET Names : Remove(S) \/ Stop(S)

Spec == Init /\ [][Next]_state
=============================================================================
