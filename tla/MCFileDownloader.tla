-------------------------- MODULE MCFileDownloader --------------------------
(***************************************************************************)
(* TLC instances of FileDownloader.                                        *)
(***************************************************************************)
EXTENDS FileDownloader, TLC

\* Object identities are interchangeable in the safety runs.
ObjSymmetry == Permutations(Objs)

\* Nothing is claimed once a crash came between the save and the exit: such
\* states are checked and not extended.
Kept == kept

\* The liveness run: a crash, which loses the streams, and a link added again are
\* left to the safety runs.
LiveNext ==
  \/ \E n \in Objs : Start(n) \/ Retry(n)
  \/ Stop \/ Close \/ Exit \/ Relaunch
  \/ \E o \in Objs : Worker(o) \/ Flush(o)

LiveSpec == Init /\ [][LiveNext]_vars /\ Fairness
=============================================================================
