------------------------ MODULE MCFreeFileDownloader ------------------------
(***************************************************************************)
(* TLC instances of FreeFileDownloader.                                    *)
(***************************************************************************)
EXTENDS FreeFileDownloader, TLC

\* Object identities are interchangeable.
ObjSymmetry == Permutations(Objs)

\* Both properties speak of the time while no two workers overlapped: later
\* states are checked and not extended.
Alone == alone
=============================================================================
