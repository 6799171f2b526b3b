----------------------------- MODULE MCDisplay -----------------------------
(***************************************************************************)
(* TLC instance of Display, with what the pages draw (ProgressBlocks) and  *)
(* what the program makes of links and headers (Parser), over bounded      *)
(* inputs.  These functions depend on no state: their results are looked at*)
(* where a session begins.                                                 *)
(***************************************************************************)
EXTENDS Display, ProgressBlocks, Parser

SessionBegins == clicks = 0 /\ Busy = {} /\ \A w \in Workers : reports[w] = 0

\* Every block of a file can be scrolled to on its page (ProgressBlocks::OnPaint).
BlocksShown == SessionBegins => EveryBlockShown

\* The blue blocks are those that are there or being filled (ProgressBlocks::OnPaint).
BlocksBlue == SessionBegins => BlueBlocks

\* The size of a file is that of the last reply's header (Parser::GetFileSizeHTTP).
SizesFound == SessionBegins => SizeFound

\* The name offered for a link holds no directory (Parser::GetFilenameFromURL, DialogNewDL).
NamesFlat == SessionBegins => NameFlat
=============================================================================
