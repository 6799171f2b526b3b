---------------------------- MODULE MCPersistence ----------------------------
(***************************************************************************)
(* TLC instances of Persistence.                                           *)
(***************************************************************************)
EXTENDS Persistence

CONSTANT MaxText   \* bound: length of the texts that are not made of usual lines

\* Any text of a few characters, and files of two usual lines.
Alphabet == {"#", "=", " ", "nl", "w", "i"}
AnyTexts == UNION {[1 .. n -> Alphabet] : n \in 0 .. MaxText}

Lines == {<<"w", "i", "=", "0">>, <<"w", "i", " ", "=", " ", "1">>, <<"#", "w", "i">>,
          <<" ", "w", "i", "=", "0">>, <<"w", "i", "=">>, <<"f", "S", "=", "1">>, <<>>}
UsualTexts == {a \o <<"nl">> \o b \o c : a, b \in Lines, c \in {<<>>, <<"nl">>}}

MCTexts == AnyTexts \cup UsualTexts

\* A download of each kind, with names of different lengths.
MCNew == {Download(DL_HTTP, <<11>>, <<21, 22>>, -2, 0, "STOP"),
          Download(DL_FREE, <<12, 13>>, <<23>>, -2, 0, "STOP")}

\* Bounds: downloads are listed only while config.cfg is empty and the window is as it
\* was at the first start, and a session ends with the next step when a torn file has
\* given it a download that nobody added.
Focus ==
  /\ List # <<>> \/ store # <<0>> => config = <<>> /\ width = DefaultWidth /\ ~maximized
  /\ \A i \in DOMAIN List : List[i].iDataPos >= 0 /\ \E d \in New :
       List[i].pLink = d.pLink /\ List[i].pFileName = d.pFileName
=============================================================================
