------------------------------- MODULE Parser -------------------------------
(***************************************************************************)
(* The functions of class Parser that the program relies on, as operators  *)
(* on texts.  A text is a sequence of words: those that the functions look *)
(* for ("Content-Range:", "/", "\\", "?" and the end of a line, "nl"), and *)
(* others; a number is one word.                                           *)
(***************************************************************************)
EXTENDS Integers, SequencesExt

CONSTANTS MaxHeader, \* bound: words of a header before and after its Content-Range
          MaxUrl     \* bound: words of a URL

\* std::string::rfind, find_last_of (0 for npos) and find_first_of (Len + 1).
LastOf(text, word) ==
  LET at == {i \in DOMAIN text : text[i] = word}
  IN IF at = {} THEN 0 ELSE CHOOSE i \in at : \A j \in at : j <= i

FirstOf(text, word) ==
  LET at == {i \in DOMAIN text : text[i] = word}
  IN IF at = {} THEN Len(text) + 1 ELSE CHOOSE i \in at : \A j \in at : i <= j

-----------------------------------------------------------------------------
\* _atoi64: a text that does not begin with a number (of which there is one here) is 0.
Number(text) == IF text # <<>> /\ Head(text) = "7" THEN 7 ELSE 0

\* Wrong on purpose (each operator "...Wrong" is a plausible bug that a property
\* of this module must detect): the first Content-Range, of a redirection, is taken.
GetFileSizeHTTPWrong(header) ==
  LET pos  == FirstOf(header, "Content-Range:")
      rest == SubSeq(header, pos, Len(header))
      line == SubSeq(rest, 1, FirstOf(rest, "nl") - 1)
  IN IF pos > Len(header) THEN -1
     ELSE Number(SubSeq(line, LastOf(line, "/") + 1, Len(line)))

\* The number after the last "/" of the line of the last Content-Range.  Nothing
\* after it is -1 at the end of a line, and 0 at the end of the text.
GetFileSizeHTTP(header) ==
  LET pos   == LastOf(header, "Content-Range:")
      rest  == SubSeq(header, pos, Len(header))
      line  == SubSeq(rest, 1, FirstOf(rest, "nl") - 1)
      slash == LastOf(line, "/")
  IN IF pos = 0 \/ (slash = Len(line) /\ Len(line) < Len(rest)) THEN -1
     ELSE Number(SubSeq(line, slash + 1, Len(line)))

\* Wrong: the first "/" that ends a part of the URL.
GetFilenameFromURLWrong(url) ==
  LET min == FirstOf(url, "/") + 1
      mark == LastOf(url, "?")
  IN SubSeq(url, min, IF mark > min THEN mark - 1 ELSE Len(url))

\* What follows the last "/", or begins with the last "\\" if there is one after it,
\* up to the last "?" that is not at its beginning.
GetFilenameFromURL(url) ==
  LET slash == LastOf(url, "/")
      back  == LastOf(url, "\\")
      min   == IF back > slash THEN back ELSE slash + 1
      mark  == LastOf(url, "?")
  IN SubSeq(url, min, IF mark > min THEN mark - 1 ELSE Len(url))

FirstLine(text) == SubSeq(text, 1, FirstOf(text, "nl") - 1)

\* The name that DialogNewDL offers for a link typed or pasted, and what its caller
\* takes from it.
Offered(link) == FirstLine(GetFilenameFromURL(FirstLine(link)))
-----------------------------------------------------------------------------
TextsOver(words, n) == UNION {[1 .. k -> words] : k \in 0 .. n}

HeaderWords == {"Content-Range:", "/", "nl", "7"}

(***************************************************************************)
(* The size of a file is what follows the "/" of its Content-Range, also   *)
(* when the headers of redirections, which may have one, came before in the*)
(* same text, and whatever other headers follow; without one it is -1.     *)
(***************************************************************************)
SizeFound ==
  \A before \in TextsOver(HeaderWords, MaxHeader) :
    /\ \A after \in TextsOver(HeaderWords \ {"Content-Range:"}, MaxHeader) :
         GetFileSizeHTTP(before \o <<"Content-Range:", "bytes", "/", "7", "nl">> \o after) = 7
    /\ (GetFileSizeHTTP(before) = -1 <=>
          LET pos == LastOf(before, "Content-Range:")
          IN \/ pos = 0
             \/ \E k \in pos + 1 .. Len(before) - 1 :
                  /\ before[k] = "/" /\ before[k + 1] = "nl"
                  /\ \A j \in pos .. k : before[j] # "nl")

(***************************************************************************)
(* A download is saved under the name the dialog offers, in the directory  *)
(* of the program: the name never holds a directory, and is one line.  Only*)
(* a "\\" may come first.                                                  *)
(***************************************************************************)
NameFlat ==
  \A link \in TextsOver({"/", "\\", "?", "nl", "a"}, MaxUrl) :
    LET name == Offered(link)
    IN \A i \in DOMAIN name : name[i] \notin {"/", "nl"} /\ (name[i] = "\\" => i = 1)
=============================================================================
