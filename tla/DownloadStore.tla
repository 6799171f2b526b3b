--------------------------- MODULE DownloadStore ---------------------------
(***************************************************************************)
(* The format of downloads.cfg: what SaveDownloads writes for a list and   *)
(* what LoadDownloads makes of a file, which may be cut short.  A file is  *)
(* a sequence of numbers; a number stands for a whole field (a count, a    *)
(* kind, a length), for one character of a link or file name, or for one   *)
(* of the two digits of a size.  Sizes are written as 64-bit numbers, of   *)
(* which the setters that take a long keep the lower half: the digits are  *)
(* those of that half, and the upper one is left out.                      *)
(***************************************************************************)
EXTENDS Integers, Sequences, SequencesExt

CONSTANTS Base,  \* a C long has two digits of this base, which is even
          Junk   \* a character of an uninitialised buffer

LongMax == (Base * Base) \div 2 - 1

DL_HTTP == 0
DL_FREE == 1

AsLong(n) == ((n + LongMax + 1) % (2 * (LongMax + 1))) - (LongMax + 1)

\* A download of the list, as far as it is saved.
Download(kind, link, file, size, pos, status) ==
  [kind |-> kind, pLink |-> link, pFileName |-> file, iFileSize |-> size,
   iDataPos |-> pos, Status |-> status]

\* The downloads that a list holds, as far as saving them goes: texts are sequences of
\* characters, a size or a position is a long, and equal ones mean complete.
Downloads ==
  {d \in [kind : Int, pLink : Seq(Int), pFileName : Seq(Int),
          iFileSize : -(LongMax + 1) .. LongMax, iDataPos : -(LongMax + 1) .. LongMax,
          Status : {"STOP", "FINISH"}] :
     d.Status = "FINISH" <=> d.iFileSize = d.iDataPos}

-----------------------------------------------------------------------------
Digits(n) == <<n % Base, (n \div Base) % Base>>

\* Wrong on purpose (each operator "...Wrong" is a plausible bug that a property
\* must detect): the kind is that of the base class.
FieldsWrong(d) ==
  <<DL_HTTP, Len(d.pLink)>> \o d.pLink \o <<Len(d.pFileName)>> \o d.pFileName
  \o Digits(d.iFileSize) \o Digits(d.iDataPos)

\* One download, as SaveDownloads writes it.  Links and names are taken to be shorter
\* than 2^16, so that their lengths fit in the field.
Fields(d) ==
  <<d.kind, Len(d.pLink)>> \o d.pLink \o <<Len(d.pFileName)>> \o d.pFileName
  \o Digits(d.iFileSize) \o Digits(d.iDataPos)

Bytes(List) == <<Len(List)>> \o FlattenSeq([i \in DOMAIN List |-> Fields(List[i])])
-----------------------------------------------------------------------------
(***************************************************************************)
(* LoadDownloads reads through one variable and one buffer, and never asks *)
(* whether fread read anything: r is the position in the file, Size and    *)
(* the buffer.                                                             *)
(***************************************************************************)
AtStart == [at |-> 2, Size |-> 0, buffer |-> <<>>]

\* Size = 0; fread(&Size, ...) of a kind or a length.
Field(file, r) ==
  IF r.at <= Len(file) THEN [r EXCEPT !.Size = file[r.at], !.at = @ + 1]
  ELSE [r EXCEPT !.Size = 0]

\* fread(&Size, ...) of a size: what the file does not have keeps its value.
Number(file, r) ==
  LET has(k)    == r.at + k <= Len(file)
      digit(k)  == IF has(k) THEN file[r.at + k] ELSE Digits(r.Size)[k + 1]
  IN [r EXCEPT !.Size = digit(0) + Base * digit(1),
               !.at = @ + Cardinality({k \in {0, 1} : has(k)})]

\* fread(buffer, 1, Size, file); what the file does not have stays as it was.
Chars(file, r) ==
  LET last == IF r.at + r.Size - 1 <= Len(file) THEN r.at + r.Size - 1 ELSE Len(file)
      got  == SubSeq(file, r.at, last)
      rest == SubSeq(r.buffer, Len(got) + 1, Len(r.buffer))
  IN [r EXCEPT !.at = @ + Len(got), !.buffer = got \o rest]

\* text.append(buffer, Size).
Appended(r) == [i \in 1 .. r.Size |-> IF i \in DOMAIN r.buffer THEN r.buffer[i] ELSE Junk]

\* Wrong: a download with nothing to get is not complete.
RestoredWrong(kind, link, file, size, pos) ==
  Download(kind, link, file, AsLong(size), AsLong(pos),
           IF AsLong(size) = AsLong(pos) /\ AsLong(size) > 0 THEN "FINISH" ELSE "STOP")

\* The setters take a long, and equal sizes mean that the download is complete.
Restored(kind, link, file, size, pos) ==
  Download(kind, link, file, AsLong(size), AsLong(pos),
           IF AsLong(size) = AsLong(pos) THEN "FINISH" ELSE "STOP")

\* One turn of the loop.  A kind is DL_HTTP or DL_FREE: nothing else is written, and
\* at the end of the file it reads as 0, which is DL_HTTP.
ReadDownload(file, r) ==
  LET kind == Field(file, r)
      link == Chars(file, Field(file, kind))
      name == Chars(file, Field(file, link))
      size == Number(file, name)
      pos  == Number(file, size)
  IN [r |-> pos,
      dl |-> Restored(kind.Size, Appended(link), Appended(name), size.Size, pos.Size)]

\* The list LoadDownloads makes of a file; `count' is what the variable Count holds
\* when the file has no count.
LoadDownloads(file, count) ==
  LET n == IF file = <<>> THEN count ELSE file[1]
      after[i \in 0 .. n] ==
        IF i = 0 THEN [r |-> AtStart, dls |-> <<>>]
        ELSE LET next == ReadDownload(file, after[i - 1].r)
             IN [r |-> next.r, dls |-> Append(after[i - 1].dls, next.dl)]
  IN after[n].dls
=============================================================================
