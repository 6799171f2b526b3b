------------------------------- MODULE Config -------------------------------
(***************************************************************************)
(* The options of the program: how config.cfg (and the language files) is  *)
(* read, looked up, changed and written, as operators on a text and on the *)
(* list of slots that Config::Values is.                                   *)
(*                                                                         *)
(* A text is a sequence of characters.  Those that Load tells apart are    *)
(* written "#", "=", " ", "tab" and "nl" ("\n" and "\r", which it treats   *)
(* alike); every other one stands for itself.                              *)
(***************************************************************************)
EXTENDS Naturals, Sequences, SequencesExt

Blanks == {"tab", "nl"}

\* ValueSlot: an option, or a comment, whose text is its name.
Slot(name, value) == [Name |-> name, Value |-> value, IsCom |-> FALSE]
Comment(text)     == [Name |-> text, Value |-> <<>>, IsCom |-> TRUE]

-----------------------------------------------------------------------------
(***************************************************************************)
(* Config::Load is an automaton; r is its state and c the next character.  *)
(* The first character of a name is only kept as `preccar'.                *)
(***************************************************************************)
Begin == [State |-> "NONE", Name |-> <<>>, Value |-> <<>>, preccar |-> " ",
          Values |-> <<>>]

\* A character that does not begin a comment begins a name, a blank one as well.
None(r, c) ==
  IF c = "#" THEN [r EXCEPT !.State = "COM", !.Name = <<>>]
  ELSE [r EXCEPT !.State = "PRENAME"]

Com(r, c) ==
  IF c = "nl" THEN [r EXCEPT !.State = "NONE", !.Values = Append(@, Comment(r.Name))]
  ELSE [r EXCEPT !.Name = Append(@, c)]

\* Wrong on purpose (each operator "...Wrong" is a plausible bug that a property
\* must detect): the character kept as `preccar' is forgotten.
PreNameWrong(r, c) ==
  IF c \in Blanks THEN [r EXCEPT !.State = "NONE"]
  ELSE IF c = " " THEN r
  ELSE [r EXCEPT !.State = "NAME", !.Name = <<c>>]

PreName(r, c) ==
  IF c \in Blanks THEN [r EXCEPT !.State = "NONE"]
  ELSE IF c = " " THEN r
  ELSE [r EXCEPT !.State = "NAME", !.Name = <<r.preccar, c>>]

InName(r, c) ==
  IF c \in {" ", "="} THEN [r EXCEPT !.State = "PREVALUE"]
  ELSE IF c \in Blanks THEN [r EXCEPT !.State = "NONE"]
  ELSE [r EXCEPT !.Name = Append(@, c)]

PreValue(r, c) ==
  IF c \in Blanks THEN [r EXCEPT !.State = "NONE"]
  ELSE IF c = " " THEN r
  ELSE [r EXCEPT !.State = "VALUE", !.Value = <<c>>]

InValue(r, c) ==
  IF c \in Blanks \cup {"="}
  THEN [r EXCEPT !.State = "NONE", !.Values = Append(@, Slot(r.Name, r.Value))]
  ELSE [r EXCEPT !.Value = Append(@, c)]

Read(r, c) ==
  LET s == CASE r.State = "NONE"     -> None(r, c)
             [] r.State = "COM"      -> Com(r, c)
             [] r.State = "PRENAME"  -> PreName(r, c)
             [] r.State = "NAME"     -> InName(r, c)
             [] r.State = "PREVALUE" -> PreValue(r, c)
             [] r.State = "VALUE"    -> InValue(r, c)
  IN [s EXCEPT !.preccar = c]

\* What the automaton is when it has read a text, from r on.
Through(r, text) ==
  LET after[n \in 0 .. Len(text)] == IF n = 0 THEN r ELSE Read(after[n - 1], text[n])
  IN after[Len(text)]

\* The slots of a text.  At its end an open value counts, an open comment is lost.
Load(text) ==
  LET r == Through(Begin, text)
  IN IF r.State = "VALUE" THEN Append(r.Values, Slot(r.Name, r.Value)) ELSE r.Values

\* Config::Save.
Line(slot) ==
  IF slot.IsCom THEN <<"#">> \o slot.Name \o <<"nl">>
  ELSE slot.Name \o <<"=">> \o slot.Value \o <<"nl">>

Text(Values) == FlattenSeq([i \in DOMAIN Values |-> Line(Values[i])])
-----------------------------------------------------------------------------
Options(Values, name) == {i \in DOMAIN Values : ~Values[i].IsCom /\ Values[i].Name = name}

ValueExist(Values, name) == Options(Values, name) # {}

\* ReadStringValue of a name that exists: the first option of that name.
Value(Values, name) ==
  Values[CHOOSE i \in Options(Values, name) :
           \A j \in Options(Values, name) : i <= j].Value

\* Wrong: an option that exists is added once more.
WriteStringValueWrong(Values, name, value) == Append(Values, Slot(name, value))

\* An option that exists is changed in the first slot that has its name, which may
\* be a comment; another one is added.
WriteStringValue(Values, name, value) ==
  IF ValueExist(Values, name)
  THEN LET named == {i \in DOMAIN Values : Values[i].Name = name}
           first == CHOOSE i \in named : \A j \in named : i <= j
       IN [Values EXCEPT ![first].Value = value]
  ELSE Append(Values, Slot(name, value))

\* The list after ReadStringValue, ReadIntValue, ...: a missing option is added
\* with its default.
ReadOrDefault(Values, name, default) ==
  IF ValueExist(Values, name) THEN Values ELSE WriteStringValue(Values, name, default)

\* An option hidden from WriteStringValue by a comment that reads like its name.
Hidden(Values, name) ==
  \E i \in DOMAIN Values :
    /\ Values[i].IsCom /\ Values[i].Name = name
    /\ \A j \in Options(Values, name) : i < j
=============================================================================
