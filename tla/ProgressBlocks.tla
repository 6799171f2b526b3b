--------------------------- MODULE ProgressBlocks ---------------------------
(***************************************************************************)
(* The blocks of a download's page: which of them are drawn, in which      *)
(* colour, and how far the window scrolls, as operators on a file of       *)
(* `total' bytes of which `progress' are there, in blocks of `block' bytes,*)
(* `width' of them on a line.  The program has width = w / bitmap - 1 and  *)
(* divides by it and by `block': both are positive here.                   *)
(***************************************************************************)
EXTENDS Integers

CONSTANTS LongMax,   \* largest value of a C long
          MaxTotal,  \* bound: total
          MaxBlock,  \* bound: block
          MaxWidth,  \* bound: width
          MaxHeight  \* bound: lines of the window

ASSUME BlocksAssumption ==
  /\ LongMax \in Nat
  /\ MaxTotal \in Nat
  /\ MaxBlock \in Nat
  /\ MaxWidth \in Nat
  /\ MaxHeight \in Nat

\* A product of longs, and the quotient, which C rounds towards zero.
Times(a, b) == ((a * b + LongMax + 1) % (2 * (LongMax + 1))) - (LongMax + 1)
Over(a, b)  == IF a < 0 THEN -((-a) \div b) ELSE a \div b

\* Wrong on purpose (each operator "...Wrong" is a plausible bug that a property
\* of this module must detect): the last, unfinished line does not count.
LinesWrong(total, block, width) == Over(Over(total, block), width)

\* The lines that the window can be scrolled over: lht + 1.
Lines(total, block, width) == Over(Over(total, block), width) + 1

\* Wrong: a block is blue when the next one has begun.
ColourWrong(data, total, progress, block) ==
  IF Times(data, block) >= total THEN "none"
  ELSE IF Times(data, block) < progress THEN "blue" ELSE "grey"

\* One turn of the loop: block number `data'.
Colour(data, total, progress, block) ==
  IF Times(data, block) >= total THEN "none"
  ELSE IF Times(data, block) <= progress THEN "blue" ELSE "grey"

\* The numbers of the blocks drawn from line `scroll' on, one line more than the
\* window has.
Drawn(scroll, width, height) == scroll * width .. (scroll + height + 1) * width - 1
-----------------------------------------------------------------------------
(***************************************************************************)
(* However small the blocks and the window, every block of the file can be *)
(* scrolled to.                                                            *)
(***************************************************************************)
EveryBlockShown ==
  \A total \in 0 .. MaxTotal, block \in 1 .. MaxBlock, width \in 1 .. MaxWidth,
     data \in 0 .. MaxTotal :
    data * block < total =>
      \E scroll \in 0 .. Lines(total, block, width) - 1 : data \in Drawn(scroll, width, 0)

(***************************************************************************)
(* The blocks that are blue are those that are complete and the one that is*)
(* being filled (the first one from the beginning), and none beyond the end*)
(* of the file: so all when the download is complete.  This is only so     *)
(* while the blocks drawn after the end do not reach LongMax: the product  *)
(* overflows there.                                                        *)
(***************************************************************************)
BlueBlocks ==
  \A total \in 1 .. MaxTotal, block \in 1 .. MaxBlock, width \in 1 .. MaxWidth,
     height \in 0 .. MaxHeight :
    \A scroll \in 0 .. Lines(total, block, width) - 1, progress \in 0 .. total :
      LET drawn == Drawn(scroll, width, height)
          count == (total + block - 1) \div block
      IN (\A data \in drawn : data * block <= LongMax) =>
           \A data \in drawn :
             Colour(data, total, progress, block) =
               IF data >= count THEN "none"
               ELSE IF data <= progress \div block THEN "blue" ELSE "grey"
=============================================================================
