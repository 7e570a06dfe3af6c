-------------------------------- MODULE Lists --------------------------------
(***************************************************************************)
(* Filters and sums over a Vec, for the modules about the writer.  Each is *)
(* a function of how far the list has been taken, as the loops of the code *)
(* are: a proof can follow it element by element, which it cannot do with  *)
(* operators that take an operator (SelectSeq, FoldLeft).                  *)
(***************************************************************************)
EXTENDS Integers, Sequences, Functions

\* The elements of a list that are in S, in their order: iter().filter().
Those(list, S) ==
  LET those[n \in 0..Len(list)] ==
        IF n = 0 THEN <<>>
        ELSE IF list[n] \in S THEN Append(those[n - 1], list[n])
        ELSE those[n - 1]
  IN those[Len(list)]

\* iter().map().sum(), of numbers.
Total(numbers) ==
  LET total[n \in 0..Len(numbers)] == IF n = 0 THEN 0 ELSE total[n - 1] + numbers[n]
  IN total[Len(numbers)]
==============================================================================
