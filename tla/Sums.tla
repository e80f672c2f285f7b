-------------------------------- MODULE Sums --------------------------------
(***************************************************************************)
(* Running totals of a finite sequence of numbers, as a recursive function *)
(* so that facts about them can be proved (module ListLemmas).             *)
(***************************************************************************)
EXTENDS Integers, Sequences

\* PrefixSums(s)[i] is the sum of the first i elements of s.
PrefixSums(s) ==
  LET run[i \in 0..Len(s)] == IF i = 0 THEN 0 ELSE run[i-1] + s[i]
  IN  run

SumSeq(s) == PrefixSums(s)[Len(s)]
=============================================================================
