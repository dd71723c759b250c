---------------------------- MODULE Subsequences ----------------------------
(***************************************************************************)
(* A filter of a sequence, as the code's comprehensions filter a list or a   *)
(* deque: SelectSeq of a membership test, in a form the proof system can     *)
(* unfold (SelectSeq takes an operator and declares a recursive one).        *)
(***************************************************************************)
EXTENDS Integers, Sequences

\* The elements of s that are in S, in their order.
Only(s, S) ==
  LET only[n \in 0..Len(s)] ==
        IF n = 0 THEN <<>>
        ELSE IF s[n] \in S THEN Append(only[n - 1], s[n])
        ELSE only[n - 1]
  IN  only[Len(s)]
=============================================================================
