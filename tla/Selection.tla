------------------------------ MODULE Selection ------------------------------
(* The elements of a sequence that lie in a set, in their order.  This is  *)
(* SelectSeq for a set, as a recursive function: what has been selected    *)
(* from each beginning of the sequence.                                    *)
EXTENDS Naturals, Sequences

Selected(s, S) ==
  LET sel[i \in 0 .. Len(s)] ==
        IF i = 0 THEN <<>>
        ELSE IF s[i] \in S THEN Append(sel[i - 1], s[i]) ELSE sel[i - 1]
  IN  sel

Select(s, S) == Selected(s, S)[Len(s)]
=============================================================================
