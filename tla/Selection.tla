------------------------------ MODULE Selection ------------------------------
(* What a loop keeps of a slice when it appends those elements to another   *)
(* that pass a test.                                                        *)
EXTENDS Naturals, Sequences

(* The elements of s that are wanted, in their order.                       *)
Selected(s, wanted) ==
    LET upTo[k \in 0..Len(s)] ==
            IF k = 0 THEN <<>>
            ELSE IF s[k] \in wanted THEN Append(upTo[k - 1], s[k]) ELSE upTo[k - 1]
    IN  upTo[Len(s)]
=============================================================================
