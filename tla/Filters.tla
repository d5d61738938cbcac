------------------------------- MODULE Filters -------------------------------
(* Array.prototype.filter with a test for membership: SelectSeq of the     *)
(* Sequences module, as a recursive function over the prefixes of s, which *)
(* the proofs can unfold.                                                  *)
EXTENDS Naturals, Sequences

Filter(s, T) ==
    LET kept[i \in 0..Len(s)] ==
            IF i = 0 THEN <<>>
            ELSE IF s[i] \in T THEN Append(kept[i - 1], s[i]) ELSE kept[i - 1]
    IN  kept[Len(s)]
=============================================================================
