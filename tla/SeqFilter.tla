-------------------------------- MODULE SeqFilter --------------------------------
(***************************************************************************)
(* Array.filter, with the set of what it keeps, so that theorems can speak *)
(* of it: a set is a value and can be instantiated, a predicate cannot.    *)
(***************************************************************************)
EXTENDS Naturals, Sequences

\* The entries of s that are in S, in their order.
Keeping(s, S) ==
    LET kept[n \in 0..Len(s)] ==
            IF n = 0 THEN <<>>
            ELSE IF s[n] \in S THEN Append(kept[n - 1], s[n]) ELSE kept[n - 1]
    IN  kept[Len(s)]
=================================================================================
