------------------------------ MODULE Filters ------------------------------
(* The part of a sequence that somebody is interested in.  It is a         *)
(* recursive function, and not the library's SelectSeq, so that proofs     *)
(* can look into it.                                                       *)
EXTENDS Naturals, Sequences

\* The elements of s that are in S, in the order of s.
Those(s, S) ==
  LET kept[i \in 0 .. Len(s)] ==
        IF i = 0 THEN <<>>
        ELSE IF s[i] \in S THEN Append(kept[i - 1], s[i]) ELSE kept[i - 1]
  IN kept[Len(s)]
=============================================================================
