------------------------------ MODULE Selections ------------------------------
(***************************************************************************)
(* What is left of a sequence when only some of its elements are allowed,  *)
(* like the digits of a written number. It is SelectSeq with a set, as a   *)
(* recursive function, which the proofs can unfold.                        *)
(***************************************************************************)
EXTENDS Integers, Sequences

Only(s, allowed) ==
  LET Kept[i \in 0..Len(s)] ==
        IF i = 0 THEN <<>>
        ELSE IF s[i] \in allowed THEN Append(Kept[i - 1], s[i])
        ELSE Kept[i - 1]
  IN Kept[Len(s)]
=============================================================================
