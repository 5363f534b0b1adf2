------------------------- MODULE MCInterbankTransfers -------------------------
(* Instances of InterbankTransfers for TLC.                                *)
EXTENDS InterbankTransfers, TLC

CONSTANTS t1, t2, t3, v1, v2, v3, b1, b2, b3

\* A good request, one with a bank that is not in the table and one without a
\* bank code, as the psp sends it.
MCTransfers == {t1, t2, t3}
MCVerifications == {v1, v2, v3}
MCBanks == {b1, b2}
MCSource == [t \in MCTransfers |-> IF t = t3 THEN Unset ELSE b1]
MCDestination == [t \in MCTransfers |-> IF t = t2 THEN b3 ELSE b2]

Symmetry == Permutations(MCVerifications)
=============================================================================
