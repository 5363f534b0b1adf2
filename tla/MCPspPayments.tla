---------------------------- MODULE MCPspPayments ----------------------------
(* Instances of PspPayments for TLC.                                       *)
EXTENDS PspPayments, TLC

CONSTANTS t1, t2, x1, v1, v2, k1

\* One transaction has a row, one has not.
MCTransactions     == {t1, t2}
MCKnown            == {t1}
MCReferences       == {x1}
MCPspVerifications == {v1, v2}
MCPspCancellations == {k1}

Symmetry == Permutations(MCPspVerifications)
=============================================================================
