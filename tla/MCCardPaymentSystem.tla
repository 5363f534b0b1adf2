------------------------- MODULE MCCardPaymentSystem -------------------------
(* Instances of CardPaymentSystem for TLC.                                 *)
EXTENDS CardPaymentSystem, TLC

CONSTANTS t1, t2, x1, x2, v1, v2, k1, c1

OneTransaction  == {t1}
TwoTransactions == {t1, t2}
OneReference    == {x1}
TwoReferences   == {x1, x2}
TwoVerifications == {v1, v2}
OneVerification == {v1}
OneCancellation == {k1}
OneCallback     == {c1}
NoCalls         == {}

\* Transactions, references, verifications and callbacks take the same steps
\* whatever their names.
Symmetry == Permutations(Transactions) \cup Permutations(References)
            \cup Permutations(Verifications) \cup Permutations(Callbacks)
=============================================================================
