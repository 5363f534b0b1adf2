-------------------------- MODULE MCPaymentMethods --------------------------
(* Instances of PaymentMethods for TLC.                                    *)
EXTENDS PaymentMethods, TLC

CONSTANTS m1, m2, m3, s1, s2, r1, r2

MCMethods  == {m1, m2, m3}
MCSetters  == {s1, s2}
MCRemovers == {r1, r2}

Symmetry == Permutations(MCMethods) \cup Permutations(MCSetters)
            \cup Permutations(MCRemovers)
=============================================================================
