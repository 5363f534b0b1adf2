--------------------------- MODULE MCCardPayments ---------------------------
(* Instances of CardPayments for TLC, with the rules and listings of Shaparak.*)
EXTENDS CardPayments, CardRules, PagedReads, TLC

CONSTANTS t1, u1, x1, y1, c1, c2, v1, f1, f2, Listing

\* y1 is REF-x1, with the transaction number u1, REFUND-t1.
MCTransactions  == {t1, u1}
MCReferences    == {x1, y1}
MCIssued        == {x1}
MCRefundOf      == [ref \in MCReferences |-> IF ref = x1 THEN y1 ELSE None]
MCRefundTransaction ==
  [t \in MCTransactions \cup {None} |-> IF t = t1 THEN u1 ELSE None]
MCPaymentOf     == [ref \in MCReferences |-> x1]
MCCallbacks     == {c1, c2}
MCVerifications == {v1}
MCRefunds       == {f1, f2}

\* Cards have numbers of four characters, with a BIN of one.
MCKnownBins == {<<1>>, <<6>>}
MCCards     == [1..4 -> Digit]
                 \cup UNION {[1..n -> {1, 4, 6, Space, Dash}] : n \in 3..5}
MCMonths    == [year : 20..21, month : {1, 2, 12}]

\* Five rows, of which 2 and 4 have the same date and 3 is not wanted.
MCRows   == 1..5
MCDate   == <<1, 2, 2, 2, 3>>
MCWanted == {1, 2, 4, 5}
MCTables == {start \in SUBSET MCRows : Cardinality(start) <= 4}
MCLimits == 1..2

\* A behaviour is one of the payments, or of one listing; or it asks about one
\* card and stops.
MCInit ==
  /\ CardInit /\ ListInit
  /\ \/ asked = Listing
     \/ asked \in {None} \cup Cards /\ table = {} /\ limit = 1
MCNext ==
  /\ \/ asked = None /\ CardNext /\ UNCHANGED listVars
     \/ asked = Listing /\ ListNext /\ UNCHANGED cardVars
  /\ UNCHANGED asked
MCSpec == MCInit /\ [][MCNext]_<<cardVars, listVars, asked>>

Symmetry == Permutations(MCCallbacks) \cup Permutations(MCRefunds)
=============================================================================
