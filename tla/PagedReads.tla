------------------------------ MODULE PagedReads ------------------------------
(***************************************************************************)
(* Listings in pages, newest rows first, while rows are added: findAndCount *)
(* with conditions, order, skip and take. The hub, the gateway, Shaparak    *)
(* and both banks list this way; some take a page, some an offset.          *)
(*                                                                          *)
(* The rows are ordered by a date, which is not unique, and by nothing      *)
(* else: of rows with the same date the database may put any first, and     *)
(* another one for the next page. Whether a row meets the conditions does   *)
(* not change here. (Of a listing by status, rows may leave, and the rows   *)
(* after them move up a page and are missed.)                               *)
(***************************************************************************)
EXTENDS Integers, FiniteSets

CONSTANTS
  Rows,    \* rows that are in the table or may be added
  Date,    \* the date of a row, by which the listing is ordered
  Wanted,  \* rows that meet the conditions of the listing
  Tables,  \* sets of rows with which a listing may begin
  Limits   \* numbers of rows that a page may have

ASSUME ListingAssumption ==
  /\ Wanted \subseteq Rows
  /\ Date \in [Rows -> Int]
  /\ \A start \in Tables : start \subseteq Rows /\ IsFiniteSet(start)
  /\ Limits \subseteq Nat \ {0}

VARIABLES
  table,   \* the rows of the table
  limit,   \* the rows of a page
  number,  \* the number of the next page
  ended,   \* a page was not full
  seen,    \* history: the rows read
  again,   \* history: the rows read more than once
  before,  \* history: the rows in the table when the first page was asked for
  grown    \* history: a row was added since

listVars == <<table, limit, number, ended, seen, again, before, grown>>

ListInit ==
  /\ table \in Tables /\ limit \in Limits /\ number = 1 /\ ended = FALSE
  /\ seen = {} /\ again = {} /\ before = table /\ grown = FALSE

\* The conditions of a listing: the rows that it asks for.
Found == table \cap Wanted

\* Mutant: pages are counted from 0.
SkipFromZero(page, size) == page * size

Skip(page, size) == (page - 1) * size

Least(a, b) == IF a < b THEN a ELSE b

\* ORDER BY date DESC: none of the later rows is newer than one of the first.
Precede(first, later) == \A r \in first, q \in later : Date[r] >= Date[q]

\* OFFSET and LIMIT: rows are skipped and the next ones are taken.
IsPage(page, offset, size) ==
  \E skipped \in SUBSET (Found \ page) :
    /\ Cardinality(skipped) = Least(offset, Cardinality(Found))
    /\ Cardinality(page) = Least(size, Cardinality(Found) - Cardinality(skipped))
    /\ Precede(skipped, Found \ skipped)
    /\ Precede(page, Found \ (skipped \cup page))

\* A page of the listing is read.
ReadPage(page) ==
  /\ ~ended
  /\ IsPage(page, Skip(number, limit), limit)
  /\ number' = number + 1
  /\ ended' = (Cardinality(page) < limit)
  /\ seen' = seen \cup page
  /\ again' = again \cup (seen \cap page)
  /\ UNCHANGED <<table, limit, before, grown>>

\* A row more, of any date: one with an earlier date may be committed later.
AddRow(row) ==
  /\ row \notin table
  /\ table' = table \cup {row}
  /\ grown' = TRUE
  /\ UNCHANGED <<limit, number, ended, seen, again, before>>

ListNext ==
  \/ \E page \in SUBSET Found : ReadPage(page)
  \/ \E row \in Rows : AddRow(row)

ListSpec == ListInit /\ [][ListNext]_listVars

-----------------------------------------------------------------------------

\* Another row of the listing has the same date.
Tied(row) == \E other \in Found \ {row} : Date[other] = Date[row]

Missed == (before \cap Wanted) \ seen

\* What a reader who asks for page after page until one is not full can rely
\* on. Of the rows that he wanted and that were there when he began, he misses
\* none but those that share their date with another, whatever is added
\* meanwhile. While nothing is added, he reads none but such rows twice, and
\* if he reads none twice he misses none.
OnlyTiesAreMissed ==
  /\ ended => \A row \in Missed : Tied(row)
  /\ ~grown => \A row \in again : Tied(row)
  /\ ended /\ ~grown => (Missed = {} <=> again = {})
=============================================================================
