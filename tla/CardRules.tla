------------------------------- MODULE CardRules -------------------------------
(***************************************************************************)
(* How a written card number is checked: by Shaparak (check_card_validity, *)
(* card_bin_lookup) and by the psp's fraud rules. A written number is a    *)
(* sequence of digits, spaces and other characters.                        *)
(***************************************************************************)
EXTENDS Integers, Sequences, Functions, Selections

CONSTANTS
  MinLength,  \* characters of a card number, 16 in both services
  BinLength,  \* characters of a BIN, 6
  KnownBins,  \* keys of binDatabase, all written in digits
  Cards,      \* written numbers that the services are asked about
  Months      \* dates of the questions, [year |-> 0..99, month |-> 1..12]

Digit == 0..9
Space == 10
Dash  == 11  \* any other character
Character == Digit \cup {Space, Dash}

ASSUME CardRulesAssumption ==
  /\ MinLength \in Nat /\ BinLength \in 1..MinLength
  /\ KnownBins \subseteq Seq(Digit)
  /\ Cards \subseteq Seq(Character)
  /\ Months \subseteq [year : 0..99, month : 1..12]

\* The number that is asked about, if it is one of Cards.
VARIABLE asked

Digits(written) == Only(written, Digit)
Compact(written) == Only(written, Character \ {Space})

\* Mutant: the digits of a doubled digit are not added up.
DoubledOnly(digit) == 2 * digit

Doubled(digit) == IF 2 * digit > 9 THEN 2 * digit - 9 ELSE 2 * digit

\* validateCardLuhn: from the right, every second digit is doubled.
Value(digits, i) ==
  IF (Len(digits) - i) % 2 = 1 THEN Doubled(digits[i]) ELSE digits[i]

Luhn(digits) ==
  SumFunction([i \in 1..Len(digits) |-> Value(digits, i)]) % 10 = 0

\* cardBinLookup, and the look-up of checkCardValidity.
BinFound(bin) == bin \in KnownBins

Expired(expiry, now) ==
  \/ expiry.year < now.year
  \/ expiry.year = now.year /\ expiry.month < now.month

\* checkCardValidity: the length and the BIN are those of the written number,
\* the check digit that of its digits.
Valid(written, expiry, now) ==
  /\ Len(written) >= MinLength
  /\ Luhn(Digits(written))
  /\ BinFound(SubSeq(written, 1, BinLength))
  /\ ~Expired(expiry, now)

\* validateCardBin of the fraud rules.
PspAccepts(written) ==
  /\ Len(Compact(written)) >= MinLength
  /\ \A i \in DOMAIN Compact(written) : Compact(written)[i] \in Digit

-----------------------------------------------------------------------------
(* Properties                                                              *)

\* A typing error in a number that passes the check is caught: one wrong digit
\* always, two neighbours swapped unless they are 0 and 9.
TyposAreCaught(digits) ==
  Luhn(digits) =>
    /\ \A i \in DOMAIN digits, x \in Digit :
         x # digits[i] => ~Luhn([digits EXCEPT ![i] = x])
    /\ \A i \in 1..(Len(digits) - 1) :
         {digits[i], digits[i + 1]} # {0, 9} /\ digits[i] # digits[i + 1] =>
           ~Luhn([digits EXCEPT ![i] = digits[i + 1], ![i + 1] = digits[i]])

\* The two services differ on separators only: a number that both accept has
\* enough digits and a known BIN, one written in digits that Shaparak accepts
\* is accepted by the psp, and no card becomes valid again in its century.
ServicesAgree(written, expiry, now, later) ==
  /\ Valid(written, expiry, now) /\ PspAccepts(written) =>
       /\ Len(Digits(written)) >= MinLength
       /\ BinFound(SubSeq(Digits(written), 1, BinLength))
  /\ Valid(written, expiry, now) /\ Digits(written) = written =>
       PspAccepts(written)
  /\ Expired(expiry, now) /\ ~Expired(later, now) => ~Valid(written, expiry, later)

\* Typing errors are caught, and the checks of Shaparak and the psp agree as far
\* as the code makes them.
CardsAreChecked ==
  asked \in Cards =>
    /\ asked \in Seq(Digit) => TyposAreCaught(asked)
    /\ \A expiry, now, later \in Months : ServicesAgree(asked, expiry, now, later)
=============================================================================
