---------------------------- MODULE Identifiers ----------------------------
(***************************************************************************)
(* Numbers that people type or a scanner reads, and the check digits that  *)
(* keep a mistake from naming somebody else: the customer number a borrower*)
(* types as the paybill account (core/customer_number.py) and the machine- *)
(* readable zone of an identity document (services/mrz.py).                *)
(***************************************************************************)
EXTENDS Integers, FiniteSets, Sequences

Digit == 0..9

---------------------------------------------------------------------------
(* Customer numbers: six random digits and a check digit. *)

CustomerNumber == [1..7 -> Digit]

(* A doubled digit above 9 counts as the sum of its own digits. *)
Doubled(d) == IF 2 * d > 9 THEN 2 * d - 9 ELSE 2 * d

luhn_check_digit(n) ==
  LET total == n[1] + Doubled(n[2]) + n[3] + Doubled(n[4]) + n[5] + Doubled(n[6])
  IN (10 - (total % 10)) % 10

is_valid(n) == luhn_check_digit(n) = n[7]

(* What generate_candidate draws from: numbers that do not begin with 0. *)
Candidates == {n \in CustomerNumber : n[1] # 0 /\ is_valid(n)}

(* What generate_unique may return when these are taken; after MaxAttempts  *)
(* draws that are, it raises and the borrower is not saved.                 *)
generate_unique(taken) == Candidates \ taken

(* assign_customer_number: a borrower that is saved for the first time gets *)
(* a number of its own, unless it was given one.                            *)
assign_customer_number(given, taken) ==
  IF given \in CustomerNumber THEN {given} ELSE generate_unique(taken)

---------------------------------------------------------------------------
(* The machine-readable zone.  A character is its value, 0 to 35, or the    *)
(* filler "<", written -1 here.                                             *)
Filler  == -1
Char    == {Filler} \cup 0..35
ValueOf(ch) == IF ch = Filler THEN 0 ELSE ch

(* A field of nine characters; a date is six and three fillers, which add   *)
(* nothing to the check digit.                                              *)
Field == [1..9 -> Char]

(* The weights 7, 3, 1, from the left. *)
check_digit(f) ==
  (  7 * ValueOf(f[1]) + 3 * ValueOf(f[2]) + ValueOf(f[3])
   + 7 * ValueOf(f[4]) + 3 * ValueOf(f[5]) + ValueOf(f[6])
   + 7 * ValueOf(f[7]) + 3 * ValueOf(f[8]) + ValueOf(f[9])) % 10

matches_check(f, check) == check \in Digit /\ check_digit(f) = check

(* A date has a century only by guess, this one unless it is too late then: *)
(* a birth is not later than this year, an expiry may be.                   *)
Century(yy, latest) == IF 2000 + yy > latest THEN 1900 + yy ELSE 2000 + yy

DaysIn(month, year) ==
  IF month = 2 THEN IF year % 4 = 0 /\ (year % 100 # 0 \/ year % 400 = 0) THEN 29 ELSE 28
  ELSE IF month \in {4, 6, 9, 11} THEN 30 ELSE 31

NoDate == [year |-> 0, month |-> 0, day |-> 0]

parse_date(f, latest) ==
  LET year  == Century(10 * f[1] + f[2], latest)
      month == 10 * f[3] + f[4]
      day   == 10 * f[5] + f[6]
  IN IF (\A i \in 1..6 : f[i] \in Digit) /\ month \in 1..12 /\ day \in 1..DaysIn(month, year)
       THEN [year |-> year, month |-> month, day |-> day] ELSE NoDate

(* What a zone holds, of the fields that carry a check digit and the one    *)
(* after the number, which carries none.  The check digit of the expiry is  *)
(* read and not looked at.                                                  *)
Zone == [number : Field, numberCheck : Char, optional : Field,
         birth : Field, birthCheck : Char, expiry : Field, expiryCheck : Char]

NumberChecks(z) == matches_check(z.number, z.numberCheck)
BirthChecks(z)  == matches_check(z.birth, z.birthCheck)

NotRead == [read |-> FALSE]

(* One of the two check digits is enough for a zone to be taken; a field    *)
(* whose own does not match is taken with low confidence, in percent.       *)
Parsed(z, thisYear, national_id, sure) ==
  IF ~NumberChecks(z) /\ ~BirthChecks(z) THEN NotRead
  ELSE [read |-> TRUE,
        national_id |-> national_id,
        numberConfidence |-> IF NumberChecks(z) THEN sure ELSE 60,
        birth |-> parse_date(z.birth, thisYear),
        birthConfidence |-> IF BirthChecks(z) THEN sure ELSE 60,
        expiry |-> parse_date(z.expiry, 2099)]

(* Passports. *)
parse_td3(z, thisYear) == Parsed(z, thisYear, z.number, 97)

(* Identity and alien cards: the national ID number is the one of the two   *)
(* fields that is a number of seven to nine digits.                         *)
IsIdNumber(f) == /\ \A i \in 1..9 : f[i] \in Digit \cup {Filler}
                 /\ Cardinality({i \in 1..9 : f[i] \in Digit}) >= 7

parse_td1(z, thisYear) ==
  Parsed(z, thisYear,
         IF ~IsIdNumber(z.number) /\ IsIdNumber(z.optional) THEN z.optional ELSE z.number,
         95)

(* The first of several readings of a page that is one. *)
FirstRead(readings) ==
  LET found == {k \in DOMAIN readings : readings[k].read}
  IN IF found = {} THEN NotRead
     ELSE readings[CHOOSE k \in found : \A j \in found : k <= j]

(* Every pair of lines as a passport, then every three lines as a card. *)
parse_mrz(pairs, triples, thisYear) ==
  FirstRead([k \in DOMAIN pairs |-> parse_td3(pairs[k], thisYear)]
            \o [k \in DOMAIN triples |-> parse_td1(triples[k], thisYear)])

---------------------------------------------------------------------------
(* Two customer numbers, or what is typed for one, differ in place i only. *)
DifferAt(i, m, n) == /\ m[i] # n[i]
                     /\ \A k \in (1..7) \ {i} : m[k] = n[k]

(* Two neighbouring digits have changed places. *)
SwappedAt(i, m, n) == /\ m[i] = n[i + 1] /\ m[i + 1] = n[i]
                      /\ \A k \in (1..7) \ {i, i + 1} : m[k] = n[k]

(* "The Luhn check digit rejects any single mistyped digit": one digit      *)
(* mistyped in a customer number never gives the number of another.         *)
TypoCaught ==
  \A m, n \in CustomerNumber, i \in 1..7 : is_valid(m) /\ DifferAt(i, m, n) => ~is_valid(n)

(* "... and most swapped adjacent digits": all but 0 and 9. *)
SwapCaught ==
  \A m, n \in CustomerNumber, i \in 1..6 :
    /\ is_valid(m) /\ SwappedAt(i, m, n) /\ m[i] # n[i]
    /\ {m[i], n[i]} # {0, 9}
    => ~is_valid(n)

(* A document whose number was read with one character wrong is never       *)
(* reported with high confidence, unless the two have the same last digit   *)
(* of their values (0 and A, 1 and B, ...).                                 *)
MisreadNotTrusted ==
  \A z, y \in Zone, i \in 1..9 :
    /\ NumberChecks(z) /\ y.numberCheck = z.numberCheck
    /\ ValueOf(y.number[i]) % 10 # ValueOf(z.number[i]) % 10
    /\ \A k \in (1..9) \ {i} : y.number[k] = z.number[k]
    => ~NumberChecks(y)

(* A date of birth that is read lies in the last hundred years.             *)
BirthPlausible ==
  \A f \in Field, thisYear \in 2000..2099 :
    parse_date(f, thisYear) # NoDate
      => parse_date(f, thisYear).year \in (thisYear - 99)..thisYear
===========================================================================
